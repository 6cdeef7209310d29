----------------------------- MODULE MCHostCalls -----------------------------
(* HostCalls with values a cfg cannot write: one call of each kind. *)
EXTENDS HostCalls

MCOps == {"exec", "run", "execStart", "execPoll", "execStdoutPeek", "execCancel",
          "readFile", "writeFile", "snapshot", "svcCall", "injectCatalog",
          "takeCommandPerf", "setPerfEnabled", "scrubPerf", "close"}
=============================================================================
