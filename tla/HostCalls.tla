------------------------------ MODULE HostCalls ------------------------------
(***************************************************************************)
(* The control plane of one VM: the calls of lib/agent_os/vm.dart that are *)
(* neither terminal I/O nor relay, each a function of the host library     *)
(* (exec.rs, fs.rs, snapshot.rs, catalog.rs, perf.rs) that copies what the *)
(* guest answered into a buffer of the caller (buf.rs).                    *)
(*                                                                         *)
(* A call is issued, enters the library on an isolate of its own, in any   *)
(* order with the others, and returns to Dart, which copies the buffer.    *)
(* The lock of the VM table is held while the guest works: by exec and run *)
(* until the command ends, by the other calls for one step.                *)
(*                                                                         *)
(* The guest is external: what it holds is a version, raised by the calls  *)
(* that change it, and a piece of data is the version it shows and its     *)
(* length.  Version 0 is what a buffer holds that nobody wrote to.         *)
(***************************************************************************)
EXTENDS Integers, SequencesExt

CONSTANTS
  Isolates,  \* bound: calls under way at a time, each on an isolate of its own
  Ops,       \* bound: the kinds of call that are made
  Lens,      \* lengths of what the guest answers
  Caps,      \* lengths of the caller's buffers
  MaxCalls,  \* bound: calls made
  MaxJobs    \* bound: jobs started

(***************************************************************************)
(* The calls, by what the library does with the guest's answer.            *)
(***************************************************************************)
Blocking == {"exec", "execEx", "run"}
Starts   == {"execStart", "runStart"}
OnJob    == {"execPoll", "execStdoutPeek", "execCancel"}
Texts    == {"autocomplete"}
Queries  == {"readFile", "readdir", "readlink", "snapshotInto"} \cup Texts
Changes  == {"writeFile", "mkdir", "unlink", "chmod", "symlink", "mount", "unmount"}
Structs  == {"stat", "status"}
Whole    == {"snapshot", "snapshotIncremental"} \cup Structs   \* library-owned bytes, or a struct
Perf     == {"setPerfEnabled", "scrubPerf", "takeCommandPerf"}
Others   == {"svcCall", "commitLayer", "injectCatalog", "close"}

ASSUME HostCallsAssumption ==
  /\ Ops \subseteq UNION {Blocking, Starts, OnJob, Queries, Changes, Whole, Perf, Others}
  /\ Lens \subseteq Nat /\ Caps \subseteq Nat /\ MaxCalls \in Nat /\ MaxJobs \in Nat

VARIABLES
  closed,  \* _closed of the AgentOsVm
  open,    \* the VM is in the table
  lock,    \* the isolates that hold the table's lock over several steps: one, or none
  ver,     \* version of what the guest holds
  perf,    \* "off", "on", or "measured": take_command_perf has an answer
  jobs,    \* the jobs started
  known,   \* those whose number the application has been given
  calls,   \* the latest call of each isolate
  issued   \* how many calls have been made

guest == <<ver, perf, jobs>>
vars  == <<closed, open, lock, guest, known, calls, issued>>
-----------------------------------------------------------------------------
Bytes(v, n) == [ver |-> IF n = 0 THEN 0 ELSE v, len |-> n]
None == Bytes(0, 0)
Data == [ver : 0 .. MaxCalls, len : Nat]

\* An aos_buf_t of the capacity the call names: the length set, and what was
\* copied into it.
NoBuf == [len |-> 0, val |-> None]

Job  == [stage : {"asks", "waits", "runs", "ended", "gone"}, out : Data]
Call == [op : Ops, job : 0 .. MaxJobs, cap : Caps,
         at : {"queued", "running", "waiting", "returned", "done"},
         rc : {0, -1},
         host : Data,                          \* what the guest answered
         buf : [len : Nat, val : Data],
         got : Data]                           \* what the caller was given

At(i, places) == i \in DOMAIN calls /\ calls[i].at \in places

TypeOK ==
  /\ closed \in BOOLEAN /\ open \in BOOLEAN
  /\ ver \in 0 .. MaxCalls /\ issued \in 0 .. MaxCalls
  /\ perf \in {"off", "on", "measured"}
  /\ jobs \in Seq(Job) /\ known \subseteq DOMAIN jobs
  /\ DOMAIN calls \subseteq Isolates /\ \A i \in DOMAIN calls : calls[i] \in Call
  /\ lock = {i \in Isolates : At(i, {"running", "waiting"})}
  /\ \A i, k \in lock : i = k

Init ==
  /\ closed = FALSE /\ open = TRUE /\ lock = {}
  /\ ver = 0 /\ perf = "off" /\ jobs = <<>> /\ known = {}
  /\ calls = <<>> /\ issued = 0
-----------------------------------------------------------------------------
(* buf.rs *)

\* Mutant of FillBuf: what fits is copied and reported as success.
FillBufShort(data, cap) ==
  [rc |-> 0, buf |-> [len |-> data.len, val |-> IF data.len <= cap THEN data ELSE None]]

\* fill_buf: all or nothing; the length is set either way.
FillBuf(data, cap) ==
  IF data.len <= cap THEN [rc |-> 0, buf |-> [len |-> data.len, val |-> data]]
                     ELSE [rc |-> -1, buf |-> [len |-> data.len, val |-> None]]

\* copy_out: what fits, with that as the length.
CopyOut(data, cap) ==
  LET n == Min({data.len, cap})
  IN  [len |-> n, val |-> Bytes(data.ver, n)]

\* alloc_bytes: library-owned, of the right length.
AllocBytes(data) == [len |-> data.len, val |-> data]

\* copyFromAosBuf: as many bytes as were reported, or as there is room for.
CopyFromAosBuf(buf, cap) ==
  IF buf.len <= cap THEN buf.val ELSE Bytes(0, cap)
-----------------------------------------------------------------------------
(* What AgentOsVm issues, if it is not closed. *)

Issue(i, op, job, cap) ==
  /\ ~closed
  /\ i \notin DOMAIN calls \/ At(i, {"done"})
  /\ issued < MaxCalls /\ issued' = issued + 1
  /\ LET call == [op |-> op, job |-> job, cap |-> cap, at |-> "queued",
                   rc |-> 0, host |-> None, buf |-> NoBuf, got |-> None]
     IN  calls' = [k \in DOMAIN calls \cup {i} |-> IF k = i THEN call ELSE calls[k]]
  /\ closed' = (op = "close")
  /\ UNCHANGED <<open, lock, guest, known>>

IssueCommand(i, cap) == \E op \in Ops \cap Blocking : Issue(i, op, 0, cap)
IssueJob(i, cap) ==
  \/ \E op \in Ops \cap Starts : Issue(i, op, 0, cap)
  \/ \E op \in Ops \cap OnJob, j \in known : Issue(i, op, j, cap)
IssueText(i, cap) == \E op \in Ops \cap (Texts \cup {"svcCall"}) : Issue(i, op, 0, cap)
IssueFile(i, cap) ==
  \E op \in Ops \cap ((Queries \ (Texts \cup {"snapshotInto"})) \cup Changes \cup Structs) :
    Issue(i, op, 0, cap)
IssueIdentity(i, cap) ==
  \E op \in Ops \cap ((Whole \ Structs) \cup {"snapshotInto", "commitLayer"}) : Issue(i, op, 0, cap)
IssueCatalogOrPerf(i, cap) ==
  \E op \in Ops \cap (Perf \cup {"injectCatalog"}) : Issue(i, op, 0, cap)
IssueClose(i, cap) == "close" \in Ops /\ Issue(i, "close", 0, cap)
-----------------------------------------------------------------------------
(* The functions of the library. *)

\* Call i finds the lock free: with_vm.
Enters(i, ops) == At(i, {"queued"}) /\ calls[i].op \in ops /\ lock = {}

\* It leaves with rc, the buffer as it is.
Leaves(i, rc, data, buf) ==
  calls' = [calls EXCEPT ![i].at = "returned", ![i].rc = rc, ![i].host = data, ![i].buf = buf]

Fails(i) == Leaves(i, -1, None, NoBuf)

\* fill_buf's answer is the function's, or it is ignored.
LeavesFilled(i, data)  == LET f == FillBuf(data, calls[i].cap) IN Leaves(i, f.rc, data, f.buf)
LeavesAnyway(i, data)  == Leaves(i, 0, data, FillBuf(data, calls[i].cap).buf)

\* The handle is unknown, or the guest refuses.
Refuse(i) ==
  /\ Enters(i, Ops \ (Blocking \cup {"close"})) \/ (Enters(i, Ops) /\ ~open)
  /\ Fails(i)
  /\ UNCHANGED <<closed, open, lock, guest, known, issued>>

\* read_exec_opts: options or an environment that cannot be read fail the call
\* before it asks for the lock.
RefuseOpts(i) ==
  /\ At(i, {"queued"}) /\ calls[i].op \in (Blocking \ {"exec"}) \cup Starts
  /\ Fails(i)
  /\ UNCHANGED <<closed, open, lock, guest, known, issued>>

\* exec, exec_ex and run begin, with a command that asks the relay something
\* or not, and hold the lock until it has ended.
Enter(i) ==
  /\ Enters(i, Blocking) /\ open
  /\ lock' = {i}
  /\ \E at \in {"running", "waiting"} : calls' = [calls EXCEPT ![i].at = at]
  /\ UNCHANGED <<closed, open, guest, known, issued>>

\* What such a call leaves behind, but for the lock.
Ended(i) ==
  /\ lock = {i}
  /\ ver' = ver + 1
  /\ perf' = IF perf = "off" THEN "off" ELSE "measured"
  /\ \/ /\ calls[i].at = "running"
        /\ \E n \in Lens : LET data == Bytes(ver', n)
                           IN  IF calls[i].op = "exec"
                               THEN Leaves(i, 0, data, CopyOut(data, calls[i].cap))
                               ELSE LeavesAnyway(i, data)
     \/ calls[i].at = "waiting" /\ Fails(i)
  /\ UNCHANGED <<closed, open, jobs, known, issued>>

\* Mutants of Leave: the lock is not given back; a command that waits never
\* runs out of ticks.
LeaveLocked(i) == Ended(i) /\ lock' = lock
LeaveAnswered(i) == Ended(i) /\ calls[i].at = "running" /\ lock' = {}

\* They end: with the command's output, or without one if the command still
\* waits after max_ticks.
Leave(i) == Ended(i) /\ lock' = {}

\* exec_start and run_start: the number of the new job is returned.
Start(i) ==
  /\ Enters(i, Starts) /\ open /\ Len(jobs) < MaxJobs
  /\ ver' = ver + 1
  /\ \E stage \in {"asks", "runs"}, n \in Lens :
       jobs' = Append(jobs, [stage |-> stage, out |-> Bytes(ver', n)])
  /\ calls' = [calls EXCEPT ![i].at = "returned", ![i].job = Len(jobs')]
  /\ UNCHANGED <<closed, open, lock, perf, known, issued>>

\* exec_poll: the host gives the result of an ended job away, or keeps it.
ExecPoll(i) ==
  LET j == calls[i].job
  IN  /\ Enters(i, {"execPoll"}) /\ open
      /\ IF jobs[j].stage = "ended"
         THEN /\ LeavesAnyway(i, jobs[j].out)
              /\ \E keep \in BOOLEAN :
                   jobs' = IF keep THEN jobs ELSE [jobs EXCEPT ![j].stage = "gone"]
         ELSE /\ jobs[j].stage # "gone"
              /\ Leaves(i, 0, None, NoBuf)
              /\ UNCHANGED jobs
      /\ UNCHANGED <<closed, open, lock, ver, perf, known, issued>>

\* exec_stdout_peek: what a job has printed so far.
ExecStdoutPeek(i) ==
  LET j == calls[i].job
  IN  /\ Enters(i, {"execStdoutPeek"}) /\ open /\ jobs[j].stage # "gone"
      /\ \E n \in 0 .. jobs[j].out.len :
           /\ jobs[j].stage = "ended" => n = jobs[j].out.len
           /\ LeavesFilled(i, Bytes(jobs[j].out.ver, n))
      /\ UNCHANGED <<closed, open, lock, guest, known, issued>>

ExecCancel(i) ==
  /\ Enters(i, {"execCancel"}) /\ open
  /\ jobs' = [jobs EXCEPT ![calls[i].job].stage = "gone"]
  /\ Leaves(i, 0, None, NoBuf)
  /\ UNCHANGED <<closed, open, lock, ver, perf, known, issued>>

\* Functions that read the guest and pass fill_buf's answer on.
Query(i) ==
  /\ Enters(i, Queries) /\ open
  /\ \E n \in Lens : LeavesFilled(i, Bytes(ver, n))
  /\ UNCHANGED <<closed, open, lock, guest, known, issued>>

\* Functions that change the guest and answer with rc alone.
Change(i) ==
  /\ Enters(i, Changes) /\ open
  /\ ver' = ver + 1
  /\ Leaves(i, 0, None, NoBuf)
  /\ UNCHANGED <<closed, open, lock, perf, jobs, known, issued>>

Snapshot(i) ==
  /\ Enters(i, Whole) /\ open
  /\ \E n \in Lens : Leaves(i, 0, Bytes(ver, n), AllocBytes(Bytes(ver, n)))
  /\ UNCHANGED <<closed, open, lock, guest, known, issued>>

\* commit_layer: the tar is library-owned, what is shown here is the digest.
SvcCallOrCommitLayer(i) ==
  /\ Enters(i, {"svcCall", "commitLayer"}) /\ open
  /\ ver' = ver + 1
  /\ \E n \in Lens : LeavesAnyway(i, Bytes(ver', n))
  /\ UNCHANGED <<closed, open, lock, perf, jobs, known, issued>>

\* inject_catalog: applied, then the status is copied.
InjectCatalog(i) ==
  /\ Enters(i, {"injectCatalog"}) /\ open
  /\ ver' = ver + 1
  /\ \E n \in Lens : LeavesFilled(i, Bytes(ver', n))
  /\ UNCHANGED <<closed, open, lock, perf, jobs, known, issued>>

\* take_command_perf: taken, then copied.
TakeCommandPerf(i) ==
  /\ Enters(i, {"takeCommandPerf"}) /\ open
  /\ IF perf = "measured"
     THEN perf' = "on" /\ \E n \in Lens : LeavesFilled(i, Bytes(ver, n))
     ELSE perf' = perf /\ Leaves(i, 0, None, NoBuf)
  /\ UNCHANGED <<closed, open, lock, ver, jobs, known, issued>>

\* set_perf_enabled and scrub_perf.
SetPerf(i) ==
  /\ Enters(i, {"setPerfEnabled", "scrubPerf"}) /\ open
  /\ perf' \in IF calls[i].op = "scrubPerf" /\ perf # "off" THEN {"on"}
               ELSE IF calls[i].op = "scrubPerf" THEN {"off"} ELSE {"off", "on"}
  /\ Leaves(i, 0, None, NoBuf)
  /\ UNCHANGED <<closed, open, lock, ver, jobs, known, issued>>

Close(i) ==
  /\ Enters(i, {"close"}) /\ open
  /\ open' = FALSE
  /\ Leaves(i, 0, None, NoBuf)
  /\ UNCHANGED <<closed, lock, guest, known, issued>>
-----------------------------------------------------------------------------
\* Back in Dart: throw if rc is not 0, else copy what was reported.
Return(i) ==
  LET call == calls[i]
  IN  /\ At(i, {"returned"})
      /\ known' = IF call.op \in Starts /\ call.rc = 0 THEN known \cup {call.job} ELSE known
      /\ calls' = [calls EXCEPT ![i].at = "done",
                     ![i].got = IF call.rc # 0 THEN None
                                ELSE IF call.op \in Whole \cup {"exec"} THEN call.buf.val
                                ELSE CopyFromAosBuf(call.buf, call.cap)]
      /\ UNCHANGED <<closed, open, lock, guest, issued>>

\* The session ticks the guest, which goes on with job j.
Tick(j) ==
  /\ lock = {} /\ open
  /\ j \in DOMAIN jobs /\ jobs[j].stage \in {"asks", "runs"}
  /\ jobs' = [jobs EXCEPT ![j].stage = IF @ = "asks" THEN "waits" ELSE "ended"]
  /\ UNCHANGED <<closed, open, lock, ver, perf, calls, known, issued>>

\* The application pulls the question of job j and answers it: both calls need
\* the lock.  What a command asks that holds the lock is therefore not answered
\* before the command has given up.
Answer(j) ==
  /\ lock = {} /\ open
  /\ j \in DOMAIN jobs /\ jobs[j].stage = "waits"
  /\ jobs' = [jobs EXCEPT ![j].stage = "runs"]
  /\ UNCHANGED <<closed, open, lock, ver, perf, calls, known, issued>>

Library(i) ==
  \/ Refuse(i) \/ RefuseOpts(i) \/ Enter(i) \/ Leave(i) \/ Start(i)
  \/ ExecPoll(i) \/ ExecStdoutPeek(i) \/ ExecCancel(i)
  \/ Query(i) \/ Change(i) \/ Snapshot(i) \/ SvcCallOrCommitLayer(i)
  \/ InjectCatalog(i) \/ TakeCommandPerf(i) \/ SetPerf(i) \/ Close(i)

Next ==
  \/ \E i \in Isolates :
       \/ \E cap \in Caps : \/ IssueCommand(i, cap) \/ IssueJob(i, cap) \/ IssueText(i, cap)
                            \/ IssueFile(i, cap) \/ IssueIdentity(i, cap)
                            \/ IssueCatalogOrPerf(i, cap) \/ IssueClose(i, cap)
       \/ Library(i) \/ Return(i)
  \/ \E j \in 1 .. MaxJobs : Tick(j) \/ Answer(j)

Spec == Init /\ [][Next]_vars

\* Isolates run, the session ticks and the application answers.  No fairness of
\* the lock is needed beyond this: finitely many calls are made.
FairSpec ==
  /\ Spec
  /\ \A i \in Isolates : WF_vars(Library(i) \/ Return(i))
  /\ \A j \in 1 .. MaxJobs : WF_vars(Tick(j)) /\ WF_vars(Answer(j))
-----------------------------------------------------------------------------
(* Properties. *)

\* The functions that ignore fill_buf's answer, or have no room for one.
Unchecked == {"exec", "execEx", "run", "execPoll", "svcCall", "commitLayer"}

\* A call that passes fill_buf's answer on gives its caller the whole of what
\* the guest answered, or throws (buf.rs:19-22, bindings.dart:218).
WholeIfChecked ==
  \A i \in DOMAIN calls :
    calls[i].at = "done" /\ calls[i].rc = 0 /\ calls[i].op \notin Unchecked =>
      calls[i].got = calls[i].host

\* The same of every call: a buffer that is too small makes the call fail "so
\* the caller can reallocate" (buf.rs:21-22).
WholeOrError ==
  \A i \in DOMAIN calls :
    calls[i].at = "done" /\ calls[i].rc = 0 => calls[i].got = calls[i].host

\* A job ends, whatever it asks and whatever other commands ask that hold the
\* lock in the meantime (docs/aos-c-api.md:409).
JobsEnd ==
  \A j \in 1 .. MaxJobs :
    j \in DOMAIN jobs ~>
      \/ ~open
      \/ j \in DOMAIN jobs /\ jobs[j].stage \in {"ended", "gone"}
=============================================================================
