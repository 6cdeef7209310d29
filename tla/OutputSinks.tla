------------------------------ MODULE OutputSinks ------------------------------
(***************************************************************************)
(* The terminal output of one VM: boot.rs (TeeSink), table.rs (drain_arc)  *)
(* and tty.rs (aos_vm_take_output, aos_vm_take_output_ex).                 *)
(*                                                                         *)
(* The guest writes to stdout, stderr and log; each write also goes to the *)
(* combined sink out.  Writes happen in a tick and the drains inside       *)
(* with_vm, both under the lock of the VM table.  What take_output has     *)
(* drained and could not hand out it puts back later, in a second with_vm: *)
(* two actions, between which the guest writes and other callers take.     *)
(***************************************************************************)
EXTENDS Integers, SequencesExt

CONSTANTS
  Takers,    \* threads that call take_output
  Caps,      \* capacities of the buffers they pass; 0 asks for the length
  Masks,     \* stream masks given to take_output_ex
  ExFits,    \* whether what take_output_ex drained fits the caller's buffer
  MaxWrites  \* bound: bytes the guest writes

ASSUME OutputAssumption ==
  /\ Caps \subseteq Nat /\ Masks \subseteq 0 .. 7
  /\ ExFits \subseteq BOOLEAN /\ MaxWrites \in Nat
  /\ Takers \cap {"combined", "streams"} = {}

VARIABLES
  open,     \* the VM is in the table
  out,      \* the combined sink
  streams,  \* out_stdout, out_stderr, out_log
  rest,     \* what a take_output has still to put back
  written,  \* auxiliary: the bytes in the order the guest wrote them
  got,      \* auxiliary: the bytes handed out, in order
  spilled,  \* auxiliary: the bytes drained for a caller that could not have them
  callers   \* auxiliary: who has drained: takers, and take_output_ex as
            \* "combined" (mask 0) or "streams"

vars == <<open, out, streams, rest, written, got, spilled, callers>>
-----------------------------------------------------------------------------
Stream == {"stdout", "stderr", "log"}
Bit == [stdout |-> 1, stderr |-> 2, log |-> 4]
InMask(s, mask) == (mask \div Bit[s]) % 2 = 1

\* A byte is the stream it was written to and its place in the whole output.
Bytes == [stream : Stream, at : 1 .. MaxWrites]

TypeOK ==
  /\ open \in BOOLEAN
  /\ out \in Seq(Bytes) /\ written \in Seq(Bytes) /\ got \in Seq(Bytes)
  /\ DOMAIN streams = Stream /\ \A s \in Stream : streams[s] \in Seq(Bytes)
  /\ DOMAIN rest = Takers /\ \A c \in Takers : rest[c] \in Seq(Bytes)
  /\ spilled \subseteq Bytes
  /\ callers \subseteq Takers \cup {"combined", "streams"}

NoBytes == [s \in Stream |-> <<>>]

Init ==
  /\ open = TRUE
  /\ out = <<>> /\ streams = NoBytes
  /\ rest = [c \in Takers |-> <<>>]
  /\ written = <<>> /\ got = <<>> /\ spilled = {} /\ callers = {}

\* TeeSink.write: one byte of stream s, to both sinks.
Write(s) ==
  /\ open
  /\ Len(written) < MaxWrites
  /\ LET b == [stream |-> s, at |-> Len(written) + 1]
     IN  /\ out' = Append(out, b)
         /\ streams' = [streams EXCEPT ![s] = Append(@, b)]
         /\ written' = Append(written, b)
  /\ UNCHANGED <<open, rest, got, spilled, callers>>

\* What take_output drains: out, or the streams if only they have something.
Drained ==
  IF out # <<>> THEN out
  ELSE streams["stdout"] \o streams["stderr"] \o streams["log"]

\* The stream sinks are cleared in both cases.  With no buffer the length of
\* what was drained is returned, and that is all that is left of it.
TakeOutput(c, cap) ==
  /\ open /\ rest[c] = <<>>
  /\ callers' = callers \cup {c}
  /\ LET n == IF Len(Drained) <= cap THEN Len(Drained) ELSE cap
     IN  /\ got' = got \o SubSeq(Drained, 1, n)
         /\ rest' = [rest EXCEPT ![c] =
                       IF cap = 0 THEN <<>> ELSE SubSeq(Drained, n + 1, Len(Drained))]
  /\ spilled' = IF cap = 0 THEN spilled \cup ToSet(Drained) ELSE spilled
  /\ out' = <<>>
  /\ streams' = NoBytes
  /\ UNCHANGED <<open, written>>

\* Mutant of PutBack: the remainder goes behind what was written meanwhile.
PutBackBehind(c) ==
  /\ rest[c] # <<>>
  /\ out' = IF open THEN out \o rest[c] ELSE out
  /\ rest' = [rest EXCEPT ![c] = <<>>]
  /\ UNCHANGED <<open, streams, written, got, spilled, callers>>

\* Mutant of PutBack: the remainder replaces what was written meanwhile.
PutBackOver(c) ==
  /\ rest[c] # <<>>
  /\ out' = IF open THEN rest[c] ELSE out
  /\ rest' = [rest EXCEPT ![c] = <<>>]
  /\ UNCHANGED <<open, streams, written, got, spilled, callers>>

\* splice(0..0): the remainder goes in front of what was written meanwhile.
PutBack(c) ==
  /\ rest[c] # <<>>
  /\ out' = IF open THEN rest[c] \o out ELSE out
  /\ rest' = [rest EXCEPT ![c] = <<>>]
  /\ UNCHANGED <<open, streams, written, got, spilled, callers>>

\* Mutant of TakeOutputEx: clears every stream, whatever the mask.
TakeOutputExClearAll(mask, fits) ==
  /\ open
  /\ callers' = callers \cup {IF mask = 0 THEN "combined" ELSE "streams"}
  /\ LET of(s) == IF InMask(s, mask) THEN streams[s] ELSE <<>>
         data  == IF mask = 0 THEN out
                  ELSE of("stdout") \o of("stderr") \o of("log")
     IN  /\ got' = IF fits THEN got \o data ELSE got
         /\ spilled' = IF fits THEN spilled ELSE spilled \cup ToSet(data)
  /\ out' = IF mask = 0 THEN <<>> ELSE out
  /\ streams' = NoBytes
  /\ UNCHANGED <<open, rest, written>>

\* Drained first, then fill_buf: what does not fit is not put back.
TakeOutputEx(mask, fits) ==
  /\ open
  /\ callers' = callers \cup {IF mask = 0 THEN "combined" ELSE "streams"}
  /\ LET of(s) == IF InMask(s, mask) THEN streams[s] ELSE <<>>
         data  == IF mask = 0 THEN out
                  ELSE of("stdout") \o of("stderr") \o of("log")
     IN  /\ got' = IF fits THEN got \o data ELSE got
         /\ spilled' = IF fits THEN spilled ELSE spilled \cup ToSet(data)
  /\ out' = IF mask = 0 THEN <<>> ELSE out
  /\ streams' = [s \in Stream |-> IF InMask(s, mask) THEN <<>> ELSE streams[s]]
  /\ UNCHANGED <<open, rest, written>>

\* aos_vm_close removes the VM; its sinks go with it.
Close ==
  /\ open
  /\ open' = FALSE
  /\ UNCHANGED <<out, streams, rest, written, got, spilled, callers>>

Next == \/ \E s \in Stream : Write(s)
        \/ \E c \in Takers : PutBack(c) \/ \E cap \in Caps : TakeOutput(c, cap)
        \/ \E mask \in Masks, fits \in ExFits : TakeOutputEx(mask, fits)
        \/ Close

Spec == Init /\ [][Next]_vars
-----------------------------------------------------------------------------
(* Properties. *)

\* The bytes of some streams come in the order they were written, none twice.
InOrder(bytes, S) ==
  \A i, j \in DOMAIN bytes :
    i < j /\ {bytes[i].stream, bytes[j].stream} \subseteq S => bytes[i].at < bytes[j].at

OfStream(set, s) == {b \in set : b.stream = s}

\* As long as there is a single caller, of take_output and with buffers of any
\* size, it gets the output in the order it was written, none of it twice, and
\* none missing but what a call without a buffer drained (tty.rs:123), although
\* its remainder is out of the sinks while the guest writes on.
CombinedInOrder ==
  open => \A c \in Takers :
            callers \subseteq {c} =>
              LET all == got \o rest[c] \o out
              IN  InOrder(all, Stream) /\ ToSet(all) = ToSet(written) \ spilled

\* As long as the output is only taken by streams, each stream comes in order
\* and once, whatever masks the calls use, complete but for what a call drained
\* whose buffer was too small (tty.rs:171).
StreamsInOrder ==
  open /\ callers \subseteq {"streams"} =>
    \A s \in Stream :
      /\ InOrder(got \o streams[s], {s})
      /\ OfStream(ToSet(got), s) \cup ToSet(streams[s])
           = OfStream(ToSet(written) \ spilled, s)

Held(b) == \/ b \in ToSet(out) \cup ToSet(got)
           \/ \E s \in Stream : b \in ToSet(streams[s])
           \/ \E c \in Takers : b \in ToSet(rest[c])

\* However the calls are mixed, a byte the guest wrote is handed out, can still
\* be taken, or was drained for a caller without room for it
\* (agentos_flutter_host.h:150, buf.rs:22-23).
NothingLost == open => \A b \in ToSet(written) : Held(b) \/ b \in spilled
=============================================================================
