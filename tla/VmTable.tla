-------------------------------- MODULE VmTable --------------------------------
(***************************************************************************)
(* The table of VMs and who gets at it: table.rs, boot.rs, the tool        *)
(* approvals of relay.rs, and lib/agent_os/vm.dart.                        *)
(*                                                                         *)
(* AgentOsVm starts an isolate of its own for every call.  Each isolate    *)
(* takes the one lock of the table (with_vm) for as long as its call runs. *)
(* A tick is long: it is entered and left.  The other calls are one step.  *)
(* RealNet asks the approver on the thread that ticks or on one of its     *)
(* own; the crate is not part of this repository, so both are modelled.    *)
(***************************************************************************)
EXTENDS Integers, SequencesExt

CONSTANTS
  MaxVms,     \* bound: VMs booted
  MaxCalls,   \* bound: calls issued on the AgentOsVm objects
  MaxAsks,    \* bound: approvals asked for
  AskInTick   \* whether an approval may be asked for by the ticking thread

ASSUME VmAssumption ==
  /\ {MaxVms, MaxCalls, MaxAsks} \subseteq Nat
  /\ AskInTick \in SUBSET BOOLEAN

VARIABLES
  next_id,   \* NEXT_ID
  table,     \* VMS: handle -> the guest behind it
  lock,      \* the call that holds the lock of VMS, or NoCall
  objects,   \* the AgentOsVm objects: [handle, closed], in the order of boot
  calls,     \* the isolates whose call has not begun
  issued,    \* auxiliary: calls issued so far
  received,  \* auxiliary: the input each guest got, as calls
  asks,      \* the approvals: the guest, the thread and the decision
  pulled,    \* the approvals the application has received
  answers    \* auxiliary: the answers the application gave

vars == <<next_id, table, lock, objects, calls, issued, received, asks, pulled,
          answers>>
-----------------------------------------------------------------------------
Vms == 1 .. MaxVms
Ops == {"tick", "input", "pull", "answer", "close"}
Answer == [ask : 1 .. MaxAsks, allow : BOOLEAN]
NoAnswer == [ask |-> 0, allow |-> FALSE]
Call == [vm : Vms, op : Ops, n : 1 .. MaxCalls, answer : Answer \cup {NoAnswer}]
NoCall == [vm |-> 0, op |-> "none", n |-> 0, answer |-> NoAnswer]
Ask == [vm : Vms, in_tick : BOOLEAN, state : {"waiting", "allow", "deny"}]

TypeOK ==
  /\ next_id \in 1 .. MaxVms + 1
  /\ DOMAIN table \subseteq 1 .. next_id - 1 /\ Range(table) \subseteq Vms
  /\ lock \in Call \cup {NoCall}
  /\ objects \in Seq([handle : 1 .. MaxVms, closed : BOOLEAN])
  /\ calls \subseteq Call /\ issued \in 0 .. MaxCalls
  /\ received \in [Vms -> Seq(Call)]
  /\ asks \in Seq(Ask) /\ pulled \subseteq DOMAIN asks
  /\ answers \subseteq Answer

Init ==
  /\ next_id = 1 /\ table = <<>> /\ lock = NoCall
  /\ objects = <<>> /\ calls = {} /\ issued = 0
  /\ received = [v \in Vms |-> <<>>]
  /\ asks = <<>> /\ pulled = {} /\ answers = {}
-----------------------------------------------------------------------------
\* Mutant of NextId: the lowest handle that is not in the table.
LowestFreeId == Min((1 .. MaxVms) \ DOMAIN table)

\* next_id: a counter.  A handle is not given out twice.
NextId == next_id

(***************************************************************************)
(* insert_vm, at the end of boot and restore; the guest was built and      *)
(* ticked before, without the lock.  The object follows in Dart.           *)
(***************************************************************************)
Boot ==
  /\ Len(objects) < MaxVms
  /\ lock = NoCall
  /\ next_id' = next_id + 1
  /\ table' = [h \in DOMAIN table \cup {NextId} |->
                 IF h = NextId THEN Len(objects) + 1 ELSE table[h]]
  /\ objects' = Append(objects, [handle |-> NextId, closed |-> FALSE])
  /\ UNCHANGED <<lock, calls, issued, received, asks, pulled, answers>>

\* A method of AgentOsVm: _ensureOpen, then Isolate.run.
Issue(v, op, answer) ==
  /\ issued < MaxCalls
  /\ ~objects[v].closed
  /\ issued' = issued + 1
  /\ calls' = calls \cup {[vm |-> v, op |-> op, n |-> issued', answer |-> answer]}

IssueWork(v, op) ==
  /\ Issue(v, op, NoAnswer)
  /\ UNCHANGED <<next_id, table, lock, objects, received, asks, pulled, answers>>

\* The user decides on an approval; more than once if asked more than once.
IssueAnswer(a, allow) ==
  /\ a \in pulled
  /\ Issue(asks[a].vm, "answer", [ask |-> a, allow |-> allow])
  /\ answers' = answers \cup {[ask |-> a, allow |-> allow]}
  /\ UNCHANGED <<next_id, table, lock, objects, received, asks, pulled>>

IssueClose(v) ==
  /\ Issue(v, "close", NoAnswer)
  /\ objects' = [objects EXCEPT ![v].closed = TRUE]
  /\ UNCHANGED <<next_id, table, lock, received, asks, pulled, answers>>
-----------------------------------------------------------------------------
(* The isolates.  Any of those waiting for the lock may be the next. *)

HandleOf(c) == objects[c.vm].handle

\* The call gets the lock; with_vm finds the VM or fails.
Enters(c, op) == c \in calls /\ c.op = op /\ lock = NoCall /\ calls' = calls \ {c}

Found(c) == HandleOf(c) \in DOMAIN table

CallFails(c) ==
  /\ Enters(c, c.op)
  /\ ~Found(c)
  /\ UNCHANGED <<next_id, table, lock, objects, issued, received, asks, pulled,
                 answers>>

TickEnter(c) ==
  /\ Enters(c, "tick") /\ Found(c)
  /\ lock' = c
  /\ UNCHANGED <<next_id, table, objects, issued, received, asks, pulled, answers>>

\* A tick that asked for an approval is in rx.recv() until it is decided.
TickLeave ==
  /\ lock # NoCall
  /\ \A a \in DOMAIN asks : asks[a].in_tick => asks[a].state # "waiting"
  /\ lock' = NoCall
  /\ UNCHANGED <<next_id, table, objects, calls, issued, received, asks, pulled,
                 answers>>

SendInput(c) ==
  /\ Enters(c, "input") /\ Found(c)
  /\ received' = [received EXCEPT ![table[HandleOf(c)]] = Append(@, c)]
  /\ UNCHANGED <<next_id, table, lock, objects, issued, asks, pulled, answers>>

\* relay_next: the oldest approval this guest has queued.
Pull(c) ==
  /\ Enters(c, "pull") /\ Found(c)
  /\ LET queued == {a \in DOMAIN asks \ pulled : asks[a].vm = table[HandleOf(c)]}
     IN  pulled' = IF queued = {} THEN pulled ELSE pulled \cup {Min(queued)}
  /\ UNCHANGED <<next_id, table, lock, objects, issued, received, asks, answers>>

\* Mutant of Respond: decides whichever approval has waited longest.
RespondOldest(c) ==
  /\ Enters(c, "answer") /\ Found(c)
  /\ LET waiting == {a \in DOMAIN asks : asks[a].state = "waiting"}
     IN  asks' = IF waiting = {} THEN asks
                 ELSE [asks EXCEPT ![Min(waiting)].state =
                         IF c.answer.allow THEN "allow" ELSE "deny"]
  /\ UNCHANGED <<next_id, table, lock, objects, issued, received, pulled, answers>>

\* tool_approval_respond: the first answer takes the sender and wakes approve().
Respond(c) ==
  /\ Enters(c, "answer") /\ Found(c)
  /\ asks' = IF asks[c.answer.ask].state = "waiting"
             THEN [asks EXCEPT ![c.answer.ask].state =
                     IF c.answer.allow THEN "allow" ELSE "deny"]
             ELSE asks
  /\ UNCHANGED <<next_id, table, lock, objects, issued, received, pulled, answers>>

\* Mutant of Close: removes the VM without the lock.
CloseUnlocked(c) ==
  /\ c \in calls /\ c.op = "close" /\ calls' = calls \ {c} /\ Found(c)
  /\ table' = [h \in DOMAIN table \ {HandleOf(c)} |-> table[h]]
  /\ UNCHANGED <<next_id, lock, objects, issued, received, asks, pulled, answers>>

(***************************************************************************)
(* aos_vm_close: remove_vm.  The approvals are in the RelayState, which an *)
(* approver that waits keeps alive: its sender is not dropped.             *)
(***************************************************************************)
Close(c) ==
  /\ Enters(c, "close") /\ Found(c)
  /\ table' = [h \in DOMAIN table \ {HandleOf(c)} |-> table[h]]
  /\ UNCHANGED <<next_id, lock, objects, issued, received, asks, pulled, answers>>

\* FlutterToolApprover.approve, up to rx.recv().
Approve(v, in_tick) ==
  /\ Len(asks) < MaxAsks
  /\ v \in Range(table)
  /\ in_tick => /\ lock.op = "tick" /\ table[HandleOf(lock)] = v
                /\ \A a \in DOMAIN asks : asks[a].in_tick => asks[a].state # "waiting"
  /\ asks' = Append(asks, [vm |-> v, in_tick |-> in_tick, state |-> "waiting"])
  /\ UNCHANGED <<next_id, table, lock, objects, calls, issued, received, pulled,
                 answers>>
-----------------------------------------------------------------------------
Isolate(c) == \/ CallFails(c) \/ TickEnter(c) \/ SendInput(c) \/ Pull(c)
              \/ Respond(c) \/ Close(c)

Next ==
  \/ Boot
  \/ \E v \in DOMAIN objects :
       \/ IssueClose(v)
       \/ \E op \in {"tick", "input", "pull"} : IssueWork(v, op)
       \/ \E in_tick \in AskInTick : Approve(v, in_tick)
  \/ \E a \in DOMAIN asks, allow \in BOOLEAN : IssueAnswer(a, allow)
  \/ \E c \in calls : Isolate(c)
  \/ TickLeave

Spec == Init /\ [][Next]_vars

\* Isolates run, and a tick returns when nothing keeps it.
FairSpec == /\ Spec
            /\ WF_vars(\E c \in calls : Isolate(c))
            /\ WF_vars(TickLeave)
-----------------------------------------------------------------------------
(* Properties. *)

\* An isolate that comes late, after its VM was closed and another booted,
\* reaches no guest but the one it was issued for.
CallReachesItsVm ==
  \A v \in Vms : \A i \in DOMAIN received[v] : received[v][i].vm = v

\* An approval is decided only by an answer given to that approval, whatever
\* the order in which the isolates of several answers run.
DecidedAsAnswered ==
  \A a \in DOMAIN asks :
    /\ asks[a].state = "allow" => [ask |-> a, allow |-> TRUE] \in answers
    /\ asks[a].state = "deny" => [ask |-> a, allow |-> FALSE] \in answers

\* close() waits for the tick in flight: no VM goes away under one.
TickKeepsItsVm == lock # NoCall => HandleOf(lock) \in DOMAIN table

\* The thread that ticks waits for an approval and holds the lock that the
\* answer needs (relay.rs:426 inside tty.rs:65).
TickStuck == /\ lock # NoCall
             /\ \E a \in DOMAIN asks : asks[a].in_tick /\ asks[a].state = "waiting"

\* The user has answered, the VM is open and the guest still waits.
AnswerOnItsWay(a) == /\ a \in DOMAIN asks /\ asks[a].state = "waiting"
                     /\ ~objects[asks[a].vm].closed
                     /\ \E r \in answers : r.ask = a

\* What the user answered is decided, unless the VM is closed before the isolate
\* of the answer gets the lock, or a tick that waits for an approval keeps it.
AnswerDecides ==
  \A a \in 1 .. MaxAsks : AnswerOnItsWay(a) ~> ~AnswerOnItsWay(a) \/ TickStuck
=============================================================================
