---------------------------- MODULE VmTableProofs ----------------------------
(***************************************************************************)
(* The safety properties of VmTable for any number of VMs, calls and       *)
(* approvals.  The invariant says why they hold: handles are given out by  *)
(* a counter, so the object booted as the v-th has handle v for ever, and  *)
(* the table maps a handle to no other guest.                              *)
(***************************************************************************)
EXTENDS VmTable, WellFoundedInduction, TLAPS

CallShape == [vm : Nat, op : Ops, n : Nat, answer : [ask : Nat, allow : BOOLEAN]]
ObjectShape == [handle : Nat, closed : BOOLEAN]
AskShape == [vm : Nat, in_tick : BOOLEAN, state : {"waiting", "allow", "deny"}]

ObjectsInv ==
  /\ objects \in Seq(ObjectShape)
  /\ Len(objects) <= MaxVms
  /\ next_id = Len(objects) + 1
  /\ \A v \in DOMAIN objects : objects[v].handle = v

TableInv == \A h \in DOMAIN table : h \in DOMAIN objects /\ table[h] = h

CallsInv ==
  /\ issued \in Nat
  /\ calls \subseteq CallShape
  /\ \A c \in calls :
       /\ c.vm \in DOMAIN objects
       /\ c.op = "answer" => c.answer \in answers /\ c.answer.ask \in DOMAIN asks

LockInv == lock # NoCall => lock.vm \in DOMAIN objects /\ lock.vm \in DOMAIN table

ReceivedInv ==
  /\ received \in [Vms -> Seq(CallShape)]
  /\ CallReachesItsVm

AsksInv ==
  /\ asks \in Seq(AskShape)
  /\ \A a \in DOMAIN asks : asks[a].vm \in DOMAIN objects
  /\ DecidedAsAnswered

Inv == ObjectsInv /\ TableInv /\ CallsInv /\ LockInv /\ ReceivedInv /\ AsksInv
-----------------------------------------------------------------------------
LEMMA ElementInRange == ASSUME NEW S, NEW s \in Seq(S), NEW i \in DOMAIN s
                        PROVE  s[i] \in S
  OBVIOUS

LEMMA InitInv == Init => Inv
  BY VmAssumption
  DEF Init, Inv, ObjectsInv, TableInv, CallsInv, LockInv, ReceivedInv, AsksInv,
      CallReachesItsVm, DecidedAsAnswered, VmAssumption, Vms

\* The handle of an object is its number, and a handle in the table leads to
\* the guest that was booted with that object.
LEMMA HandleIsNumber ==
  ASSUME Inv, NEW c, c.vm \in DOMAIN objects
  PROVE  /\ HandleOf(c) = c.vm
         /\ HandleOf(c) \in DOMAIN table => table[HandleOf(c)] = c.vm
  BY DEF Inv, ObjectsInv, TableInv, HandleOf

LEMMA BootInv == Inv /\ Boot => Inv'
<1> SUFFICES ASSUME Inv, Boot PROVE Inv'
  OBVIOUS
<1> DEFINE new == [handle |-> NextId, closed |-> FALSE]
<1> USE VmAssumption DEF Inv
<1>1. /\ Len(objects) \in Nat /\ MaxVms \in Nat
      /\ DOMAIN objects = 1 .. Len(objects)
      /\ new \in ObjectShape /\ NextId = Len(objects) + 1
  BY DEF ObjectShape, ObjectsInv, VmAssumption, NextId
<1> HIDE DEF new
<1>2. /\ objects' = Append(objects, new) /\ next_id' = next_id + 1
      /\ Len(objects) < MaxVms
  BY DEF Boot, new
<1>3. /\ objects' \in Seq(ObjectShape)
      /\ Len(objects') = Len(objects) + 1
      /\ DOMAIN objects' = DOMAIN objects \cup {NextId}
      /\ \A v \in DOMAIN objects : objects'[v] = objects[v]
      /\ objects'[NextId] = new
  BY <1>1, <1>2 DEF ObjectsInv
<1>4. ObjectsInv'
  <2>1. new.handle = NextId
    BY DEF new
  <2> QED
    BY <1>1, <1>2, <1>3, <2>1 DEF ObjectsInv
<1>5. TableInv'
  BY <1>1, <1>3 DEF TableInv, Boot
<1>6. CallsInv' /\ ReceivedInv'
  BY <1>3 DEF CallsInv, ReceivedInv, CallReachesItsVm, Boot
<1>7. LockInv'
  BY <1>3 DEF LockInv, Boot
<1>8. AsksInv'
  BY <1>3 DEF AsksInv, DecidedAsAnswered, Boot
<1> QED
  BY <1>4, <1>5, <1>6, <1>7, <1>8

\* What a method of AgentOsVm does to the calls.
LEMMA IssueCalls ==
  ASSUME Inv, NEW v \in DOMAIN objects, NEW op \in Ops, NEW answer,
         answer.ask \in Nat, answer \in [ask : Nat, allow : BOOLEAN],
         Issue(v, op, answer), DOMAIN objects' = DOMAIN objects, asks' = asks,
         answers \subseteq answers',
         op = "answer" => answer \in answers' /\ answer.ask \in DOMAIN asks
  PROVE  CallsInv'
<1> DEFINE call == [vm |-> v, op |-> op, n |-> issued', answer |-> answer]
<1>1. calls' = calls \cup {call} /\ issued' \in Nat
  BY DEF Issue, Inv, CallsInv
<1>2. v \in Nat
  BY DEF Inv, ObjectsInv
<1>3. call \in CallShape /\ call.vm = v /\ call.op = op /\ call.answer = answer
  BY <1>1, <1>2 DEF CallShape
<1> HIDE DEF call
<1>4. calls' \subseteq CallShape
  BY <1>1, <1>3 DEF Inv, CallsInv
<1> QED
  BY <1>1, <1>3, <1>4 DEF Inv, CallsInv

LEMMA IssueWorkInv ==
  ASSUME Inv, NEW v \in DOMAIN objects, NEW op \in {"tick", "input", "pull"},
         IssueWork(v, op)
  PROVE  Inv'
<1>1. CallsInv'
  <2>1. /\ op \in Ops /\ op # "answer"
        /\ NoAnswer \in [ask : Nat, allow : BOOLEAN] /\ NoAnswer.ask \in Nat
    BY DEF Ops, NoAnswer
  <2>2. Issue(v, op, NoAnswer) /\ objects' = objects /\ asks' = asks /\ answers' = answers
    BY DEF IssueWork
  <2> QED
    BY <2>1, <2>2, IssueCalls
<1> QED
  BY <1>1 DEF IssueWork, Inv, ObjectsInv, TableInv, LockInv, ReceivedInv, AsksInv,
              CallReachesItsVm, DecidedAsAnswered

LEMMA IssueCloseInv ==
  ASSUME Inv, NEW v \in DOMAIN objects, IssueClose(v)
  PROVE  Inv'
<1>1. /\ objects' \in Seq(ObjectShape)
      /\ Len(objects') = Len(objects) /\ DOMAIN objects' = DOMAIN objects
      /\ \A w \in DOMAIN objects : objects'[w].handle = objects[w].handle
  <2>1. objects[v] \in ObjectShape
    BY ElementInRange DEF Inv, ObjectsInv
  <2> DEFINE shut == [objects[v] EXCEPT !.closed = TRUE]
  <2>3. /\ shut \in ObjectShape
        /\ shut.handle = objects[v].handle
    BY <2>1 DEF ObjectShape
  <2>2. objects' = [objects EXCEPT ![v] = shut]
    BY DEF IssueClose
  <2> HIDE DEF shut
  <2> QED
    BY <2>2, <2>3 DEF Inv, ObjectsInv
<1>2. CallsInv'
  <2>1. /\ "close" \in Ops
        /\ NoAnswer \in [ask : Nat, allow : BOOLEAN] /\ NoAnswer.ask \in Nat
    BY DEF Ops, NoAnswer
  <2>2. Issue(v, "close", NoAnswer) /\ asks' = asks /\ answers' = answers
    BY DEF IssueClose
  <2> QED
    BY <1>1, <2>1, <2>2, IssueCalls
<1>3. ObjectsInv'
  BY <1>1 DEF IssueClose, Inv, ObjectsInv
<1> QED
  BY <1>1, <1>2, <1>3 DEF IssueClose, Inv, TableInv, LockInv, ReceivedInv, AsksInv,
              CallReachesItsVm, DecidedAsAnswered

LEMMA IssueAnswerInv ==
  ASSUME Inv, NEW a \in DOMAIN asks, NEW allow \in BOOLEAN, IssueAnswer(a, allow)
  PROVE  Inv'
<1> DEFINE answer == [ask |-> a, allow |-> allow]
<1>1. /\ answer \in [ask : Nat, allow : BOOLEAN] /\ answer.ask = a
      /\ a \in Nat /\ asks[a].vm \in DOMAIN objects
  BY DEF Inv, AsksInv
<1>2. /\ Issue(asks[a].vm, "answer", answer) /\ answers' = answers \cup {answer}
      /\ objects' = objects /\ asks' = asks
  BY DEF IssueAnswer
<1> HIDE DEF answer
<1>3. CallsInv'
  <2>1. "answer" \in Ops
    BY DEF Ops
  <2> QED
    BY <1>1, <1>2, <2>1, IssueCalls
<1>4. AsksInv'
  BY <1>2 DEF Inv, AsksInv, DecidedAsAnswered
<1> QED
  BY <1>3, <1>4 DEF IssueAnswer, Inv, ObjectsInv, TableInv, LockInv, ReceivedInv,
                    CallReachesItsVm
-----------------------------------------------------------------------------
\* A call that gets the lock was issued for an object that exists.
LEMMA CallsLeft ==
  ASSUME Inv, NEW c \in calls, NEW op \in Ops, Enters(c, op),
         objects' = objects, issued' = issued, answers' = answers,
         DOMAIN asks' = DOMAIN asks
  PROVE  CallsInv'
  BY DEF Inv, CallsInv, Enters

LEMMA CallFailsInv == ASSUME Inv, NEW c \in calls, CallFails(c) PROVE Inv'
<1>1. CallsInv'
  BY DEF CallFails, Enters, Inv, CallsInv
<1> QED
  BY <1>1 DEF CallFails, Inv, ObjectsInv, TableInv, LockInv, ReceivedInv, AsksInv,
              CallReachesItsVm, DecidedAsAnswered

LEMMA TickEnterInv == ASSUME Inv, NEW c \in calls, TickEnter(c) PROVE Inv'
<1>1. CallsInv'
  BY CallsLeft DEF TickEnter, Ops
<1>2. LockInv'
  <2>1. c.vm \in DOMAIN objects
    BY DEF Inv, CallsInv
  <2>2. c.vm \in DOMAIN table
    BY <2>1, HandleIsNumber DEF TickEnter, Found
  <2> QED
    BY <2>1, <2>2 DEF TickEnter, LockInv
<1> QED
  BY <1>1, <1>2 DEF TickEnter, Inv, ObjectsInv, TableInv, ReceivedInv, AsksInv,
              CallReachesItsVm, DecidedAsAnswered

LEMMA TickLeaveInv == ASSUME Inv, TickLeave PROVE Inv'
  BY DEF TickLeave, Inv, ObjectsInv, TableInv, CallsInv, LockInv, ReceivedInv,
         AsksInv, CallReachesItsVm, DecidedAsAnswered

LEMMA SendInputInv == ASSUME Inv, NEW c \in calls, SendInput(c) PROVE Inv'
<1>1. CallsInv'
  BY CallsLeft DEF SendInput, Ops
<1>2. ReceivedInv'
  <2>1. c.vm \in DOMAIN objects /\ c \in CallShape
    BY DEF Inv, CallsInv
  <2>2. table[HandleOf(c)] = c.vm
    BY <2>1, HandleIsNumber DEF SendInput, Found
  <2>3. c.vm \in Vms
    BY <2>1, VmAssumption DEF Inv, ObjectsInv, Vms, VmAssumption
  <2> DEFINE longer == Append(received[c.vm], c)
  <2>4. received' = [received EXCEPT ![c.vm] = longer]
    BY <2>2 DEF SendInput
  <2>5. /\ longer \in Seq(CallShape)
        /\ \A i \in DOMAIN longer : longer[i].vm = c.vm
    BY <2>1, <2>3 DEF Inv, ReceivedInv, CallReachesItsVm
  <2> HIDE DEF longer
  <2> QED
    BY <2>3, <2>4, <2>5 DEF Inv, ReceivedInv, CallReachesItsVm
<1> QED
  BY <1>1, <1>2 DEF SendInput, Inv, ObjectsInv, TableInv, LockInv, AsksInv,
                    DecidedAsAnswered

LEMMA PullInv == ASSUME Inv, NEW c \in calls, Pull(c) PROVE Inv'
<1>1. CallsInv'
  BY CallsLeft DEF Pull, Ops
<1> QED
  BY <1>1 DEF Pull, Inv, ObjectsInv, TableInv, LockInv, ReceivedInv, AsksInv,
              CallReachesItsVm, DecidedAsAnswered

LEMMA RespondInv == ASSUME Inv, NEW c \in calls, Respond(c) PROVE Inv'
<1> DEFINE a == c.answer.ask
           decision == IF c.answer.allow THEN "allow" ELSE "deny"
<1>1. /\ c.op = "answer" /\ c.answer \in answers /\ a \in DOMAIN asks
      /\ c.answer \in [ask : Nat, allow : BOOLEAN]
  BY DEF Respond, Enters, Inv, CallsInv, CallShape
<1>2. c.answer = [ask |-> a, allow |-> c.answer.allow] /\ c.answer.allow \in BOOLEAN
  BY <1>1
<1>0. asks[a] \in AskShape
  <2> HIDE DEF decision, a
  <2> QED
    BY <1>1, ElementInRange DEF Inv, AsksInv
<1> DEFINE decided == [asks[a] EXCEPT !.state = decision]
<1>3. /\ decided \in AskShape
      /\ decided.vm = asks[a].vm
      /\ decided.state = "allow" => [ask |-> a, allow |-> TRUE] \in answers
      /\ decided.state = "deny" => [ask |-> a, allow |-> FALSE] \in answers
  <2>1. /\ decided.state = decision /\ decided.vm = asks[a].vm
        /\ decision \in {"allow", "deny"}
        /\ decided \in AskShape
    BY <1>0 DEF AskShape
  <2>2. decision = "allow" => c.answer = [ask |-> a, allow |-> TRUE]
    BY <1>2
  <2>3. decision = "deny" => c.answer = [ask |-> a, allow |-> FALSE]
    BY <1>2
  <2> QED
    BY <1>1, <2>1, <2>2, <2>3
<1>4. asks' = asks \/ asks' = [asks EXCEPT ![a] = decided]
  BY DEF Respond
<1> HIDE DEF a, decided
<1>5. DOMAIN asks' = DOMAIN asks
  BY <1>4
<1>6. AsksInv'
  <2>1. answers' = answers /\ objects' = objects
    BY DEF Respond
  <2>2. CASE asks' = asks
    BY <2>1, <2>2 DEF Inv, AsksInv, DecidedAsAnswered
  <2>3. CASE asks' = [asks EXCEPT ![a] = decided]
    <3>1. /\ asks'[a] = decided
          /\ \A b \in DOMAIN asks : b # a => asks'[b] = asks[b]
      BY <1>1, <2>3
    <3>2. asks' \in Seq(AskShape)
      BY <1>1, <1>3, <2>3 DEF Inv, AsksInv
    <3>3. DecidedAsAnswered'
      BY <1>3, <1>5, <2>1, <3>1 DEF Inv, AsksInv, DecidedAsAnswered
    <3> QED
      BY <1>1, <1>3, <1>5, <2>1, <3>1, <3>2, <3>3 DEF Inv, AsksInv
  <2> QED
    BY <1>4, <2>2, <2>3
<1>7. CallsInv'
  BY <1>5, CallsLeft DEF Respond, Ops
<1> QED
  BY <1>6, <1>7 DEF Respond, Inv, ObjectsInv, TableInv, LockInv, ReceivedInv,
                    CallReachesItsVm

LEMMA CloseInv == ASSUME Inv, NEW c \in calls, Close(c) PROVE Inv'
<1>1. CallsInv'
  BY CallsLeft DEF Close, Ops
<1>2. TableInv' /\ LockInv'
  BY DEF Close, Enters, Inv, TableInv, LockInv
<1> QED
  BY <1>1, <1>2 DEF Close, Inv, ObjectsInv, ReceivedInv, AsksInv,
                    CallReachesItsVm, DecidedAsAnswered

LEMMA ApproveInv ==
  ASSUME Inv, NEW v \in DOMAIN objects, NEW in_tick \in BOOLEAN, Approve(v, in_tick)
  PROVE  Inv'
<1> DEFINE ask == [vm |-> v, in_tick |-> in_tick, state |-> "waiting"]
<1>1. /\ ask \in AskShape
      /\ ask.vm = v /\ ask.state = "waiting"
  BY DEF AskShape, Inv, ObjectsInv
<1>2. asks' = Append(asks, ask)
  BY DEF Approve
<1> HIDE DEF ask
<1>3. AsksInv'
  BY <1>1, <1>2 DEF Approve, Inv, AsksInv, DecidedAsAnswered
<1>4. DOMAIN asks \subseteq DOMAIN asks'
  BY <1>2 DEF Inv, AsksInv
<1>5. CallsInv'
  BY <1>4 DEF Approve, Inv, CallsInv
<1> QED
  BY <1>3, <1>5 DEF Approve, Inv, ObjectsInv, TableInv, LockInv, ReceivedInv,
                    CallReachesItsVm
-----------------------------------------------------------------------------
LEMMA StepInv == Inv /\ [Next]_vars => Inv'
<1> SUFFICES ASSUME Inv, [Next]_vars PROVE Inv'
  OBVIOUS
<1>1. CASE Boot
  BY <1>1, BootInv
<1>2. CASE \E v \in DOMAIN objects : IssueClose(v)
  BY <1>2, IssueCloseInv
<1>3. CASE \E v \in DOMAIN objects, op \in {"tick", "input", "pull"} : IssueWork(v, op)
  BY <1>3, IssueWorkInv
<1>4. CASE \E v \in DOMAIN objects, in_tick \in AskInTick : Approve(v, in_tick)
  BY <1>4, ApproveInv, VmAssumption DEF VmAssumption
<1>5. CASE \E a \in DOMAIN asks, allow \in BOOLEAN : IssueAnswer(a, allow)
  BY <1>5, IssueAnswerInv
<1>6. CASE \E c \in calls : Isolate(c)
  BY <1>6, CallFailsInv, TickEnterInv, SendInputInv, PullInv, RespondInv, CloseInv
     DEF Isolate
<1>7. CASE TickLeave
  BY <1>7, TickLeaveInv
<1>8. CASE UNCHANGED vars
  BY <1>8 DEF vars, Inv, ObjectsInv, TableInv, CallsInv, LockInv, ReceivedInv,
              AsksInv, CallReachesItsVm, DecidedAsAnswered
<1> QED
  BY <1>1, <1>2, <1>3, <1>4, <1>5, <1>6, <1>7, <1>8 DEF Next

LEMMA InvHolds == Spec => []Inv
  BY InitInv, StepInv, PTL DEF Spec

\* However the isolates are scheduled, a call that comes late, after its VM
\* was closed and others were booted, never sends its input to another guest.
THEOREM CallReachesItsVmCorrect == Spec => []CallReachesItsVm
<1>1. Inv => CallReachesItsVm
  BY DEF Inv, ReceivedInv
<1> QED
  BY <1>1, InvHolds, PTL

\* An approval is only ever decided by an answer the application gave to it.
THEOREM DecidedAsAnsweredCorrect == Spec => []DecidedAsAnswered
<1>1. Inv => DecidedAsAnswered
  BY DEF Inv, AsksInv
<1> QED
  BY <1>1, InvHolds, PTL

\* aos_vm_close never takes away the VM that a tick is running on.
THEOREM TickKeepsItsVmCorrect == Spec => []TickKeepsItsVm
<1>1. Inv => TickKeepsItsVm
  BY HandleIsNumber DEF Inv, LockInv, TickKeepsItsVm
<1> QED
  BY <1>1, InvHolds, PTL
-----------------------------------------------------------------------------
(* The types.  Inv knows that the lists do not outgrow the objects; what is *)
(* left is that every record is within the bounds.                         *)

TypeInv == TypeOK /\ Len(asks) <= MaxAsks

LEMMA OldestQueued ==
  ASSUME Inv, NEW v,
         NEW queued, queued = {a \in DOMAIN asks \ pulled : asks[a].vm = v}, queued # {}
  PROVE  Min(queued) \in DOMAIN asks
<1>1. queued \in SUBSET Nat
  BY DEF Inv, AsksInv
<1> DEFINE less == OpToRel(<, Nat)
<1>4. \A x, y \in Nat : x < y => <<x, y>> \in less
  BY DEF OpToRel
<1>5. IsWellFoundedOn(less, Nat)
  BY NatLessThanWellFounded
<1> HIDE DEF less
<1>2. PICK a \in queued : \A b \in queued : ~ (<<b, a>> \in less)
  BY <1>1, <1>5, WFMin
<1>3. \A b \in queued : a <= b
  <2> SUFFICES ASSUME NEW b \in queued PROVE a <= b
    OBVIOUS
  <2>1. a \in Nat /\ b \in Nat /\ ~ (<<b, a>> \in less)
    BY <1>1, <1>2
  <2>2. ~ (b < a)
    BY <1>4, <2>1, Zenon
  <2> QED
    BY <2>1, <2>2
<1> QED
  BY <1>3 DEF Min

LEMMA IssuedCalls ==
  ASSUME Inv, TypeInv, NEW v \in DOMAIN objects, NEW op \in Ops,
         NEW answer \in Answer \cup {NoAnswer}, Issue(v, op, answer)
  PROVE  calls' \subseteq Call /\ issued' \in 0 .. MaxCalls
<1> DEFINE call == [vm |-> v, op |-> op, n |-> issued', answer |-> answer]
<1>1. v \in Vms
  BY VmAssumption DEF Inv, ObjectsInv, Vms, VmAssumption
<1>2. issued' \in 1 .. MaxCalls
  BY VmAssumption DEF Issue, TypeInv, TypeOK, VmAssumption
<1>3. call \in Call
  BY <1>1, <1>2 DEF Call
<1>4. calls' = calls \cup {call}
  BY DEF Issue
<1> QED
  BY <1>2, <1>3, <1>4 DEF TypeInv, TypeOK

LEMMA TypeStep == Inv /\ TypeInv /\ [Next]_vars => TypeInv'
<1> SUFFICES ASSUME Inv, TypeInv, [Next]_vars PROVE TypeInv'
  BY DEF TypeInv
<1> USE DEF TypeInv
<1> USE VmAssumption DEF VmAssumption
<1>1. CASE Boot
  <2>1. Len(objects) \in Nat /\ Len(objects) < MaxVms /\ next_id = Len(objects) + 1
    BY <1>1 DEF Boot, Inv, ObjectsInv
  <2>2. next_id' \in 1 .. MaxVms + 1
    BY <1>1, <2>1 DEF Boot
  <2>3. DOMAIN table' = DOMAIN table \cup {next_id}
    BY <1>1 DEF Boot, NextId
  <2>5. DOMAIN table' \subseteq 1 .. next_id' - 1
    BY <1>1, <2>1, <2>3 DEF Boot, TypeOK
  <2>6. Range(table') \subseteq Vms
    <3>1. \A h \in DOMAIN table : table'[h] = table[h] \/ table'[h] = Len(objects) + 1
      BY <1>1 DEF Boot
    <3>2. table'[next_id] = Len(objects) + 1 /\ Len(objects) + 1 \in Vms
      BY <1>1, <2>1 DEF Boot, NextId, Vms
    <3>3. \A h \in DOMAIN table : table[h] \in Vms
      BY DEF TypeOK, Range
    <3> QED
      BY <2>3, <3>1, <3>2, <3>3 DEF Range
  <2>4. objects' \in Seq([handle : 1 .. MaxVms, closed : BOOLEAN])
    BY <1>1, <2>1 DEF Boot, TypeOK, NextId
  <2> QED
    BY <1>1, <2>2, <2>4, <2>5, <2>6 DEF Boot, TypeOK
<1>2. CASE \E v \in DOMAIN objects : IssueClose(v)
  <2>1. PICK v \in DOMAIN objects : IssueClose(v)
    BY <1>2
  <2>2. calls' \subseteq Call /\ issued' \in 0 .. MaxCalls
    BY <2>1, IssuedCalls DEF IssueClose, Ops
  <2> DEFINE shut == [objects[v] EXCEPT !.closed = TRUE]
  <2>4. objects[v] \in [handle : 1 .. MaxVms, closed : BOOLEAN]
    BY ElementInRange DEF TypeOK
  <2>5. shut \in [handle : 1 .. MaxVms, closed : BOOLEAN]
    BY <2>4
  <2>6. objects' = [objects EXCEPT ![v] = shut]
    BY <2>1 DEF IssueClose
  <2> HIDE DEF shut
  <2>3. objects' \in Seq([handle : 1 .. MaxVms, closed : BOOLEAN])
    BY <2>5, <2>6 DEF TypeOK
  <2> QED
    BY <2>1, <2>2, <2>3 DEF IssueClose, TypeOK
<1>3. CASE \E v \in DOMAIN objects, op \in {"tick", "input", "pull"} : IssueWork(v, op)
  <2>1. PICK v \in DOMAIN objects, op \in {"tick", "input", "pull"} : IssueWork(v, op)
    BY <1>3
  <2>2. calls' \subseteq Call /\ issued' \in 0 .. MaxCalls
    BY <2>1, IssuedCalls DEF IssueWork, Ops
  <2> QED
    BY <2>1, <2>2 DEF IssueWork, TypeOK
<1>4. CASE \E v \in DOMAIN objects, in_tick \in AskInTick : Approve(v, in_tick)
  <2>1. PICK v \in DOMAIN objects, in_tick \in AskInTick : Approve(v, in_tick)
    BY <1>4
  <2> DEFINE ask == [vm |-> v, in_tick |-> in_tick, state |-> "waiting"]
  <2>2. ask \in Ask
    BY DEF Ask, Inv, ObjectsInv, Vms
  <2>3. asks' = Append(asks, ask)
    BY <2>1 DEF Approve
  <2> HIDE DEF ask
  <2>4. /\ asks' \in Seq(Ask) /\ DOMAIN asks \subseteq DOMAIN asks'
        /\ Len(asks') <= MaxAsks
    BY <2>1, <2>2, <2>3 DEF TypeOK, Approve
  <2> QED
    BY <2>1, <2>4 DEF Approve, TypeOK
<1>5. CASE \E a \in DOMAIN asks, allow \in BOOLEAN : IssueAnswer(a, allow)
  <2>1. PICK a \in DOMAIN asks, allow \in BOOLEAN : IssueAnswer(a, allow)
    BY <1>5
  <2> DEFINE answer == [ask |-> a, allow |-> allow]
  <2>2. answer \in Answer
    BY DEF TypeOK, Answer
  <2>3. Issue(asks[a].vm, "answer", answer) /\ answers' = answers \cup {answer}
    BY <2>1 DEF IssueAnswer
  <2> HIDE DEF answer
  <2>4. calls' \subseteq Call /\ issued' \in 0 .. MaxCalls
    BY <2>2, <2>3, IssuedCalls DEF Ops, Inv, AsksInv
  <2> QED
    BY <2>1, <2>2, <2>3, <2>4 DEF IssueAnswer, TypeOK
<1>6. CASE \E c \in calls : Isolate(c)
  <2>1. PICK c \in calls : Isolate(c)
    BY <1>6
  <2>2. c \in Call /\ calls \ {c} \subseteq Call
    BY DEF TypeOK
  <2>3. CASE CallFails(c) \/ TickEnter(c)
    BY <2>2, <2>3 DEF CallFails, TickEnter, Enters, TypeOK
  <2>4. CASE SendInput(c)
    <3> DEFINE v == table[HandleOf(c)]
               longer == Append(received[v], c)
    <3>1. v \in Vms
      BY <2>4 DEF SendInput, Found, TypeOK, Range
    <3>2. longer \in Seq(Call) /\ received' = [received EXCEPT ![v] = longer]
      BY <2>2, <2>4, <3>1 DEF SendInput, TypeOK
    <3> HIDE DEF v, longer
    <3> QED
      BY <2>2, <2>4, <3>1, <3>2 DEF SendInput, Enters, TypeOK
  <2>5. CASE Pull(c)
    <3> DEFINE queued == {a \in DOMAIN asks \ pulled : asks[a].vm = table[HandleOf(c)]}
    <3>1. queued # {} => Min(queued) \in DOMAIN asks
      BY OldestQueued
    <3> QED
      BY <2>2, <2>5, <3>1 DEF Pull, Enters, TypeOK
  <2>6. CASE Respond(c)
    <3> DEFINE a == c.answer.ask
               decided == [asks[a] EXCEPT !.state = IF c.answer.allow THEN "allow" ELSE "deny"]
    <3>1. a \in DOMAIN asks
      BY <2>6 DEF Respond, Enters, Inv, CallsInv
    <3>2. asks[a] \in Ask
      BY <3>1, ElementInRange DEF TypeOK
    <3>3. decided \in Ask
      BY <3>2 DEF Ask
    <3>4. asks' = asks \/ asks' = [asks EXCEPT ![a] = decided]
      BY <2>6 DEF Respond
    <3> HIDE DEF a, decided
    <3>5. asks' \in Seq(Ask) /\ Len(asks') = Len(asks) /\ DOMAIN asks' = DOMAIN asks
      BY <3>1, <3>3, <3>4 DEF TypeOK
    <3> QED
      BY <2>2, <2>6, <3>5 DEF Respond, Enters, TypeOK
  <2>7. CASE Close(c)
    BY <2>2, <2>7 DEF Close, Enters, TypeOK, Range
  <2> QED
    BY <2>1, <2>3, <2>4, <2>5, <2>6, <2>7 DEF Isolate
<1>7. CASE TickLeave
  BY <1>7 DEF TickLeave, TypeOK
<1>8. CASE UNCHANGED vars
  BY <1>8 DEF vars, TypeOK
<1> QED
  BY <1>1, <1>2, <1>3, <1>4, <1>5, <1>6, <1>7, <1>8 DEF Next

\* No handle is larger than the number of VMs booted, whatever is closed and
\* answered, and what is pulled and answered was asked for.
THEOREM TypeCorrect == Spec => []TypeOK
<1>1. Init => TypeInv
  BY VmAssumption DEF Init, TypeInv, TypeOK, VmAssumption, Range
<1>2. TypeInv => TypeOK
  BY DEF TypeInv
<1> QED
  BY <1>1, <1>2, TypeStep, InvHolds, PTL DEF Spec
==============================================================================
