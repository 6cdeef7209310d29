--------------------------- MODULE HostCallsProofs ---------------------------
(***************************************************************************)
(* The safety properties of HostCalls for any isolates, kinds and numbers  *)
(* of calls, jobs, lengths and buffers.  The invariant: the table's lock   *)
(* is held by the one call that runs; the version has room for every call  *)
(* that is under way; what a call has returned, if it is checked, is what  *)
(* the guest answered.                                                     *)
(***************************************************************************)
EXTENDS HostCalls, FiniteSetTheorems, TLAPS

Buf == [len : Nat, val : Data]

\* Before the library is done with a call.
Early == {"queued", "running", "waiting"}
Under == {i \in DOMAIN calls : calls[i].at \in Early}

\* What Return copies for the caller of a call that did not fail.
Given(op, cap, buf) ==
  IF op \in Whole \cup {"exec"} THEN buf.val ELSE CopyFromAosBuf(buf, cap)

CallInv(c) ==
  /\ c \in Call
  /\ c.at \in Early => c.rc = 0 /\ c.host = None /\ c.buf = NoBuf
  /\ c.at = "returned" /\ c.rc = 0 /\ c.op \notin Unchecked =>
       Given(c.op, c.cap, c.buf) = c.host
  /\ c.at = "done" /\ c.rc = 0 /\ c.op \notin Unchecked => c.got = c.host

\* The number a call names, or returns, is that of one of n jobs.
JobInv(c, n) ==
  /\ c.op \in OnJob => c.job \in 1 .. n
  /\ c.op \in Starts /\ c.at = "returned" /\ c.rc = 0 => c.job \in 1 .. n

ShapeInv ==
  /\ closed \in BOOLEAN /\ open \in BOOLEAN
  /\ ver \in Nat /\ issued \in 0 .. MaxCalls
  /\ perf \in {"off", "on", "measured"}
  /\ jobs \in Seq(Job) /\ Len(jobs) <= MaxJobs
  /\ known \subseteq 1 .. Len(jobs)

LockInv ==
  /\ DOMAIN calls \subseteq Isolates
  /\ lock = {i \in Isolates : At(i, {"running", "waiting"})}
  /\ \A i, k \in lock : i = k
  /\ \A i \in lock : calls[i].op \in Blocking

\* A call raises the version once, when the library is done with it.
CountInv == IsFiniteSet(Under) /\ ver + Cardinality(Under) <= issued

CallsInv ==
  \A i \in DOMAIN calls : CallInv(calls[i]) /\ JobInv(calls[i], Len(jobs))

Inv == ShapeInv /\ LockInv /\ CountInv /\ CallsInv
-----------------------------------------------------------------------------
LEMMA Bounds ==
  MaxCalls \in Nat /\ MaxJobs \in Nat /\ Caps \subseteq Nat /\ Lens \subseteq Nat
BY HostCallsAssumption DEF HostCallsAssumption

LEMMA BytesType ==
  ASSUME NEW v \in 0 .. MaxCalls, NEW n \in Nat, MaxCalls \in Nat
  PROVE  Bytes(v, n) \in Data
BY DEF Bytes, Data

LEMMA NoneType ==
  ASSUME MaxCalls \in Nat
  PROVE  /\ None \in Data /\ NoBuf \in Buf
         /\ \A cap \in Nat : CopyFromAosBuf(NoBuf, cap) = None
<1>1. None \in Data
  BY BytesType DEF None
<1>2. NoBuf \in Buf
  BY <1>1 DEF NoBuf, Buf
<1>3. \A cap \in Nat : CopyFromAosBuf(NoBuf, cap) = None
  BY DEF NoBuf, CopyFromAosBuf
<1>. QED BY <1>1, <1>2, <1>3

LEMMA FillBufGives ==
  ASSUME NEW data \in Data, NEW cap \in Nat, MaxCalls \in Nat
  PROVE  LET f == FillBuf(data, cap)
         IN  /\ f.rc \in {0, -1} /\ f.buf \in Buf
             /\ f.rc = 0 => CopyFromAosBuf(f.buf, cap) = data
<1>1. data.len \in Nat
  BY DEF Data
<1>2. CASE data.len <= cap
  BY <1>1, <1>2 DEF FillBuf, CopyFromAosBuf, Buf
<1>3. CASE ~(data.len <= cap)
  BY <1>1, <1>3, NoneType DEF FillBuf, Buf
<1>. QED BY <1>2, <1>3

LEMMA CopyOutType ==
  ASSUME NEW data \in Data, NEW cap \in Nat, MaxCalls \in Nat
  PROVE  CopyOut(data, cap) \in Buf
<1>. DEFINE n == Min({data.len, cap})
<1>1. n \in {data.len, cap}
  BY DEF Min, Data
<1>2. n \in Nat /\ data.ver \in 0 .. MaxCalls
  BY <1>1 DEF Data
<1>. HIDE DEF n
<1>3. Bytes(data.ver, n) \in Data
  BY <1>2, BytesType
<1>. QED BY <1>2, <1>3 DEF CopyOut, Buf, n

LEMMA CopyFromAosBufType ==
  ASSUME NEW buf \in Buf, NEW cap \in Nat, MaxCalls \in Nat
  PROVE  CopyFromAosBuf(buf, cap) \in Data
<1>1. buf.val \in Data /\ buf.len \in Nat
  BY DEF Buf
<1>2. Bytes(0, cap) \in Data
  BY BytesType
<1>. QED BY <1>1, <1>2 DEF CopyFromAosBuf
-----------------------------------------------------------------------------
(* One call changes, the others do not. *)

Left(c, rc, data, buf) ==
  [c EXCEPT !.at = "returned", !.rc = rc, !.host = data, !.buf = buf]

LEMMA LeftInv ==
  ASSUME NEW c, CallInv(c), c.at \in Early,
         NEW rc \in {0, -1}, NEW data \in Data, NEW buf \in Buf,
         rc = 0 /\ c.op \notin Unchecked => Given(c.op, c.cap, buf) = data,
         NEW d, d = Left(c, rc, data, buf)
  PROVE  CallInv(d) /\ d.at = "returned" /\ d.rc = rc /\ d.op = c.op /\ d.job = c.job
<1>1. c \in Call
  BY DEF CallInv
<1>2. /\ d.at = "returned" /\ d.rc = rc /\ d.op = c.op /\ d.job = c.job /\ d.cap = c.cap
      /\ d.host = data /\ d.buf = buf
  BY <1>1 DEF Call, Left
<1>3. d \in Call
  BY <1>1 DEF Call, Buf, Left
<1>4. d.rc = 0 /\ d.op \notin Unchecked => Given(d.op, d.cap, d.buf) = d.host
  BY <1>2
<1>. QED BY <1>2, <1>3, <1>4 DEF CallInv, Early

Becomes(i, d) == calls' = [calls EXCEPT ![i] = d]

LEMMA OneCall ==
  ASSUME CallsInv, NEW i \in DOMAIN calls, NEW d,
         Becomes(i, d), CallInv(d), JobInv(d, Len(jobs')),
         Len(jobs) \in Nat, Len(jobs') \in Nat, Len(jobs) <= Len(jobs')
  PROVE  CallsInv'
<1>. SUFFICES ASSUME NEW k \in DOMAIN calls
              PROVE  CallInv(calls'[k]) /\ JobInv(calls'[k], Len(jobs'))
  BY DEF CallsInv, Becomes
<1>1. CASE k = i
  BY <1>1 DEF Becomes
<1>2. CASE k # i
  <2>1. calls'[k] = calls[k]
    BY <1>2 DEF Becomes
  <2>2. CallInv(calls[k]) /\ JobInv(calls[k], Len(jobs))
    BY DEF CallsInv
  <2>3. JobInv(calls[k], Len(jobs'))
    BY <2>2 DEF JobInv
  <2>. QED BY <2>1, <2>2, <2>3
<1>. QED BY <1>1, <1>2

LEMMA LeavesUnder ==
  ASSUME CountInv, NEW i \in Under, NEW d, d.at \notin Early,
         Becomes(i, d),
         ver \in Nat, ver' \in {ver, ver + 1}, issued \in Nat, issued' = issued
  PROVE  CountInv' /\ ver' <= issued
<1>1. Under' = Under \ {i}
  BY DEF Under, Becomes
<1>2. IsFiniteSet(Under)
  BY DEF CountInv
<1>3. IsFiniteSet(Under \ {i}) /\ Cardinality(Under \ {i}) = Cardinality(Under) - 1
  BY <1>2, FS_RemoveElement
<1>4. Cardinality(Under) \in Nat /\ Cardinality(Under \ {i}) \in Nat
  BY <1>2, <1>3, FS_CardinalityType
<1>5. ver + Cardinality(Under) <= issued
  BY DEF CountInv
<1>6. IsFiniteSet(Under') /\ Cardinality(Under') = Cardinality(Under) - 1 /\ Cardinality(Under') \in Nat
  BY <1>1, <1>3, <1>4
<1>7. ver' + Cardinality(Under') <= issued' /\ ver' <= issued
  BY <1>4, <1>5, <1>6
<1>. QED BY <1>6, <1>7 DEF CountInv

LEMMA StaysUnder ==
  ASSUME CountInv, NEW i \in DOMAIN calls, NEW d,
         d.at \in Early <=> calls[i].at \in Early,
         Becomes(i, d),
         ver' = ver, issued' = issued
  PROVE  CountInv'
<1>1. Under' = Under
  BY DEF Under, Becomes
<1>. QED BY <1>1 DEF CountInv

LEMMA LockStays ==
  ASSUME LockInv, NEW i \in DOMAIN calls, NEW d,
         calls[i].at \notin {"running", "waiting"}, d.at \notin {"running", "waiting"},
         Becomes(i, d), lock' = lock
  PROVE  LockInv'
<1>1. \A k : At(k, {"running", "waiting"})' <=> At(k, {"running", "waiting"})
  BY DEF At, Becomes
<1>2. lock' = {k \in Isolates : At(k, {"running", "waiting"})'}
  BY <1>1 DEF LockInv
<1>3. \A k \in lock' : calls'[k] = calls[k]
  BY DEF LockInv, At, Becomes
<1>4. DOMAIN calls' = DOMAIN calls
  BY DEF Becomes
<1>. QED BY <1>2, <1>3, <1>4 DEF LockInv
-----------------------------------------------------------------------------
LEMMA VerBound ==
  ASSUME Inv
  PROVE  /\ ver \in 0 .. MaxCalls
         /\ \A i \in Under : ver + 1 \in 0 .. MaxCalls
<1>1. IsFiniteSet(Under) /\ Cardinality(Under) \in Nat
  BY FS_CardinalityType DEF Inv, CountInv
<1>2. /\ ver \in Nat /\ issued \in Nat /\ issued <= MaxCalls
      /\ ver + Cardinality(Under) <= issued /\ MaxCalls \in Nat
  BY Bounds DEF Inv, ShapeInv, CountInv
<1>3. ASSUME NEW i \in Under PROVE Cardinality(Under) # 0
  BY <1>1, FS_EmptySet
<1>4. ASSUME NEW i \in Under PROVE ver + 1 \in 0 .. MaxCalls
  BY <1>1, <1>2, <1>3
<1>. QED BY <1>1, <1>2, <1>4

\* What a call that ends does with the rest of the state.
RestOK ==
  /\ closed' \in BOOLEAN /\ open' \in BOOLEAN /\ perf' \in {"off", "on", "measured"}
  /\ jobs' \in Seq(Job) /\ Len(jobs') = Len(jobs) /\ known' = known
  /\ ver' \in {ver, ver + 1} /\ issued' = issued

\* The library is done with call i, however it was done.
LEMMA Finishes ==
  ASSUME Inv, NEW i \in Under,
         NEW rc \in {0, -1}, NEW data \in Data, NEW buf \in Buf,
         rc = 0 /\ calls[i].op \notin Unchecked =>
           Given(calls[i].op, calls[i].cap, buf) = data,
         rc = 0 => calls[i].op \notin Starts,
         Leaves(i, rc, data, buf), LockInv',
         RestOK
  PROVE  Inv'
<1>1. PICK c : c = calls[i]
  OBVIOUS
<1>2. PICK d : d = Left(c, rc, data, buf)
  OBVIOUS
<1>3. i \in DOMAIN calls /\ c.at \in Early /\ CallInv(c) /\ JobInv(c, Len(jobs))
  BY <1>1 DEF Inv, CallsInv, Under
<1>4. CallInv(d) /\ d.at = "returned" /\ d.rc = rc /\ d.op = c.op /\ d.job = c.job
  <2>1. rc = 0 /\ c.op \notin Unchecked => Given(c.op, c.cap, buf) = data
    BY <1>1
  <2>. QED BY <1>2, <1>3, <2>1, LeftInv
<1>5. Becomes(i, d)
  BY <1>1, <1>2 DEF Leaves, Left, Becomes
<1>6. Len(jobs) \in Nat /\ Len(jobs') = Len(jobs)
  BY DEF Inv, ShapeInv, RestOK
<1>7. JobInv(d, Len(jobs'))
  BY <1>1, <1>3, <1>4, <1>6 DEF JobInv
<1>8. CallsInv'
  BY <1>5, <1>3, <1>4, <1>6, <1>7, OneCall DEF Inv
<1>9. CountInv' /\ ver' \in Nat
  <2>1. d.at \notin Early
    BY <1>4 DEF Early
  <2>2. ver \in Nat /\ issued \in Nat
    BY DEF Inv, ShapeInv
  <2>. QED BY <1>5, <2>1, <2>2, LeavesUnder DEF Inv, RestOK
<1>10. ShapeInv'
  BY <1>9 DEF Inv, ShapeInv, RestOK
<1>. QED BY <1>8, <1>9, <1>10 DEF Inv

\* It answers a call that waited for the lock, in one step.
LEMMA Answers ==
  ASSUME Inv, NEW i, At(i, {"queued"}),
         NEW rc \in {0, -1}, NEW data \in Data, NEW buf \in Buf,
         rc = 0 /\ calls[i].op \notin Unchecked =>
           Given(calls[i].op, calls[i].cap, buf) = data,
         rc = 0 => calls[i].op \notin Starts,
         Leaves(i, rc, data, buf), lock' = lock,
         RestOK
  PROVE  Inv'
<1>1. i \in Under /\ i \in DOMAIN calls /\ calls[i].at = "queued"
  BY DEF Under, Early, At
<1>2. PICK d : d = Left(calls[i], rc, data, buf)
  OBVIOUS
<1>3. Becomes(i, d)
  BY <1>2 DEF Leaves, Left, Becomes
<1>4. d.at = "returned"
  <2>1. calls[i] \in Call
    BY <1>1 DEF Inv, CallsInv, CallInv
  <2>. QED BY <1>2, <2>1 DEF Call, Left
<1>5. LockInv'
  BY <1>1, <1>3, <1>4, LockStays DEF Inv
<1>. QED BY <1>1, <1>5, Finishes

\* A call that fails has been given nothing.
LEMMA FailsInv ==
  ASSUME Inv, NEW i, At(i, {"queued"}), Fails(i),
         UNCHANGED <<closed, open, lock, ver, perf, jobs, known, issued>>
  PROVE  Inv'
<1>1. None \in Data /\ NoBuf \in Buf
  BY Bounds, NoneType
<1>2. Leaves(i, -1, None, NoBuf)
  BY DEF Fails
<1>3. RestOK
  BY DEF Inv, ShapeInv, RestOK
<1>4. -1 \in {0, -1} /\ -1 # 0
  OBVIOUS
<1>. QED BY <1>1, <1>2, <1>3, <1>4, Answers
-----------------------------------------------------------------------------
(* fill_buf, its answer passed on or ignored, and a function with no answer *)
(* but rc.                                                                  *)

LEMMA FilledInv ==
  ASSUME Inv, NEW i, At(i, {"queued"}),
         NEW data \in Data, LeavesFilled(i, data), lock' = lock,
         calls[i].op \notin Starts \cup Whole \cup {"exec"},
         RestOK
  PROVE  Inv'
<1>1. PICK cap : cap = calls[i].cap
  OBVIOUS
<1>2. cap \in Nat
  <2>1. calls[i] \in Call
    BY DEF Inv, CallsInv, CallInv, At
  <2>. QED BY <1>1, <2>1, Bounds DEF Call
<1>3. PICK f : f = FillBuf(data, cap)
  OBVIOUS
<1>4. /\ f.rc \in {0, -1} /\ f.buf \in Buf
      /\ f.rc = 0 => CopyFromAosBuf(f.buf, cap) = data
  BY <1>2, <1>3, Bounds, FillBufGives
<1>5. Leaves(i, f.rc, data, f.buf)
  BY <1>1, <1>3 DEF LeavesFilled
<1>6. f.rc = 0 => Given(calls[i].op, calls[i].cap, f.buf) = data
  BY <1>1, <1>4 DEF Given
<1>. QED BY <1>4, <1>5, <1>6, Answers

LEMMA AnywayInv ==
  ASSUME Inv, NEW i, At(i, {"queued"}),
         NEW data \in Data, LeavesAnyway(i, data), lock' = lock,
         calls[i].op \in Unchecked, calls[i].op \notin Starts,
         RestOK
  PROVE  Inv'
<1>1. PICK cap : cap = calls[i].cap
  OBVIOUS
<1>2. cap \in Nat
  <2>1. calls[i] \in Call
    BY DEF Inv, CallsInv, CallInv, At
  <2>. QED BY <1>1, <2>1, Bounds DEF Call
<1>3. PICK buf : buf = FillBuf(data, cap).buf
  OBVIOUS
<1>4. buf \in Buf
  BY <1>2, <1>3, Bounds, FillBufGives
<1>5. Leaves(i, 0, data, buf)
  BY <1>1, <1>3 DEF LeavesAnyway
<1>. QED BY <1>4, <1>5, Answers

LEMMA NothingInv ==
  ASSUME Inv, NEW i, At(i, {"queued"}),
         Leaves(i, 0, None, NoBuf), lock' = lock,
         calls[i].op \notin Starts \cup Whole \cup {"exec"},
         RestOK
  PROVE  Inv'
<1>1. None \in Data /\ NoBuf \in Buf
  BY Bounds, NoneType
<1>2. Given(calls[i].op, calls[i].cap, NoBuf) = None
  <2>1. calls[i] \in Call
    BY DEF Inv, CallsInv, CallInv, At
  <2>2. calls[i].cap \in Nat
    BY <2>1, Bounds DEF Call
  <2>. QED BY <2>2, Bounds, NoneType DEF Given
<1>. QED BY <1>1, <1>2, Answers
-----------------------------------------------------------------------------
(* One lemma for each action. *)

LEMMA RefuseInv ==
  ASSUME Inv, NEW i,
         Refuse(i) \/ RefuseOpts(i)
  PROVE  Inv'
<1>1. /\ At(i, {"queued"}) /\ Fails(i)
      /\ UNCHANGED <<closed, open, lock, ver, perf, jobs, known, issued>>
  BY DEF Refuse, RefuseOpts, Enters, guest
<1>. QED BY <1>1, FailsInv

LEMMA QueryInv ==
  ASSUME Inv, NEW i, Query(i)
  PROVE  Inv'
<1>1. /\ At(i, {"queued"}) /\ calls[i].op \in Queries
      /\ UNCHANGED <<closed, open, lock, ver, perf, jobs, known, issued>>
  BY DEF Query, Enters, guest
<1>2. PICK n \in Lens : LeavesFilled(i, Bytes(ver, n))
  BY DEF Query
<1>3. PICK data : data = Bytes(ver, n)
  OBVIOUS
<1>4. data \in Data
  BY <1>3, VerBound, Bounds, BytesType
<1>5. calls[i].op \notin Starts \cup Whole \cup {"exec"}
  BY <1>1 DEF Queries, Texts, Starts, Whole, Structs
<1>6. RestOK
  BY <1>1 DEF Inv, ShapeInv, RestOK
<1>. QED BY <1>1, <1>2, <1>3, <1>4, <1>5, <1>6, FilledInv

LEMMA ChangeInv ==
  ASSUME Inv, NEW i, Change(i)
  PROVE  Inv'
<1>1. /\ At(i, {"queued"}) /\ calls[i].op \in Changes
      /\ ver' = ver + 1 /\ Leaves(i, 0, None, NoBuf)
      /\ UNCHANGED <<closed, open, lock, perf, jobs, known, issued>>
  BY DEF Change, Enters
<1>2. calls[i].op \notin Starts \cup Whole \cup {"exec"}
  BY <1>1 DEF Changes, Starts, Whole, Structs
<1>3. RestOK
  BY <1>1 DEF Inv, ShapeInv, RestOK
<1>. QED BY <1>1, <1>2, <1>3, NothingInv
-----------------------------------------------------------------------------
LEMMA JobShapes ==
  ASSUME Inv, NEW i, At(i, {"queued"}), calls[i].op \in OnJob
  PROVE  LET j == calls[i].job
         IN  j \in 1 .. Len(jobs) /\ jobs[j] \in Job /\ jobs[j].out \in Data
<1>1. calls[i].job \in 1 .. Len(jobs)
  BY DEF Inv, CallsInv, JobInv, At
<1>2. jobs \in Seq(Job)
  BY DEF Inv, ShapeInv
<1>3. jobs[calls[i].job] \in Job
  BY <1>1, <1>2
<1>4. \A j \in Job : j.out \in Data
  BY DEF Job
<1>. QED BY <1>1, <1>3, <1>4

\* A stage of a job changes, and nothing else of the jobs.
LEMMA StageType ==
  ASSUME Inv, NEW j \in 1 .. Len(jobs),
         NEW stage \in {"asks", "waits", "runs", "ended", "gone"},
         jobs' = [jobs EXCEPT ![j].stage = stage]
  PROVE  jobs' \in Seq(Job) /\ Len(jobs') = Len(jobs)
<1>1. jobs \in Seq(Job)
  BY DEF Inv, ShapeInv
<1>2. jobs[j] \in Job
  BY <1>1
<1>3. [jobs[j] EXCEPT !.stage = stage] \in Job
  BY <1>2 DEF Job
<1>. QED BY <1>1, <1>3

LEMMA ExecPollInv ==
  ASSUME Inv, NEW i, ExecPoll(i)
  PROVE  Inv'
<1>1. PICK j : j = calls[i].job
  OBVIOUS
<1>2. /\ At(i, {"queued"}) /\ calls[i].op = "execPoll"
      /\ UNCHANGED <<closed, open, lock, ver, perf, known, issued>>
  BY DEF ExecPoll, Enters
<1>3. j \in 1 .. Len(jobs) /\ jobs[j].out \in Data
  BY <1>1, <1>2, JobShapes DEF OnJob
<1>4. calls[i].op \notin Starts \cup Whole \cup {"exec"}
  BY <1>2 DEF Starts, Whole, Structs
<1>5. calls[i].op \in Unchecked
  BY <1>2 DEF Unchecked
<1>6. /\ closed' \in BOOLEAN /\ open' \in BOOLEAN /\ perf' \in {"off", "on", "measured"}
      /\ jobs \in Seq(Job)
  BY <1>2 DEF Inv, ShapeInv
<1>7. CASE jobs[j].stage = "ended"
  <2>1. LeavesAnyway(i, jobs[j].out)
    BY <1>1, <1>7 DEF ExecPoll
  <2>2. jobs' = jobs \/ jobs' = [jobs EXCEPT ![j].stage = "gone"]
    BY <1>1, <1>7 DEF ExecPoll
  <2>3. jobs' \in Seq(Job) /\ Len(jobs') = Len(jobs)
    BY <1>3, <1>6, <2>2, StageType
  <2>4. RestOK
    BY <1>2, <1>6, <2>3 DEF RestOK
  <2>. QED BY <1>2, <1>3, <1>4, <1>5, <2>1, <2>4, AnywayInv
<1>8. CASE jobs[j].stage # "ended"
  <2>1. Leaves(i, 0, None, NoBuf) /\ jobs' = jobs
    BY <1>1, <1>8 DEF ExecPoll
  <2>2. RestOK
    BY <1>2, <1>6, <2>1 DEF RestOK
  <2>. QED BY <1>2, <1>4, <2>1, <2>2, NothingInv
<1>. QED BY <1>7, <1>8

LEMMA ExecStdoutPeekInv ==
  ASSUME Inv, NEW i, ExecStdoutPeek(i)
  PROVE  Inv'
<1>1. PICK j : j = calls[i].job
  OBVIOUS
<1>2. /\ At(i, {"queued"}) /\ calls[i].op = "execStdoutPeek"
      /\ UNCHANGED <<closed, open, lock, ver, perf, jobs, known, issued>>
  BY DEF ExecStdoutPeek, Enters, guest
<1>3. jobs[j].out \in Data
  BY <1>1, <1>2, JobShapes DEF OnJob
<1>4. PICK n \in 0 .. jobs[j].out.len : LeavesFilled(i, Bytes(jobs[j].out.ver, n))
  BY <1>1 DEF ExecStdoutPeek
<1>5. PICK data : data = Bytes(jobs[j].out.ver, n)
  OBVIOUS
<1>6. data \in Data
  <2>1. jobs[j].out.ver \in 0 .. MaxCalls /\ jobs[j].out.len \in Nat
    BY <1>3 DEF Data
  <2>. QED BY <1>5, <2>1, Bounds, BytesType
<1>7. calls[i].op \notin Starts \cup Whole \cup {"exec"}
  BY <1>2 DEF Starts, Whole, Structs
<1>8. RestOK
  BY <1>2 DEF Inv, ShapeInv, RestOK
<1>. QED BY <1>2, <1>4, <1>5, <1>6, <1>7, <1>8, FilledInv

LEMMA ExecCancelInv ==
  ASSUME Inv, NEW i, ExecCancel(i)
  PROVE  Inv'
<1>1. PICK j : j = calls[i].job
  OBVIOUS
<1>2. /\ At(i, {"queued"}) /\ calls[i].op = "execCancel"
      /\ jobs' = [jobs EXCEPT ![j].stage = "gone"]
      /\ Leaves(i, 0, None, NoBuf)
      /\ UNCHANGED <<closed, open, lock, ver, perf, known, issued>>
  BY <1>1 DEF ExecCancel, Enters
<1>3. j \in 1 .. Len(jobs)
  BY <1>1, <1>2, JobShapes DEF OnJob
<1>4. jobs' \in Seq(Job) /\ Len(jobs') = Len(jobs)
  BY <1>2, <1>3, StageType
<1>5. calls[i].op \notin Starts \cup Whole \cup {"exec"}
  BY <1>2 DEF Starts, Whole, Structs
<1>6. RestOK
  BY <1>2, <1>4 DEF Inv, ShapeInv, RestOK
<1>. QED BY <1>2, <1>5, <1>6, NothingInv
-----------------------------------------------------------------------------
LEMMA SnapshotInv ==
  ASSUME Inv, NEW i, Snapshot(i)
  PROVE  Inv'
<1>1. /\ At(i, {"queued"}) /\ calls[i].op \in Whole
      /\ UNCHANGED <<closed, open, lock, ver, perf, jobs, known, issued>>
  BY DEF Snapshot, Enters, guest
<1>2. PICK n \in Lens : Leaves(i, 0, Bytes(ver, n), AllocBytes(Bytes(ver, n)))
  BY DEF Snapshot
<1>3. PICK data : data = Bytes(ver, n)
  OBVIOUS
<1>4. data \in Data
  BY <1>3, VerBound, Bounds, BytesType
<1>5. PICK buf : buf = AllocBytes(data)
  OBVIOUS
<1>6. buf \in Buf /\ buf.val = data
  BY <1>4, <1>5 DEF AllocBytes, Buf, Data
<1>7. Given(calls[i].op, calls[i].cap, buf) = data
  BY <1>1, <1>6 DEF Given
<1>8. calls[i].op \notin Starts
  BY <1>1 DEF Starts, Whole, Structs
<1>9. RestOK
  BY <1>1 DEF Inv, ShapeInv, RestOK
<1>. QED BY <1>1, <1>2, <1>3, <1>4, <1>5, <1>6, <1>7, <1>8, <1>9, Answers

LEMMA SvcCallOrCommitLayerInv ==
  ASSUME Inv, NEW i, SvcCallOrCommitLayer(i)
  PROVE  Inv'
<1>1. /\ At(i, {"queued"}) /\ calls[i].op \in {"svcCall", "commitLayer"}
      /\ ver' = ver + 1
      /\ UNCHANGED <<closed, open, lock, perf, jobs, known, issued>>
  BY DEF SvcCallOrCommitLayer, Enters
<1>2. PICK n \in Lens : LeavesAnyway(i, Bytes(ver', n))
  BY DEF SvcCallOrCommitLayer
<1>3. PICK data : data = Bytes(ver', n)
  OBVIOUS
<1>4. data \in Data
  <2>1. i \in Under
    BY <1>1 DEF At, Under, Early
  <2>. QED BY <1>1, <1>3, <2>1, VerBound, Bounds, BytesType
<1>5. calls[i].op \in Unchecked /\ calls[i].op \notin Starts
  BY <1>1 DEF Starts, Unchecked
<1>6. RestOK
  BY <1>1 DEF Inv, ShapeInv, RestOK
<1>. QED BY <1>1, <1>2, <1>3, <1>4, <1>5, <1>6, AnywayInv

LEMMA InjectCatalogInv ==
  ASSUME Inv, NEW i, InjectCatalog(i)
  PROVE  Inv'
<1>1. /\ At(i, {"queued"}) /\ calls[i].op = "injectCatalog"
      /\ ver' = ver + 1
      /\ UNCHANGED <<closed, open, lock, perf, jobs, known, issued>>
  BY DEF InjectCatalog, Enters
<1>2. PICK n \in Lens : LeavesFilled(i, Bytes(ver', n))
  BY DEF InjectCatalog
<1>3. PICK data : data = Bytes(ver', n)
  OBVIOUS
<1>4. data \in Data
  <2>1. i \in Under
    BY <1>1 DEF At, Under, Early
  <2>. QED BY <1>1, <1>3, <2>1, VerBound, Bounds, BytesType
<1>5. calls[i].op \notin Starts \cup Whole \cup {"exec"}
  BY <1>1 DEF Starts, Whole, Structs
<1>6. RestOK
  BY <1>1 DEF Inv, ShapeInv, RestOK
<1>. QED BY <1>1, <1>2, <1>3, <1>4, <1>5, <1>6, FilledInv

LEMMA TakeCommandPerfInv ==
  ASSUME Inv, NEW i, TakeCommandPerf(i)
  PROVE  Inv'
<1>1. /\ At(i, {"queued"}) /\ calls[i].op = "takeCommandPerf"
      /\ UNCHANGED <<closed, open, lock, ver, jobs, known, issued>>
  BY DEF TakeCommandPerf, Enters
<1>2. calls[i].op \notin Starts \cup Whole \cup {"exec"}
  BY <1>1 DEF Starts, Whole, Structs
<1>3. perf' = "on" \/ perf' = perf
  BY DEF TakeCommandPerf
<1>4. RestOK
  BY <1>1, <1>3 DEF Inv, ShapeInv, RestOK
<1>5. CASE perf = "measured"
  <2>1. PICK n \in Lens : LeavesFilled(i, Bytes(ver, n))
    BY <1>5 DEF TakeCommandPerf
  <2>2. PICK data : data = Bytes(ver, n)
    OBVIOUS
  <2>3. data \in Data
    BY <2>2, VerBound, Bounds, BytesType
  <2>. QED BY <1>1, <1>2, <1>4, <2>1, <2>2, <2>3, FilledInv
<1>6. CASE perf # "measured"
  <2>1. Leaves(i, 0, None, NoBuf)
    BY <1>6 DEF TakeCommandPerf
  <2>. QED BY <1>1, <1>2, <1>4, <2>1, NothingInv
<1>. QED BY <1>5, <1>6

LEMMA SetPerfInv ==
  ASSUME Inv, NEW i, SetPerf(i)
  PROVE  Inv'
<1>1. /\ At(i, {"queued"}) /\ calls[i].op \in {"setPerfEnabled", "scrubPerf"}
      /\ perf' \in {"off", "on"} /\ Leaves(i, 0, None, NoBuf)
      /\ UNCHANGED <<closed, open, lock, ver, jobs, known, issued>>
  BY DEF SetPerf, Enters
<1>2. calls[i].op \notin Starts \cup Whole \cup {"exec"}
  BY <1>1 DEF Starts, Whole, Structs
<1>3. RestOK
  BY <1>1 DEF Inv, ShapeInv, RestOK
<1>. QED BY <1>1, <1>2, <1>3, NothingInv

LEMMA CloseInv ==
  ASSUME Inv, NEW i, Close(i)
  PROVE  Inv'
<1>1. /\ At(i, {"queued"}) /\ calls[i].op = "close"
      /\ open' = FALSE /\ Leaves(i, 0, None, NoBuf)
      /\ UNCHANGED <<closed, lock, ver, perf, jobs, known, issued>>
  BY DEF Close, Enters, guest
<1>2. calls[i].op \notin Starts \cup Whole \cup {"exec"}
  BY <1>1 DEF Starts, Whole, Structs
<1>3. RestOK
  BY <1>1 DEF Inv, ShapeInv, RestOK
<1>. QED BY <1>1, <1>2, <1>3, NothingInv
-----------------------------------------------------------------------------
Placed(c, at) == [c EXCEPT !.at = at]

LEMMA EnterInv ==
  ASSUME Inv, NEW i, Enter(i)
  PROVE  Inv'
<1>1. /\ i \in DOMAIN calls /\ calls[i].at = "queued"
      /\ calls[i].op \in Blocking
      /\ lock = {} /\ lock' = {i}
      /\ UNCHANGED <<closed, open, ver, perf, jobs, known, issued>>
  BY DEF Enter, Enters, At, guest
<1>2. PICK at \in {"running", "waiting"} : calls' = [calls EXCEPT ![i].at = at]
  BY DEF Enter
<1>3. PICK c : c = calls[i]
  OBVIOUS
<1>4. PICK d : d = Placed(c, at)
  OBVIOUS
<1>5. Becomes(i, d)
  BY <1>2, <1>3, <1>4 DEF Placed, Becomes
<1>6. CallInv(c) /\ JobInv(c, Len(jobs)) /\ c \in Call
  BY <1>1, <1>3 DEF Inv, CallsInv, CallInv
<1>7. /\ d \in Call /\ d.at = at /\ d.op = c.op /\ d.job = c.job /\ d.rc = c.rc
      /\ d.host = c.host /\ d.buf = c.buf
  BY <1>4, <1>6 DEF Placed, Call
<1>8. CallInv(d)
  <2>1. c.rc = 0 /\ c.host = None /\ c.buf = NoBuf
    BY <1>1, <1>3, <1>6 DEF CallInv, Early
  <2>. QED BY <1>7, <2>1 DEF CallInv
<1>9. JobInv(d, Len(jobs'))
  BY <1>1, <1>6, <1>7 DEF JobInv
<1>10. Len(jobs) \in Nat /\ Len(jobs') = Len(jobs)
  BY <1>1 DEF Inv, ShapeInv
<1>11. CallsInv'
  BY <1>1, <1>5, <1>8, <1>9, <1>10, OneCall DEF Inv
<1>12. CountInv'
  <2>1. d.at \in Early /\ calls[i].at \in Early
    BY <1>1, <1>7 DEF Early
  <2>. QED BY <1>1, <1>5, <2>1, StaysUnder DEF Inv
<1>13. LockInv'
  <2>1. DOMAIN calls' = DOMAIN calls /\ DOMAIN calls \subseteq Isolates
    BY <1>5 DEF Becomes, Inv, LockInv
  <2>2. calls'[i].at \in {"running", "waiting"} /\ calls'[i].op \in Blocking
    BY <1>1, <1>3, <1>5, <1>7 DEF Becomes
  <2>3. \A k \in Isolates : ~At(k, {"running", "waiting"})
    BY <1>1 DEF Inv, LockInv
  <2>4. \A k \in Isolates : At(k, {"running", "waiting"})' <=> k = i
    BY <1>1, <1>5, <2>1, <2>2, <2>3 DEF Becomes, At
  <2>5. lock' = {k \in Isolates : At(k, {"running", "waiting"})'}
    BY <1>1, <2>1, <2>4
  <2>. QED BY <1>1, <2>1, <2>2, <2>5 DEF LockInv
<1>14. ShapeInv'
  BY <1>1 DEF Inv, ShapeInv
<1>. QED BY <1>11, <1>12, <1>13, <1>14 DEF Inv

LEMMA LeaveInv ==
  ASSUME Inv, NEW i, Leave(i)
  PROVE  Inv'
<1>1. /\ lock = {i} /\ lock' = {} /\ ver' = ver + 1
      /\ perf' \in {"off", "measured"}
      /\ UNCHANGED <<closed, open, jobs, known, issued>>
  BY DEF Leave, Ended
<1>2. /\ i \in Isolates /\ i \in DOMAIN calls /\ i \in Under
      /\ calls[i].op \in Blocking /\ calls[i] \in Call
  BY <1>1 DEF Inv, LockInv, CallsInv, CallInv, At, Under, Early
<1>3. calls[i].cap \in Nat
  BY <1>2, Bounds DEF Call
<1>4. \E rc \in {0, -1}, data \in Data, buf \in Buf : Leaves(i, rc, data, buf)
  <2>1. CASE \E n \in Lens : LET data == Bytes(ver', n)
                             IN  IF calls[i].op = "exec"
                                 THEN Leaves(i, 0, data, CopyOut(data, calls[i].cap))
                                 ELSE LeavesAnyway(i, data)
    <3>1. PICK n \in Lens : LET data == Bytes(ver', n)
                            IN  IF calls[i].op = "exec"
                                THEN Leaves(i, 0, data, CopyOut(data, calls[i].cap))
                                ELSE LeavesAnyway(i, data)
      BY <2>1
    <3>2. PICK data : data = Bytes(ver', n)
      OBVIOUS
    <3>3. data \in Data
      BY <1>1, <1>2, <3>2, VerBound, Bounds, BytesType
    <3>4. \/ Leaves(i, 0, data, CopyOut(data, calls[i].cap))
          \/ Leaves(i, 0, data, FillBuf(data, calls[i].cap).buf)
      BY <3>1, <3>2 DEF LeavesAnyway
    <3>5. /\ CopyOut(data, calls[i].cap) \in Buf
          /\ FillBuf(data, calls[i].cap).buf \in Buf
      BY <1>3, <3>3, Bounds, CopyOutType, FillBufGives
    <3>. QED BY <3>3, <3>4, <3>5
  <2>2. CASE Fails(i)
    BY <2>2, Bounds, NoneType DEF Fails
  <2>. QED BY <2>1, <2>2 DEF Leave, Ended
<1>5. PICK rc \in {0, -1}, data \in Data, buf \in Buf : Leaves(i, rc, data, buf)
  BY <1>4
<1>6. PICK d : d = Left(calls[i], rc, data, buf)
  OBVIOUS
<1>7. Becomes(i, d) /\ d.at = "returned"
  BY <1>2, <1>5, <1>6 DEF Leaves, Left, Becomes, Call
<1>8. LockInv'
  <2>1. DOMAIN calls' = DOMAIN calls /\ DOMAIN calls \subseteq Isolates
    BY <1>7 DEF Becomes, Inv, LockInv
  <2>2. \A k \in Isolates : At(k, {"running", "waiting"}) => k = i
    BY <1>1 DEF Inv, LockInv
  <2>3. \A k \in Isolates : ~At(k, {"running", "waiting"})'
    BY <1>2, <1>7, <2>1, <2>2 DEF Becomes, At
  <2>4. lock' = {k \in Isolates : At(k, {"running", "waiting"})'}
    BY <1>1, <2>3
  <2>. QED BY <1>1, <2>1, <2>4 DEF LockInv
<1>9. calls[i].op \in Unchecked /\ calls[i].op \notin Starts
  BY <1>2 DEF Blocking, Unchecked, Starts
<1>10. RestOK
  BY <1>1 DEF Inv, ShapeInv, RestOK
<1>. QED BY <1>2, <1>5, <1>8, <1>9, <1>10, Finishes
-----------------------------------------------------------------------------
Started(c, n) == [c EXCEPT !.at = "returned", !.job = n]

LEMMA StartInv ==
  ASSUME Inv, NEW i, Start(i)
  PROVE  Inv'
<1>1. /\ At(i, {"queued"}) /\ calls[i].op \in Starts
      /\ Len(jobs) < MaxJobs /\ ver' = ver + 1
      /\ calls' = [calls EXCEPT ![i].at = "returned", ![i].job = Len(jobs')]
      /\ UNCHANGED <<closed, open, lock, perf, known, issued>>
  BY DEF Start, Enters
<1>2. PICK job : jobs' = Append(jobs, job) /\ job \in Job
  <2>1. PICK stage \in {"asks", "runs"}, n \in Lens :
          jobs' = Append(jobs, [stage |-> stage, out |-> Bytes(ver', n)])
    BY DEF Start
  <2>2. Bytes(ver', n) \in Data
    <3>1. i \in Under
      BY <1>1 DEF At, Under, Early
    <3>. QED BY <1>1, <3>1, VerBound, Bounds, BytesType
  <2>3. [stage |-> stage, out |-> Bytes(ver', n)] \in Job
    BY <2>2 DEF Job
  <2>. QED BY <2>1, <2>3
<1>3. /\ jobs' \in Seq(Job) /\ Len(jobs') = Len(jobs) + 1 /\ Len(jobs) \in Nat
      /\ Len(jobs') \in 0 .. MaxJobs
  BY <1>1, <1>2, Bounds DEF Inv, ShapeInv
<1>4. PICK c : c = calls[i]
  OBVIOUS
<1>5. PICK n : n = Len(jobs')
  OBVIOUS
<1>6. PICK d : d = Started(c, n)
  OBVIOUS
<1>7. Becomes(i, d)
  BY <1>1, <1>4, <1>5, <1>6 DEF Started, Becomes
<1>8. CallInv(c) /\ c \in Call /\ c.at = "queued" /\ i \in DOMAIN calls /\ i \in Under
  BY <1>1, <1>4 DEF Inv, CallsInv, CallInv, At, Under, Early
<1>9. /\ d \in Call /\ d.at = "returned" /\ d.op = c.op /\ d.job = n /\ d.rc = c.rc
      /\ d.cap = c.cap /\ d.host = c.host /\ d.buf = c.buf
  BY <1>3, <1>5, <1>6, <1>8 DEF Started, Call
<1>10. CallInv(d)
  <2>1. c.host = None /\ c.buf = NoBuf
    BY <1>8 DEF CallInv, Early
  <2>2. c.op \notin Whole \cup {"exec"}
    BY <1>1, <1>4 DEF Starts, Whole, Structs
  <2>3. c.cap \in Nat
    BY <1>8, Bounds DEF Call
  <2>4. Given(d.op, d.cap, d.buf) = d.host
    BY <1>9, <2>1, <2>2, <2>3, Bounds, NoneType DEF Given
  <2>. QED BY <1>9, <2>4 DEF CallInv, Early
<1>11. JobInv(d, Len(jobs'))
  BY <1>1, <1>3, <1>4, <1>5, <1>9 DEF JobInv, OnJob, Starts
<1>12. CallsInv'
  BY <1>3, <1>7, <1>8, <1>10, <1>11, OneCall DEF Inv
<1>13. CountInv' /\ ver' \in Nat
  <2>1. d.at \notin Early /\ ver \in Nat /\ issued \in Nat
    BY <1>9 DEF Early, Inv, ShapeInv
  <2>. QED BY <1>1, <1>7, <1>8, <2>1, LeavesUnder DEF Inv
<1>14. LockInv'
  BY <1>1, <1>4, <1>7, <1>8, <1>9, LockStays DEF Inv
<1>15. ShapeInv'
  BY <1>1, <1>3, <1>13 DEF Inv, ShapeInv
<1>. QED BY <1>12, <1>13, <1>14, <1>15 DEF Inv

ToldCaller(c, got) == [c EXCEPT !.at = "done", !.got = got]

LEMMA ReturnInv ==
  ASSUME Inv, NEW i, Return(i)
  PROVE  Inv'
<1>1. PICK c : c = calls[i]
  OBVIOUS
<1>2. PICK got : got = IF c.rc # 0 THEN None ELSE Given(c.op, c.cap, c.buf)
  OBVIOUS
<1>3. PICK d : d = ToldCaller(c, got)
  OBVIOUS
<1>4. /\ i \in DOMAIN calls /\ c.at = "returned"
      /\ UNCHANGED <<closed, open, lock, ver, perf, jobs, issued>>
  BY <1>1 DEF Return, At, guest
<1>5. Becomes(i, d)
  BY <1>1, <1>2, <1>3 DEF Return, Becomes, ToldCaller, Given
<1>6. CallInv(c) /\ c \in Call /\ JobInv(c, Len(jobs))
  BY <1>1, <1>4 DEF Inv, CallsInv, CallInv
<1>7. got \in Data
  <2>1. c.cap \in Nat /\ c.buf \in Buf
    BY <1>6, Bounds DEF Call, Buf
  <2>2. CopyFromAosBuf(c.buf, c.cap) \in Data /\ c.buf.val \in Data
    BY <2>1, Bounds, CopyFromAosBufType DEF Buf
  <2>. QED BY <1>2, <2>2, Bounds, NoneType DEF Given
<1>8. /\ d \in Call /\ d.at = "done" /\ d.op = c.op /\ d.job = c.job /\ d.rc = c.rc
      /\ d.cap = c.cap /\ d.host = c.host /\ d.buf = c.buf /\ d.got = got
  BY <1>3, <1>6, <1>7 DEF ToldCaller, Call
<1>9. CallInv(d)
  <2>1. c.rc = 0 /\ c.op \notin Unchecked => Given(c.op, c.cap, c.buf) = c.host
    BY <1>4, <1>6 DEF CallInv
  <2>2. d.rc = 0 /\ d.op \notin Unchecked => d.got = d.host
    BY <1>2, <1>8, <2>1
  <2>. QED BY <1>8, <2>2 DEF CallInv, Early
<1>10. JobInv(d, Len(jobs'))
  BY <1>4, <1>6, <1>8 DEF JobInv
<1>11. Len(jobs) \in Nat /\ Len(jobs') = Len(jobs)
  BY <1>4 DEF Inv, ShapeInv
<1>12. CallsInv'
  BY <1>4, <1>5, <1>9, <1>10, <1>11, OneCall DEF Inv
<1>13. CountInv'
  <2>1. d.at \notin Early /\ calls[i].at \notin Early
    BY <1>1, <1>4, <1>8 DEF Early
  <2>. QED BY <1>4, <1>5, <2>1, StaysUnder DEF Inv
<1>14. LockInv'
  BY <1>1, <1>4, <1>5, <1>8, LockStays DEF Inv
<1>15. known' \subseteq 1 .. Len(jobs)
  <2>1. known' = IF c.op \in Starts /\ c.rc = 0 THEN known \cup {c.job} ELSE known
    BY <1>1 DEF Return
  <2>2. c.op \in Starts /\ c.rc = 0 => c.job \in 1 .. Len(jobs)
    BY <1>4, <1>6 DEF JobInv
  <2>. QED BY <2>1, <2>2 DEF Inv, ShapeInv
<1>16. ShapeInv'
  BY <1>4, <1>15 DEF Inv, ShapeInv
<1>. QED BY <1>12, <1>13, <1>14, <1>16 DEF Inv
-----------------------------------------------------------------------------
LEMMA IssueInv ==
  ASSUME Inv, NEW i \in Isolates, NEW op \in Ops,
         NEW job \in 0 .. MaxJobs, NEW cap \in Caps, op \in OnJob => job \in 1 .. Len(jobs),
         Issue(i, op, job, cap)
  PROVE  Inv'
<1>1. PICK d : d = [op |-> op, job |-> job, cap |-> cap, at |-> "queued", rc |-> 0,
                    host |-> None, buf |-> NoBuf, got |-> None]
  OBVIOUS
<1>2. /\ i \notin DOMAIN calls \/ calls[i].at = "done"
      /\ issued < MaxCalls /\ issued' = issued + 1
      /\ calls' = [k \in DOMAIN calls \cup {i} |-> IF k = i THEN d ELSE calls[k]]
      /\ closed' \in BOOLEAN
      /\ UNCHANGED <<open, lock, ver, perf, jobs, known>>
  BY <1>1 DEF Issue, At, guest
<1>3. d.at = "queued" /\ d.op = op /\ d.job = job
  BY <1>1
<1>4. CallInv(d)
  <2>1. d \in Call
    BY <1>1, Bounds, NoneType DEF Call, Buf
  <2>2. d.rc = 0 /\ d.host = None /\ d.buf = NoBuf
    BY <1>1
  <2>. QED BY <1>3, <2>1, <2>2 DEF CallInv
<1>5. JobInv(d, Len(jobs))
  BY <1>3 DEF JobInv
<1>6. CallsInv'
  BY <1>2, <1>4, <1>5 DEF Inv, CallsInv
<1>7. LockInv'
  <2>1. \A k \in Isolates : At(k, {"running", "waiting"})' <=> At(k, {"running", "waiting"})
    BY <1>2, <1>3 DEF At
  <2>2. lock' = {k \in Isolates : At(k, {"running", "waiting"})'}
    BY <1>2, <2>1 DEF Inv, LockInv
  <2>3. \A k \in lock' : calls'[k] = calls[k]
    BY <1>2 DEF Inv, LockInv, At
  <2>. QED BY <1>2, <2>2, <2>3 DEF Inv, LockInv
<1>8. CountInv'
  <2>1. i \notin Under
    BY <1>2 DEF Under, Early
  <2>2. Under' = Under \cup {i}
    BY <1>2, <1>3 DEF Under, Early
  <2>3. IsFiniteSet(Under) /\ Cardinality(Under) \in Nat
    BY FS_CardinalityType DEF Inv, CountInv
  <2>4. IsFiniteSet(Under') /\ Cardinality(Under') = Cardinality(Under) + 1
    BY <2>1, <2>2, <2>3, FS_AddElement
  <2>5. ver \in Nat /\ issued \in Nat /\ ver + Cardinality(Under) <= issued
    BY DEF Inv, ShapeInv, CountInv
  <2>. QED BY <1>2, <2>3, <2>4, <2>5 DEF CountInv
<1>9. ShapeInv'
  BY <1>2, Bounds DEF Inv, ShapeInv
<1>. QED BY <1>6, <1>7, <1>8, <1>9 DEF Inv

\* The guest goes on with a job, by itself or because it was answered.
LEMMA GoesOnInv ==
  ASSUME Inv, NEW j, Tick(j) \/ Answer(j)
  PROVE  Inv'
<1>1. /\ j \in DOMAIN jobs
      /\ \E stage \in {"waits", "ended", "runs"} : jobs' = [jobs EXCEPT ![j].stage = stage]
      /\ UNCHANGED <<closed, open, lock, ver, perf, known, calls, issued>>
  BY DEF Tick, Answer
<1>2. jobs' \in Seq(Job) /\ Len(jobs') = Len(jobs)
  <2>1. j \in 1 .. Len(jobs)
    BY <1>1 DEF Inv, ShapeInv
  <2>. QED BY <1>1, <2>1, StageType
<1>3. ShapeInv'
  BY <1>1, <1>2 DEF Inv, ShapeInv
<1>4. LockInv' /\ CountInv'
  BY <1>1 DEF Inv, LockInv, CountInv, Under, At
<1>5. CallsInv'
  BY <1>1, <1>2 DEF Inv, CallsInv
<1>. QED BY <1>3, <1>4, <1>5 DEF Inv

LEMMA InvInit == Init => Inv
<1>. SUFFICES ASSUME Init PROVE Inv
  OBVIOUS
<1>1. /\ closed = FALSE /\ open = TRUE /\ lock = {} /\ ver = 0 /\ perf = "off"
      /\ jobs = <<>> /\ known = {} /\ DOMAIN calls = {} /\ issued = 0
  BY DEF Init
<1>2. Under = {}
  BY <1>1 DEF Under
<1>3. CountInv
  BY <1>1, <1>2, FS_EmptySet DEF CountInv
<1>4. ShapeInv
  <2>1. jobs \in Seq(Job) /\ Len(jobs) = 0 /\ MaxJobs \in Nat /\ MaxCalls \in Nat
    BY <1>1, Bounds
  <2>2. ver \in Nat /\ issued \in 0 .. MaxCalls /\ Len(jobs) <= MaxJobs
    BY <1>1, <2>1
  <2>3. closed \in BOOLEAN /\ open \in BOOLEAN
    BY <1>1
  <2>. QED BY <1>1, <2>1, <2>2, <2>3 DEF ShapeInv
<1>. QED BY <1>1, <1>3, <1>4 DEF Inv, LockInv, CallsInv, At

LEMMA InvStep == Inv /\ [Next]_vars => Inv'
<1>. SUFFICES ASSUME Inv, [Next]_vars PROVE Inv'
  OBVIOUS
<1>1. ASSUME NEW i \in Isolates, NEW cap \in Caps,
             \/ IssueCommand(i, cap) \/ IssueJob(i, cap) \/ IssueText(i, cap)
             \/ IssueFile(i, cap) \/ IssueIdentity(i, cap)
             \/ IssueCatalogOrPerf(i, cap) \/ IssueClose(i, cap)
      PROVE  Inv'
  <2>1. CASE IssueJob(i, cap)
    <3>1. known \subseteq 1 .. Len(jobs) /\ Len(jobs) <= MaxJobs /\ Len(jobs) \in Nat
      BY DEF Inv, ShapeInv
    <3>2. PICK op \in Ops, job \in {0} \cup known :
           /\ Issue(i, op, job, cap)
           /\ (op \notin OnJob /\ job = 0) \/ job \in known
      BY <2>1 DEF IssueJob, Starts, OnJob
    <3>3. job \in 0 .. MaxJobs /\ (op \in OnJob => job \in 1 .. Len(jobs))
      <4>1. MaxJobs \in Nat
        BY Bounds
      <4>2. CASE op \notin OnJob /\ job = 0
        BY <4>1, <4>2
      <4>3. CASE job \in known
        BY <3>1, <4>1, <4>3
      <4>. QED BY <3>2, <4>2, <4>3
    <3>. QED BY <1>1, <3>2, <3>3, IssueInv
  <2>2. CASE ~IssueJob(i, cap)
    <3>1. PICK op \in Ops : Issue(i, op, 0, cap) /\ op \notin OnJob
      BY <1>1, <2>2 DEF IssueCommand, IssueText, IssueFile, IssueIdentity,
         IssueCatalogOrPerf, IssueClose, Blocking, OnJob, Texts,
         Queries, Changes, Structs, Whole, Perf
    <3>2. 0 \in 0 .. MaxJobs
      BY Bounds
    <3>. QED BY <1>1, <3>1, <3>2, IssueInv
  <2>. QED BY <2>1, <2>2
<1>2. ASSUME NEW i \in Isolates, Library(i) \/ Return(i)
      PROVE  Inv'
  BY <1>2, RefuseInv, EnterInv, LeaveInv, StartInv, ExecPollInv, ExecStdoutPeekInv,
     ExecCancelInv, QueryInv, ChangeInv, SnapshotInv, SvcCallOrCommitLayerInv,
     InjectCatalogInv, TakeCommandPerfInv, SetPerfInv, CloseInv, ReturnInv DEF Library
<1>3. ASSUME NEW j \in 1 .. MaxJobs, Tick(j) \/ Answer(j)
      PROVE  Inv'
  BY <1>3, GoesOnInv
<1>4. CASE UNCHANGED vars
  BY <1>4 DEF vars, guest, Inv, ShapeInv, LockInv, CountInv, Under,
     CallsInv, At
<1>. QED BY <1>1, <1>2, <1>3, <1>4 DEF Next

LEMMA InvHolds == Spec => []Inv
<1>1. Init => Inv
  BY InvInit
<1>2. Inv /\ [Next]_vars => Inv'
  BY InvStep
<1>. QED BY <1>1, <1>2, PTL DEF Spec

\* Every call, job and buffer is well-typed, and one call at most holds the
\* table's lock: the version of the guest stays within the calls made, and a
\* job's number, once given to the application, is that of a job.
THEOREM TypeCorrect == Spec => []TypeOK
<1>1. Inv => TypeOK
  <2>. SUFFICES ASSUME Inv PROVE TypeOK
    OBVIOUS
  <2>1. ver \in 0 .. MaxCalls
    BY VerBound
  <2>2. DOMAIN jobs = 1 .. Len(jobs)
    BY DEF Inv, ShapeInv
  <2>3. \A i \in DOMAIN calls : calls[i] \in Call
    BY DEF Inv, CallsInv, CallInv
  <2>. QED BY <2>1, <2>2, <2>3 DEF Inv, ShapeInv, LockInv, TypeOK
<1>. QED BY <1>1, InvHolds, PTL

\* A call whose function passes fill_buf's answer on gives its caller all that
\* the guest answered, or throws, whatever the buffer's capacity (buf.rs:19-22).
THEOREM WholeIfCheckedCorrect == Spec => []WholeIfChecked
<1>1. Inv => WholeIfChecked
  BY DEF Inv, CallsInv, CallInv, WholeIfChecked
<1>. QED BY <1>1, InvHolds, PTL
===============================================================================
