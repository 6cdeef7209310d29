------------------------- MODULE ProductSessionProofs -------------------------
(***************************************************************************)
(* TLAPS proofs about ProductSession and, in the second half, about the    *)
(* image cache that a session owns, for every value of their constants.    *)
(***************************************************************************)
EXTENDS ProductSession, ImageCache, TLAPS

-----------------------------------------------------------------------------
(***************************************************************************)
(* The inductive invariant.  Its parts name what the awaits rely on: the   *)
(* hosts that are open are the two the session points to and the terminals *)
(* a failed start() dropped, which nothing else names; a start() that      *)
(* is in disposeAsync has closed the session; a tick works with the hosts  *)
(* of the session unless a 500 ms wait was cut short.                      *)
(***************************************************************************)
HostsInv ==
  /\ {vt, vm} \subseteq {0, gen}
  /\ open_vt = ({vt} \ {0}) \cup stray
  /\ stray \subseteq (1 .. gen) \ {vt}
  /\ open_vm = {vm} \ {0}

StartInv ==
  /\ start \in {"drain", "resume"} => gen < MaxGen /\ closed /\ pending = {}
  /\ start \in {"images", "boot", "paint"} => gen # 0

TickInv ==
  /\ tick.at # "idle" => tick.vt \in (1 .. gen) \ stray /\ tick.vm \in 1 .. gen
  /\ start = "drain" \/ waiter = "waiting" => tick.at # "idle"
  /\ tick.at # "idle" /\ ~late => tick.vt = vt /\ tick.vm = vm
  /\ (start = "resume" \/ waiter = "due") /\ ~late => tick.at = "idle"

InputInv ==
  /\ pending \subseteq {gen} \ {0}
  /\ tick.taken \subseteq {tick.vm}

CompressInv ==
  /\ compress.idle \in {0, vt}
  /\ waiter # "none" => ~mounted /\ compress.idle = 0
  /\ waiter = "waiting" => compress.closed \/ tick.vt # vt

IInv == /\ TypeOK /\ HostsInv /\ StartInv /\ TickInv /\ InputInv /\ CompressInv
        /\ StateOfThisSession /\ InputReachesItsGuest

\* What a dispose leaves, if start() is not interrupted by one.
GoneInv ==
  ~DisposeAnyTime =>
    /\ released => ~mounted /\ vt = 0 /\ vm = 0
    /\ ~mounted => start = "idle" /\ ~loop
    /\ ~mounted /\ waiter = "none" => vt = 0 /\ vm = 0
-----------------------------------------------------------------------------
(* What the steps of a tick have in common. *)

TickGoesOn == TickEnd \/ \E at \in TickAt \ {"idle"} : TickGoesTo(at)

ArmsCompress ==
  /\ ~compress.closed /\ tick.vt \in open_vt
  /\ compress' = [compress EXCEPT !.idle = tick.vt]

TickStep ==
  /\ Quiet /\ tick.at # "idle"
  /\ TickUnchanged
  /\ TickGoesOn
  /\ loop' \in {loop, FALSE}
  /\ received' \in {received, received \cup ({tick.vm} \X tick.taken)}
  /\ shell_ready' \in {shell_ready, tick.vm}
  /\ at_prompt' \in {at_prompt, 0, tick.vm}
  /\ ready_ticks' \in 0 .. ReadyTicks
  /\ compress' = compress \/ ArmsCompress

LEMMA ChromeAndPaintGoesOn == ChromeAndPaint => TickGoesOn
BY DEF ChromeAndPaint, TickGoesOn, TickAt

LEMMA AfterOutputDoes ==
  ASSUME TypeOK, NEW prompt, AfterOutput(prompt)
  PROVE  /\ TickGoesOn
         /\ ready_ticks' \in 0 .. ReadyTicks
         /\ shell_ready' \in {shell_ready, tick.vm}
<1>1. TickGoesOn
  BY ChromeAndPaintGoesOn DEF AfterOutput, TickGoesOn, TickAt
<1>2. ready_ticks' \in 0 .. ReadyTicks /\ shell_ready' \in {shell_ready, tick.vm}
  BY SessionAssumption DEF AfterOutput, TypeOK
<1> QED BY <1>1, <1>2

\* Whatever a tick awaits and however that ends, it does no more than this.
LEMMA TickAwaitDoes == ASSUME TypeOK, TickAwait PROVE TickStep
<1> USE DEF TickStep
<1>0. ready_ticks \in 0 .. ReadyTicks
  BY DEF TypeOK
<1>1. ASSUME NEW ok \in BOOLEAN, TickSent(ok) PROVE TickStep
  BY <1>0, <1>1 DEF TickSent, TickGoesOn, TickAt
<1>2. ASSUME NEW result \in {"running", "exited", "error"}, TickTicked(result)
      PROVE  TickStep
  <2>1. /\ TickGoesOn
        /\ ready_ticks' \in 0 .. ReadyTicks /\ shell_ready' \in {shell_ready, tick.vm}
    <3>1. CASE result = "error" \/ closed
      BY <1>0, <1>2, <3>1 DEF TickTicked, TickGoesOn
    <3>2. CASE ~(result = "error" \/ closed) /\ tick.vm \in open_vm
      BY <1>0, <1>2, <3>2 DEF TickTicked, TickGoesOn, TickAt
    <3>3. CASE ~(result = "error" \/ closed) /\ tick.vm \notin open_vm
      BY <1>2, <3>3, AfterOutputDoes DEF TickTicked
    <3> QED BY <3>1, <3>2, <3>3
  <2>2. loop' \in {loop, FALSE}
    BY <1>2 DEF TickTicked, TypeOK
  <2> QED BY <1>2, <2>1, <2>2 DEF TickTicked
<1>3. ASSUME NEW ok \in BOOLEAN, NEW prompt \in BOOLEAN, TickStatus(ok, prompt)
      PROVE  TickStep
  <2>1. /\ TickGoesOn
        /\ ready_ticks' \in 0 .. ReadyTicks /\ shell_ready' \in {shell_ready, tick.vm}
    <3>1. CASE closed
      BY <1>0, <1>3, <3>1 DEF TickStatus, TickGoesOn
    <3>2. CASE ~closed /\ tick.vm \in open_vm
      BY <1>0, <1>3, <3>2 DEF TickStatus, TickGoesOn, TickAt
    <3>3. CASE ~closed /\ tick.vm \notin open_vm
      BY <1>3, <3>3, AfterOutputDoes DEF TickStatus
    <3> QED BY <3>1, <3>2, <3>3
  <2> QED BY <1>3, <2>1 DEF TickStatus
<1>4. ASSUME TickOutput PROVE TickStep
  <2>1. /\ TickGoesOn
        /\ ready_ticks' \in 0 .. ReadyTicks /\ shell_ready' \in {shell_ready, tick.vm}
    <3>1. CASE closed
      BY <1>0, <1>4, <3>1 DEF TickOutput, TickGoesOn
    <3>2. CASE ~closed
      BY <1>4, <3>2, AfterOutputDoes DEF TickOutput
    <3> QED BY <3>1, <3>2
  <2>2. compress' = compress \/ ArmsCompress
    BY <1>4 DEF TickOutput, OnWrite, ArmsCompress
  <2> QED BY <1>4, <2>1, <2>2 DEF TickOutput
<1>5. ASSUME TickPty PROVE TickStep
  <2>1. TickGoesOn
    BY <1>5, ChromeAndPaintGoesOn DEF TickPty, TickGoesOn
  <2> QED BY <1>0, <1>5, <2>1 DEF TickPty
<1>6. ASSUME TickClip PROVE TickStep
  BY <1>0, <1>6 DEF TickClip, TickGoesOn, TickAt
<1>7. ASSUME TickImages PROVE TickStep
  BY <1>0, <1>7 DEF TickImages, TickGoesOn
<1> QED BY <1>1, <1>2, <1>3, <1>4, <1>5, <1>6, <1>7 DEF TickAwait
-----------------------------------------------------------------------------
(* The steps preserve the invariant. *)

LEMMA InitInv == Init => IInv
<1> SUFFICES ASSUME Init PROVE IInv
  OBVIOUS
<1> USE SessionAssumption DEF Init, NoTick
<1>1. TypeOK
  <2>1. {mounted, closed, released, loop} \subseteq BOOLEAN /\ late \in BOOLEAN
    BY Zenon
  <2>2. /\ compress \in [closed : BOOLEAN, idle : 0 .. MaxGen]
        /\ tick \in [at : TickAt, vt : 0 .. MaxGen, vm : 0 .. MaxGen, taken : SUBSET Gens]
    BY DEF TickAt
  <2>3. /\ {vt, vm, shell_ready, at_prompt} \subseteq 0 .. MaxGen
        /\ start \in StartAt /\ ready_ticks \in 0 .. ReadyTicks
    BY DEF StartAt
  <2> QED BY <2>1, <2>2, <2>3 DEF TypeOK
<1>2. HostsInv /\ StartInv /\ StateOfThisSession
  BY DEF HostsInv, StartInv, StateOfThisSession
<1>3. TickInv
  BY DEF TickInv
<1>4. InputInv /\ InputReachesItsGuest
  BY DEF InputInv, InputReachesItsGuest
<1>5. CompressInv
  BY DEF CompressInv
<1> QED BY <1>1, <1>2, <1>3, <1>4, <1>5 DEF IInv

\* A step of a tick changes neither the hosts nor what is queued.
LEMMA TickStepInv == ASSUME IInv, TickStep PROVE IInv'
<1> USE SessionAssumption
<1>1. /\ TypeOK /\ HostsInv /\ StartInv /\ TickInv /\ InputInv /\ CompressInv
      /\ StateOfThisSession /\ InputReachesItsGuest
  BY DEF IInv
<1>2. /\ UNCHANGED <<late, gen, mounted, closed, released, vt, vm, open_vt, open_vm, stray,
                  closing, pending>>
      /\ start # "resume" /\ waiter # "due" /\ tick.at # "idle"
      /\ tick.vt \in (1 .. gen) \ stray /\ tick.vm \in 1 .. gen /\ gen \in 0 .. MaxGen
  BY <1>1 DEF TickStep, TickUnchanged, TickInv, TypeOK, Quiet
<1>3. \/ TickEnd
      \/ /\ tick'.at \in TickAt \ {"idle"} /\ tick'.vt = tick.vt /\ tick'.vm = tick.vm
         /\ tick'.taken = tick.taken
         /\ tick' = [tick EXCEPT !.at = tick'.at]
         /\ start' = start /\ waiter' = waiter
  <2>1. ASSUME NEW at \in TickAt \ {"idle"}, TickGoesTo(at)
        PROVE  /\ tick'.at = at /\ tick'.vt = tick.vt /\ tick'.vm = tick.vm
               /\ tick'.taken = tick.taken
               /\ tick' = [tick EXCEPT !.at = tick'.at]
               /\ start' = start /\ waiter' = waiter
    BY <1>1, <2>1 DEF TickGoesTo, TypeOK
  <2> QED BY <2>1 DEF TickStep, TickGoesOn
<1>4. TypeOK'
  <2>1. received' \subseteq Gens \X Gens
    BY <1>1, <1>2 DEF TickStep, TypeOK, Gens
  <2>2. {shell_ready', at_prompt'} \subseteq 0 .. MaxGen
    BY <1>1, <1>2 DEF TickStep, TypeOK
  <2>3. loop' \in BOOLEAN
    <3>1. loop \in BOOLEAN
      BY <1>1 DEF TypeOK
    <3> QED BY <3>1, Zenon DEF TickStep
  <2>4. compress' \in [closed : BOOLEAN, idle : 0 .. MaxGen]
    BY <1>1, <1>2 DEF TickStep, ArmsCompress, TypeOK
  <2>5. start' \in StartAt /\ waiter' \in {"none", "waiting", "due"}
    BY <1>1, <1>3 DEF TypeOK, StartAt, TickEnd
  <2>6. tick' \in [at : TickAt, vt : 0 .. MaxGen, vm : 0 .. MaxGen, taken : SUBSET Gens]
    BY <1>1, <1>3 DEF TypeOK, TickEnd, NoTick, TickAt, Gens
  <2>7. ready_ticks' \in 0 .. ReadyTicks
    BY DEF TickStep
  <2> QED BY <1>1, <1>2, <2>1, <2>2, <2>3, <2>4, <2>5, <2>6, <2>7 DEF TypeOK
<1>5. HostsInv' /\ StartInv'
  BY <1>1, <1>2, <1>3 DEF HostsInv, StartInv, TickEnd
<1>6. TickInv'
  BY <1>1, <1>2, <1>3 DEF TickInv, TickEnd, NoTick
<1>7. InputInv'
  BY <1>1, <1>2, <1>3 DEF InputInv, TickEnd, NoTick
<1>8. CompressInv'
  <2>1. compress'.idle \in {0, vt} /\ compress'.closed = compress.closed
    BY <1>1, <1>2 DEF TickStep, ArmsCompress, CompressInv, HostsInv, TypeOK
  <2>2. compress.closed \/ tick.vt # vt => compress' = compress
    BY <1>1, <1>2 DEF TickStep, ArmsCompress, HostsInv
  <2>3. CASE waiter = "none"
    <3>1. waiter' = "none"
      BY <1>3, <2>3 DEF TickEnd
    <3> QED BY <1>2, <2>1, <3>1 DEF CompressInv
  <2>4. CASE waiter = "waiting"
    <3>1. compress' = compress /\ compress.idle = 0 /\ ~mounted
      BY <1>1, <2>2, <2>4 DEF CompressInv
    <3>2. waiter' = "waiting" => tick'.vt = tick.vt
      BY <1>3, <2>4 DEF TickEnd
    <3> QED BY <1>1, <1>2, <2>4, <3>1, <3>2 DEF CompressInv
  <2> QED BY <1>1, <1>2, <2>3, <2>4 DEF TypeOK
<1>9. StateOfThisSession'
  BY <1>1, <1>2 DEF TickStep, StateOfThisSession, TickInv, HostsInv
<1>10. InputReachesItsGuest'
  BY <1>1 DEF TickStep, InputReachesItsGuest, InputInv
<1> QED BY <1>4, <1>5, <1>6, <1>7, <1>8, <1>9, <1>10 DEF IInv

\* A restart: from the call of start() to its live loop.
LEMMA StartingInv ==
  ASSUME IInv, Starting \/ StartGraceExpires PROVE IInv'
<1> USE SessionAssumption
<1>0. /\ TypeOK /\ HostsInv /\ StartInv /\ TickInv /\ InputInv /\ CompressInv
      /\ StateOfThisSession /\ InputReachesItsGuest
  BY DEF IInv
<1>1. ASSUME StartCall PROVE IInv'
  <2>1. TypeOK'
    <3>1. {mounted', closed', released', loop'} \subseteq BOOLEAN /\ late' \in BOOLEAN
      BY <1>0, <1>1, Zenon DEF StartCall, CompressDispose, TypeOK
    <3>2. compress' \in [closed : BOOLEAN, idle : 0 .. MaxGen]
      BY <1>0, <1>1 DEF StartCall, CompressDispose, TypeOK
    <3> QED BY <1>0, <1>1, <3>1, <3>2
            DEF StartCall, CompressDispose, TypeOK, HostsInv, StartInv, TickInv, StartAt,
                TickAt, Gens
  <2>2. HostsInv'
    BY <1>0, <1>1 DEF StartCall, CompressDispose, TypeOK, HostsInv, StartInv
  <2>3. StartInv'
    BY <1>0, <1>1 DEF StartCall, CompressDispose, TypeOK, StartInv
  <2>4. TickInv'
    BY <1>0, <1>1 DEF StartCall, CompressDispose, TypeOK, HostsInv, StartInv, TickInv
  <2>5. InputInv'
    BY <1>0, <1>1 DEF StartCall, CompressDispose, TypeOK, HostsInv, StartInv, InputInv
  <2>6. CompressInv'
    BY <1>0, <1>1 DEF StartCall, CompressDispose, TypeOK, HostsInv, StartInv, TickInv,
                      CompressInv
  <2>7. StateOfThisSession'
    BY <1>0, <1>1 DEF StartCall, CompressDispose, StateOfThisSession
  <2>8. InputReachesItsGuest'
    BY <1>0, <1>1 DEF StartCall, CompressDispose, InputReachesItsGuest
  <2> QED BY <2>1, <2>2, <2>3, <2>4, <2>5, <2>6, <2>7, <2>8 DEF IInv
<1>2. ASSUME NEW opened \in Opened, StartResume(opened) PROVE IInv'
  <2>1. TypeOK'
    <3>1. {mounted', closed', released', loop'} \subseteq BOOLEAN /\ late' \in BOOLEAN
      BY <1>0, <1>2, Zenon DEF StartResume, TypeOK
    <3>2. compress' \in [closed : BOOLEAN, idle : 0 .. MaxGen]
      BY <1>0, <1>2 DEF StartResume, TypeOK
    <3> QED BY <1>0, <1>2, <3>1, <3>2
            DEF StartResume, TypeOK, HostsInv, StartInv, TickInv, StartAt,
                TickAt, Gens
  <2>2. HostsInv'
    <3>1. vt' \in {0, gen'} /\ vm' = 0 /\ open_vm' = {} /\ gen \in Nat /\ gen' = gen + 1
      BY <1>0, <1>2 DEF StartResume, TypeOK, HostsInv
    <3>2. open_vt \ {vt} = stray
      BY <1>0 DEF HostsInv
    <3>3. stray' \subseteq (1 .. gen') \ {vt'}
      BY <1>0, <1>2, <3>1 DEF StartResume, HostsInv
    <3>4. open_vt' = ({vt'} \ {0}) \cup stray'
      BY <1>2, <3>1, <3>2 DEF StartResume, Opened
    <3> QED BY <3>1, <3>3, <3>4 DEF HostsInv
  <2>3. StartInv'
    BY <1>0, <1>2 DEF StartResume, TypeOK, StartInv
  <2>4. TickInv'
    BY <1>0, <1>2 DEF StartResume, TypeOK, HostsInv, StartInv, TickInv
  <2>5. InputInv'
    BY <1>0, <1>2 DEF StartResume, TypeOK, HostsInv, StartInv, InputInv
  <2>6. CompressInv'
    BY <1>0, <1>2 DEF StartResume, TypeOK, HostsInv, StartInv, TickInv, CompressInv
  <2>7. StateOfThisSession'
    BY <1>0, <1>2 DEF StartResume, StateOfThisSession
  <2>8. InputReachesItsGuest'
    BY <1>0, <1>2 DEF StartResume, InputReachesItsGuest
  <2> QED BY <2>1, <2>2, <2>3, <2>4, <2>5, <2>6, <2>7, <2>8 DEF IInv
<1>3. ASSUME StartBoot PROVE IInv'
  BY <1>0, <1>3
  DEF StartBoot, IInv, TypeOK, HostsInv, StartInv, TickInv,
      InputInv, CompressInv, StateOfThisSession, InputReachesItsGuest,
      StartAt, TickAt, Gens, Quiet
<1>4. ASSUME NEW ok \in BOOLEAN, StartBooted(ok) PROVE IInv'
  BY <1>0, <1>4
  DEF StartBooted, IInv, TypeOK, HostsInv, StartInv, TickInv,
      InputInv, CompressInv, StateOfThisSession, InputReachesItsGuest,
      StartAt, TickAt, Gens, Quiet
<1>5. ASSUME StartLoop PROVE IInv'
  BY <1>0, <1>5
  DEF StartLoop, IInv, TypeOK, HostsInv, StartInv, TickInv,
      InputInv, CompressInv, StateOfThisSession, InputReachesItsGuest,
      StartAt, TickAt, Gens, Quiet
<1>6. ASSUME StartGraceExpires PROVE IInv'
  BY <1>0, <1>6
  DEF StartGraceExpires, IInv, TypeOK, HostsInv, StartInv, TickInv,
      InputInv, CompressInv, StateOfThisSession, InputReachesItsGuest,
      StartAt, TickAt, Gens, Quiet
<1> QED BY <1>1, <1>2, <1>3, <1>4, <1>5, <1>6 DEF Starting

\* A release closes the terminal and drops the VM, and no stray terminal.
LEMMA ReleaseKeepsHosts ==
  ASSUME HostsInv, ReleaseNative, gen' = gen, gen \in Nat PROVE HostsInv'
<1>1. CASE released
  BY <1>1 DEF ReleaseNative, HostsInv
<1>2. CASE ~released
  <2>1. open_vt \ {vt} = stray
    BY DEF HostsInv
  <2>2. open_vt' = stray /\ open_vm' = {} /\ stray' = stray /\ vt' = 0 /\ vm' = 0
    BY <1>2, <2>1 DEF ReleaseNative, HostsInv
  <2> QED BY <2>2 DEF HostsInv
<1> QED BY <1>1, <1>2

\* The widget goes away, at once or when the tick in flight has ended.
LEMMA DisposingInv ==
  ASSUME IInv, Dispose \/ DisposeGraceExpires \/ DeferredRelease PROVE IInv'
<1> USE SessionAssumption
<1>0. /\ TypeOK /\ HostsInv /\ StartInv /\ TickInv /\ InputInv /\ CompressInv
      /\ StateOfThisSession /\ InputReachesItsGuest
  BY DEF IInv
<1>1. ASSUME Dispose PROVE IInv'
  <2>1. TypeOK'
    <3>1. {mounted', closed', released', loop'} \subseteq BOOLEAN /\ late' \in BOOLEAN
      BY <1>0, <1>1, Zenon DEF Dispose, CompressDispose, ReleaseNative, Quiet, TypeOK
    <3>2. compress' \in [closed : BOOLEAN, idle : 0 .. MaxGen]
      BY <1>0, <1>1 DEF Dispose, CompressDispose, ReleaseNative, Quiet, TypeOK
    <3> QED BY <1>0, <1>1, <3>1, <3>2
            DEF Dispose, CompressDispose, ReleaseNative, Quiet, TypeOK, HostsInv, StartInv,
                TickInv, StartAt,
                TickAt, Gens
  <2>2. HostsInv'
    <3>1. gen' = gen /\ gen \in Nat
      BY <1>0, <1>1 DEF Dispose, TypeOK
    <3>2. CASE tick.at = "idle"
      BY <1>0, <1>1, <3>1, <3>2, ReleaseKeepsHosts DEF Dispose
    <3>3. CASE tick.at # "idle"
      BY <1>0, <1>1, <3>1, <3>3 DEF Dispose, HostsInv
    <3> QED BY <3>2, <3>3
  <2>3. StartInv'
    BY <1>0, <1>1 DEF Dispose, CompressDispose, ReleaseNative, Quiet, TypeOK, StartInv
  <2>4. TickInv'
    BY <1>0, <1>1 DEF Dispose, CompressDispose, ReleaseNative, Quiet, TypeOK, HostsInv,
                      StartInv, TickInv
  <2>5. InputInv'
    BY <1>0, <1>1 DEF Dispose, CompressDispose, ReleaseNative, Quiet, TypeOK, HostsInv,
                      StartInv, InputInv
  <2>6. CompressInv'
    BY <1>0, <1>1 DEF Dispose, CompressDispose, ReleaseNative, Quiet, TypeOK, HostsInv,
                      StartInv, TickInv, CompressInv
  <2>7. StateOfThisSession'
    BY <1>0, <1>1 DEF Dispose, CompressDispose, ReleaseNative, Quiet, StateOfThisSession
  <2>8. InputReachesItsGuest'
    BY <1>0, <1>1 DEF Dispose, CompressDispose, ReleaseNative, Quiet, InputReachesItsGuest
  <2> QED BY <2>1, <2>2, <2>3, <2>4, <2>5, <2>6, <2>7, <2>8 DEF IInv
<1>2. ASSUME DisposeGraceExpires PROVE IInv'
  BY <1>0, <1>2
  DEF DisposeGraceExpires, IInv, TypeOK, HostsInv, StartInv, TickInv,
      InputInv, CompressInv, StateOfThisSession, InputReachesItsGuest,
      StartAt, TickAt, Gens, Quiet
<1>3. ASSUME DeferredRelease PROVE IInv'
  <2>1. TypeOK'
    <3>1. {mounted', closed', released', loop'} \subseteq BOOLEAN /\ late' \in BOOLEAN
      BY <1>0, <1>3, Zenon DEF DeferredRelease, ReleaseNative, TypeOK
    <3>2. compress' \in [closed : BOOLEAN, idle : 0 .. MaxGen]
      BY <1>0, <1>3 DEF DeferredRelease, ReleaseNative, TypeOK
    <3> QED BY <1>0, <1>3, <3>1, <3>2
            DEF DeferredRelease, ReleaseNative, TypeOK, HostsInv, StartInv, TickInv, StartAt,
                TickAt, Gens
  <2>2. HostsInv'
    BY <1>0, <1>3, ReleaseKeepsHosts DEF DeferredRelease, TypeOK
  <2>3. StartInv'
    BY <1>0, <1>3 DEF DeferredRelease, ReleaseNative, TypeOK, StartInv
  <2>4. TickInv'
    BY <1>0, <1>3 DEF DeferredRelease, ReleaseNative, TypeOK, HostsInv, StartInv, TickInv
  <2>5. InputInv'
    BY <1>0, <1>3 DEF DeferredRelease, ReleaseNative, TypeOK, HostsInv, StartInv, InputInv
  <2>6. CompressInv'
    BY <1>0, <1>3 DEF DeferredRelease, ReleaseNative, TypeOK, HostsInv, StartInv, TickInv,
                      CompressInv
  <2>7. StateOfThisSession'
    BY <1>0, <1>3 DEF DeferredRelease, ReleaseNative, StateOfThisSession
  <2>8. InputReachesItsGuest'
    BY <1>0, <1>3 DEF DeferredRelease, ReleaseNative, InputReachesItsGuest
  <2> QED BY <2>1, <2>2, <2>3, <2>4, <2>5, <2>6, <2>7, <2>8 DEF IInv
<1> QED BY <1>1, <1>2, <1>3

\* What the timers and the widgets call.
LEMMA WidgetInv ==
  ASSUME IInv, TickOnce \/ EnqueueInput \/ NewTerminalSurface \/ CompressStep PROVE IInv'
<1> USE SessionAssumption
<1>0. /\ TypeOK /\ HostsInv /\ StartInv /\ TickInv /\ InputInv /\ CompressInv
      /\ StateOfThisSession /\ InputReachesItsGuest
  BY DEF IInv
<1>1. ASSUME TickOnce PROVE IInv'
  <2>1. TypeOK'
    BY <1>0, <1>1 DEF TickOnce, TypeOK, InputInv, TickAt, Gens
  <2>2. HostsInv' /\ StartInv' /\ StateOfThisSession'
    BY <1>0, <1>1 DEF TickOnce, HostsInv, StartInv, StateOfThisSession
  <2>3. TickInv'
    BY <1>0, <1>1 DEF TickOnce, TypeOK, HostsInv, TickInv, Quiet
  <2>4. InputInv' /\ InputReachesItsGuest'
    BY <1>0, <1>1 DEF TickOnce, HostsInv, InputInv, InputReachesItsGuest
  <2>5. CompressInv'
    BY <1>0, <1>1 DEF TickOnce, TickInv, CompressInv, Quiet
  <2> QED BY <2>1, <2>2, <2>3, <2>4, <2>5 DEF IInv
<1>2. ASSUME EnqueueInput PROVE IInv'
  <2>1. TypeOK'
    <3>1. vm \in 1 .. MaxGen /\ pending \subseteq 1 .. MaxGen
      <4>1. vm \in 0 .. MaxGen /\ pending \subseteq 1 .. MaxGen
        BY <1>0 DEF TypeOK, Gens
      <4> QED BY <1>2, <4>1 DEF EnqueueInput
    <3>2. pending' = pending \cup {vm}
      BY <1>2 DEF EnqueueInput
    <3>3. pending' \subseteq Gens
      BY <3>1, <3>2 DEF Gens
    <3> QED BY <1>0, <1>2, <3>3 DEF EnqueueInput, TypeOK
  <2>2. HostsInv' /\ StartInv' /\ StateOfThisSession'
    BY <1>0, <1>2 DEF EnqueueInput, HostsInv, StartInv, StateOfThisSession
  <2>3. TickInv' /\ CompressInv'
    BY <1>0, <1>2 DEF EnqueueInput, TickInv, CompressInv
  <2>4. InputInv' /\ InputReachesItsGuest'
    BY <1>0, <1>2 DEF EnqueueInput, HostsInv, InputInv, InputReachesItsGuest
  <2> QED BY <2>1, <2>2, <2>3, <2>4 DEF IInv
<1>3. ASSUME NewTerminalSurface PROVE IInv'
  BY <1>0, <1>3
  DEF NewTerminalSurface, OnWrite, IInv, TypeOK, HostsInv, StartInv, TickInv,
      InputInv, CompressInv, StateOfThisSession, InputReachesItsGuest,
      StartAt, TickAt, Gens, Quiet
<1>4. ASSUME CompressStep PROVE IInv'
  BY <1>0, <1>4
  DEF CompressStep, IInv, TypeOK, HostsInv, StartInv, TickInv,
      InputInv, CompressInv, StateOfThisSession, InputReachesItsGuest,
      StartAt, TickAt, Gens, Quiet
<1> QED BY <1>1, <1>2, <1>3, <1>4

\* No field of the session changes when a VM is gone at last.
LEMMA VmClosedInv == ASSUME IInv, NEW v \in Gens, VmClosed(v) PROVE IInv'
<1>1. /\ UNCHANGED <<late, gen, mounted, closed, released, vt, vm, open_vt, open_vm,
                     stray, loop, start, tick, waiter, pending, received,
                     shell_ready, at_prompt, ready_ticks, compress>>
      /\ closing' \subseteq closing
  BY DEF VmClosed
<1>2. TypeOK'
  BY <1>1 DEF IInv, TypeOK
<1>3. /\ HostsInv' /\ StartInv' /\ TickInv' /\ InputInv' /\ CompressInv'
      /\ StateOfThisSession' /\ InputReachesItsGuest'
  BY <1>1 DEF IInv, HostsInv, StartInv, TickInv, InputInv, CompressInv,
              StateOfThisSession, InputReachesItsGuest
<1> QED BY <1>2, <1>3 DEF IInv

LEMMA StepInv == IInv /\ [Next]_vars => IInv'
<1>1. ASSUME IInv, UNCHANGED vars PROVE IInv'
  BY <1>1 DEF vars, IInv, TypeOK, HostsInv, StartInv, TickInv, InputInv,
              CompressInv, StateOfThisSession, InputReachesItsGuest
<1>2. IInv /\ TickAwait => IInv'
  BY TickAwaitDoes, TickStepInv DEF IInv
<1> QED BY <1>1, <1>2, StartingInv, DisposingInv, WidgetInv, VmClosedInv DEF Next

LEMMA Invariant == Spec => []IInv
BY InitInv, StepInv, PTL DEF Spec
-----------------------------------------------------------------------------
\* Every host is that of a start() that was called.
THEOREM TypeCorrect == Spec => []TypeOK
<1>1. IInv => TypeOK
  BY DEF IInv
<1> QED BY Invariant, <1>1, PTL

\* disposeAsync and dispose close no host under a tick, however often the
\* session is restarted, unless a wait was cut short after 500 ms.
THEOREM TickHasItsHostsCorrect == Spec => []TickHasItsHosts
<1>1. IInv => TickHasItsHosts
  BY DEF IInv, TypeOK, HostsInv, TickInv, TickHasItsHosts
<1> QED BY Invariant, <1>1, PTL

\* After a restart no tick of the session before reports into the new one.
THEOREM StateOfThisSessionCorrect == Spec => []StateOfThisSession
<1>1. IInv => StateOfThisSession
  BY DEF IInv
<1> QED BY Invariant, <1>1, PTL

\* Queued input is sent to the guest it was typed for or to none, whichever
\* waits are cut short and whenever the widget is disposed.
THEOREM InputReachesItsGuestCorrect == Spec => []InputReachesItsGuest
<1>1. IInv => InputReachesItsGuest
  BY DEF IInv
<1> QED BY Invariant, <1>1, PTL

\* The pointer of the compression timer is never one to a freed terminal.
THEOREM CompressOnOpenTerminalCorrect == Spec => []CompressOnOpenTerminal
<1>1. IInv => CompressOnOpenTerminal
  BY DEF IInv, HostsInv, CompressInv, CompressOnOpenTerminal
<1> QED BY Invariant, <1>1, PTL
-----------------------------------------------------------------------------
(***************************************************************************)
(* What is left open.  A dispose() that interrupts a start() leaks the     *)
(* hosts start() opens afterwards: run SessionLeak.  Without that, what    *)
(* dispose() does not close itself the release it defers closes, except    *)
(* the terminals in stray, which are never closed at all.                  *)
(***************************************************************************)
LEMMA GoneInit == Init => GoneInv
BY DEF Init, GoneInv

LEMMA GoneStep == IInv /\ GoneInv /\ [Next]_vars => GoneInv'
<1> SUFFICES ASSUME IInv, GoneInv, [Next]_vars, ~DisposeAnyTime PROVE GoneInv'
  BY DEF GoneInv
<1> USE DEF GoneInv
<1>0. /\ TypeOK /\ HostsInv /\ StartInv /\ TickInv /\ CompressInv
  BY DEF IInv
<1>1. CASE UNCHANGED vars
  BY <1>1 DEF vars
<1>2. CASE TickAwait
  <2>1. TickStep
    BY <1>0, <1>2, TickAwaitDoes
  <2>2. loop' => loop
    BY <2>1 DEF TickStep
  <2>3. /\ start # "drain" => start' = start
        /\ waiter' # "none" \/ waiter = "none"
    BY <1>0, <2>1
    DEF TickStep, TickGoesOn, TickEnd, TickGoesTo, TypeOK
  <2> QED BY <2>1, <2>2, <2>3 DEF TickStep, TickUnchanged
<1>3. CASE Dispose
  BY <1>0, <1>3 DEF Dispose, ReleaseNative
<1>4. CASE DeferredRelease
  BY <1>0, <1>4 DEF DeferredRelease, ReleaseNative, CompressInv
<1>5. CASE Starting \/ StartGraceExpires
  BY <1>0, <1>5
  DEF Starting, StartCall, StartResume, StartBoot, StartBooted, StartLoop,
      StartGraceExpires
<1>6. CASE DisposeGraceExpires \/ TickOnce \/ EnqueueInput \/ NewTerminalSurface \/ CompressStep
  BY <1>0, <1>6
  DEF DisposeGraceExpires, TickOnce, EnqueueInput, NewTerminalSurface, CompressStep
<1>7. ASSUME NEW v \in Gens, VmClosed(v) PROVE GoneInv'
  BY <1>0, <1>7 DEF VmClosed
<1> QED BY <1>1, <1>2, <1>3, <1>4, <1>5, <1>6, <1>7 DEF Next

\* If the widget is not disposed while start() runs, the session leaves no
\* timer running, no VM that was not told to close and no terminal open but
\* those a start() dropped before _vt named them, however the waits end and
\* wherever start() fails.
THEOREM NothingLeftOpenCorrect == ~DisposeAnyTime => (Spec => []NothingLeftOpen)
<1> SUFFICES ASSUME ~DisposeAnyTime PROVE Spec => []NothingLeftOpen
  OBVIOUS
<1>1. IInv /\ GoneInv => NothingLeftOpen
  BY DEF IInv, HostsInv, GoneInv, NothingLeftOpen
<1>2. Spec => [](IInv /\ GoneInv)
  BY InitInv, StepInv, GoneInit, GoneStep, PTL DEF Spec
<1> QED BY <1>1, <1>2, PTL

-----------------------------------------------------------------------------
(***************************************************************************)
(* ImageCache: its types, that no decoded image leaks and that what is     *)
(* painted settles and never gets older, for any number of placements,     *)
(* generations and calls of sync() in flight.  A call that waits knows the *)
(* layers it was called with, which had pixels then.                       *)
(***************************************************************************)
SyncShape == [token : Nat, layers : Layers, at : Keys]

ImagesTypeInv ==
  /\ ImagesTypeOK
  /\ \A k \in placed : content[k] # 0
  /\ syncs \subseteq SyncShape
-----------------------------------------------------------------------------
LEMMA NoLayers == <<>> \in Layers
<1>1. <<>> \in [{} -> 1 .. MaxContent]
  OBVIOUS
<1> QED
  BY <1>1, Zenon DEF Layers

LEMMA LayersOf ==
  ASSUME NEW layers \in Layers
  PROVE  /\ DOMAIN layers \subseteq Keys
         /\ \A k \in DOMAIN layers : layers[k] \in 1 .. MaxContent
  BY DEF Layers

LEMMA ImagesTypeInit == ImagesInit => ImagesTypeInv
  BY ImageAssumption, NoLayers DEF ImageAssumption, ImagesInit, ImagesTypeInv, ImagesTypeOK

\* What the loop of sync() leaves, whether it waits again or ends.
LEMMA LoopType ==
  ASSUME ImagesTypeInv, NEW t \in 1 .. MaxToken, NEW layers \in Layers, NEW k,
         NEW imgs \in [Keys -> Image \cup {NoImage}], NEW undisposed \in SUBSET Image,
         NEW others \in SUBSET syncs, t <= token', token' \in token .. MaxToken,
         LoopFrom(t, layers, k, imgs, undisposed, others)
  PROVE  /\ images' \in [Keys -> Image \cup {NoImage}]
         /\ live' \subseteq Image /\ paint' \subseteq Image
         /\ syncs' \subseteq SyncShape
         /\ \A s \in syncs' : s.token \in 1 .. token' /\ s.at \in DOMAIN s.layers
<1> DEFINE todo == ToDecode(layers, k, imgs)
<1>0. /\ \A s \in others : s \in SyncShape /\ s.token \in 1 .. token' /\ s.at \in DOMAIN s.layers
      /\ t \in 1 .. token' /\ DOMAIN layers \subseteq Keys
  BY LayersOf, ImageAssumption DEF ImageAssumption, ImagesTypeInv, ImagesTypeOK
<1>1. CASE todo = {}
  <2>1. Finish(layers, imgs, undisposed) /\ syncs' = others
    BY <1>1 DEF LoopFrom
  <2>2. /\ images' = [j \in Keys |-> IF j \in DOMAIN layers THEN imgs[j] ELSE NoImage]
        /\ live' \subseteq undisposed
        /\ paint' = {imgs[j] : j \in DOMAIN layers} \ {NoImage}
    BY <2>1 DEF Finish
  <2>3. paint' \subseteq Image
    BY <1>0, <2>2
  <2> QED
    BY <1>0, <2>1, <2>2, <2>3
<1>2. CASE todo # {}
  <2>1. PICK next \in todo :
          syncs' = others \cup {[token |-> t, layers |-> layers, at |-> next]}
    BY <1>2 DEF LoopFrom
  <2>2. images' = imgs /\ live' = undisposed /\ paint' = paint
    BY <1>2 DEF LoopFrom
  <2> DEFINE call == [token |-> t, layers |-> layers, at |-> next]
  <2>3. next \in DOMAIN layers
    BY DEF ToDecode
  <2>4. call \in SyncShape /\ call.token = t /\ call.layers = layers /\ call.at = next
    BY <1>0, <2>3 DEF SyncShape
  <2> HIDE DEF call
  <2>5. syncs' = others \cup {call}
    BY <2>1 DEF call
  <2> QED
    BY <1>0, <2>2, <2>3, <2>4, <2>5 DEF ImagesTypeInv, ImagesTypeOK
<1> QED
  BY <1>1, <1>2

\* The image a call of sync() has decoded.
Img(s) == [key |-> s.at, gen |-> s.layers[s.at], by |-> s.token]

LEMMA ImgType ==
  ASSUME ImagesTypeInv, NEW s \in syncs
  PROVE  /\ Img(s) \in Image /\ s.at \in Keys /\ s.layers \in Layers
         /\ s.token \in 1 .. MaxToken /\ s.token <= token
<1>1. /\ s \in SyncShape /\ s.token \in 1 .. token /\ s.at \in DOMAIN s.layers
      /\ token \in 0 .. MaxToken
  BY DEF ImagesTypeInv, ImagesTypeOK
<1>2. s.layers \in Layers /\ s.at \in Keys
  BY <1>1 DEF SyncShape
<1>3. s.layers[s.at] \in 1 .. MaxContent
  BY <1>1, <1>2, LayersOf
<1>4. s.token \in 1 .. MaxToken
  BY <1>1, ImageAssumption DEF ImageAssumption
<1> QED
  BY <1>1, <1>2, <1>3, <1>4 DEF Img, Image

LEMMA ImagesTypeStep == ImagesTypeInv /\ [ImagesNext]_imageVars => ImagesTypeInv'
<1> SUFFICES ASSUME ImagesTypeInv, [ImagesNext]_imageVars PROVE ImagesTypeInv'
  OBVIOUS
<1> USE ImageAssumption DEF ImageAssumption
<1>1. ASSUME NEW k \in Keys, Place(k) \/ Unplace(k) PROVE ImagesTypeInv'
  BY <1>1 DEF Place, Unplace, ImagesTypeInv, ImagesTypeOK
<1>2. CASE SyncCall
  <2>1. /\ token' = token + 1 /\ token' \in 1 .. MaxToken /\ token' \in token .. MaxToken
        /\ wanted' = [k \in placed |-> content[k]] /\ UNCHANGED <<content, placed>>
        /\ LoopFrom(token', wanted', 1, images, live, syncs)
    BY <1>2 DEF SyncCall, ImagesTypeInv, ImagesTypeOK
  <2>2. wanted' \in [placed -> 1 .. MaxContent] /\ placed \subseteq Keys
    BY <2>1 DEF ImagesTypeInv, ImagesTypeOK
  <2>3. wanted' \in Layers
    BY <2>2 DEF Layers
  <2>4. images \in [Keys -> Image \cup {NoImage}] /\ live \in SUBSET Image
    BY DEF ImagesTypeInv, ImagesTypeOK
  <2>5. token' <= token'
    BY <2>1
  <2>6. /\ images' \in [Keys -> Image \cup {NoImage}]
        /\ live' \subseteq Image /\ paint' \subseteq Image
        /\ syncs' \subseteq SyncShape
        /\ \A s \in syncs' : s.token \in 1 .. token' /\ s.at \in DOMAIN s.layers
    BY <2>1, <2>3, <2>4, <2>5, LoopType
  <2> QED
    BY <2>1, <2>3, <2>6 DEF ImagesTypeInv, ImagesTypeOK
<1>3. ASSUME NEW s \in syncs, Decoded(s) PROVE ImagesTypeInv'
  <2>0. UNCHANGED <<content, placed, token, wanted>>
    BY <1>3 DEF Decoded
  <2>1. CASE s.token # token
    BY <1>3, <2>1 DEF Decoded, ImagesTypeInv, ImagesTypeOK
  <2>2. CASE s.token = token
    <3> DEFINE imgs == [images EXCEPT ![s.at] = Img(s)]
               undisposed == (live \ {images[s.at]}) \cup {Img(s)}
    <3>1. imgs \in [Keys -> Image \cup {NoImage}] /\ undisposed \in SUBSET Image
      BY ImgType DEF ImagesTypeInv, ImagesTypeOK
    <3>2. LoopFrom(s.token, s.layers, s.at + 1, imgs, undisposed, syncs \ {s})
      BY <1>3, <2>2 DEF Decoded, Img
    <3>3. token' \in token .. MaxToken /\ s.token <= token'
      BY <2>0, ImgType DEF ImagesTypeInv, ImagesTypeOK
    <3> HIDE DEF imgs, undisposed
    <3>4. /\ images' \in [Keys -> Image \cup {NoImage}]
          /\ live' \subseteq Image /\ paint' \subseteq Image
          /\ syncs' \subseteq SyncShape
          /\ \A u \in syncs' : u.token \in 1 .. token' /\ u.at \in DOMAIN u.layers
      BY <3>1, <3>2, <3>3, ImgType, LoopType
    <3> QED
      BY <2>0, <3>4 DEF ImagesTypeInv, ImagesTypeOK
  <2> QED
    BY <2>1, <2>2
<1>4. CASE DisposeImages
  BY <1>4, NoLayers DEF DisposeImages, ImagesTypeInv, ImagesTypeOK
<1>5. CASE UNCHANGED imageVars
  BY <1>5 DEF imageVars, ImagesTypeInv, ImagesTypeOK
<1> QED
  BY <1>1, <1>2, <1>3, <1>4, <1>5 DEF ImagesNext

LEMMA ImagesTypeInvHolds == ImagesSpec => []ImagesTypeInv
  BY ImagesTypeInit, ImagesTypeStep, PTL DEF ImagesSpec

\* A decode that is awaited is one of a placement that had pixels when sync()
\* was called, and what is kept and painted has been decoded.
THEOREM ImagesTypeCorrect == ImagesSpec => []ImagesTypeOK
<1>1. ImagesTypeInv => ImagesTypeOK
  BY DEF ImagesTypeInv
<1> QED
  BY <1>1, ImagesTypeInvHolds, PTL
-----------------------------------------------------------------------------
\* If the loop begins with no image out of its reach, it ends so.
LEMMA LoopKeeps ==
  ASSUME NEW t, NEW layers \in Layers, NEW k, NEW imgs, NEW undisposed,
         NEW others, undisposed \subseteq {imgs[j] : j \in Keys},
         DOMAIN imgs = Keys,
         LoopFrom(t, layers, k, imgs, undisposed, others)
  PROVE  NoImageLeak'
<1>1. CASE Finish(layers, imgs, undisposed)
  <2>1. /\ images' = [j \in Keys |-> IF j \in DOMAIN layers THEN imgs[j] ELSE NoImage]
        /\ live' = undisposed \ {imgs[j] : j \in Keys \ DOMAIN layers}
    BY <1>1 DEF Finish
  <2>2. DOMAIN layers \subseteq Keys
    BY LayersOf
  <2> QED
    BY <2>1, <2>2 DEF NoImageLeak
<1>2. CASE images' = imgs /\ live' = undisposed
  BY <1>2 DEF NoImageLeak
<1> QED
  BY <1>1, <1>2 DEF LoopFrom

LEMMA LeakStep == ImagesTypeInv /\ NoImageLeak /\ [ImagesNext]_imageVars => NoImageLeak'
<1> SUFFICES ASSUME ImagesTypeInv, NoImageLeak, [ImagesNext]_imageVars PROVE NoImageLeak'
  OBVIOUS
<1>0. images \in [Keys -> Image \cup {NoImage}] /\ live \subseteq {images[j] : j \in Keys}
  BY DEF ImagesTypeInv, ImagesTypeOK, NoImageLeak
<1>1. CASE SyncCall
  <2>1. /\ wanted' = [k \in placed |-> content[k]] /\ placed \subseteq Keys
        /\ LoopFrom(token', wanted', 1, images, live, syncs)
    BY <1>1 DEF SyncCall, ImagesTypeInv, ImagesTypeOK
  <2>2. wanted' \in [placed -> 1 .. MaxContent]
    BY <2>1, ImageAssumption DEF ImageAssumption, ImagesTypeInv, ImagesTypeOK
  <2>3. wanted' \in Layers
    BY <2>1, <2>2 DEF Layers
  <2> QED
    BY <1>0, <2>1, <2>3, LoopKeeps
<1>2. ASSUME NEW s \in syncs, Decoded(s) PROVE NoImageLeak'
  <2>1. CASE s.token # token
    BY <1>2, <2>1 DEF Decoded, NoImageLeak
  <2>2. CASE s.token = token
    <3> DEFINE imgs == [images EXCEPT ![s.at] = Img(s)]
               undisposed == (live \ {images[s.at]}) \cup {Img(s)}
    <3>1. LoopFrom(s.token, s.layers, s.at + 1, imgs, undisposed, syncs \ {s})
      BY <1>2, <2>2 DEF Decoded, Img
    <3>2. /\ imgs[s.at] = Img(s) /\ DOMAIN imgs = Keys
          /\ \A j \in Keys \ {s.at} : imgs[j] = images[j]
      BY <1>0, ImgType
    <3>3. undisposed \subseteq {imgs[j] : j \in Keys}
      <4> SUFFICES ASSUME NEW i \in undisposed PROVE \E j \in Keys : i = imgs[j]
        OBVIOUS
      <4>1. CASE i = Img(s)
        BY <3>2, <4>1, ImgType
      <4>2. CASE i \in live /\ i # images[s.at]
        <5>1. PICK j \in Keys : i = images[j]
          BY <1>0, <4>2
        <5> QED
          BY <3>2, <4>2, <5>1
      <4> QED
        BY <4>1, <4>2
    <3> HIDE DEF imgs, undisposed
    <3> QED
      BY <3>1, <3>2, <3>3, ImgType, LoopKeeps
  <2> QED
    BY <2>1, <2>2
<1>3. CASE DisposeImages
  BY <1>0, <1>3 DEF DisposeImages, NoImageLeak
<1>4. CASE UNCHANGED <<images, live>>
  BY <1>4 DEF NoImageLeak
<1> QED
  BY <1>1, <1>2, <1>3, <1>4 DEF ImagesNext, Place, Unplace, imageVars

\* Whichever calls of sync() overtake each other and whenever dispose() comes,
\* every ui.Image that was not disposed is one the cache still names.
THEOREM NoImageLeakCorrect == ImagesSpec => []NoImageLeak
<1>1. ImagesInit => NoImageLeak
  BY DEF ImagesInit, NoImageLeak
<1> QED
  BY <1>1, LeakStep, ImagesTypeInvHolds, PTL DEF ImagesSpec
-----------------------------------------------------------------------------
(***************************************************************************)
(* What is painted.  The newest call goes through the layers as they were  *)
(* when it was made; those it has passed are in the cache, and when it has *)
(* ended they are painted.  No image is older than the one it replaces.    *)
(***************************************************************************)
Good(k, layers, imgs) == layers[k] \in Malformed \/ imgs[k].gen = layers[k]

GenInv ==
  /\ \A k \in Keys : images[k] # NoImage => images[k].key = k /\ images[k].gen <= content[k]
  /\ \A k \in DOMAIN wanted : wanted[k] <= content[k] /\ images[k].gen <= wanted[k]
  /\ \A p \in paint : images[p.key] # NoImage /\ p.gen <= images[p.key].gen
  /\ \A p, q \in paint : p.key = q.key => p = q

NewestInv ==
  /\ \A s \in syncs : s.token = token =>
       /\ s.layers = wanted
       /\ \A k \in DOMAIN wanted : k < s.at => Good(k, wanted, images)
       /\ \A u \in syncs : u.token = token => u = s
  /\ (\A s \in syncs : s.token # token) =>
       /\ paint = {images[k] : k \in DOMAIN wanted} \ {NoImage}
       /\ \A k \in DOMAIN wanted : Good(k, wanted, images)

PaintInv == GenInv /\ NewestInv

NotOlder == \A p \in paint, q \in paint' : p.key = q.key => p.gen <= q.gen

\* The loop of the newest call, from key k on: those before k are in order.
LEMMA LoopPaints ==
  ASSUME NEW t, NEW layers \in Layers, NEW k \in Nat, NEW others,
         NEW imgs \in [Keys -> Image \cup {NoImage}], NEW undisposed,
         LoopFrom(t, layers, k, imgs, undisposed, others),
         t = token', layers = wanted', paint \subseteq Image,
         \A s \in others : s.token # token',
         \A j \in DOMAIN layers : j < k => Good(j, layers, imgs),
         \A j \in Keys : imgs[j] # NoImage => imgs[j].key = j /\ imgs[j].gen <= content'[j],
         \A j \in DOMAIN layers : layers[j] <= content'[j] /\ imgs[j].gen <= layers[j],
         \A p \in paint : imgs[p.key] # NoImage /\ p.gen <= imgs[p.key].gen,
         \A p, q \in paint : p.key = q.key => p = q
  PROVE  GenInv' /\ NewestInv' /\ NotOlder
<1> DEFINE todo == ToDecode(layers, k, imgs)
<1>0. /\ DOMAIN layers \subseteq Keys /\ DOMAIN layers \subseteq Nat
      /\ \A j \in DOMAIN layers : layers[j] \in 1 .. MaxContent
      /\ \A p \in paint : p.key \in Keys /\ p.gen \in Nat
      /\ \A j \in Keys : imgs[j] # NoImage => imgs[j].gen \in Nat
  BY LayersOf, ImageAssumption DEF ImageAssumption, Keys, Image
<1>1. CASE todo = {}
  <2>1. Finish(layers, imgs, undisposed) /\ syncs' = others
    BY <1>1 DEF LoopFrom
  <2>2. /\ images' = [j \in Keys |-> IF j \in DOMAIN layers THEN imgs[j] ELSE NoImage]
        /\ paint' = {imgs[j] : j \in DOMAIN layers} \ {NoImage}
    BY <2>1 DEF Finish
  <2>3. \A j \in DOMAIN layers : Good(j, layers, imgs) /\ images'[j] = imgs[j]
    BY <1>0, <1>1, <2>2 DEF ToDecode, Good
  <2>4. \A q \in paint' : q.key \in DOMAIN layers /\ q = imgs[q.key] /\ q # NoImage
    BY <1>0, <2>2
  <2>5. NotOlder
    BY <1>0, <2>4 DEF NotOlder
  <2>6. GenInv'
    <3>1. \A j \in Keys : images'[j] # NoImage =>
            images'[j].key = j /\ images'[j].gen <= content'[j]
      BY <2>2
    <3>2. \A j \in DOMAIN layers : layers[j] <= content'[j] /\ images'[j].gen <= layers[j]
      BY <2>3
    <3>3. \A q \in paint' : images'[q.key] # NoImage /\ q.gen <= images'[q.key].gen
      BY <1>0, <2>3, <2>4
    <3>4. \A p, q \in paint' : p.key = q.key => p = q
      BY <2>4
    <3> QED BY <3>1, <3>2, <3>3, <3>4 DEF GenInv
  <2>7. NewestInv'
    <3>1. paint' = {images'[j] : j \in DOMAIN layers} \ {NoImage}
      BY <2>2, <2>3
    <3>2. \A j \in DOMAIN layers : Good(j, layers, images')
      BY <2>3 DEF Good
    <3>3. \A s \in syncs' : s.token # token'
      BY <2>1
    <3> QED BY <3>1, <3>2, <3>3 DEF NewestInv, Good
  <2> QED BY <2>5, <2>6, <2>7
<1>2. CASE todo # {}
  <2> PICK next \in todo :
        /\ \A j \in todo : next <= j
        /\ syncs' = others \cup {[token |-> t, layers |-> layers, at |-> next]}
    BY <1>2 DEF LoopFrom
  <2> DEFINE call == [token |-> t, layers |-> layers, at |-> next]
  <2>1. images' = imgs /\ paint' = paint
    BY <1>2 DEF LoopFrom
  <2>2. \A j \in DOMAIN layers : j < next => Good(j, layers, imgs)
    <3> SUFFICES ASSUME NEW j \in DOMAIN layers, j < next
                 PROVE  Good(j, layers, imgs)
      OBVIOUS
    <3>1. j \notin todo /\ j \in Nat /\ next \in Nat
      BY <1>0 DEF ToDecode
    <3> QED BY <3>1 DEF ToDecode, Good
  <2>3. syncs' = others \cup {call} /\ call.token = t /\ call.layers = layers /\ call.at = next
    OBVIOUS
  <2> HIDE DEF call
  <2>4. \A s \in syncs' : s.token = token' => s = call
    BY <2>3
  <2>5. NewestInv'
    BY <2>1, <2>2, <2>3, <2>4 DEF NewestInv, Good
  <2>6. GenInv'
    BY <2>1 DEF GenInv
  <2>7. NotOlder
    <3>1. \A p, q \in paint : p.key = q.key => p.gen = q.gen
      OBVIOUS
    <3> QED BY <1>0, <2>1, <3>1 DEF NotOlder
  <2> QED BY <2>5, <2>6, <2>7
<1> QED BY <1>1, <1>2

LEMMA PaintStep == ImagesTypeInv /\ ImagesTypeInv' /\ PaintInv /\ [ImagesNext]_imageVars => PaintInv' /\ [NotOlder]_imageVars
<1> SUFFICES ASSUME ImagesTypeInv, ImagesTypeInv', PaintInv, [ImagesNext]_imageVars
             PROVE  GenInv' /\ NewestInv' /\ NotOlder
  BY DEF PaintInv
<1>0. /\ images \in [Keys -> Image \cup {NoImage}] /\ live \subseteq Image /\ paint \subseteq Image
      /\ content \in [Keys -> 0 .. MaxContent] /\ placed \subseteq Keys
      /\ token \in Nat /\ \A s \in syncs : s.token \in 1 .. token
      /\ \A k \in placed : content[k] # 0
      /\ wanted \in Layers
      /\ GenInv /\ NewestInv
  BY ImageAssumption DEF ImageAssumption, ImagesTypeInv, ImagesTypeOK, PaintInv
<1>1. /\ DOMAIN wanted \subseteq Keys
      /\ \A k \in DOMAIN wanted : wanted[k] \in 1 .. MaxContent
      /\ \A p \in paint : p.key \in Keys /\ p.gen \in Nat
      /\ \A k \in Keys : images[k].gen \in Nat
  <2>1. \A i \in Image : i.key \in Keys /\ i.gen \in Nat
    BY ImageAssumption DEF ImageAssumption, Image
  <2>2. \A k \in Keys : images[k] \in Image \/ images[k] = NoImage
    BY <1>0
  <2>3. NoImage.gen = 0
    BY DEF NoImage
  <2> QED BY <1>0, <2>1, <2>2, <2>3, LayersOf
<1>2. ASSUME UNCHANGED <<images, paint, token, wanted>>, syncs' \subseteq syncs,
             \A s \in syncs \ syncs' : s.token # token,
             \A k \in Keys : content[k] <= content'[k], content' \in [Keys -> 0 .. MaxContent]
      PROVE  GenInv' /\ NewestInv' /\ NotOlder
  <2>1. GenInv'
    <3>1. \A k \in Keys : images[k] # NoImage => images[k].key = k /\ images[k].gen <= content'[k]
      BY <1>0, <1>1, <1>2 DEF GenInv
    <3>2. \A k \in DOMAIN wanted : wanted[k] <= content'[k] /\ images[k].gen <= wanted[k]
      BY <1>0, <1>1, <1>2 DEF GenInv
    <3> QED BY <1>0, <1>2, <3>1, <3>2 DEF GenInv
  <2>2. NewestInv'
    BY <1>0, <1>2 DEF NewestInv, Good
  <2>3. NotOlder
    BY <1>0, <1>1, <1>2 DEF NotOlder, GenInv
  <2> QED BY <2>1, <2>2, <2>3
<1>3. ASSUME NEW k \in Keys, Place(k) \/ Unplace(k) PROVE GenInv' /\ NewestInv' /\ NotOlder
  <2>1. /\ UNCHANGED <<images, paint, token, wanted, syncs>>
        /\ \A j \in Keys : content[j] <= content'[j] /\ content'[j] \in 0 .. MaxContent
        /\ content' \in [Keys -> 0 .. MaxContent]
    BY <1>0, <1>3, ImageAssumption DEF ImageAssumption, Place, Unplace
  <2> QED BY <1>2, <2>1
<1>4. CASE SyncCall
  <2>1. /\ token' = token + 1
        /\ wanted' = [k \in placed |-> content[k]] /\ content' = content
        /\ LoopFrom(token', wanted', 1, images, live, syncs)
    BY <1>4 DEF SyncCall
  <2>2. wanted' \in Layers
    BY DEF ImagesTypeInv, ImagesTypeOK
  <2>3. \A s \in syncs : s.token # token'
    BY <1>0, <2>1
  <2>4. \A k \in Keys : images[k] # NoImage => images[k].key = k /\ images[k].gen <= content'[k]
    BY <1>0, <2>1 DEF GenInv
  <2>5. \A k \in DOMAIN wanted' : wanted'[k] <= content'[k] /\ images[k].gen <= wanted'[k]
    BY <1>0, <1>1, <2>1, <2>4 DEF NoImage
  <2>6. \A p \in paint : images[p.key] # NoImage /\ p.gen <= images[p.key].gen
    BY <1>0 DEF GenInv
  <2>7. \A p, q \in paint : p.key = q.key => p = q
    BY <1>0 DEF GenInv
  <2>8. \A k \in DOMAIN wanted' : ~(k < 1)
    BY <1>0, <2>1 DEF Keys
  <2> PICK t, layers : t = token' /\ layers = wanted'
    OBVIOUS
  <2>9. \A k \in DOMAIN layers : k < 1 => Good(k, layers, images)
    BY <2>8
  <2> QED BY <1>0, <2>1, <2>2, <2>3, <2>4, <2>5, <2>6, <2>7, <2>9, LoopPaints
<1>5. ASSUME NEW s \in syncs, Decoded(s) PROVE GenInv' /\ NewestInv' /\ NotOlder
  <2>1. UNCHANGED <<content, placed, token, wanted>>
    BY <1>5 DEF Decoded
  <2>2. CASE s.token # token
    <3>1. syncs' = syncs \ {s} /\ UNCHANGED <<images, live, paint>>
      BY <1>5, <2>2 DEF Decoded
    <3> QED BY <1>0, <1>2, <2>1, <2>2, <3>1
  <2>3. CASE s.token = token
    <3>a. PICK imgs : imgs = [images EXCEPT ![s.at] = Img(s)]
      OBVIOUS
    <3>b. PICK undisposed : undisposed = (live \ {images[s.at]}) \cup {Img(s)}
      OBVIOUS
    <3>1. LoopFrom(s.token, s.layers, s.at + 1, imgs, undisposed, syncs \ {s})
      BY <1>5, <2>3, <3>a, <3>b DEF Decoded, Img
    <3>2. /\ s.layers = wanted /\ s.at \in Keys /\ s.at \in DOMAIN wanted
          /\ \A k \in DOMAIN wanted : k < s.at => Good(k, wanted, images)
          /\ \A u \in syncs \ {s} : u.token # token
      <4>1. s.at \in DOMAIN s.layers
        BY DEF ImagesTypeInv, ImagesTypeOK
      <4> QED BY <1>0, <2>3, <4>1, ImgType DEF NewestInv
    <3>3. /\ Img(s) \in Image /\ Img(s) # NoImage
          /\ Img(s).key = s.at /\ Img(s).gen = wanted[s.at]
      <4>1. Img(s) \in Image /\ Img(s).key = s.at /\ Img(s).gen = wanted[s.at]
        BY <3>2, ImgType DEF Img
      <4> QED BY <4>1 DEF Image, NoImage, Keys
    <3>4. /\ imgs \in [Keys -> Image \cup {NoImage}] /\ imgs[s.at] = Img(s)
          /\ \A k \in Keys \ {s.at} : imgs[k] = images[k]
      BY <1>0, <3>a, <3>2, <3>3
    <3>5. \A k \in DOMAIN wanted : k < s.at + 1 => Good(k, wanted, imgs)
      <4> SUFFICES ASSUME NEW k \in DOMAIN wanted, k < s.at + 1 PROVE Good(k, wanted, imgs)
        OBVIOUS
      <4>1. k \in Keys /\ (k < s.at \/ k = s.at)
        BY <1>1, <3>2 DEF Keys
      <4> QED BY <3>2, <3>3, <3>4, <4>1 DEF Good, Keys
    <3>6. \A k \in Keys : imgs[k] # NoImage => imgs[k].key = k /\ imgs[k].gen <= content'[k]
      BY <1>0, <2>1, <3>2, <3>3, <3>4 DEF GenInv
    <3>7. \A k \in DOMAIN wanted : wanted[k] <= content'[k] /\ imgs[k].gen <= wanted[k]
      BY <1>0, <1>1, <2>1, <3>2, <3>3, <3>4 DEF GenInv
    <3>8. \A p \in paint : imgs[p.key] # NoImage /\ p.gen <= imgs[p.key].gen
      BY <1>0, <1>1, <3>2, <3>3, <3>4 DEF GenInv
    <3>9. \A p, q \in paint : p.key = q.key => p = q
      BY <1>0 DEF GenInv
    <3>c. PICK t, layers, k, others :
          t = s.token /\ layers = s.layers /\ k = s.at + 1 /\ others = syncs \ {s}
      OBVIOUS
    <3>10. /\ k \in Nat /\ layers \in Layers /\ layers = wanted' /\ t = token'
           /\ LoopFrom(t, layers, k, imgs, undisposed, others)
           /\ \A u \in others : u.token # token'
      BY <1>0, <2>1, <2>3, <3>c, <3>1, <3>2 DEF Keys
    <3>11. /\ \A j \in DOMAIN layers : j < k => Good(j, layers, imgs)
           /\ \A j \in DOMAIN layers : layers[j] <= content'[j] /\ imgs[j].gen <= layers[j]
      BY <3>c, <3>2, <3>5, <3>7
    <3>12. paint \subseteq Image /\ imgs \in [Keys -> Image \cup {NoImage}]
      BY <1>0, <3>4
    <3> QED BY <3>6, <3>8, <3>9, <3>10, <3>11, <3>12, LoopPaints
  <2> QED BY <2>2, <2>3
<1>6. CASE DisposeImages
  <2>1. /\ token' = token + 1 /\ images' = [k \in Keys |-> NoImage] /\ paint' = {}
        /\ wanted' = <<>> /\ syncs' = syncs /\ DOMAIN wanted' = {}
    BY <1>6 DEF DisposeImages
  <2>2. \A s \in syncs' : s.token # token'
    BY <1>0, <2>1
  <2> QED BY <2>1, <2>2 DEF GenInv, NewestInv, NotOlder
<1>7. CASE UNCHANGED imageVars
  BY <1>0, <1>2, <1>7 DEF imageVars
<1> QED BY <1>3, <1>4, <1>5, <1>6, <1>7 DEF ImagesNext

LEMMA PaintInvHolds == ImagesSpec => [](ImagesTypeInv /\ PaintInv)
<1>1. ImagesInit => PaintInv
  <2>1. ImagesInit => DOMAIN wanted = {}
    BY DEF ImagesInit
  <2> QED BY <2>1 DEF ImagesInit, PaintInv, GenInv, NewestInv
<1> QED BY <1>1, ImagesTypeInit, ImagesTypeStep, PaintStep, PTL DEF ImagesSpec

\* When no call waits any more, the newest call has painted its layers, even if
\* it overtook others or others ended after it.
THEOREM SettledPaintCorrect == ImagesSpec => []SettledPaint
<1>1. ImagesTypeInv /\ PaintInv => SettledPaint
  <2> SUFFICES ASSUME ImagesTypeInv, PaintInv, syncs = {}
               PROVE  /\ \A p \in paint : p.key \in DOMAIN wanted
                      /\ \A k \in DOMAIN wanted : wanted[k] \notin Malformed =>
                           \E p \in paint : p.key = k /\ p.gen = wanted[k]
    BY DEF SettledPaint
  <2>1. /\ paint = {images[k] : k \in DOMAIN wanted} \ {NoImage}
        /\ \A k \in DOMAIN wanted : Good(k, wanted, images)
        /\ \A k \in Keys : images[k] # NoImage => images[k].key = k
        /\ DOMAIN wanted \subseteq Keys
        /\ \A k \in DOMAIN wanted : wanted[k] \in 1 .. MaxContent
    BY LayersOf DEF PaintInv, NewestInv, GenInv, ImagesTypeInv, ImagesTypeOK
  <2> QED BY <2>1 DEF Good, NoImage
<1> QED BY <1>1, PaintInvHolds, PTL

\* A call that was overtaken never brings older pixels back to the screen.
THEOREM PaintNeverGoesBackCorrect == ImagesSpec => PaintNeverGoesBack
<1>1. ImagesTypeInv /\ ImagesTypeInv' /\ PaintInv /\ [ImagesNext]_imageVars
        => [\A p \in paint, q \in paint' : p.key = q.key => p.gen <= q.gen]_imageVars
  BY PaintStep DEF NotOlder
<1> QED BY <1>1, PaintInvHolds, PTL DEF ImagesSpec, PaintNeverGoesBack
===============================================================================
