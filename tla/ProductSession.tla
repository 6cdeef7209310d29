---------------------------- MODULE ProductSession ----------------------------
(***************************************************************************)
(* lib/session/product_session.dart: the session that owns the terminal    *)
(* (libghostty-vt) and the AgentOS VM, its live loop, its restart and its  *)
(* disposal; and lib/vt/compress.dart, whose idle timer keeps a pointer to *)
(* the terminal.                                                           *)
(*                                                                         *)
(* Dart runs one event at a time: an action is the code between two awaits *)
(* that really wait (an FFI call on a worker isolate, an image decode, the *)
(* clipboard, a timer).  What follows an await that is already complete    *)
(* runs before any other event: an action of an event requires Quiet.      *)
(*                                                                         *)
(* Each start() opens a terminal and a VM of its own: gen numbers the      *)
(* starts, and 0 stands for null.  Build: release (asserts off).           *)
(***************************************************************************)
EXTENDS Integers

CONSTANTS
  MaxGen,           \* bound: number of calls of start() that are followed
  ReadyTicks,       \* 100: ticks after which the shell counts as ready
  GraceExpires,     \* whether a 500 ms wait may end before the tick it waits for
  DisposeAnyTime,   \* whether the widget may be disposed while start() runs
  GuestExits        \* whether the guest may exit

ASSUME SessionAssumption ==
  /\ MaxGen \in Nat /\ ReadyTicks \in Nat
  /\ {GraceExpires, DisposeAnyTime, GuestExits} \subseteq BOOLEAN

VARIABLES
  gen,          \* number of the last start()
  mounted,      \* the widget is there; it disposes the session once
  closed,       \* _closed
  released,     \* _nativeReleased
  vt, vm,       \* _vt, _vm: the generation of the host, 0 for null
  open_vt,      \* the terminals that are not closed
  open_vm,      \* the VMs close() has not been called on
  stray,        \* auxiliary: terminals start() opened and failed to keep
  closing,      \* the VMs whose aos_vm_close has not ended
  loop,         \* _loop is a running periodic timer
  start,        \* where start() is
  tick,         \* the tick in flight: _ticking is tick.at # "idle"
  waiter,       \* the release dispose() has deferred
  pending,      \* _pendingInput: for which generation it was typed
  received,     \* auxiliary: <<VM, generation the input was typed for>>
  shell_ready,  \* _shellReady: 0, or the generation of the tick that set it
  at_prompt,    \* _atPrompt: 0, or the VM that reported it
  ready_ticks,  \* _readyTicks
  late,         \* auxiliary: a 500 ms wait has ended before the tick it is for
  compress      \* VtCompressScheduler: _closed and the terminal of _idle

vars == <<gen, mounted, closed, released, vt, vm, open_vt, open_vm, stray,
          closing, loop, start, tick, waiter, pending, received, shell_ready,
          at_prompt, ready_ticks, late, compress>>
-----------------------------------------------------------------------------
Gens == 1 .. MaxGen

\* The awaits start() and _tickOnce() stop at.  "resume" is the await of
\* disposeAsync once it may return.
StartAt == {"idle", "drain", "resume", "images", "boot", "paint"}
TickAt == {"idle", "send", "tick", "status", "output", "pty", "clip", "images"}

NoTick == [at |-> "idle", vt |-> 0, vm |-> 0, taken |-> {}]

TypeOK ==
  /\ gen \in 0 .. MaxGen
  /\ {mounted, closed, released, loop} \subseteq BOOLEAN
  /\ {vt, vm, shell_ready, at_prompt} \subseteq 0 .. MaxGen
  /\ {open_vt, open_vm, stray, closing} \subseteq SUBSET Gens
  /\ start \in StartAt
  /\ tick \in [at : TickAt, vt : 0 .. MaxGen, vm : 0 .. MaxGen, taken : SUBSET Gens]
  /\ waiter \in {"none", "waiting", "due"}
  /\ pending \subseteq Gens
  /\ received \subseteq Gens \X Gens
  /\ ready_ticks \in 0 .. ReadyTicks
  /\ late \in BOOLEAN
  /\ compress \in [closed : BOOLEAN, idle : 0 .. MaxGen]

Init ==
  /\ gen = 0
  /\ mounted = TRUE
  /\ closed = FALSE /\ released = FALSE
  /\ vt = 0 /\ vm = 0 /\ open_vt = {} /\ open_vm = {} /\ stray = {} /\ closing = {}
  /\ loop = FALSE
  /\ start = "idle" /\ tick = NoTick /\ waiter = "none"
  /\ pending = {} /\ received = {}
  /\ shell_ready = 0 /\ at_prompt = 0 /\ ready_ticks = 0 /\ late = FALSE
  /\ compress = [closed |-> FALSE, idle |-> 0]

\* No continuation is due: the event loop takes the next event.
Quiet == start # "resume" /\ waiter # "due"
-----------------------------------------------------------------------------
(* Releasing the native hosts. *)

\* Mutant of ReleaseNative: the VM is dropped, not closed.
ReleaseTerminal ==
  IF released
  THEN UNCHANGED <<released, vt, vm, open_vt, open_vm, stray, closing>>
  ELSE /\ released' = TRUE
       /\ vt' = 0 /\ vm' = 0
       /\ open_vt' = open_vt \ {vt}
       /\ UNCHANGED <<open_vm, stray, closing>>

\* _releaseNative: idempotent.  The terminal is freed here; vm.close() refuses
\* further calls at once, and calls aos_vm_close on an isolate nobody awaits.
ReleaseNative ==
  IF released
  THEN UNCHANGED <<released, vt, vm, open_vt, open_vm, stray, closing>>
  ELSE /\ released' = TRUE
       /\ vt' = 0 /\ vm' = 0
       /\ open_vt' = open_vt \ {vt}
       /\ open_vm' = open_vm \ {vm}
       /\ closing' = closing \cup ({vm} \ {0})
       /\ UNCHANGED stray

\* aos_vm_close of VM v ends; it had to wait for the lock of the VM table.
VmClosed(v) ==
  /\ v \in closing
  /\ closing' = closing \ {v}
  /\ UNCHANGED <<late, gen, mounted, closed, released, vt, vm, open_vt,
                 open_vm, stray, loop, start, tick, waiter, pending,
                 received, shell_ready, at_prompt, ready_ticks, compress>>

\* _compress.dispose
CompressDispose == compress' = [closed |-> TRUE, idle |-> 0]

(***************************************************************************)
(* start() calls disposeAsync(), up to its await of _waitForTickIdle.      *)
(* _startSession keeps a second start() out while one runs.                *)
(***************************************************************************)

\* Mutant of StartCall: does not wait for the tick in flight.
StartCallNoDrain ==
  /\ Quiet /\ mounted /\ start = "idle" /\ ~closed /\ gen < MaxGen
  /\ closed' = TRUE
  /\ loop' = FALSE
  /\ CompressDispose
  /\ pending' = {}
  /\ shell_ready' = 0 /\ at_prompt' = 0 /\ ready_ticks' = 0
  /\ start' = "resume"
  /\ UNCHANGED <<late, gen, mounted, released, vt, vm, open_vt, open_vm,
                 stray, closing, tick, waiter, received>>

\* Mutant of StartCall: keeps the input typed for the session it closes.
StartCallKeepInput ==
  /\ Quiet /\ mounted /\ start = "idle" /\ ~closed /\ gen < MaxGen
  /\ closed' = TRUE
  /\ loop' = FALSE
  /\ CompressDispose
  /\ shell_ready' = 0 /\ at_prompt' = 0 /\ ready_ticks' = 0
  /\ start' = IF tick.at = "idle" THEN "resume" ELSE "drain"
  /\ UNCHANGED <<late, gen, mounted, released, vt, vm, open_vt, open_vm,
                 stray, closing, tick, waiter, pending, received>>

StartCall ==
  /\ Quiet /\ mounted /\ start = "idle" /\ ~closed /\ gen < MaxGen
  /\ closed' = TRUE
  /\ loop' = FALSE
  /\ CompressDispose
  /\ pending' = {}
  /\ shell_ready' = 0 /\ at_prompt' = 0 /\ ready_ticks' = 0
  /\ start' = IF tick.at = "idle" THEN "resume" ELSE "drain"
  /\ UNCHANGED <<late, gen, mounted, released, vt, vm, open_vt, open_vm,
                 stray, closing, tick, waiter, received>>

\* The 500 ms of _waitForTickIdle are over and the tick is not.
StartGraceExpires ==
  /\ Quiet /\ GraceExpires
  /\ start = "drain"
  /\ start' = "resume"
  /\ late' = TRUE
  /\ UNCHANGED <<gen, mounted, closed, released, vt, vm, open_vt, open_vm,
                 stray, closing, loop, tick, waiter, pending, received,
                 shell_ready, at_prompt, ready_ticks, compress>>

\* How far start() gets before its first _syncImages: VtTerminal.open throws;
\* vt.resize or VtEncoder.open throws, and _vt does not name the terminal yet;
\* what follows throws; nothing throws.
Opened == {"nothing", "unnamed", "named", "all"}

\* The rest of disposeAsync, then start() up to its first _syncImages.  A
\* release dispose() has deferred was queued with fewer hops: it goes first.
StartResume(opened) ==
  /\ start = "resume" /\ waiter # "due"
  /\ gen' = gen + 1
  /\ closed' = FALSE
  /\ released' = FALSE
  /\ ready_ticks' = 0 /\ shell_ready' = 0 /\ at_prompt' = 0
  /\ compress' = [closed |-> FALSE, idle |-> 0]
  /\ vm' = 0
  /\ open_vm' = open_vm \ {vm}
  /\ closing' = closing \cup ({vm} \ {0})
  /\ vt' = IF opened \in {"named", "all"} THEN gen' ELSE 0
  /\ open_vt' = (open_vt \ {vt}) \cup (IF opened = "nothing" THEN {} ELSE {gen'})
  /\ stray' = IF opened = "unnamed" THEN stray \cup {gen'} ELSE stray
  /\ start' = IF opened = "all" THEN "images" ELSE "idle"
  /\ late' = (late /\ tick.at # "idle")
  /\ UNCHANGED <<mounted, loop, tick, waiter, pending, received>>

\* start() calls AgentOsVm.bootFromFiles; it does not look at _closed.
StartBoot ==
  /\ Quiet /\ start = "images"
  /\ start' = "boot"
  /\ UNCHANGED <<late, gen, mounted, closed, released, vt, vm, open_vt,
                 open_vm, stray, closing, loop, tick, waiter, pending,
                 received, shell_ready, at_prompt, ready_ticks, compress>>

\* The boot ended.  The snapshot that follows may throw, and does if the
\* terminal has been closed meanwhile; start() then ends with the VM it has just
\* stored.
StartBooted(ok) ==
  /\ Quiet /\ start = "boot"
  /\ vm' = IF ok THEN gen ELSE vm
  /\ open_vm' = IF ok THEN open_vm \cup {gen} ELSE open_vm
  /\ \/ start' = "idle"
     \/ ok /\ gen \in open_vt /\ start' = "paint"
  /\ UNCHANGED <<late, gen, mounted, closed, released, vt, open_vt, stray,
                 closing, loop, tick, waiter, pending, received, shell_ready,
                 at_prompt, ready_ticks, compress>>

\* The timer of the live loop; here too _closed is not looked at.
StartLoop ==
  /\ Quiet /\ start = "paint"
  /\ loop' = TRUE
  /\ start' = "idle"
  /\ UNCHANGED <<late, gen, mounted, closed, released, vt, vm, open_vt,
                 open_vm, stray, closing, tick, waiter, pending, received,
                 shell_ready, at_prompt, ready_ticks, compress>>
-----------------------------------------------------------------------------
(* dispose(): the widget goes away. *)

\* Mutant of Dispose: frees the hosts without looking at the tick in flight.
DisposeNow ==
  /\ Quiet /\ mounted
  /\ DisposeAnyTime \/ start = "idle"
  /\ mounted' = FALSE
  /\ closed' = TRUE
  /\ loop' = FALSE
  /\ CompressDispose
  /\ ReleaseNative
  /\ UNCHANGED <<late, gen, start, tick, waiter, pending, received,
                 shell_ready, at_prompt, ready_ticks>>

\* Mutant of Dispose: the compression timer is left running.
DisposeKeepTimer ==
  /\ Quiet /\ mounted
  /\ DisposeAnyTime \/ start = "idle"
  /\ mounted' = FALSE
  /\ closed' = TRUE
  /\ loop' = FALSE
  /\ IF tick.at = "idle"
     THEN ReleaseNative /\ UNCHANGED waiter
     ELSE waiter' = "waiting" /\ UNCHANGED <<released, vt, vm, open_vt,
                                             open_vm, stray, closing>>
  /\ UNCHANGED <<late, gen, start, tick, pending, received, shell_ready,
                 at_prompt, ready_ticks, compress>>

Dispose ==
  /\ Quiet /\ mounted
  /\ DisposeAnyTime \/ start = "idle"
  /\ mounted' = FALSE
  /\ closed' = TRUE
  /\ loop' = FALSE
  /\ CompressDispose
  /\ IF tick.at = "idle"
     THEN ReleaseNative /\ UNCHANGED waiter
     ELSE waiter' = "waiting" /\ UNCHANGED <<released, vt, vm, open_vt,
                                             open_vm, stray, closing>>
  /\ UNCHANGED <<late, gen, start, tick, pending, received, shell_ready,
                 at_prompt, ready_ticks>>

\* Mutant of DisposeGraceExpires: waits for the tick without a limit.
DisposeWaitsForever == waiter = "never" /\ UNCHANGED vars

\* Its 500 ms are over; those of a start() began earlier.
DisposeGraceExpires ==
  /\ Quiet /\ GraceExpires
  /\ waiter = "waiting" /\ start # "drain"
  /\ waiter' = "due"
  /\ late' = TRUE
  /\ UNCHANGED <<gen, mounted, closed, released, vt, vm, open_vt, open_vm,
                 stray, closing, loop, start, tick, pending, received,
                 shell_ready, at_prompt, ready_ticks, compress>>

DeferredRelease ==
  /\ waiter = "due"
  /\ waiter' = "none"
  /\ ReleaseNative
  /\ UNCHANGED <<late, gen, mounted, closed, loop, start, tick, pending,
                 received, shell_ready, at_prompt, ready_ticks, compress>>
-----------------------------------------------------------------------------
\* Mutant of TickOnce: reads the queued input without removing it.
TickOnceKeepInput ==
  /\ Quiet /\ loop
  /\ ~closed /\ tick.at = "idle" /\ vt # 0 /\ vm # 0
  /\ tick' = [at |-> IF pending # {} THEN "send" ELSE "tick",
              vt |-> vt, vm |-> vm, taken |-> pending]
  /\ UNCHANGED <<late, gen, mounted, closed, released, vt, vm, open_vt,
                 open_vm, stray, closing, loop, start, waiter, pending,
                 received, shell_ready, at_prompt, ready_ticks, compress>>

(***************************************************************************)
(* _tickOnce.  It keeps the hosts it has read at its start; a call on a    *)
(* closed host throws StateError.                                          *)
(***************************************************************************)
TickOnce ==
  /\ Quiet /\ loop
  /\ ~closed /\ tick.at = "idle" /\ vt # 0 /\ vm # 0
  /\ tick' = [at |-> IF pending # {} THEN "send" ELSE "tick",
              vt |-> vt, vm |-> vm, taken |-> pending]
  /\ pending' = {}
  /\ UNCHANGED <<late, gen, mounted, closed, released, vt, vm, open_vt,
                 open_vm, stray, closing, loop, start, waiter, received,
                 shell_ready, at_prompt, ready_ticks, compress>>

\* The finally block: _ticking is reset and whoever waits is woken.
TickEnd ==
  /\ tick' = NoTick
  /\ start' = IF start = "drain" THEN "resume" ELSE start
  /\ waiter' = IF waiter = "waiting" THEN "due" ELSE waiter

TickGoesTo(at) == tick' = [tick EXCEPT !.at = at] /\ UNCHANGED <<start,
                                                                 waiter>>

\* _compress.onWrite after a write: the activity of the terminal may have changed.
OnWrite(term) ==
  \/ UNCHANGED compress
  \/ ~compress.closed /\ compress' = [compress EXCEPT !.idle = term]

TickUnchanged == UNCHANGED <<late, gen, mounted, closed, released, vt, vm,
                             open_vt, open_vm, stray, closing, pending>>

\* sendInput has no catch: an error ends the tick, and the bytes are gone.
TickSent(ok) ==
  /\ Quiet /\ tick.at = "send"
  /\ received' = IF ok THEN received \cup ({tick.vm} \X tick.taken) ELSE received
  /\ IF ok /\ ~closed /\ tick.vm \in open_vm THEN TickGoesTo("tick") ELSE TickEnd
  /\ TickUnchanged
  /\ UNCHANGED <<loop, shell_ready, at_prompt, ready_ticks, compress>>

\* The chrome events and the snapshot, up to the await of _syncImages.  All of
\* it works on the terminal of the tick.
ChromeAndPaint ==
  IF tick.vt \in open_vt
  THEN TickGoesTo("clip") \/ TickGoesTo("images")
  ELSE TickEnd

\* From the readiness test on.  prompt is _atPrompt as the test sees it.
AfterOutput(prompt) ==
  /\ ready_ticks' = IF ready_ticks < ReadyTicks THEN ready_ticks + 1 ELSE ready_ticks
  /\ shell_ready' = IF shell_ready = 0 /\ (prompt # 0 \/ ready_ticks' = ReadyTicks)
                    THEN tick.vm ELSE shell_ready
  /\ \/ ChromeAndPaint
     \/ tick.vt \in open_vt /\ tick.vm \in open_vm /\ TickGoesTo("pty")

\* tickN returned; then status() and, if that throws, takeOutput().
TickTicked(result) ==
  /\ Quiet /\ tick.at = "tick"
  /\ result = "exited" => GuestExits
  /\ loop' = (loop /\ ~(result = "exited" /\ ~closed))
  /\ CASE result = "error" \/ closed ->
            TickEnd /\ UNCHANGED <<shell_ready, ready_ticks>>
       [] result # "error" /\ ~closed /\ tick.vm \in open_vm ->
            TickGoesTo("status") /\ UNCHANGED <<shell_ready, ready_ticks>>
       [] OTHER -> AfterOutput(at_prompt)
  /\ TickUnchanged
  /\ UNCHANGED <<received, at_prompt, compress>>

TickStatus(ok, prompt) ==
  /\ Quiet /\ tick.at = "status"
  /\ at_prompt' = IF ok /\ ~closed THEN (IF prompt THEN tick.vm ELSE 0) ELSE at_prompt
  /\ CASE closed -> TickEnd /\ UNCHANGED <<shell_ready, ready_ticks>>
       [] ~closed /\ tick.vm \in open_vm ->
            TickGoesTo("output") /\ UNCHANGED <<shell_ready, ready_ticks>>
       [] OTHER -> AfterOutput(at_prompt')
  /\ TickUnchanged
  /\ UNCHANGED <<loop, received, compress>>

\* takeOutput returned; a write to a closed terminal throws and is caught.
TickOutput ==
  /\ Quiet /\ tick.at = "output"
  /\ IF closed
     THEN TickEnd /\ UNCHANGED <<shell_ready, ready_ticks, compress>>
     ELSE /\ IF tick.vt \in open_vt THEN OnWrite(tick.vt) ELSE UNCHANGED compress
          /\ AfterOutput(at_prompt)
  /\ TickUnchanged
  /\ UNCHANGED <<loop, received, at_prompt>>

\* The reply to a terminal query was sent, or that failed and was caught.
TickPty ==
  /\ Quiet /\ tick.at = "pty"
  /\ IF closed THEN TickEnd ELSE ChromeAndPaint
  /\ TickUnchanged
  /\ UNCHANGED <<loop, received, shell_ready, at_prompt, ready_ticks,
                 compress>>

TickClip ==
  /\ Quiet /\ tick.at = "clip"
  /\ IF ~closed /\ tick.vt \in open_vt THEN TickGoesTo("images") ELSE TickEnd
  /\ TickUnchanged
  /\ UNCHANGED <<loop, received, shell_ready, at_prompt, ready_ticks,
                 compress>>

TickImages ==
  /\ Quiet /\ tick.at = "images"
  /\ TickEnd
  /\ TickUnchanged
  /\ UNCHANGED <<loop, received, shell_ready, at_prompt, ready_ticks,
                 compress>>
-----------------------------------------------------------------------------
(* What the widgets and the timers call. *)

\* Mutant of EnqueueInput: accepts input while there is no guest.
EnqueueUnchecked ==
  /\ Quiet /\ mounted /\ ~closed
  /\ pending' = pending \cup {vm}
  /\ UNCHANGED <<late, gen, mounted, closed, released, vt, vm, open_vt,
                 open_vm, stray, closing, loop, start, tick, waiter,
                 received, shell_ready, at_prompt, ready_ticks, compress>>

\* onKey, onFocus, onPaste: _enqueueInput.
EnqueueInput ==
  /\ Quiet /\ mounted /\ ~closed /\ vm # 0
  /\ pending' = pending \cup {vm}
  /\ UNCHANGED <<late, gen, mounted, closed, released, vt, vm, open_vt,
                 open_vm, stray, closing, loop, start, tick, waiter,
                 received, shell_ready, at_prompt, ready_ticks, compress>>

\* beginNewTerminalSurface: writes to the terminal between two ticks' awaits.
NewTerminalSurface ==
  /\ Quiet /\ mounted /\ ~closed /\ vt # 0
  /\ OnWrite(vt)
  /\ UNCHANGED <<late, gen, mounted, closed, released, vt, vm, open_vt,
                 open_vm, stray, closing, loop, start, tick, waiter, pending,
                 received, shell_ready, at_prompt, ready_ticks>>

\* _runIdleSteps on the pointer the timer was given; PENDING re-arms it.
CompressStep ==
  /\ Quiet /\ compress.idle # 0 /\ ~compress.closed
  /\ \/ compress' = [compress EXCEPT !.idle = 0]
     \/ UNCHANGED compress
  /\ UNCHANGED <<late, gen, mounted, closed, released, vt, vm, open_vt,
                 open_vm, stray, closing, loop, start, tick, waiter, pending,
                 received, shell_ready, at_prompt, ready_ticks>>
-----------------------------------------------------------------------------
Starting == \/ StartCall
            \/ \E opened \in Opened : StartResume(opened)
            \/ StartBoot
            \/ \E ok \in BOOLEAN : StartBooted(ok)
            \/ StartLoop

TickAwait == \/ \E ok \in BOOLEAN : TickSent(ok)
             \/ \E result \in {"running", "exited", "error"} : TickTicked(result)
             \/ \E ok, prompt \in BOOLEAN : TickStatus(ok, prompt)
             \/ TickOutput \/ TickPty \/ TickClip \/ TickImages

Next == \/ Starting \/ StartGraceExpires
        \/ Dispose \/ DisposeGraceExpires \/ DeferredRelease
        \/ \E v \in Gens : VmClosed(v)
        \/ TickOnce \/ TickAwait
        \/ EnqueueInput \/ NewTerminalSurface \/ CompressStep

Spec == Init /\ [][Next]_vars

\* The Dart event loop runs what is due: continuations and timers.
EventLoopFair == /\ WF_vars(\E opened \in Opened : StartResume(opened))
                 /\ WF_vars(DeferredRelease)
                 /\ WF_vars(StartGraceExpires)
                 /\ WF_vars(DisposeGraceExpires)
                 /\ WF_vars(TickOnce)

\* What the session awaits comes back, with a result or an error.
AwaitsReturn == WF_vars(TickAwait)

\* A tick at one of these awaits may be inside the library, with the lock.
LockAwaits == {"send", "tick", "status", "output", "pty"}

\* aos_vm_close ends once no call of a tick keeps the lock.
ClosesEnd == WF_vars(tick.at \notin LockAwaits /\ \E v \in Gens : VmClosed(v))

TimerSpec == Spec /\ EventLoopFair /\ ClosesEnd
-----------------------------------------------------------------------------
(* Properties. *)

\* disposeAsync and dispose wait for the tick in flight: the hosts a tick works
\* with are not closed before it ends, unless the wait is cut short after 500 ms
\* (product_session.dart:750, :862).
TickHasItsHosts ==
  tick.at # "idle" /\ ~late => tick.vt \in open_vt /\ tick.vm \in open_vm

\* Input typed into one session never reaches the guest of another, although it
\* is queued, taken by a tick and sent across awaits.
InputReachesItsGuest == \A r \in received : r[1] = r[2]

\* What the session shows of its guest was reported by that guest, not by a
\* tick that began before the restart; unless that tick outlived the 500 ms.
StateOfThisSession == ~late => {shell_ready, at_prompt} \subseteq {0, gen}

\* The compression timer holds a raw pointer to a terminal: it is never armed
\* for one that has been freed, whatever tick or restart armed it.
CompressOnOpenTerminal == compress.idle # 0 => compress.idle \in open_vt

\* Once the widget is gone and nothing is under way, the loop is stopped, every
\* terminal is closed and every VM has been told to close, whichever start()
\* failed at which step (product_session.dart:748, docs/ghostty-vt-embed.md:212);
\* except a terminal that no field ever named (product_session.dart:139-141).
NothingLeftOpen ==
  ~mounted /\ start = "idle" /\ waiter = "none"
    => open_vt \subseteq stray /\ open_vm = {} /\ ~loop

\* A guest that never returns from its tick cannot keep its terminal open, nor
\* its VM from being told to close.  It does keep the VM itself, whose close
\* waits for the tick's lock (product_session.dart:845): the VMs are gone in the
\* end if native calls come back.
DisposeEnds ==
  /\ ~mounted ~> open_vt \subseteq stray /\ open_vm = {}
  /\ AwaitsReturn => (~mounted ~> closing = {})

\* Typed input is taken by a tick as long as the loop runs, whichever of the
\* tick's steps fail and whether or not a wait is cut short; provided that
\* native calls come back.
InputIsTaken == AwaitsReturn => (pending # {} ~> pending = {} \/ ~loop)
=============================================================================
