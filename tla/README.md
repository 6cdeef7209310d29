# Models of the AgentOS terminal shell

This directory holds TLA+ models of the program in this repository: a Flutter
desktop shell that hosts an AgentOS guest (a WebAssembly kernel) behind a small
Rust library and shows its terminal with libghostty-vt. The models are about the
parts where several actors share state: the Rust host library called from many
isolates at once, and the Dart session whose every step may be interrupted at an
`await`. Paths below are relative to the repository.

Each module says in its first comment what it models. `PROJECT.json` maps every
definition to the lines it stands for, lists the hazards of the code, the runs
and the findings.

    tlc -config RelayCalls.cfg MCRelay.tla      # one run
    tlapm RelayProofs.tla                       # one proof module

## 1. The system

| Component | State | Operations | Who calls it |
|---|---|---|---|
| Egress relay (`relay.rs`, `table.rs`) | handle counter, event queue, slots for HTTP, host calls, persist, WebSockets, pending approvals; one mutex per VM | capability calls of the guest; pull of events; answers by handle | the guest kernel during a tick; Dart from isolates |
| VM table (`table.rs`, `boot.rs`) | `NEXT_ID`, `VMS` | insert, close, `with_vm` | every C entry point |
| Boot and restore (`boot.rs`, parsers of `relay.rs`) | none of its own: it makes a guest and its relay | boot, boot_ex, restore, 64 ticks toward a prompt | Dart, once a VM |
| Error slot (`error.rs`) | one message per thread | cleared on entry, set by what fails, read by Dart | every C entry point |
| Terminal I/O (`tty.rs`, `boot.rs`) | a combined sink and one sink per stream | tick, send_input, take_output, take_output_ex, status | the session's tick |
| Guest jobs (`exec.rs`) | in the kernel host | exec, run, start, poll, peek, cancel | Dart |
| Files, catalog, snapshots, perf (`fs.rs`, `catalog.rs`, `snapshot.rs`, `perf.rs`) | none here | one kernel-host call each | Dart |
| `AgentOsVm` (`lib/agent_os/vm.dart`) | handle, closed flag | one isolate per call | session, tools |
| Product session (`product_session.dart`) | the two native hosts, timers, tick flag, input queue, frame, status | start, tick loop, disposeAsync, dispose, keys, scroll, resize | main.dart, timers |
| Compression timer (`compress.dart`) | closed flag, idle timer with a raw pointer | onWrite, idle steps, dispose, reset | session |
| Image cache (`image_cache.dart`) | decoded images, paint lists, sync token | sync, dispose | session; the painter reads |
| Notebook (`controller.dart`, `document.dart`) | timeline, mode, counter | enterAsk, enterTerminal, submit | main.dart |
| Freeze policy (`freeze_policy.dart`) | none | pure functions over a frame | controller |
| Terminal host, rendering, selection, encoders (`lib/vt`) | effect queues, render state, gesture state | write, snapshot, select, encode | session, painter |
| Widgets, runner, build files | layout | painting | Flutter |

How they interact. A tick (`aos_vm_tick_n`) runs the guest on the isolate that
called it, under the lock of the VM table; the guest writes to the sinks and
calls the capabilities, which allocate a handle, insert a slot and queue an
event. Dart pulls the events, does what they ask for and answers by handle in
later calls. The session's loop calls the host library once per step of a tick
and writes what comes out to the terminal; the notebook freezes the frames the
session makes.

What is hard in it, and the properties that say it is right:

- *Late and repeated answers.* Handles are plain integers and may be closed and
  followed by others before an answer arrives: `AnswersMatch`.
- *State popped before it is delivered.* Frames and output leave their queue
  before the copy to the caller is known to succeed: `ImplementsContract`,
  `NothingLost`.
- *A life of many steps.* One request goes through a handle, a slot, a queue, a
  frame and an answer, each of which may be left early: `ImplementsContract` says
  it is asked, told, answered and over, once each and in this order.
- *A guest that runs before it has a name.* A boot ticks its guest before the VM is
  in the table, and a restored guest remembers the handles of another relay:
  `AskedIsKept`, `GrantedAsAsked`, `BootReturns`.
- *One error slot for many callers.* `ToldItsOwnError`.
- *Two critical sections for one operation.* `take_output` puts its remainder
  back later: `CombinedInOrder`.
- *Isolates in any order.* `CallReachesItsVm`, `DecidedAsAnswered`,
  `TickKeepsItsVm`; a lock that is held while a whole command runs: `JobsEnd`.
- *A copy that may not fit.* Some functions of the host pass on that the caller's
  buffer was too small, some do not: `WholeIfChecked`.
- *Chunks and dirty flags.* The output comes in chunks cut anywhere, through a
  filter that holds text back, and four callers merge dirty rows into a frame:
  `PaintedInOrder`, `FrameUpToDate`, `AnswersSentOnce`.
- *State read before an await and used after it.* A tick keeps its hosts across
  up to seven awaits, during which the session may be restarted or disposed:
  `TickHasItsHosts`, `StateOfThisSession`, `InputReachesItsGuest`,
  `NothingLeftOpen`, `CompressOnOpenTerminal`; the image cache replaces images
  across awaits: `PaintListLive`, `NoImageLeak`, `PaintNeverGoesBack`,
  `SettledPaint`; the notebook freezes a frame that may be older than the
  terminal: `NoRepeat`, `SeenIsKept`.
- *Waiting.* `RequestsAnswered`, `BlockedSenderResumes`, `DisposeEnds`,
  `InputIsTaken`, `AnswerDecides`, `JobsEnd`, `BootReturns`.

## 2. The modules

| Module | Models | MC module | Proofs |
|---|---|---|---|
| `Relay` | RelayState, the three capabilities, pulls and answers | `MCRelay` | `RelayProofs` |
| `RelayContract` | what one request goes through: the abstract specification `Relay` implements | `MCRelay` | `RelayProofs` |
| `Boot` | options, capabilities, boot ticks, restore, the error slot | `MCBoot` | `BootProofs` |
| `VmTable` | the table, its lock, the isolates of `AgentOsVm`, approvals | `MCVmTable` | `VmTableProofs` |
| `OutputSinks` | tee sinks, take_output, take_output_ex | `MCOutputSinks` | `OutputSinksProofs` |
| `ProductSession` | session life cycle, tick, compression timer | `MCProductSession` | `ProductSessionProofs` |
| `TerminalFeed` | output from `take_output` to the frame: boot filter, terminal writes and their answers, frames | `MCTerminalFeed` | `TerminalFeedProofs` |
| `HostCalls` | commands, jobs, files, snapshots, catalog, perf: what a call changes and what its caller is given | `MCHostCalls` | `HostCallsProofs` |
| `ImageCache` | sync and dispose of the image cache | `MCImageCache` | `ProductSessionProofs` |
| `FreezePolicy` | the freeze policy as operators (used by `Notebook`) | `MCNotebook` | `NotebookProofs` |
| `Notebook` | tick, freeze, wipe and mode switch (extends `FreezePolicy`) | `MCNotebook` | `NotebookProofs` |

**Relay.** The variables are the fields of `RelayState`, in the code's names; a
HashMap is a function whose domain is the set of live handles. A payload is its
length. Because every operation runs under the one mutex, an entry point is one
action: `HttpRequest` is `http_request`, `HostCallRespond` is
`aos_vm_relay_host_call_respond`, `PopEvent` the pull with everything that
leaving the queue does to a slot (`dispatched`, `queued_bytes`) and with the
outcome of the copy. Each slot, event and answer also carries the number of the
allocation it belongs to (`req`, `answers`); no guard reads it, it only lets a
property tell a right answer from a wrong one. `delivered` is what the
application has received; it may answer any of it, at any time, repeatedly.
The application only answers handles it was given. The kernel closes a handle it
holds, once. The polls (`HttpPoll`, `HostCallPoll`, `PersistPoll`) change nothing
and are operators; `Waiting` is what they tell the guest.

**RelayContract.** The abstract specification: a request is new, refused, queued,
told, lost, answered or over, and a step moves one request along. It knows no
handle, slot, queue or kind. `Relay` reads the phase of a request off its own state
(`Phase`): an answer found in the slot of another request, or a request without a
slot that comes back, has no phase in the contract and no step to it. `MayLose` is
whether the application's buffers may be too small.

**Boot.** A call is on a thread from its entry until Dart has read its result
(`calls`), and `error` is the thread's slot. A plan of options is refused or not
(`Refused`, after `read_opts` and `apply_boot_caps`) and grants what `Granted`
says. `BootEx` goes up to the first tick, `BootTick` is a tick in which the guest
may ask for something, `InsertVm` ends the boot; `Restore` has no ticks. The relay
is its counter and the set of its slots; a guest holds handles together with the
VM they came from, so that a handle of an old relay can be told from one of the new
with the same number. Whether the kernel drops handles that were in flight when it
is restored is not in this repository: the restored guest has all of them or none.
`Locked` is the table's lock, held by a tick that works or waits in `approve()`.

**VmTable.** A call of `AgentOsVm` is issued (`_ensureOpen`, a copy of the
handle, `Isolate.run`) and later runs, in any order with the others, when it gets
the lock; `TickEnter` and `TickLeave` enclose a tick, other calls are one step.
`approve()` waits inside an action sequence of its own: asked, then decided by
`Respond`. RealNet, which calls the approver, is outside this repository, so
approvals may come from the ticking thread or another (`AskInTick`).

**OutputSinks.** A byte is its stream and its position. `TakeOutput` is the first
critical section, `PutBack` the second. A tick writes and other calls drain in
between. `callers` records who has drained: a caller of `take_output` by its name,
`take_output_ex` as "combined" or "streams", which are no caller's name.

**ProductSession.** An action is the Dart code between two awaits that really
wait. `start` and `tick` are program counters over the awaits of `start()` and
`_tickOnce()`; a tick keeps the terminal and the VM it has read. Hosts are
numbered by the `start()` that opened them, so a stale one can be told from a
current one. `waiter` is the release `dispose()` defers. A tick's wake-up of
`disposeAsync` and `dispose` runs before the next event (`Quiet`). `StartResume` has
an outcome for each place where `start()` may throw before its first await; `stray`
holds the terminals that were open then and that no field names. `close()` of a VM
has two ends: its Dart object refuses calls at once (`open_vm`), and `aos_vm_close`
runs on an isolate that nobody awaits and returns later (`closing`, `VmClosed`),
when it gets the lock of the VM table. Build: release (asserts off).

**ImageCache.** Images carry the generation decoded and the call that decoded
them. The loop of `sync()` runs from one decode that is awaited to the next in
one action. Placements outside the viewport count as not placed. The names that
`ProductSession` has too are told apart (`ImagesInit`, `ImagesSpec`, `ImagesTypeOK`,
`DisposeImages`), because the session's proofs and the cache's stand in one module.

**TerminalFeed.** A character is a token and its position in the output, so that
the properties can say which one is painted, held or dropped. `TickStatus`,
`TickOutput`, `TickPty`, `TickClip` and `TickPaint` are what `_tickOnce` does
between two awaits; `OnScroll`, `Resize`, `OnPointer` and
`BeginNewTerminalSurface` run while it waits and take snapshots of their own.
libghostty-vt is what the code relies on: rows that change are flagged, and a
snapshot clears the flags. The render state starts with the flags clear and a
frame of the size of the grid.

**HostCalls.** A call is issued (`Issue`), has its arguments refused
(`RefuseOpts`) or enters the library when the lock is
free, leaves with a result code and a buffer, and is read by Dart (`Return`). The
many functions fall into a few shapes by what they do with the guest's answer
(`Blocking`, `Starts`, `Queries`, `Changes`, `Whole` and so on). A piece of data
is the version of the guest it shows and its length, version 0 being a buffer
nobody wrote to. Commands that block keep the lock from `Enter` to `Leave`; a
job goes on in ticks and may ask for an answer, which needs the lock.

**FreezePolicy, Notebook.** Frames are sequences of rows of cell texts. The text
of a row is the set of its cells that count, and the loop that crops a frame is the
last row at which it stops. The
notebook has rows of two cells: blank, a bare prompt, work, or work typed after a
prompt. `TickWrite` and `TickSnapshot` are the two halves of a tick between which
a key press may switch the mode.

## 3. The runs

`expect: pass` runs show properties that hold on the instance; `violation` runs
show a statement of the repository that the code does not keep (section 4).

| Run | Instance | Shows |
|---|---|---|
| `RelayCalls` | 3 handles, 3 requests of any kind, queue of 2, frames that fit or not | `TypeOK`, `AnswersMatch`, `FramesInOrder`, `ImplementsContract` |
| `RelayFlow` | 2 requests or sockets, messages of 1 and 2 units, mark 2, reads of 1, fair embedder | `WsBacklogExact`, `RecvCursorInMessage`, `RequestsAnswered`, `BlockedSenderResumes` |
| `BootCalls` | 2 threads, 3 failing or ticking calls, 2 guests, 12 plans of options, 2 boot ticks, 1 request a guest, 1 snapshot, fair | `ToldItsOwnError`, `GrantedAsAsked`, `AskedIsKept`, `BootReturns` |
| `VmCalls` | 2 VMs, 4 calls, 2 approvals, isolates fair | `CallReachesItsVm`, `DecidedAsAnswered`, `TickKeepsItsVm`, `AnswerDecides` |
| `OutputTakers` | 3 bytes, two callers, buffers of 0, 1 and 2, masks 0, 1, 3, 6, answers that fit or not | `CombinedInOrder`, `StreamsInOrder`, `NothingLost` |
| `SessionRestart` | 3 starts that may fail at any step, the 500 ms wait may be cut short, native calls may never return | `TypeOK`, `TickHasItsHosts`, `StateOfThisSession`, `NothingLeftOpen`, `InputReachesItsGuest`, `CompressOnOpenTerminal`, `DisposeEnds`, `InputIsTaken` |
| `ImageSync` | 2 placements, 3 generations (one undecodable), 4 calls | `NoImageLeak`, `SettledPaint`, `PaintNeverGoesBack` |
| `NotebookSwitch` | 3 pieces of work, 3 rows of scrollback, 2 visible, 4 numbers | `TypeOK`, `NoRepeat`, `SeenIsKept` |
| `TerminalFrames` | 3 tokens of 7 kinds, chunks of at most 2, grids of 1 and 2 rows, 2 answers | `TypeOK`, `FrameUpToDate`, `PaintedInOrder`, `AnswersSentOnce` |
| `HostCalls` | 2 isolates, 3 calls of 15 kinds, 1 job, answers of 1 and 2 units into buffers of 1, fair | `TypeOK`, `WholeIfChecked`, `JobsEnd` |

Why the bounds are enough. A wrong answer needs one closed request and one newer;
three handles leave one over. The socket account needs a message that fills the
mark, one that does not, and a socket closed with messages still queued; the
cursor needs a message read in two parts followed by a shorter one. Two VMs are
enough for a call to be late for one of them, two approvals for the answers to
come in the other order. A restart race needs an old session, a new one and a
tick between them; the third start is for a tick that skips one. Two
placements are the least for which `sync()` waits with one image replaced and
the lists not rebuilt. A banner of two tokens over chunks of at most two is held,
completed or belied; two heights let a resize come between any two snapshots.
Three calls are enough to start a job, block the lock and enquire, and to enable,
make and take a measurement. The plans of `BootCalls` hold each way a plan is
refused once, and three that are not: storage only, requests relayed, RealNet with
approvals. Two guests are a booted one and the one restored from its snapshot; one
request of each is enough for the handles of the two relays to coincide. Every constant that bounds a run is marked `bound:` where
it is declared; `ReadyTicks` stands for the code's 100 and `WsSendMark`,
`MaxHandle` for the code's constants at a small size.

Deadlock checking is off in every run: the counters of requests, calls, starts
and writes are bounded, so every instance ends; and an idle system, with all its
VMs closed, does have nothing to do.

Fairness. `RelayFlow` assumes what `docs/aos-c-api.md` section 6 prescribes: the
embedder goes on pulling and answers what it pulls. The guest owes nothing. The
session's `EventLoopFair` says that the Dart event loop runs continuations and
timers that are due. `AwaitsReturn`, that native calls come back, is a premise
of `InputIsTaken` and of the part of `DisposeEnds` that says that the VMs are gone:
`aos_vm_close` waits for a lock that a tick keeps while it runs (`ClosesEnd` lets it
through once no call of a tick is under way). That the terminal is closed and the
VM told to close needs no such premise. `VmTable`'s `FairSpec` says
that isolates run and that a tick that nothing keeps returns. `HostCalls` assumes
that isolates run, the session ticks and the application answers; a stream of
blocking commands without an end could starve a job under this fairness, which
the bound on calls leaves out, as the code promises no order of the lock. `Boot`
assumes that a thread inside the library goes on unless it waits in `approve()`;
nothing is assumed of the threads that have still to call it.

## 4. Where code and documents differ

| Run | Property | What it shows |
|---|---|---|
| `SessionLeak` | `NothingLeftOpen` | dispose during start leaves a VM or a session running |
| `ImagePaintTwo` | `PaintListLive` | a disposed image stays in the paint lists across an await |

What the other runs leave out on purpose, because the property fails there:

- The contract of `Relay` has the phase "lost": a frame too large for the buffer has
  left the queue when `fill_buf` looks (`relay.rs:761`), so the second try of
  `buf.rs:22` finds nothing. Without it `ImplementsContract` fails.
- `CombinedInOrder`, `StreamsInOrder` and `NothingLost` except the bytes in
  `spilled`: asking for the length with cap 0 drains the sinks
  (`include/agentos_flutter_host.h:150` says it only reports), and
  `take_output_ex` into a short buffer drains the streams.
- `RequestsAnswered` fails with 0 in `Lens`: an answer with an empty head makes
  `http_poll` return 0, which is what it returns while nothing is answered
  (`relay.rs:287`).
- `AskedIsKept` excepts a guest restored with handles of another relay: the new
  relay counts from 1 again, so closing an old handle takes the slot of a new
  request (`boot.rs:336`).
- `BootReturns` excepts an approval asked for by a thread that boots, or by one that
  holds the table's lock: nobody can answer the first, whose VM has no handle, and
  the second keeps `insert_vm` waiting.
- `WorkIsKept` of `Notebook` fails: output newer than the frozen frame, or scrolled
  out of it, is wiped by a switch to ask mode, where
  `docs/notebook-components.md:220` says "Freeze always before leaving terminal if
  there is ink". `SeenIsKept`, about work in the frame, holds.
- `WholeOrError` of `HostCalls` fails: `run`, `exec_ex`, `exec_poll`, `svc_call` and
  `commit_layer` drop the result of `fill_buf` (`exec.rs:150`, `224`, `378`,
  `fs.rs:53`, `snapshot.rs:117`), and `copyFromAosBuf` then returns bytes nobody
  wrote. `WholeIfChecked`, about the other functions, holds.
- `ShellOutputKept` of `TerminalFeed` fails: the boot filter is not switched off
  when the shell is ready, so a line of a program that begins like a banner is
  dropped, where `product_session.dart:236` says "keep `$` and real shell I/O". The
  text it paints in `_flushBootCarry` never exists: what is held is always the
  prefix of a banner.
- `TickHasItsHosts` and `StateOfThisSession` make an exception of a tick that
  outlives the 500 ms (`late`): its hosts are closed under it, which
  `product_session.dart:750` says never happens.
- `NothingLeftOpen` and `DisposeEnds` make an exception of the terminals in `stray`:
  `start()` opens the terminal (`product_session.dart:138`) before `_vt` names it (line
  141), and if `vt.resize` or `VtEncoder.open` throws in between, neither the catch nor
  `_releaseNative` can close it, where line 748 says "Close VM + VT + encoder and stop
  the loop". Without the exception `NothingLeftOpen` fails after one such start and a
  dispose.
- `DisposeEnds` says that the VMs are gone only if native calls come back: the close
  of a VM is not awaited and "can block" (`product_session.dart:845`), and behind a tick
  that never returns it does, until the process exits.
- `AnswerDecides` makes an exception of a tick that waits for an approval: the
  lock it holds is the one the answer needs.

In `VmTable` also: an approval that waits when its VM is closed stays "waiting" for
ever, and two inputs that are not awaited may reach the guest in the other order,
since `vm.dart` uses an isolate a call where `docs/native-host-ffi.md:58` says one a
handle. The session awaits each call, so its own input stays in order. In
`Boot`, a credential whose kind is not a string counts as kind "none" (a kind that
is an unknown string is refused), as `parse_connections_blob` reads it.

Known and not covered by a property: a socket the application closes does not fail
the guest's `ws_recv` (`relay.rs:1030`), which no document forbids; typed bytes are
taken from the queue before `sendInput` and are gone if that throws
(`product_session.dart:199`); each chunk of output is decoded on its own
(`product_session.dart:429`).

## 5. What is proved

The theorems hold for every value of the constants that satisfies the module's
`ASSUME`, so for any number of handles, requests, VMs and calls; where one needs
more than that, it says so. Each safety invariant and each safety action property
of the runs is proved.

`RelayProofs`, from `RelayAssumption`:

- `TypeCorrect`: `Spec => []TypeOK`. The type invariant alone is not inductive:
  reads subtract a cursor from a length, so the proof carries the bounds of all
  cursors with it (`TypeInv`).
- `RecvCursorCorrect`: the same bound for the WebSocket cursor, which must be reset
  whenever the message at the head changes.
- `AnswersOwnOrTurnLateCorrect`: what is stored for a request was given to that request
  or to one at least `MaxHandle` allocations older, however often the counter has
  wrapped. The strengthening `HandleInv` says that in slots, queued events, delivered
  frames and answers alike the number of the allocation is the handle plus whole turns
  of the counter (`Turn`), and that no frame is newer than the slot it can answer
  (`LatestInv`): a slot that replaces another of its handle is of the newest request.
- `AnswersMatchCorrect`: until the counter wraps there is one turn, so that the number
  of the allocation *is* the handle (`UntilWrap`) and a handle never means two requests.
  What follows on the contract and on backlogs uses it in this form.
- `RequestFramesInOrderCorrect`: the frames of one request reach the application in
  order, however often its handle has been given out before. `OrderInv` tells requests
  apart by their numbers: no two slots have the same one (`RequestsApart`), what is queued
  or delivered of a request is of its slot's kind, and the frames of one request are all
  taken by the same puller (`OnePuller`). Without the last the pull from the middle of
  the queue could overtake; with it, a frame that may leave the queue is the first of its
  request.
- `FramesInOrderCorrect`: the same for each handle, in the first turn (`OrderUntilWrap`).
- `ImplementsContractCorrect`: `MaxAllocs <= MaxHandle => (Spec => ImplementsContract)`.
  The condition says that handles do not wrap, which is when a request has a phase of
  its own. `PhaseStep` takes each action of `Relay` to a step of one request in the
  contract or to none: a step touches the slot, the frames and the number of one
  request at most, so the other phases stay.
- `WsBacklogExactCorrect`: a push adds as many units to the set the account counts as
  it adds to the account, a pull takes them away, wherever in the queue the frame is;
  the sets are finite and those of two frames share nothing.

`VmTableProofs`, from `VmAssumption`, all from one invariant `Inv` whose core is
that the object booted as the v-th has handle v and the table maps a handle to no
other guest:

- `CallReachesItsVmCorrect`, `DecidedAsAnsweredCorrect`, `TickKeepsItsVmCorrect`.
- `TypeCorrect`, by the same invariant and the bound on the approvals asked; that the
  oldest queued approval exists is where natural numbers are well-founded.

`BootProofs`, from `BootAssumption` (a blob that is not given has no items):

- `TypeCorrect`, `ToldItsOwnErrorCorrect`: the invariant `Inv` says of a thread that
  is inside the library that it has set no error and returned nothing
  (`Unreported`), which is what the entry's `clear_error` is for.
- `AskedIsKeptCorrect`, `GrantedAsAskedCorrect`: both follow from `GuestSteps`, which
  reduces the eleven actions to the four things that happen to a guest. The second
  carries `PlanInv`: a guest has exactly what its own options grant, and those were
  not refused.

`OutputSinksProofs`, from `OutputAssumption`:

- `TypeCorrect`, and `NothingLostCorrect` by the stronger `AllAccounted`: a byte is in
  the combined sink, handed out, in a remainder or spilled, whatever the sinks of
  the streams hold. `take_output` empties those unread, so an invariant that counted
  on them would not be inductive.
- `CombinedInOrderCorrect`, `StreamsInOrderCorrect`: a byte carries its place in what
  was written and is in the sink of its stream (`Sound`); while only `take_output` is
  called the streams hold nothing the combined sink does not, and only who has drained
  has a remainder (`Emptied`). Order is then a matter of three parts, handed out,
  remainder and sink, each in order and each older than the next.

`ProductSessionProofs` on the image cache, from `ImageAssumption`:

- `ImagesTypeCorrect`, and `NoImageLeakCorrect`: the loop of `sync()` keeps every live image
  within its reach (`LoopKeeps`), from wherever it is resumed.
- `SettledPaintCorrect`: `NewestInv` says what the call with the newest token, and no
  other, has done: the layers it has passed are in the cache as it was given them,
  and once it has ended they are what is painted.
- `PaintNeverGoesBackCorrect`: an action property, from `GenInv`: no image in the cache
  is newer than its placement, and no painted one newer than the cache's.

`HostCallsProofs`, from `HostCallsAssumption`, by one invariant `Inv`:

- `TypeCorrect`. The bound on the version of the guest is not inductive: a call that is
  under way may still raise it. `CountInv` says that the version and the number of calls
  under way come to no more than the calls issued. `LockInv` says that the lock is held
  by the calls that block inside the library, and that there is at most one.
- `WholeIfCheckedCorrect`: `CallsInv` says of a call that has left the library what
  `Return` will copy for its caller (`Given`): if the code checks for what did not fit,
  a call that did not fail is given exactly what the guest answered. For `WholeOrError`
  no such invariant exists: `Unchecked` names the calls that break it.

`ProductSessionProofs`, from `SessionAssumption`, by one invariant `IInv`:

- `TypeCorrect`, `TickHasItsHostsCorrect`, `StateOfThisSessionCorrect`,
  `InputReachesItsGuestCorrect`, `CompressOnOpenTerminalCorrect`. Its parts name what
  the awaits rely on: the hosts that are open are the two the session points to and the
  stray terminals, which nothing else names (`HostsInv`); a `start()` inside
  `disposeAsync` has closed the session and emptied its input (`StartInv`, `InputInv`); a tick works with the hosts of the session unless the
  wait was cut short, and who waits for a tick has one to wait for (`TickInv`); a
  deferred release comes after the compression timer was stopped (`CompressInv`).
- `NothingLeftOpenCorrect`: `~DisposeAnyTime => (Spec => []NothingLeftOpen)`, with
  `GoneInv`: wherever starts fail, every VM was told to close and only stray terminals
  are open. The condition is that of the run `SessionRestart`; without it the code does
  leave hosts open, which `SessionLeak` shows.

`TerminalFeedProofs`, from `FeedAssumption`. First what the filter and the terminal
compute: a recursive function along the positions of a text exists and is the one the
definition says (`Iterates`), by the least position at which it would not be; from that
`WithoutIs`, `DecodeIs`, `FilterIs` and `WriteIs`. Then one invariant a property:

- `PaintedInOrderCorrect`: `TextInv`. `PaintedInOrder` alone is not inductive: it does not
  say that a character in the carry differs from those already dropped (`HeldApart`).
- `FrameUpToDateCorrect`: `TermInv` and `RenderInv`, that the viewport lies within the
  screen, that flags name rows of the grid and that a clean terminal has none.
- `AnswersSentOnceCorrect`: `EffectInv`, that only a tick waiting for `send_input` holds
  answers, so that the one that begins finds none left over.
- `TypeCorrect`, from all of them.

`NotebookProofs`, from `NotebookAssumption` (work is no prompt and no blank):

- `CropKeepsWork`: the crop of `FreezePolicy` loses no row of work and makes up none, for
  frames of any size.
- `TypeCorrect`, `NoRepeatCorrect`: `NotebookInv`, whose part `FrameOfLines` says that a
  frame, though older than the terminal while a tick waits, shows no work that has left
  it: only a switch wipes the terminal, and the switch takes the frame again.
- `SeenIsKeptCorrect`: an action property, by the same invariant and `CropKeepsWork`.

Only model-checked: the liveness properties `RequestsAnswered`, `BlockedSenderResumes`,
`BootReturns`, `AnswerDecides`, `DisposeEnds`, `InputIsTaken` and `JobsEnd` (the prover
does not do fairness or ENABLED). The properties of section 4 that fail are not proved, of
course; what is proved next to them has the exceptions listed there.

## 6. What is not modelled

Payload bytes, JSON frames, the wording of errors, the parser of catalogs (those of
connections and policies are in `Boot`, up to which items they refuse); poisoned
mutexes; the contents of snapshots; layout, painting, colours and
metrics; key tables; the FFI declarations; the runner and build files. The kernel
(`KernelHost`, `RealNet`), libghostty-vt and the Flutter engine are outside this
repository: what the models say of them is what the code here relies on, and is
marked external in the map.

## 7. Plan

Modules to come, the most important first:

1. `Selection`: the gesture states (`selection.dart`), which `TerminalFeed` has as
   one action.
2. A whole-line filter as the abstract specification of the boot filter of
   `TerminalFeed`.
3. Key, mouse and paste encoding, where the terminal's modes decide.

Proofs to come: the contract past the wrap, which needs a phase for a request whose slot
was replaced under its handle.
