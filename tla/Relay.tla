------------------------------- MODULE Relay -------------------------------
(***************************************************************************)
(* The egress relay of the native host: table.rs (RelayState) and the      *)
(* capabilities and C entry points of relay.rs.                            *)
(*                                                                         *)
(* The guest kernel asks for an effect through a capability (FlutterNet,   *)
(* FlutterHostCall, FlutterPersist): a handle is allocated, a slot is      *)
(* inserted and an event is queued.  The embedding application pulls the   *)
(* events (relay_next, relay_next_sidecar) and answers them by handle      *)
(* (the *_respond and ws_* entry points); the guest polls the slot, reads  *)
(* it and closes it.  All of it is guarded by one Mutex<RelayState>, so    *)
(* one call is one action.                                                 *)
(*                                                                         *)
(* A payload is its length.  Every slot and event also carries req, the    *)
(* number of the allocation that made it, and every answer the req of the  *)
(* event it answers: auxiliary data that no guard reads.                   *)
(***************************************************************************)
EXTENDS Integers, SequencesExt

CONSTANTS
  MaxHandle,      \* i32::MAX
  WsSendMark,     \* WS_SEND_MARK, in payload units
  NetRelay,       \* boot plan: net = 1
  HostCallRelay,  \* boot plan: host_call = 1
  SidecarOnly,    \* boot plan: host_call_sidecar_only
  PersistRelay,   \* boot plan: persist = 1
  Lens,           \* lengths of the payloads the two sides send
  ReadCaps,       \* sizes of the buffer the guest reads into
  PullFits,       \* whether a pulled frame fits the caller's buffer
  MaxAllocs,      \* bound: number of allocations
  MaxEvents,      \* bound: length of the event queue
  MaxIncoming     \* bound: messages buffered for one socket

ASSUME RelayAssumption ==
  /\ MaxHandle \in Nat \ {0}
  /\ WsSendMark \in Nat \ {0}
  /\ {NetRelay, HostCallRelay, SidecarOnly, PersistRelay} \subseteq BOOLEAN
  /\ Lens \subseteq Nat
  /\ ReadCaps \subseteq Nat
  /\ PullFits \subseteq BOOLEAN
  /\ {MaxAllocs, MaxEvents, MaxIncoming} \subseteq Nat

VARIABLES
  next,        \* the next handle to give out
  events,      \* VecDeque<EgressRelayEvent>
  http,        \* HashMap<i32, HttpSlot>
  host_calls,  \* HashMap<i32, HostCallSlot>
  persist,     \* HashMap<i32, PersistSlot>
  ws,          \* HashMap<i32, WsSlot>
  delivered,   \* the frames the application has received
  allocs       \* auxiliary: allocations so far

vars == <<next, events, http, host_calls, persist, ws, delivered, allocs>>
-----------------------------------------------------------------------------
Handle == 1 .. MaxHandle

EventKinds == {"http", "host_call", "host_call_close", "persist",
               "ws_connect", "ws_send", "ws_close"}

Event == [kind : EventKinds, handle : Handle, req : Nat, len : Nat,
          sidecar : BOOLEAN]

HttpSlot == [req : Nat, done : BOOLEAN, failed : BOOLEAN, answers : Nat,
             head : Nat, body : Nat, body_pos : Nat]

HostCallSlot == [req : Nat, dispatched : BOOLEAN, sidecar : BOOLEAN,
                 done : BOOLEAN, failed : BOOLEAN, answers : Nat,
                 result : Nat, offset : Nat]

PersistSlot == [req : Nat, given : BOOLEAN, done : BOOLEAN, failed : BOOLEAN,
                answers : Nat, result : Nat, offset : Nat]

Message == [answers : Nat, len : Nat]

WsSlot == [req : Nat, open : BOOLEAN, failed : BOOLEAN, answers : Nat,
           incoming : Seq(Message), incoming_pos : Nat, queued_bytes : Nat]

\* The HashMaps: a function whose domain is the set of live handles.
IsMap(map, Slot) == DOMAIN map \subseteq Handle /\ map \in [DOMAIN map -> Slot]

Insert(map, h, slot) ==
  [x \in DOMAIN map \cup {h} |-> IF x = h THEN slot ELSE map[x]]

Delete(map, h) == Restrict(map, DOMAIN map \ {h})

Least(m, n) == IF m <= n THEN m ELSE n

\* The lengths of the payloads and buffers keep every count a natural number.
TypeOK ==
  /\ next \in Handle
  /\ events \in Seq(Event)
  /\ IsMap(http, HttpSlot)
  /\ IsMap(host_calls, HostCallSlot)
  /\ IsMap(persist, PersistSlot)
  /\ IsMap(ws, WsSlot)
  /\ delivered \in SUBSET Event
  /\ allocs \in Nat

Init ==
  /\ next = 1
  /\ events = <<>>
  /\ http = <<>> /\ host_calls = <<>> /\ persist = <<>> /\ ws = <<>>
  /\ delivered = {}
  /\ allocs = 0
-----------------------------------------------------------------------------
\* Mutant of AllocHandle: wrapping_add without max(1).
UnclampedHandle == /\ allocs < MaxAllocs
                   /\ allocs' = allocs + 1
                   /\ next' = IF next = MaxHandle THEN -MaxHandle - 1 ELSE next + 1

LiveHandles == DOMAIN http \cup DOMAIN host_calls \cup DOMAIN persist \cup DOMAIN ws

\* Mutant of AllocHandle: give out again the lowest handle that is free.
LowestFreeHandle == /\ allocs < MaxAllocs
                    /\ allocs' = allocs + 1
                    /\ Handle \ (LiveHandles \cup {next}) # {}
                    /\ next' = Min(Handle \ (LiveHandles \cup {next}))

(***************************************************************************)
(* alloc_handle: give out next, then step it; wrapping_add(1).max(1) takes *)
(* i32::MAX back to 1, and so never leaves 1..i32::MAX.                    *)
(***************************************************************************)
AllocHandle == /\ allocs < MaxAllocs
               /\ allocs' = allocs + 1
               /\ next' = IF next = MaxHandle THEN 1 ELSE next + 1

Push(e) == /\ Len(events) < MaxEvents
           /\ events' = Append(events, e)

NewEvent(kind, h, req, len, sidecar) ==
  [kind |-> kind, handle |-> h, req |-> req, len |-> len, sidecar |-> sidecar]
-----------------------------------------------------------------------------
(* FlutterNet: HTTP.  http_poll is the operator HttpPoll: it changes nothing. *)

NewHttpSlot(req) ==
  [req |-> req, done |-> FALSE, failed |-> FALSE, answers |-> 0,
   head |-> 0, body |-> 0, body_pos |-> 0]

HttpRequest ==
  /\ NetRelay
  /\ AllocHandle
  /\ http' = Insert(http, next, NewHttpSlot(allocs + 1))
  /\ Push(NewEvent("http", next, allocs + 1, 0, FALSE))
  /\ UNCHANGED <<host_calls, persist, ws, delivered>>

\* What http_poll returns: -1 gone or failed, 0 pending, else the head's length.
HttpPoll(h) ==
  IF h \notin DOMAIN http THEN -1
  ELSE IF ~http[h].done THEN 0
  ELSE IF http[h].failed THEN -1
  ELSE http[h].head

\* A read of nothing (pending, failed, drained) returns and changes nothing.
HttpBody(h, cap) ==
  /\ h \in DOMAIN http
  /\ http[h].done /\ ~http[h].failed
  /\ LET start == Least(http[h].body_pos, http[h].body)
     IN  http' = [http EXCEPT ![h].body_pos =
                    @ + Least(http[h].body - start, cap)]
  /\ UNCHANGED <<next, events, host_calls, persist, ws, delivered, allocs>>

HttpClose(h) ==
  /\ h \in DOMAIN http
  /\ http' = Delete(http, h)
  /\ UNCHANGED <<next, events, host_calls, persist, ws, delivered, allocs>>
-----------------------------------------------------------------------------
(* FlutterNet: WebSockets. *)

NewWsSlot(req) ==
  [req |-> req, open |-> FALSE, failed |-> FALSE, answers |-> 0,
   incoming |-> <<>>, incoming_pos |-> 0, queued_bytes |-> 0]

WsConnect ==
  /\ NetRelay
  /\ AllocHandle
  /\ ws' = Insert(ws, next, NewWsSlot(allocs + 1))
  /\ Push(NewEvent("ws_connect", next, allocs + 1, 0, FALSE))
  /\ UNCHANGED <<http, host_calls, persist, delivered>>

\* ws_send refuses (-1) unless the socket is open and the mark leaves room.
CanSend(h, len) ==
  /\ h \in DOMAIN ws
  /\ ~ws[h].failed
  /\ len <= WsSendMark
  /\ ws[h].open
  /\ ws[h].queued_bytes + len <= WsSendMark

WsSend(h, len) ==
  /\ CanSend(h, len)
  /\ ws' = [ws EXCEPT ![h].queued_bytes = @ + len]
  /\ Push(NewEvent("ws_send", h, ws[h].req, len, FALSE))
  /\ UNCHANGED <<next, http, host_calls, persist, delivered, allocs>>

WsReady(h) ==
  \/ h \notin DOMAIN ws
  \/ ws[h].failed
  \/ ws[h].open /\ ws[h].queued_bytes < WsSendMark

\* Mutant of WsRecv: the cursor is not reset when a message is dropped.
WsRecvKeepCursor(h, cap) ==
  /\ h \in DOMAIN ws
  /\ ~ws[h].failed
  /\ ws[h].incoming # <<>>
  /\ LET front == Head(ws[h].incoming).len
         pos   == ws[h].incoming_pos
                    + Least(front - ws[h].incoming_pos, cap)
     IN  ws' = [ws EXCEPT
                  ![h].incoming     = IF pos >= front THEN Tail(@) ELSE @,
                  ![h].incoming_pos = pos]
  /\ UNCHANGED <<next, events, http, host_calls, persist, delivered, allocs>>

\* Read the head message; it is dropped when it has been read to its end.
WsRecv(h, cap) ==
  /\ h \in DOMAIN ws
  /\ ~ws[h].failed
  /\ ws[h].incoming # <<>>
  /\ LET front == Head(ws[h].incoming).len
         pos   == ws[h].incoming_pos
                    + Least(front - ws[h].incoming_pos, cap)
     IN  ws' = [ws EXCEPT
                  ![h].incoming     = IF pos >= front THEN Tail(@) ELSE @,
                  ![h].incoming_pos = IF pos >= front THEN 0 ELSE pos]
  /\ UNCHANGED <<next, events, http, host_calls, persist, delivered, allocs>>

\* The kernel closes a handle that it holds, once.
WsClose(h) ==
  /\ h \in DOMAIN ws
  /\ ws' = Delete(ws, h)
  /\ Push(NewEvent("ws_close", h, ws[h].req, 0, FALSE))
  /\ UNCHANGED <<next, http, host_calls, persist, delivered, allocs>>
-----------------------------------------------------------------------------
(* FlutterHostCall. *)

NewHostCallSlot(req, sidecar) ==
  [req |-> req, dispatched |-> FALSE, sidecar |-> sidecar, done |-> FALSE,
   failed |-> FALSE, answers |-> 0, result |-> 0, offset |-> 0]

HostCallStart(sidecar) ==
  /\ HostCallRelay
  /\ SidecarOnly => sidecar
  /\ AllocHandle
  /\ host_calls' = Insert(host_calls, next, NewHostCallSlot(allocs + 1, sidecar))
  /\ Push(NewEvent("host_call", next, allocs + 1, 0, sidecar))
  /\ UNCHANGED <<http, persist, ws, delivered>>

\* What poll returns: -1 gone or failed, 0 pending, 1 answered.
HostCallPoll(h) ==
  IF h \notin DOMAIN host_calls \/ host_calls[h].failed THEN -1
  ELSE IF host_calls[h].done THEN 1 ELSE 0

HostCallBody(h, cap) ==
  /\ h \in DOMAIN host_calls
  /\ host_calls[h].done /\ ~host_calls[h].failed
  /\ host_calls[h].offset < host_calls[h].result
  /\ host_calls' = [host_calls EXCEPT ![h].offset =
                      @ + Least(host_calls[h].result - @, cap)]
  /\ UNCHANGED <<next, events, http, persist, ws, delivered, allocs>>

\* The event says whether the call was the sidecar's: the slot is gone by then.
HostCallClose(h) ==
  /\ h \in DOMAIN host_calls
  /\ host_calls' = Delete(host_calls, h)
  /\ Push(NewEvent("host_call_close", h, host_calls[h].req, 0,
                   host_calls[h].sidecar))
  /\ UNCHANGED <<next, http, persist, ws, delivered, allocs>>
-----------------------------------------------------------------------------
(* FlutterPersist. *)

PersistOps == 0 .. 3

NewPersistSlot(req, given) ==
  [req |-> req, given |-> given, done |-> FALSE, failed |-> FALSE,
   answers |-> 0, result |-> 0, offset |-> 0]

\* An op tag outside 0..3 returns -1, after the slot has been inserted.
PersistStart(op) ==
  /\ PersistRelay
  /\ AllocHandle
  /\ persist' = Insert(persist, next, NewPersistSlot(allocs + 1, op \in PersistOps))
  /\ IF op \in PersistOps
     THEN Push(NewEvent("persist", next, allocs + 1, 0, FALSE))
     ELSE UNCHANGED events
  /\ UNCHANGED <<http, host_calls, ws, delivered>>

PersistPoll(h) ==
  IF h \notin DOMAIN persist \/ persist[h].failed THEN -1
  ELSE IF persist[h].done THEN 1 ELSE 0

PersistBody(h, cap) ==
  /\ h \in DOMAIN persist
  /\ persist[h].given
  /\ persist[h].done /\ ~persist[h].failed
  /\ persist[h].offset < persist[h].result
  /\ persist' = [persist EXCEPT ![h].offset =
                   @ + Least(persist[h].result - @, cap)]
  /\ UNCHANGED <<next, events, http, host_calls, ws, delivered, allocs>>

PersistClose(h) ==
  /\ h \in DOMAIN persist
  /\ persist[h].given
  /\ persist' = Delete(persist, h)
  /\ UNCHANGED <<next, events, http, host_calls, ws, delivered, allocs>>
-----------------------------------------------------------------------------
(* The application's side: pulling frames. *)

\* Mutant of Dispatch: a pulled message stays on the socket's account.
DispatchUncounted(e) ==
  /\ host_calls' = IF e.kind = "host_call" /\ e.handle \in DOMAIN host_calls
                   THEN [host_calls EXCEPT ![e.handle].dispatched = TRUE]
                   ELSE host_calls
  /\ ws' = ws

\* dispatch_relay_event and wire_relay_event: what leaving the queue does to
\* the slot of the event, if it is still there.
Dispatch(e) ==
  /\ host_calls' = IF e.kind = "host_call" /\ e.handle \in DOMAIN host_calls
                   THEN [host_calls EXCEPT ![e.handle].dispatched = TRUE]
                   ELSE host_calls
  /\ ws' = IF e.kind = "ws_send" /\ e.handle \in DOMAIN ws
           THEN [ws EXCEPT ![e.handle].queued_bytes = @ - Least(@, e.len)]
           ELSE ws

(***************************************************************************)
(* The event has left the queue before fill_buf looks at the caller's      *)
(* buffer: a frame that does not fit is returned to nobody.                *)
(***************************************************************************)
PopEvent(i) ==
  /\ events' = RemoveAt(events, i)
  /\ Dispatch(events[i])
  /\ \E fits \in PullFits :
       delivered' = IF fits THEN delivered \cup {events[i]} ELSE delivered
  /\ UNCHANGED <<next, http, persist, allocs>>

RelayNext == events # <<>> /\ PopEvent(1)

IsSidecarEvent(e) == e.kind \in {"host_call", "host_call_close"} /\ e.sidecar

\* Mutant of FirstSidecar: the last match instead of the first.
LastSidecar(i) == /\ IsSidecarEvent(events[i])
                  /\ \A j \in i + 1 .. Len(events) : ~IsSidecarEvent(events[j])

FirstSidecar(i) == /\ IsSidecarEvent(events[i])
                   /\ \A j \in 1 .. i - 1 : ~IsSidecarEvent(events[j])

\* Mutant of RelayNextSidecar: drops what is queued ahead of the match.
RelayDrainToSidecar ==
  \E i \in DOMAIN events :
    /\ FirstSidecar(i)
    /\ events' = SubSeq(events, i + 1, Len(events))
    /\ Dispatch(events[i])
    /\ delivered' = delivered \cup {events[i]}
    /\ UNCHANGED <<next, http, persist, allocs>>

RelayNextSidecar == \E i \in DOMAIN events : FirstSidecar(i) /\ PopEvent(i)
-----------------------------------------------------------------------------
(* The application's side: answering.  It answers frames it has received,  *)
(* late, more than once or never.  An answer to a handle with no slot is   *)
(* refused and changes nothing.                                            *)

\* Mutant of HttpRespond: the answer is stored but not marked as done.
HttpRespondUnmarked(f, ok, head, body) ==
  /\ f.kind = "http" /\ f.handle \in DOMAIN http
  /\ http' = [http EXCEPT ![f.handle] =
                [@ EXCEPT !.failed = ~ok, !.answers = f.req, !.head = head,
                          !.body = body, !.body_pos = 0]]
  /\ UNCHANGED <<next, events, host_calls, persist, ws, delivered, allocs>>

HttpRespond(f, ok, head, body) ==
  /\ f.kind = "http" /\ f.handle \in DOMAIN http
  /\ http' = [http EXCEPT ![f.handle] =
                [@ EXCEPT !.done = TRUE, !.failed = ~ok, !.answers = f.req,
                          !.head = head, !.body = body, !.body_pos = 0]]
  /\ UNCHANGED <<next, events, host_calls, persist, ws, delivered, allocs>>

HostCallRespond(f, ok, result) ==
  /\ f.kind = "host_call" /\ f.handle \in DOMAIN host_calls
  /\ host_calls' = [host_calls EXCEPT ![f.handle] =
                      [@ EXCEPT !.done = TRUE, !.failed = ~ok,
                                !.answers = f.req, !.result = result,
                                !.offset = 0]]
  /\ UNCHANGED <<next, events, http, persist, ws, delivered, allocs>>

PersistRespond(f, ok, body) ==
  /\ f.kind = "persist" /\ f.handle \in DOMAIN persist
  /\ persist' = [persist EXCEPT ![f.handle] =
                   [@ EXCEPT !.done = TRUE, !.failed = ~ok, !.answers = f.req,
                             !.result = body, !.offset = 0]]
  /\ UNCHANGED <<next, events, http, host_calls, ws, delivered, allocs>>

AppWsOpen(f, ok) ==
  /\ f.kind = "ws_connect" /\ f.handle \in DOMAIN ws
  /\ ws' = [ws EXCEPT ![f.handle] =
              [@ EXCEPT !.open = ok, !.failed = ~ok, !.answers = f.req]]
  /\ UNCHANGED <<next, events, http, host_calls, persist, delivered, allocs>>

AppWsPush(f, len) ==
  /\ f.kind = "ws_connect" /\ f.handle \in DOMAIN ws
  /\ Len(ws[f.handle].incoming) < MaxIncoming
  /\ ws' = [ws EXCEPT ![f.handle].incoming =
              Append(@, [answers |-> f.req, len |-> len])]
  /\ UNCHANGED <<next, events, http, host_calls, persist, delivered, allocs>>

AppWsClose(f) ==
  /\ f.kind = "ws_connect" /\ f.handle \in DOMAIN ws
  /\ ws' = [ws EXCEPT ![f.handle].open = FALSE]
  /\ UNCHANGED <<next, events, http, host_calls, persist, delivered, allocs>>
-----------------------------------------------------------------------------
GuestStep ==
  \/ HttpRequest
  \/ WsConnect
  \/ \E sidecar \in BOOLEAN : HostCallStart(sidecar)
  \/ \E op \in 0 .. 4 : PersistStart(op)
  \/ \E h \in Handle :
       \/ HttpClose(h)
       \/ WsClose(h)
       \/ HostCallClose(h)
       \/ PersistClose(h)
       \/ \E len \in Lens : WsSend(h, len)
       \/ \E cap \in ReadCaps : \/ HttpBody(h, cap)
                               \/ WsRecv(h, cap)
                               \/ HostCallBody(h, cap)
                               \/ PersistBody(h, cap)

AppAnswer ==
  \E f \in delivered :
    \/ \E ok \in BOOLEAN, head \in Lens, body \in Lens : HttpRespond(f, ok, head, body)
    \/ \E ok \in BOOLEAN, len \in Lens : HostCallRespond(f, ok, len)
    \/ \E ok \in BOOLEAN, len \in Lens : PersistRespond(f, ok, len)
    \/ \E ok \in BOOLEAN : AppWsOpen(f, ok)
    \/ \E len \in Lens : AppWsPush(f, len)
    \/ AppWsClose(f)

Next == GuestStep \/ RelayNext \/ RelayNextSidecar \/ AppAnswer

Spec == Init /\ [][Next]_vars

\* The application answers what it has pulled for h and not yet answered.
AnswerPending(h) ==
  \E f \in delivered, ok \in BOOLEAN, len \in Lens :
    /\ f.handle = h
    /\ \/ HttpRespond(f, ok, len, len) /\ ~http[h].done
       \/ HostCallRespond(f, ok, len) /\ ~host_calls[h].done
       \/ PersistRespond(f, ok, len) /\ ~persist[h].done
       \/ AppWsOpen(f, ok) /\ ws[h].answers = 0

\* docs/aos-c-api.md:398: the embedder's loop drains the queue and responds to
\* every event.  The guest owes nothing.
FairSpec == /\ Spec
            /\ WF_vars(RelayNext)
            /\ \A h \in Handle : WF_vars(AnswerPending(h))
-----------------------------------------------------------------------------
(* Properties. *)

\* i32 has 2^31 - 1 handles; the counter comes back to 1 after all were used.
NoWrap == allocs <= MaxHandle

\* An answer is stored in the slot of the request it answers, even if it comes
\* after the guest has closed that request and started others; and a message
\* the application pushes reaches the socket it was received on.
AnswersMatch ==
  NoWrap =>
    /\ \A h \in DOMAIN http : http[h].done => http[h].answers = http[h].req
    /\ \A h \in DOMAIN host_calls :
         host_calls[h].done => host_calls[h].answers = host_calls[h].req
    /\ \A h \in DOMAIN persist :
         persist[h].done => persist[h].answers = persist[h].req
    /\ \A h \in DOMAIN ws :
         /\ ws[h].open \/ ws[h].failed => ws[h].answers = ws[h].req
         /\ \A i \in DOMAIN ws[h].incoming :
              ws[h].incoming[i].answers = ws[h].req

\* The read cursor stays within the message at the head, so that the usize
\* subtraction front.len() - incoming_pos of ws_recv never underflows.
RecvCursorInMessage ==
  \A h \in DOMAIN ws :
    ws[h].incoming_pos <= IF ws[h].incoming = <<>> THEN 0
                          ELSE Head(ws[h].incoming).len

\* One unit of queued payload: which event, and which unit of it.
QueuedUnits(h) ==
  {u \in (DOMAIN events) \X (1 .. WsSendMark) :
     /\ events[u[1]].kind = "ws_send"
     /\ events[u[1]].handle = h
     /\ u[2] <= events[u[1]].len}

\* queued_bytes is exactly what the application has still to pull from this
\* socket: the back-pressure neither leaks room nor forgets a backlog.
WsBacklogExact ==
  NoWrap => \A h \in DOMAIN ws :
              ws[h].queued_bytes = Cardinality(QueuedUnits(h))

\* Which request each answer in a slot of request r was given to; 0 if none was.
AnswersIn(map, r) == {map[h].answers : h \in {x \in DOMAIN map : map[x].req = r}}

Answers(r) == AnswersIn(http, r) \cup AnswersIn(host_calls, r)
                \cup AnswersIn(persist, r) \cup AnswersIn(ws, r)

Requesting(e, r) == /\ e.req = r
                    /\ e.kind \in {"http", "host_call", "persist", "ws_connect"}

Pending(r) ==
  IF \E h \in DOMAIN persist : persist[h].req = r /\ ~persist[h].given THEN "refused"
  ELSE IF \E f \in delivered : Requesting(f, r) THEN "told"
  ELSE IF \E i \in DOMAIN events : Requesting(events[i], r) THEN "queued"
  ELSE "lost"

\* The phase of request r, read off the slots, the queue and the frames.  An
\* answer in the slot of another request is no phase of the contract.
Phase(r) == IF r > allocs THEN "new"
            ELSE IF Answers(r) = {} THEN "over"
            ELSE IF Answers(r) = {0} THEN Pending(r)
            ELSE IF Answers(r) = {r} THEN "answered" ELSE "misanswered"

Contract == INSTANCE RelayContract WITH
              MaxRequests <- MaxAllocs,
              MayLose     <- FALSE \in PullFits,
              phase       <- [r \in 1 .. MaxAllocs |-> Phase(r)]

\* For the guest and the application each request is asked once, told once,
\* answered only after that and only by its own answer, and over for good when
\* it is closed; it is lost only by a pull into a buffer that is too small
\* (relay.rs: alloc_handle, pop_event, fill_buf, the respond functions).
ImplementsContract == Contract!Spec

Rank(e) == CASE e.kind = "ws_send" -> 1
             [] e.kind \in {"host_call_close", "ws_close"} -> 2
             [] OTHER -> 0

\* For one handle the application sees the request, then its messages, then
\* its close, though two pullers take from different places of the queue.
FramesInOrder ==
  NoWrap =>
    \A i \in DOMAIN events :
      /\ \A j \in DOMAIN events :
           i < j /\ events[i].handle = events[j].handle
             => Rank(events[i]) <= Rank(events[j])
      /\ \A f \in delivered :
           f.handle = events[i].handle => Rank(f) <= Rank(events[i])

Waiting(h) ==
  \/ HttpPoll(h) = 0
  \/ HostCallPoll(h) = 0
  \/ PersistPoll(h) = 0 /\ persist[h].given
  \/ h \in DOMAIN ws /\ ws[h].answers = 0

\* Under the embedder's loop every request is answered or abandoned.
RequestsAnswered == \A h \in Handle : Waiting(h) ~> ~Waiting(h)

Blocked(h) == h \in DOMAIN ws /\ ws[h].open /\ ~WsReady(h)

\* A sender stopped at the mark becomes ready again, unless its socket ends.
BlockedSenderResumes == \A h \in Handle : Blocked(h) ~> ~Blocked(h)
=============================================================================
