---------------------------- MODULE RelayProofs ----------------------------
(* TLAPS proofs about Relay, for every value of its constants. *)
EXTENDS Relay, SequenceTheorems, FiniteSetTheorems, FunctionTheorems, TLAPS

-----------------------------------------------------------------------------
(* The HashMap operators. *)

\* Inserting keeps the other entries and replaces or adds the one inserted.
LEMMA InsertMap ==
  ASSUME NEW map, NEW Slot, IsMap(map, Slot),
         NEW h \in Handle, NEW slot \in Slot
  PROVE  /\ IsMap(Insert(map, h, slot), Slot)
         /\ DOMAIN Insert(map, h, slot) = DOMAIN map \cup {h}
         /\ Insert(map, h, slot)[h] = slot
         /\ \A x \in DOMAIN map \ {h} : Insert(map, h, slot)[x] = map[x]
BY DEF IsMap, Insert

\* Removing keeps the other entries.
LEMMA DeleteMap ==
  ASSUME NEW map, NEW Slot, IsMap(map, Slot), NEW h
  PROVE  /\ IsMap(Delete(map, h), Slot)
         /\ DOMAIN Delete(map, h) = DOMAIN map \ {h}
         /\ \A x \in DOMAIN map \ {h} : Delete(map, h)[x] = map[x]
BY DEF IsMap, Delete, Restrict

\* Assigning to an entry that is there keeps the other entries.
LEMMA UpdateMap ==
  ASSUME NEW map, NEW Slot, IsMap(map, Slot),
         NEW h \in DOMAIN map, NEW slot \in Slot
  PROVE  /\ IsMap([map EXCEPT ![h] = slot], Slot)
         /\ DOMAIN [map EXCEPT ![h] = slot] = DOMAIN map
         /\ [map EXCEPT ![h] = slot][h] = slot
         /\ \A x \in DOMAIN map \ {h} : [map EXCEPT ![h] = slot][x] = map[x]
BY DEF IsMap
-----------------------------------------------------------------------------
(* Type correctness. *)

TypeInv == TypeOK /\ RecvCursorInMessage

LEMMA AllocType ==
  ASSUME TypeOK, AllocHandle
  PROVE  next' \in Handle /\ allocs' \in Nat /\ allocs' = allocs + 1
BY RelayAssumption DEF TypeOK, AllocHandle, Handle

LEMMA PushType ==
  ASSUME TypeOK, NEW e \in Event, Push(e)
  PROVE  events' \in Seq(Event)
BY DEF TypeOK, Push

LEMMA NewEventType ==
  ASSUME NEW kind \in EventKinds, NEW h \in Handle, NEW req \in Nat,
         NEW len \in Nat, NEW sidecar \in BOOLEAN
  PROVE  NewEvent(kind, h, req, len, sidecar) \in Event
BY DEF NewEvent, Event

\* Starting a request allocates a handle and queues an event of a known kind.
LEMMA StartType ==
  ASSUME TypeOK, AllocHandle, NEW kind \in EventKinds, NEW sidecar \in BOOLEAN,
         Push(NewEvent(kind, next, allocs + 1, 0, sidecar))
  PROVE  /\ next' \in Handle
         /\ allocs' \in Nat
         /\ events' \in Seq(Event)
<1>1. next \in Handle /\ allocs + 1 \in Nat
  BY DEF TypeOK
<1>2. NewEvent(kind, next, allocs + 1, 0, sidecar) \in Event
  BY <1>1, NewEventType
<1> QED BY <1>2, AllocType, PushType

\* Removing one event leaves a sequence of the others, in the same order.
LEMMA RemoveAtEvents ==
  ASSUME NEW s \in Seq(Event), NEW i \in 1 .. Len(s)
  PROVE  /\ RemoveAt(s, i) \in Seq(Event)
         /\ Len(RemoveAt(s, i)) = Len(s) - 1
         /\ \A j \in 1 .. Len(s) - 1 :
              RemoveAt(s, i)[j] = IF j < i THEN s[j] ELSE s[j + 1]
<1> DEFINE a == SubSeq(s, 1, i - 1)
           b == SubSeq(s, i + 1, Len(s))
<1>1. Len(s) \in Nat /\ i \in Nat /\ 1 <= i /\ i <= Len(s)
  OBVIOUS
<1>2. /\ a \in Seq(Event) /\ Len(a) = i - 1
      /\ \A j \in 1 .. i - 1 : a[j] = s[j]
  <2>1. \A j \in 1 .. i - 1 : s[j] \in Event
    BY <1>1
  <2> QED BY <1>1, <2>1, SubSeqProperties
<1>3. /\ b \in Seq(Event) /\ Len(b) = Len(s) - i
      /\ \A j \in 1 .. Len(s) - i : b[j] = s[j + i]
  <2>1. \A j \in i + 1 .. Len(s) : s[j] \in Event
    BY <1>1
  <2> QED BY <1>1, <2>1, SubSeqProperties
<1>4. RemoveAt(s, i) = a \o b
  BY DEF RemoveAt
<1> HIDE DEF a, b
<1>5. /\ a \o b \in Seq(Event)
      /\ Len(a \o b) = Len(a) + Len(b)
      /\ \A j \in 1 .. Len(a) + Len(b) :
           (a \o b)[j] = IF j <= Len(a) THEN a[j] ELSE b[j - Len(a)]
  BY <1>2, <1>3, ConcatProperties
<1>6. ASSUME NEW j \in 1 .. Len(s) - 1
      PROVE  (a \o b)[j] = IF j < i THEN s[j] ELSE s[j + 1]
  <2>1. CASE j < i
    BY <1>1, <1>2, <1>3, <1>5, <2>1
  <2>2. CASE j >= i
    <3>1. (a \o b)[j] = b[j - (i - 1)]
      BY <1>1, <1>2, <1>3, <1>5, <2>2
    <3>2. j - (i - 1) \in 1 .. Len(s) - i
      BY <1>1, <2>2
    <3>3. b[j - (i - 1)] = s[(j - (i - 1)) + i]
      BY <1>3, <3>2
    <3>4. (j - (i - 1)) + i = j + 1
      BY <1>1
    <3> QED BY <1>1, <2>2, <3>1, <3>3, <3>4
  <2>3. j < i \/ j >= i
    BY <1>1
  <2> QED BY <2>1, <2>2, <2>3, Zenon
<1>7. Len(a \o b) = Len(s) - 1
  BY <1>1, <1>2, <1>3, <1>5
<1> QED BY <1>4, <1>5, <1>6, <1>7, Zenon
LEMMA TypeInit == Init => TypeInv
BY RelayAssumption
DEF Init, TypeInv, TypeOK, RecvCursorInMessage, IsMap, Handle

LEMMA TypeStep == TypeInv /\ [Next]_vars => TypeInv'
<1> SUFFICES ASSUME TypeInv, [Next]_vars PROVE TypeInv'
  OBVIOUS
<1> USE RelayAssumption DEF TypeInv

<1>1. ASSUME HttpRequest PROVE TypeInv'
  <2>1. next' \in Handle /\ allocs' \in Nat /\ events' \in Seq(Event)
    BY <1>1, StartType DEF HttpRequest, EventKinds
  <2>2. NewHttpSlot(allocs + 1) \in HttpSlot
    BY DEF NewHttpSlot, HttpSlot, TypeOK
  <2>3. IsMap(http', HttpSlot)
    BY <1>1, <2>2, InsertMap DEF HttpRequest, TypeOK
  <2> QED BY <1>1, <2>1, <2>3 DEF HttpRequest, TypeOK, RecvCursorInMessage

<1>2. ASSUME WsConnect PROVE TypeInv'
  <2>1. next' \in Handle /\ allocs' \in Nat /\ events' \in Seq(Event)
    BY <1>2, StartType DEF WsConnect, EventKinds
  <2> DEFINE slot == NewWsSlot(allocs + 1)
  <2>2. /\ slot \in WsSlot
        /\ slot.incoming = <<>> /\ slot.incoming_pos = 0
    BY DEF NewWsSlot, WsSlot, TypeOK
  <2>3. ws' = Insert(ws, next, slot)
    BY <1>2 DEF WsConnect
  <2> HIDE DEF slot
  <2>4. IsMap(ws', WsSlot)
    BY <2>2, <2>3, InsertMap DEF TypeOK
  <2>5. RecvCursorInMessage'
    <3>1. /\ DOMAIN ws' = DOMAIN ws \cup {next}
          /\ ws'[next] = slot
          /\ \A x \in DOMAIN ws \ {next} : ws'[x] = ws[x]
      <4>1. IsMap(ws, WsSlot) /\ next \in Handle
        BY DEF TypeOK
      <4> QED BY <2>2, <2>3, <4>1, InsertMap
    <3> QED BY <2>2, <3>1 DEF RecvCursorInMessage
  <2> QED BY <1>2, <2>1, <2>4, <2>5 DEF WsConnect, TypeOK

<1>3. ASSUME NEW sidecar \in BOOLEAN, HostCallStart(sidecar) PROVE TypeInv'
  <2>1. next' \in Handle /\ allocs' \in Nat /\ events' \in Seq(Event)
    BY <1>3, StartType DEF HostCallStart, EventKinds
  <2>2. NewHostCallSlot(allocs + 1, sidecar) \in HostCallSlot
    BY DEF NewHostCallSlot, HostCallSlot, TypeOK
  <2>3. IsMap(host_calls', HostCallSlot)
    BY <1>3, <2>2, InsertMap DEF HostCallStart, TypeOK
  <2> QED BY <1>3, <2>1, <2>3 DEF HostCallStart, TypeOK, RecvCursorInMessage

<1>4. ASSUME NEW op \in 0 .. 4, PersistStart(op) PROVE TypeInv'
  <2>1. next' \in Handle /\ allocs' \in Nat
    BY <1>4, AllocType DEF PersistStart
  <2>2. events' \in Seq(Event)
    <3>1. CASE op \in PersistOps
      BY <1>4, <3>1, StartType DEF PersistStart, EventKinds
    <3>2. CASE op \notin PersistOps
      BY <1>4, <3>2 DEF PersistStart, TypeOK
    <3> QED BY <3>1, <3>2
  <2>3. NewPersistSlot(allocs + 1, op \in PersistOps) \in PersistSlot
    BY DEF NewPersistSlot, PersistSlot, TypeOK
  <2>4. IsMap(persist', PersistSlot)
    BY <1>4, <2>3, InsertMap DEF PersistStart, TypeOK
  <2> QED BY <1>4, <2>1, <2>2, <2>4 DEF PersistStart, TypeOK, RecvCursorInMessage

<1>5. ASSUME NEW h \in Handle, HttpClose(h) PROVE TypeInv'
  <2>1. IsMap(http', HttpSlot)
    BY <1>5, DeleteMap DEF HttpClose, TypeOK
  <2> QED BY <1>5, <2>1 DEF HttpClose, TypeOK, RecvCursorInMessage

<1>6. ASSUME NEW h \in Handle, WsClose(h) PROVE TypeInv'
  <2>1. IsMap(ws', WsSlot)
    BY <1>6, DeleteMap DEF WsClose, TypeOK
  <2>2. ws[h] \in WsSlot
    BY <1>6 DEF WsClose, TypeOK, IsMap
  <2>3. events' \in Seq(Event)
    BY <1>6, <2>2, PushType, NewEventType
    DEF WsClose, TypeOK, EventKinds, WsSlot
  <2>4. RecvCursorInMessage'
    <3>1. /\ DOMAIN ws' = DOMAIN ws \ {h}
          /\ \A x \in DOMAIN ws \ {h} : ws'[x] = ws[x]
      BY <1>6, DeleteMap DEF WsClose, TypeOK
    <3> QED BY <3>1 DEF RecvCursorInMessage
  <2> QED BY <1>6, <2>1, <2>3, <2>4 DEF WsClose, TypeOK

<1>7. ASSUME NEW h \in Handle, HostCallClose(h) PROVE TypeInv'
  <2>1. IsMap(host_calls', HostCallSlot)
    BY <1>7, DeleteMap DEF HostCallClose, TypeOK
  <2>2. host_calls[h] \in HostCallSlot
    BY <1>7 DEF HostCallClose, TypeOK, IsMap
  <2>3. events' \in Seq(Event)
    BY <1>7, <2>2, PushType, NewEventType
    DEF HostCallClose, TypeOK, EventKinds, HostCallSlot
  <2> QED BY <1>7, <2>1, <2>3 DEF HostCallClose, TypeOK, RecvCursorInMessage

<1>8. ASSUME NEW h \in Handle, PersistClose(h) PROVE TypeInv'
  <2>1. IsMap(persist', PersistSlot)
    BY <1>8, DeleteMap DEF PersistClose, TypeOK
  <2> QED BY <1>8, <2>1 DEF PersistClose, TypeOK, RecvCursorInMessage

<1>9. ASSUME NEW h \in Handle, NEW len \in Lens, WsSend(h, len)
      PROVE  TypeInv'
  <2>1. h \in DOMAIN ws /\ ws[h] \in WsSlot
    BY <1>9 DEF WsSend, CanSend, TypeOK, IsMap
  <2>2. events' \in Seq(Event)
    BY <1>9, <2>1, PushType, NewEventType
    DEF WsSend, TypeOK, EventKinds, WsSlot
  <2> DEFINE slot == [ws[h] EXCEPT !.queued_bytes = @ + len]
  <2>3. /\ slot \in WsSlot
        /\ slot.incoming = ws[h].incoming
        /\ slot.incoming_pos = ws[h].incoming_pos
    <3>1. ws[h].queued_bytes \in Nat /\ ws[h].queued_bytes + len \in Nat
      BY <2>1 DEF WsSlot
    <3> QED BY <2>1, <3>1 DEF WsSlot
  <2>4. ws' = [ws EXCEPT ![h] = slot]
    BY <1>9 DEF WsSend
  <2> HIDE DEF slot
  <2>5. IsMap(ws', WsSlot) /\ RecvCursorInMessage'
    BY <2>1, <2>3, <2>4, UpdateMap DEF TypeOK, RecvCursorInMessage
  <2> QED BY <1>9, <2>2, <2>5 DEF WsSend, TypeOK

<1>10. ASSUME NEW h \in Handle, NEW cap \in ReadCaps, HttpBody(h, cap)
       PROVE  TypeInv'
  <2> DEFINE slot == [http[h] EXCEPT !.body_pos =
                           @ + Least(http[h].body - Least(@, http[h].body), cap)]
  <2>1. h \in DOMAIN http /\ http[h] \in HttpSlot
    BY <1>10 DEF HttpBody, TypeOK, IsMap
  <2>2. slot \in HttpSlot
    BY <2>1 DEF HttpSlot, Least
  <2>3. http' = [http EXCEPT ![h] = slot]
    BY <1>10, <2>1 DEF HttpBody, HttpSlot
  <2> HIDE DEF slot
  <2>4. IsMap(http', HttpSlot)
    BY <2>1, <2>2, <2>3, UpdateMap DEF TypeOK
  <2> QED BY <1>10, <2>4 DEF HttpBody, TypeOK, RecvCursorInMessage

<1>11. ASSUME NEW h \in Handle, NEW cap \in ReadCaps, WsRecv(h, cap)
       PROVE  TypeInv'
  <2> DEFINE front == Head(ws[h].incoming).len
             pos   == ws[h].incoming_pos
                        + Least(front - ws[h].incoming_pos, cap)
             slot  == [ws[h] EXCEPT
                         !.incoming     = IF pos >= front THEN Tail(@) ELSE @,
                         !.incoming_pos = IF pos >= front THEN 0 ELSE pos]
  <2>1. /\ h \in DOMAIN ws /\ ws[h] \in WsSlot
        /\ ws[h].incoming # <<>>
        /\ ws' = [ws EXCEPT ![h] = slot]
    BY <1>11 DEF WsRecv, TypeOK, IsMap, WsSlot
  <2>2. /\ ws[h].incoming \in Seq(Message)
        /\ Head(ws[h].incoming) \in Message
        /\ Tail(ws[h].incoming) \in Seq(Message)
    BY <2>1, HeadTailProperties DEF WsSlot
  <2>3. front \in Nat /\ ws[h].incoming_pos \in Nat /\ cap \in Nat
    BY <2>1, <2>2 DEF Message, WsSlot
  <2>4. ws[h].incoming_pos <= front
    BY <2>1 DEF RecvCursorInMessage
  <2>5. pos \in Nat
    BY <2>3, <2>4 DEF Least
  <2>6. slot \in WsSlot
    BY <2>1, <2>2, <2>5 DEF WsSlot
  <2>7. \/ slot.incoming_pos = 0
        \/ /\ slot.incoming = ws[h].incoming
           /\ slot.incoming_pos <= front
    BY <2>1, <2>3, <2>5 DEF WsSlot
  <2>8. IF slot.incoming = <<>>
        THEN slot.incoming_pos <= 0
        ELSE slot.incoming_pos <= Head(slot.incoming).len
    <3>1. CASE slot.incoming = <<>>
      BY <2>1, <2>7, <3>1
    <3>2. CASE slot.incoming # <<>>
      <4>1. Head(slot.incoming) \in Message
        BY <2>6, <3>2, HeadTailProperties DEF WsSlot
      <4> QED BY <2>7, <3>2, <4>1, SMTT(30) DEF Message
    <3> QED BY <3>1, <3>2
  <2> HIDE DEF slot
  <2>9. IsMap(ws', WsSlot)
    BY <2>1, <2>6, UpdateMap DEF TypeOK
  <2>10. RecvCursorInMessage'
    BY <2>1, <2>6, <2>8, UpdateMap DEF TypeOK, RecvCursorInMessage
  <2> QED BY <1>11, <2>9, <2>10 DEF WsRecv, TypeOK

<1>12. ASSUME NEW h \in Handle, NEW cap \in ReadCaps, HostCallBody(h, cap)
       PROVE  TypeInv'
  <2> DEFINE slot == [host_calls[h] EXCEPT !.offset =
                           @ + Least(host_calls[h].result - @, cap)]
  <2>1. h \in DOMAIN host_calls /\ host_calls[h] \in HostCallSlot
    BY <1>12 DEF HostCallBody, TypeOK, IsMap
  <2>2. slot \in HostCallSlot
    BY <1>12, <2>1 DEF HostCallBody, HostCallSlot, Least
  <2>3. host_calls' = [host_calls EXCEPT ![h] = slot]
    BY <1>12, <2>1 DEF HostCallBody, HostCallSlot
  <2> HIDE DEF slot
  <2>4. IsMap(host_calls', HostCallSlot)
    BY <2>1, <2>2, <2>3, UpdateMap DEF TypeOK
  <2> QED BY <1>12, <2>4 DEF HostCallBody, TypeOK, RecvCursorInMessage

<1>13. ASSUME NEW h \in Handle, NEW cap \in ReadCaps, PersistBody(h, cap)
       PROVE  TypeInv'
  <2> DEFINE slot == [persist[h] EXCEPT !.offset =
                           @ + Least(persist[h].result - @, cap)]
  <2>1. h \in DOMAIN persist /\ persist[h] \in PersistSlot
    BY <1>13 DEF PersistBody, TypeOK, IsMap
  <2>2. slot \in PersistSlot
    BY <1>13, <2>1 DEF PersistBody, PersistSlot, Least
  <2>3. persist' = [persist EXCEPT ![h] = slot]
    BY <1>13, <2>1 DEF PersistBody, PersistSlot
  <2> HIDE DEF slot
  <2>4. IsMap(persist', PersistSlot)
    BY <2>1, <2>2, <2>3, UpdateMap DEF TypeOK
  <2> QED BY <1>13, <2>4 DEF PersistBody, TypeOK, RecvCursorInMessage

<1>14. ASSUME NEW i \in DOMAIN events, PopEvent(i) PROVE TypeInv'
  <2>1. i \in 1 .. Len(events) /\ events[i] \in Event
    BY DEF TypeOK
  <2>2. events' \in Seq(Event)
    BY <1>14, <2>1, RemoveAtEvents DEF PopEvent, TypeOK
  <2>3. delivered' \subseteq Event
    BY <1>14, <2>1 DEF PopEvent, TypeOK
  <2>4. IsMap(host_calls', HostCallSlot)
    <3>1. CASE /\ events[i].kind = "host_call"
               /\ events[i].handle \in DOMAIN host_calls
      <4> DEFINE slot == [host_calls[events[i].handle] EXCEPT !.dispatched = TRUE]
      <4>1. host_calls[events[i].handle] \in HostCallSlot
        BY <3>1 DEF TypeOK, IsMap
      <4>2. slot \in HostCallSlot
        BY <4>1 DEF HostCallSlot
      <4>3. host_calls' = [host_calls EXCEPT ![events[i].handle] = slot]
        BY <1>14, <3>1 DEF PopEvent, Dispatch
      <4> HIDE DEF slot
      <4> QED BY <3>1, <4>2, <4>3, UpdateMap DEF TypeOK
    <3> QED BY <1>14, <3>1 DEF PopEvent, Dispatch, TypeOK
  <2>5. IsMap(ws', WsSlot) /\ RecvCursorInMessage'
    <3>1. CASE /\ events[i].kind = "ws_send"
               /\ events[i].handle \in DOMAIN ws
      <4> DEFINE h == events[i].handle
                 slot == [ws[h] EXCEPT
                            !.queued_bytes = @ - Least(@, events[i].len)]
      <4>1. ws[h] \in WsSlot /\ ws' = [ws EXCEPT ![h] = slot]
        BY <1>14, <3>1 DEF PopEvent, Dispatch, TypeOK, IsMap
      <4>2. events[i].len \in Nat
        BY <2>1 DEF Event
      <4>3. slot \in WsSlot
        <5>1. /\ ws[h].queued_bytes \in Nat
              /\ ws[h].queued_bytes - Least(ws[h].queued_bytes, events[i].len) \in Nat
          BY <4>1, <4>2, SMTT(30) DEF WsSlot, Least
        <5> QED BY <4>1, <5>1 DEF WsSlot
      <4>4. /\ slot.incoming = ws[h].incoming
            /\ slot.incoming_pos = ws[h].incoming_pos
        BY <4>1 DEF WsSlot
      <4> HIDE DEF slot
      <4> QED BY <3>1, <4>1, <4>3, <4>4, UpdateMap
              DEF TypeOK, RecvCursorInMessage
    <3> QED BY <1>14, <3>1
            DEF PopEvent, Dispatch, TypeOK, RecvCursorInMessage
  <2> QED BY <1>14, <2>2, <2>3, <2>4, <2>5 DEF PopEvent, TypeOK

<1>15. ASSUME NEW f \in delivered, NEW ok \in BOOLEAN, NEW head \in Lens, NEW body \in Lens,
              HttpRespond(f, ok, head, body)
       PROVE  TypeInv'
  <2> DEFINE slot == [http[f.handle] EXCEPT
                       !.done = TRUE, !.failed = ~ok, !.answers = f.req,
                       !.head = head, !.body = body, !.body_pos = 0]
  <2>1. /\ f.handle \in DOMAIN http /\ http[f.handle] \in HttpSlot
        /\ f.req \in Nat
        /\ http' = [http EXCEPT ![f.handle] = slot]
    BY <1>15 DEF HttpRespond, TypeOK, IsMap, Event
  <2>2. slot \in HttpSlot
    BY <2>1 DEF HttpSlot
  <2> HIDE DEF slot
  <2>3. IsMap(http', HttpSlot)
    BY <2>1, <2>2, UpdateMap DEF TypeOK
  <2> QED BY <1>15, <2>3 DEF HttpRespond, TypeOK, RecvCursorInMessage

<1>16. ASSUME NEW f \in delivered, NEW ok \in BOOLEAN, NEW len \in Lens,
              HostCallRespond(f, ok, len)
       PROVE  TypeInv'
  <2> DEFINE slot == [host_calls[f.handle] EXCEPT
                       !.done = TRUE, !.failed = ~ok, !.answers = f.req,
                       !.result = len, !.offset = 0]
  <2>1. /\ f.handle \in DOMAIN host_calls /\ host_calls[f.handle] \in HostCallSlot
        /\ f.req \in Nat
        /\ host_calls' = [host_calls EXCEPT ![f.handle] = slot]
    BY <1>16 DEF HostCallRespond, TypeOK, IsMap, Event
  <2>2. slot \in HostCallSlot
    BY <2>1 DEF HostCallSlot
  <2> HIDE DEF slot
  <2>3. IsMap(host_calls', HostCallSlot)
    BY <2>1, <2>2, UpdateMap DEF TypeOK
  <2> QED BY <1>16, <2>3 DEF HostCallRespond, TypeOK, RecvCursorInMessage

<1>17. ASSUME NEW f \in delivered, NEW ok \in BOOLEAN, NEW len \in Lens,
              PersistRespond(f, ok, len)
       PROVE  TypeInv'
  <2> DEFINE slot == [persist[f.handle] EXCEPT
                       !.done = TRUE, !.failed = ~ok, !.answers = f.req,
                       !.result = len, !.offset = 0]
  <2>1. /\ f.handle \in DOMAIN persist /\ persist[f.handle] \in PersistSlot
        /\ f.req \in Nat
        /\ persist' = [persist EXCEPT ![f.handle] = slot]
    BY <1>17 DEF PersistRespond, TypeOK, IsMap, Event
  <2>2. slot \in PersistSlot
    BY <2>1 DEF PersistSlot
  <2> HIDE DEF slot
  <2>3. IsMap(persist', PersistSlot)
    BY <2>1, <2>2, UpdateMap DEF TypeOK
  <2> QED BY <1>17, <2>3 DEF PersistRespond, TypeOK, RecvCursorInMessage

<1>18. ASSUME NEW f \in delivered, NEW ok \in BOOLEAN, AppWsOpen(f, ok) PROVE TypeInv'
  <2> DEFINE h == f.handle
             slot == [ws[h] EXCEPT !.open = ok, !.failed = ~ok, !.answers = f.req]
  <2>1. /\ h \in DOMAIN ws /\ ws[h] \in WsSlot
        /\ f.req \in Nat
        /\ ws' = [ws EXCEPT ![h] = slot]
    BY <1>18 DEF AppWsOpen, TypeOK, IsMap, Event, WsSlot
  <2>2. /\ slot \in WsSlot
        /\ slot.incoming = ws[h].incoming
        /\ slot.incoming_pos = ws[h].incoming_pos
    BY <1>18, <2>1 DEF WsSlot
  <2> HIDE DEF slot
  <2>3. IsMap(ws', WsSlot) /\ RecvCursorInMessage'
    BY <2>1, <2>2, UpdateMap DEF TypeOK, RecvCursorInMessage
  <2> QED BY <1>18, <2>3 DEF AppWsOpen, TypeOK

<1>19. ASSUME NEW f \in delivered, NEW len \in Lens, AppWsPush(f, len) PROVE TypeInv'
  <2> DEFINE h == f.handle
             slot == [ws[h] EXCEPT !.incoming = Append(@, [answers |-> f.req, len |-> len])]
  <2>1. /\ h \in DOMAIN ws /\ ws[h] \in WsSlot
        /\ f.req \in Nat
        /\ ws' = [ws EXCEPT ![h] = slot]
    BY <1>19 DEF AppWsPush, TypeOK, IsMap, Event, WsSlot
  <2> DEFINE msg == [answers |-> f.req, len |-> len]
  <2>2. msg \in Message
    BY <1>19, <2>1 DEF Message
  <2>3. ws[h].incoming \in Seq(Message)
    BY <2>1 DEF WsSlot
  <2>4. /\ Append(ws[h].incoming, msg) \in Seq(Message)
        /\ Append(ws[h].incoming, msg) # <<>>
    BY <2>2, <2>3, AppendProperties
  <2> HIDE DEF msg
  <2>5. /\ slot \in WsSlot
        /\ slot.incoming = Append(ws[h].incoming, msg)
        /\ slot.incoming_pos = ws[h].incoming_pos
    BY <2>1, <2>4 DEF WsSlot, msg
  <2> HIDE DEF slot
  <2>6. slot.incoming_pos <= Head(slot.incoming).len
    <3>1. CASE ws[h].incoming = <<>>
      <4>1. slot.incoming_pos <= 0
        BY <2>1, <2>5, <3>1 DEF RecvCursorInMessage
      <4>2. Head(slot.incoming) = msg
        BY <2>2, <2>3, <2>5, <3>1, HeadTailAppend
      <4>3. slot.incoming_pos \in Nat /\ msg.len \in Nat
        BY <2>2, <2>5 DEF WsSlot, Message
      <4> QED BY <4>1, <4>2, <4>3
    <3>2. CASE ws[h].incoming # <<>>
      <4>1. Head(slot.incoming) = Head(ws[h].incoming)
        BY <2>2, <2>3, <2>5, <3>2, HeadTailAppend
      <4> QED BY <2>1, <2>5, <3>2, <4>1 DEF RecvCursorInMessage
    <3> QED BY <3>1, <3>2
  <2>7. IsMap(ws', WsSlot) /\ RecvCursorInMessage'
    BY <2>1, <2>4, <2>5, <2>6, UpdateMap DEF TypeOK, RecvCursorInMessage
  <2> QED BY <1>19, <2>7 DEF AppWsPush, TypeOK

<1>20. ASSUME NEW f \in delivered, AppWsClose(f) PROVE TypeInv'
  <2> DEFINE h == f.handle
             slot == [ws[h] EXCEPT !.open = FALSE]
  <2>1. /\ h \in DOMAIN ws /\ ws[h] \in WsSlot
        /\ f.req \in Nat
        /\ ws' = [ws EXCEPT ![h] = slot]
    BY <1>20 DEF AppWsClose, TypeOK, IsMap, Event, WsSlot
  <2>2. /\ slot \in WsSlot
        /\ slot.incoming = ws[h].incoming
        /\ slot.incoming_pos = ws[h].incoming_pos
    BY <2>1 DEF WsSlot
  <2> HIDE DEF slot
  <2>3. IsMap(ws', WsSlot) /\ RecvCursorInMessage'
    BY <2>1, <2>2, UpdateMap DEF TypeOK, RecvCursorInMessage
  <2> QED BY <1>20, <2>3 DEF AppWsClose, TypeOK

<1>21. CASE UNCHANGED vars
  BY <1>21 DEF vars, TypeOK, RecvCursorInMessage, IsMap
<1>22. CASE RelayNext \/ RelayNextSidecar
  <2>1. events \in Seq(Event)
    BY DEF TypeOK
  <2>2. RelayNext => 1 \in DOMAIN events /\ PopEvent(1)
    BY <2>1, EmptySeq DEF RelayNext
  <2> QED BY <1>14, <1>22, <2>2 DEF RelayNextSidecar
<1>23. CASE GuestStep
  BY <1>1, <1>2, <1>3, <1>4, <1>5, <1>6, <1>7, <1>8, <1>9, <1>10, <1>11,
     <1>12, <1>13, <1>23 DEF GuestStep
<1>24. CASE AppAnswer
  BY <1>15, <1>16, <1>17, <1>18, <1>19, <1>20, <1>24 DEF AppAnswer
<1> QED BY <1>21, <1>22, <1>23, <1>24 DEF Next

\* Every handle given out is in 1..i32::MAX, every slot and event is well
\* formed, and the ws_recv cursor never passes the end of the message it is in.
THEOREM TypeCorrect == Spec => []TypeOK
<1>1. TypeInv => TypeOK
  BY DEF TypeInv
<1> QED BY TypeInit, TypeStep, <1>1, PTL DEF Spec

THEOREM RecvCursorCorrect == Spec => []RecvCursorInMessage
<1>1. TypeInv => RecvCursorInMessage
  BY DEF TypeInv
<1> QED BY TypeInit, TypeStep, <1>1, PTL DEF Spec
-----------------------------------------------------------------------------
(***************************************************************************)
(* Answers.  alloc_handle comes back to a handle after MaxHandle others    *)
(* and no sooner: the number of an allocation is the handle it gave out,   *)
(* plus whole turns of the counter.  The invariant says so of every place  *)
(* a handle is kept in: the counter, the slots, the queue, the             *)
(* application; and a frame is no newer than the slot it can still answer. *)
(***************************************************************************)
Turn(h, r) == \E k \in Nat : r = h + k * MaxHandle

\* What was given for handle h as allocation a, when h is now of allocation r.
Earlier(h, a, r) == a <= r /\ Turn(h, a)

NextTurn == Turn(next, allocs + 1)

SlotTurn(map) ==
  \A h \in DOMAIN map : map[h].req <= allocs /\ Turn(h, map[h].req)

AnswerTurn(map) ==
  \A h \in DOMAIN map : map[h].done => Earlier(h, map[h].answers, map[h].req)

SocketTurn(h) ==
  /\ ws[h].open \/ ws[h].failed => Earlier(h, ws[h].answers, ws[h].req)
  /\ \A i \in DOMAIN ws[h].incoming :
       Earlier(h, ws[h].incoming[i].answers, ws[h].req)

FrameTurn(e) == e.req <= allocs /\ Turn(e.handle, e.req)

SlotsTurn == SlotTurn(http) /\ SlotTurn(host_calls) /\ SlotTurn(persist) /\ SlotTurn(ws)

AnswersTurn == /\ AnswerTurn(http) /\ AnswerTurn(host_calls) /\ AnswerTurn(persist)
               /\ \A h \in DOMAIN ws : SocketTurn(h)

FramesTurn == /\ \A i \in DOMAIN events : FrameTurn(events[i])
              /\ \A f \in delivered : FrameTurn(f)

Frames == {events[i] : i \in DOMAIN events} \cup delivered

NotNewer(e) ==
  /\ e.kind = "http" /\ e.handle \in DOMAIN http => e.req <= http[e.handle].req
  /\ e.kind = "host_call" /\ e.handle \in DOMAIN host_calls
       => e.req <= host_calls[e.handle].req
  /\ e.kind = "persist" /\ e.handle \in DOMAIN persist
       => e.req <= persist[e.handle].req
  /\ e.kind = "ws_connect" /\ e.handle \in DOMAIN ws => e.req <= ws[e.handle].req

LatestInv == \A e \in Frames : NotNewer(e)

HandleInv == NextTurn /\ SlotsTurn /\ AnswersTurn /\ FramesTurn /\ LatestInv

\* The first allocation gives out 1, and each the handle after the last one's.
LEMMA TurnSteps ==
  /\ Turn(1, 1)
  /\ \A h \in Handle, r \in Nat :
       Turn(h, r) => Turn(IF h = MaxHandle THEN 1 ELSE h + 1, r + 1)
<1>0. MaxHandle \in Nat /\ Handle \subseteq Nat /\ 0 \in Nat /\ 1 \in Nat
  BY RelayAssumption DEF Handle
<1>1. Turn(1, 1)
  <2>1. 1 = 1 + 0 * MaxHandle
    BY <1>0
  <2> QED BY <1>0, <2>1 DEF Turn
<1>2. ASSUME NEW h \in Handle, NEW r \in Nat, Turn(h, r)
      PROVE  Turn(IF h = MaxHandle THEN 1 ELSE h + 1, r + 1)
  <2>1. PICK k \in Nat : r = h + k * MaxHandle
    BY <1>2 DEF Turn
  <2>2. CASE h = MaxHandle
    <3>1. k + 1 \in Nat /\ r + 1 = 1 + (k + 1) * MaxHandle
      BY <1>0, <2>1, <2>2
    <3> QED BY <2>2, <3>1 DEF Turn
  <2>3. CASE h # MaxHandle
    <3>1. k * MaxHandle \in Nat
      BY <1>0
    <3>2. r + 1 = (h + 1) + k * MaxHandle
      BY <1>0, <2>1, <3>1
    <3> QED BY <2>3, <3>2 DEF Turn
  <2> QED BY <2>2, <2>3
<1> QED BY <1>1, <1>2

\* Two allocations that give out the same handle are a whole turn apart.
LEMMA TurnsApart ==
  ASSUME NEW h \in Handle, NEW a \in Nat, NEW r \in Nat, Turn(h, a), Turn(h, r), a < r
  PROVE  a + MaxHandle <= r
<1>0. MaxHandle \in Nat /\ h \in Nat
  BY RelayAssumption DEF Handle
<1>1. PICK k \in Nat : a = h + k * MaxHandle
  BY DEF Turn
<1>2. PICK l \in Nat : r = h + l * MaxHandle
  BY DEF Turn
<1>3. k < l
  <2>1. ASSUME l <= k PROVE FALSE
    <3>1. PICK d \in Nat : k = l + d
      <4>1. k - l \in Nat /\ k = l + (k - l)
        BY <2>1
      <4> QED BY <4>1
    <3>2. k * MaxHandle = l * MaxHandle + d * MaxHandle
      BY <1>0, <3>1
    <3>3. d * MaxHandle \in Nat /\ l * MaxHandle \in Nat
      BY <1>0
    <3> QED BY <1>0, <1>1, <1>2, <3>2, <3>3
  <2> QED BY <2>1
<1>4. PICK d \in Nat : l = k + 1 + d
  <2>1. l - k - 1 \in Nat /\ l = k + 1 + (l - k - 1)
    BY <1>3
  <2> QED BY <2>1
<1>5. l * MaxHandle = k * MaxHandle + MaxHandle + d * MaxHandle
  BY <1>0, <1>4
<1>6. d * MaxHandle \in Nat /\ k * MaxHandle \in Nat
  BY <1>0
<1> QED BY <1>0, <1>1, <1>2, <1>5, <1>6

\* In the first turn an allocation gives out its own number.
LEMMA FirstTurn ==
  ASSUME NEW h \in Handle, NEW r \in Nat, Turn(h, r), r <= MaxHandle
  PROVE  r = h
<1>0. MaxHandle \in Nat \ {0} /\ h \in Nat /\ h >= 1 /\ h <= MaxHandle
  BY RelayAssumption DEF Handle
<1>1. Turn(h, h)
  <2>1. h = h + 0 * MaxHandle /\ 0 \in Nat
    BY <1>0
  <2> QED BY <2>1 DEF Turn
<1>2. ~ (h < r)
  BY <1>0, <1>1, TurnsApart
<1>3. r >= h
  <2>1. PICK k \in Nat : r = h + k * MaxHandle
    BY DEF Turn
  <2>2. k * MaxHandle \in Nat
    BY <1>0
  <2> QED BY <1>0, <2>1, <2>2
<1> QED BY <1>0, <1>2, <1>3

\* Allocating gives out the handle that is due, and makes the next one due.
LEMMA AllocTurn ==
  ASSUME TypeOK, NextTurn, AllocHandle
  PROVE  /\ next \in Handle /\ Turn(next, allocs + 1)
         /\ allocs' = allocs + 1 /\ NextTurn'
<1>1. next \in Handle /\ allocs + 1 \in Nat
  BY DEF TypeOK
<1>2. /\ allocs' = allocs + 1
      /\ next' = IF next = MaxHandle THEN 1 ELSE next + 1
  BY DEF AllocHandle
<1> QED BY <1>1, <1>2, TurnSteps DEF NextTurn

LEMMA PushFrame ==
  ASSUME TypeOK, NEW e \in Event, Push(e), FramesTurn, allocs' \in Nat,
         allocs' >= allocs, e.req <= allocs', Turn(e.handle, e.req),
         delivered' = delivered
  PROVE  FramesTurn'
<1>1. /\ events' = Append(events, e)
      /\ events \in Seq(Event) /\ allocs \in Nat
      /\ delivered \subseteq Event
  BY DEF Push, TypeOK
<1>2. /\ DOMAIN events' = 1 .. Len(events) + 1
      /\ DOMAIN events = 1 .. Len(events)
      /\ Len(events) \in Nat
      /\ \A i \in 1 .. Len(events) : events'[i] = events[i]
      /\ events'[Len(events) + 1] = e
  BY <1>1, AppendProperties
<1>3. \A f \in Event : f.req \in Nat
  BY DEF Event
<1>4. \A i \in 1 .. Len(events) : events[i] \in Event
  BY <1>1
<1>5. ASSUME NEW i \in DOMAIN events' PROVE FrameTurn(events[i])'
  <2>1. CASE i \in 1 .. Len(events)
    BY <1>1, <1>2, <1>3, <1>4, <2>1 DEF FramesTurn, FrameTurn
  <2>2. CASE i = Len(events) + 1
    BY <1>2, <2>2 DEF FrameTurn
  <2> QED BY <1>2, <2>1, <2>2
<1>6. ASSUME NEW f \in delivered PROVE FrameTurn(f)'
  BY <1>1, <1>3 DEF FramesTurn, FrameTurn
<1> QED BY <1>1, <1>5, <1>6 DEF FramesTurn

\* The frame of a request names its handle and its allocation.
LEMMA StartEvent ==
  ASSUME NEW h \in Handle, NEW req \in Nat
  PROVE  \A kind \in EventKinds, sidecar \in BOOLEAN :
           LET e == NewEvent(kind, h, req, 0, sidecar)
           IN  e \in Event /\ e.handle = h /\ e.req = req
BY NewEventType DEF NewEvent

LEMMA HandleInit == Init => HandleInv
<1> SUFFICES ASSUME Init PROVE HandleInv
  OBVIOUS
<1>1. next = 1 /\ allocs + 1 = 1
  BY DEF Init
<1>2. NextTurn
  BY <1>1, TurnSteps DEF NextTurn
<1>3. SlotsTurn /\ AnswersTurn /\ FramesTurn /\ LatestInv
  BY SMTT(30)
  DEF Init, SlotsTurn, AnswersTurn, FramesTurn, LatestInv, SlotTurn, AnswerTurn, Frames
<1> QED BY <1>2, <1>3 DEF HandleInv

\* The allocation counter never goes down.
LEMMA AllocsGrow == [Next]_vars => allocs' = allocs \/ AllocHandle
<1>1. GuestStep => allocs' = allocs \/ AllocHandle
  BY DEF GuestStep, HttpRequest, WsConnect, HostCallStart, PersistStart, HttpClose,
         WsClose, HostCallClose, PersistClose, WsSend, HttpBody, WsRecv,
         HostCallBody, PersistBody
<1>2. RelayNext \/ RelayNextSidecar => allocs' = allocs
  BY DEF RelayNext, RelayNextSidecar, PopEvent
<1>3. AppAnswer => allocs' = allocs
  BY DEF AppAnswer, HttpRespond, HostCallRespond, PersistRespond, AppWsOpen,
         AppWsPush, AppWsClose
<1>4. UNCHANGED vars => allocs' = allocs
  BY DEF vars
<1> QED BY <1>1, <1>2, <1>3, <1>4 DEF Next

\* After a push there is one frame more, behind the others.
LEMMA PushFrames ==
  ASSUME TypeOK, NEW e \in Event, Push(e), delivered' = delivered
  PROVE  /\ Frames' = Frames \cup {e}
         /\ Len(events) \in Nat /\ DOMAIN events = 1 .. Len(events)
         /\ DOMAIN events' = 1 .. Len(events) + 1
         /\ \A i \in 1 .. Len(events) : events'[i] = events[i]
         /\ events'[Len(events) + 1] = e
<1>1. events' = Append(events, e) /\ events \in Seq(Event)
  BY DEF Push, TypeOK
<1>2. /\ Len(events) \in Nat /\ DOMAIN events = 1 .. Len(events)
      /\ DOMAIN events' = 1 .. Len(events) + 1
      /\ \A i \in 1 .. Len(events) : events'[i] = events[i]
      /\ events'[Len(events) + 1] = e
  BY <1>1, AppendProperties
<1>3. {events'[i] : i \in DOMAIN events'} = {events[i] : i \in DOMAIN events} \cup {e}
  BY <1>2
<1> QED BY <1>2, <1>3 DEF Frames

\* A frame that leaves the queue is no new one.
LEMMA PopFrames ==
  ASSUME TypeOK, NEW i \in DOMAIN events, PopEvent(i)
  PROVE  Frames' \subseteq Frames
<1>1. /\ events \in Seq(Event) /\ i \in 1 .. Len(events)
      /\ events' = RemoveAt(events, i)
      /\ delivered' \subseteq delivered \cup {events[i]}
      /\ Len(events) \in Nat /\ DOMAIN events = 1 .. Len(events)
  BY DEF PopEvent, TypeOK
<1>2. /\ DOMAIN events' = 1 .. Len(events) - 1
      /\ \A j \in DOMAIN events' : \E k \in DOMAIN events : events'[j] = events[k]
  <2>1. /\ RemoveAt(events, i) \in Seq(Event)
        /\ Len(RemoveAt(events, i)) = Len(events) - 1
        /\ \A j \in 1 .. Len(events) - 1 :
             RemoveAt(events, i)[j] = IF j < i THEN events[j] ELSE events[j + 1]
    BY <1>1, RemoveAtEvents
  <2>2. ASSUME NEW j \in 1 .. Len(events) - 1
        PROVE  \E k \in DOMAIN events : events'[j] = events[k]
    <3>1. CASE j < i
      <4>1. j \in DOMAIN events /\ events'[j] = events[j]
        BY <1>1, <2>1, <3>1
      <4> QED BY <4>1
    <3>2. CASE ~ (j < i)
      <4>1. j + 1 \in DOMAIN events /\ events'[j] = events[j + 1]
        BY <1>1, <2>1, <3>2
      <4> QED BY <4>1
    <3> QED BY <3>1, <3>2
  <2>3. DOMAIN events' = 1 .. Len(events) - 1
    BY <1>1, <2>1
  <2> QED BY <2>2, <2>3
<1> QED BY <1>1, <1>2 DEF Frames

\* The slots a step leaves keep their requests; the one it makes is of the next.
Lasts(map, after) ==
  \A h \in DOMAIN after : \/ h \in DOMAIN map /\ after[h].req = map[h].req
                          \/ after[h].req = allocs + 1

SlotsLast == /\ Lasts(http, http') /\ Lasts(host_calls, host_calls')
             /\ Lasts(persist, persist') /\ Lasts(ws, ws')

LEMMA SlotsLastStep == TypeInv /\ [Next]_vars => SlotsLast
<1> SUFFICES ASSUME TypeInv, [Next]_vars PROVE SlotsLast
  OBVIOUS
<1>a. TypeOK
  BY DEF TypeInv
<1>b. \A map : Lasts(map, map)
  BY DEF Lasts
<1>c. \A map, h : Lasts(map, Delete(map, h))
  BY DEF Lasts, Delete, Restrict
<1>d. \A map, h, slot : slot.req = allocs + 1 => Lasts(map, Insert(map, h, slot))
  BY DEF Lasts, Insert
<1>e. \A map, after :
        /\ DOMAIN after = DOMAIN map
        /\ \A h \in DOMAIN map : after[h].req = map[h].req
        => Lasts(map, after)
  BY DEF Lasts
<1>1. CASE HttpRequest
  BY <1>1, <1>b, <1>d DEF HttpRequest, NewHttpSlot, SlotsLast
<1>2. CASE WsConnect
  BY <1>2, <1>b, <1>d DEF WsConnect, NewWsSlot, SlotsLast
<1>3. ASSUME NEW sidecar \in BOOLEAN, HostCallStart(sidecar) PROVE SlotsLast
  BY <1>3, <1>b, <1>d DEF HostCallStart, NewHostCallSlot, SlotsLast
<1>4. ASSUME NEW op \in 0 .. 4, PersistStart(op) PROVE SlotsLast
  BY <1>4, <1>b, <1>d DEF PersistStart, NewPersistSlot, SlotsLast
<1>5. ASSUME NEW h \in Handle,
             HttpClose(h) \/ WsClose(h) \/ HostCallClose(h) \/ PersistClose(h)
      PROVE  SlotsLast
  BY <1>5, <1>b, <1>c DEF HttpClose, WsClose, HostCallClose, PersistClose, SlotsLast
<1>6. ASSUME NEW h \in Handle, NEW len \in Lens, WsSend(h, len) PROVE SlotsLast
  <2>1. DOMAIN ws' = DOMAIN ws /\ \A x \in DOMAIN ws : ws'[x].req = ws[x].req
    BY <1>6, <1>a DEF WsSend, TypeOK, IsMap, WsSlot
  <2> QED BY <1>6, <1>b, <1>e, <2>1 DEF WsSend, SlotsLast
<1>7. ASSUME NEW h \in Handle, NEW cap \in ReadCaps, HttpBody(h, cap) PROVE SlotsLast
  <2>1. DOMAIN http' = DOMAIN http /\ \A x \in DOMAIN http : http'[x].req = http[x].req
    BY <1>7, <1>a DEF HttpBody, TypeOK, IsMap, HttpSlot
  <2> QED BY <1>7, <1>b, <1>e, <2>1 DEF HttpBody, SlotsLast
<1>8. ASSUME NEW h \in Handle, NEW cap \in ReadCaps, WsRecv(h, cap) PROVE SlotsLast
  <2>1. DOMAIN ws' = DOMAIN ws /\ \A x \in DOMAIN ws : ws'[x].req = ws[x].req
    BY <1>8, <1>a DEF WsRecv, TypeOK, IsMap, WsSlot
  <2> QED BY <1>8, <1>b, <1>e, <2>1 DEF WsRecv, SlotsLast
<1>9. ASSUME NEW h \in Handle, NEW cap \in ReadCaps, HostCallBody(h, cap) PROVE SlotsLast
  <2>1. /\ DOMAIN host_calls' = DOMAIN host_calls
        /\ \A x \in DOMAIN host_calls : host_calls'[x].req = host_calls[x].req
    BY <1>9, <1>a DEF HostCallBody, TypeOK, IsMap, HostCallSlot
  <2> QED BY <1>9, <1>b, <1>e, <2>1 DEF HostCallBody, SlotsLast
<1>10. ASSUME NEW h \in Handle, NEW cap \in ReadCaps, PersistBody(h, cap) PROVE SlotsLast
  <2>1. /\ DOMAIN persist' = DOMAIN persist
        /\ \A x \in DOMAIN persist : persist'[x].req = persist[x].req
    BY <1>10, <1>a DEF PersistBody, TypeOK, IsMap, PersistSlot
  <2> QED BY <1>10, <1>b, <1>e, <2>1 DEF PersistBody, SlotsLast
<1>11. ASSUME NEW i \in DOMAIN events, PopEvent(i) PROVE SlotsLast
  <2>1. /\ DOMAIN host_calls' = DOMAIN host_calls
        /\ \A x \in DOMAIN host_calls : host_calls'[x].req = host_calls[x].req
        /\ DOMAIN ws' = DOMAIN ws /\ \A x \in DOMAIN ws : ws'[x].req = ws[x].req
    BY <1>11, <1>a, SMTT(30) DEF PopEvent, Dispatch, TypeOK, IsMap, HostCallSlot, WsSlot
  <2> QED BY <1>11, <1>b, <1>e, <2>1 DEF PopEvent, SlotsLast
<1>12. ASSUME NEW f \in delivered, NEW ok \in BOOLEAN, NEW head \in Lens,
              NEW body \in Lens, HttpRespond(f, ok, head, body)
       PROVE  SlotsLast
  <2>1. DOMAIN http' = DOMAIN http /\ \A x \in DOMAIN http : http'[x].req = http[x].req
    BY <1>12, <1>a DEF HttpRespond, TypeOK, IsMap, HttpSlot
  <2> QED BY <1>12, <1>b, <1>e, <2>1 DEF HttpRespond, SlotsLast
<1>13. ASSUME NEW f \in delivered, NEW ok \in BOOLEAN, NEW len \in Lens,
              HostCallRespond(f, ok, len)
       PROVE  SlotsLast
  <2>1. /\ DOMAIN host_calls' = DOMAIN host_calls
        /\ \A x \in DOMAIN host_calls : host_calls'[x].req = host_calls[x].req
    BY <1>13, <1>a DEF HostCallRespond, TypeOK, IsMap, HostCallSlot
  <2> QED BY <1>13, <1>b, <1>e, <2>1 DEF HostCallRespond, SlotsLast
<1>14. ASSUME NEW f \in delivered, NEW ok \in BOOLEAN, NEW len \in Lens,
              PersistRespond(f, ok, len)
       PROVE  SlotsLast
  <2>1. /\ DOMAIN persist' = DOMAIN persist
        /\ \A x \in DOMAIN persist : persist'[x].req = persist[x].req
    BY <1>14, <1>a DEF PersistRespond, TypeOK, IsMap, PersistSlot
  <2> QED BY <1>14, <1>b, <1>e, <2>1 DEF PersistRespond, SlotsLast
<1>15. ASSUME NEW f \in delivered, NEW ok \in BOOLEAN, AppWsOpen(f, ok) PROVE SlotsLast
  <2>1. DOMAIN ws' = DOMAIN ws /\ \A x \in DOMAIN ws : ws'[x].req = ws[x].req
    BY <1>15, <1>a DEF AppWsOpen, TypeOK, IsMap, WsSlot
  <2> QED BY <1>15, <1>b, <1>e, <2>1 DEF AppWsOpen, SlotsLast
<1>16. ASSUME NEW f \in delivered, NEW len \in Lens, AppWsPush(f, len) PROVE SlotsLast
  <2>1. DOMAIN ws' = DOMAIN ws /\ \A x \in DOMAIN ws : ws'[x].req = ws[x].req
    BY <1>16, <1>a DEF AppWsPush, TypeOK, IsMap, WsSlot
  <2> QED BY <1>16, <1>b, <1>e, <2>1 DEF AppWsPush, SlotsLast
<1>17. ASSUME NEW f \in delivered, AppWsClose(f) PROVE SlotsLast
  <2>1. DOMAIN ws' = DOMAIN ws /\ \A x \in DOMAIN ws : ws'[x].req = ws[x].req
    BY <1>17, <1>a DEF AppWsClose, TypeOK, IsMap, WsSlot
  <2> QED BY <1>17, <1>b, <1>e, <2>1 DEF AppWsClose, SlotsLast
<1>18. CASE UNCHANGED vars
  BY <1>18, <1>b DEF vars, SlotsLast
<1>19. CASE RelayNext \/ RelayNextSidecar
  <2>1. RelayNext => 1 \in DOMAIN events /\ PopEvent(1)
    BY <1>a, EmptySeq DEF RelayNext, TypeOK
  <2> QED BY <1>11, <1>19, <2>1 DEF RelayNextSidecar
<1>20. CASE GuestStep
  BY <1>1, <1>2, <1>3, <1>4, <1>5, <1>6, <1>7, <1>8, <1>9, <1>10, <1>20 DEF GuestStep
<1>21. CASE AppAnswer
  BY <1>12, <1>13, <1>14, <1>15, <1>16, <1>17, <1>21 DEF AppAnswer
<1> QED BY <1>18, <1>19, <1>20, <1>21 DEF Next

\* A step adds to the frames at most the one of the slot it makes, or one that
\* asks for nothing.
LEMMA FramesStep ==
  ASSUME TypeInv, TypeInv', [Next]_vars, NEW e \in Frames', e \notin Frames
  PROVE  NotNewer(e)'
<1>a. TypeOK /\ allocs \in Nat
  BY DEF TypeInv, TypeOK
<1>p. ASSUME NEW g, Push(g), delivered' = delivered, g \in Event PROVE e = g
  BY <1>a, <1>p, PushFrames
<1>q. ~ (events' = events /\ delivered' = delivered)
  BY DEF Frames
<1>r. \A req \in Nat : req <= req
  OBVIOUS
<1>1. CASE HttpRequest
  <2>1. "http" \in EventKinds /\ next \in Handle /\ allocs + 1 \in Nat
    BY <1>a DEF EventKinds, TypeOK
  <2>2. e = NewEvent("http", next, allocs + 1, 0, FALSE)
    BY <1>1, <1>p, <2>1, StartEvent DEF HttpRequest
  <2>3. http'[next].req = allocs + 1
    BY <1>1 DEF HttpRequest, Insert, NewHttpSlot
  <2> QED BY <1>r, <2>1, <2>2, <2>3 DEF NotNewer, NewEvent
<1>2. CASE WsConnect
  <2>1. "ws_connect" \in EventKinds /\ next \in Handle /\ allocs + 1 \in Nat
    BY <1>a DEF EventKinds, TypeOK
  <2>2. e = NewEvent("ws_connect", next, allocs + 1, 0, FALSE)
    BY <1>2, <1>p, <2>1, StartEvent DEF WsConnect
  <2>3. ws'[next].req = allocs + 1
    BY <1>2 DEF WsConnect, Insert, NewWsSlot
  <2> QED BY <1>r, <2>1, <2>2, <2>3 DEF NotNewer, NewEvent
<1>3. ASSUME NEW sidecar \in BOOLEAN, HostCallStart(sidecar) PROVE NotNewer(e)'
  <2>1. "host_call" \in EventKinds /\ next \in Handle /\ allocs + 1 \in Nat
    BY <1>a DEF EventKinds, TypeOK
  <2>2. e = NewEvent("host_call", next, allocs + 1, 0, sidecar)
    BY <1>3, <1>p, <2>1, StartEvent DEF HostCallStart
  <2>3. host_calls'[next].req = allocs + 1
    BY <1>3 DEF HostCallStart, Insert, NewHostCallSlot
  <2> QED BY <1>r, <2>1, <2>2, <2>3 DEF NotNewer, NewEvent
<1>4. ASSUME NEW op \in 0 .. 4, PersistStart(op) PROVE NotNewer(e)'
  <2>1. "persist" \in EventKinds /\ next \in Handle /\ allocs + 1 \in Nat
    BY <1>a DEF EventKinds, TypeOK
  <2>2. e = NewEvent("persist", next, allocs + 1, 0, FALSE)
    BY <1>4, <1>p, <1>q, <2>1, StartEvent DEF PersistStart
  <2>3. persist'[next].req = allocs + 1
    BY <1>4 DEF PersistStart, Insert, NewPersistSlot
  <2> QED BY <1>r, <2>1, <2>2, <2>3 DEF NotNewer, NewEvent
<1>5. ASSUME NEW g, Push(g), delivered' = delivered, g \in Event,
             g.kind \in {"ws_send", "ws_close", "host_call_close"}
      PROVE  NotNewer(e)'
  BY <1>5, <1>p DEF NotNewer
<1>6. ASSUME NEW h \in Handle, WsClose(h) PROVE NotNewer(e)'
  <2> DEFINE g == NewEvent("ws_close", h, ws[h].req, 0, FALSE)
  <2>1. ws[h].req \in Nat
    BY <1>6, <1>a DEF WsClose, TypeOK, IsMap, WsSlot
  <2>2. g \in Event /\ g.kind = "ws_close"
    BY <2>1, NewEventType DEF EventKinds, NewEvent
  <2> HIDE DEF g
  <2>3. Push(g) /\ delivered' = delivered
    BY <1>6 DEF WsClose, g
  <2> QED BY <1>5, <2>2, <2>3
<1>7. ASSUME NEW h \in Handle, HostCallClose(h) PROVE NotNewer(e)'
  <2> DEFINE g == NewEvent("host_call_close", h, host_calls[h].req, 0, host_calls[h].sidecar)
  <2>1. host_calls[h].req \in Nat /\ host_calls[h].sidecar \in BOOLEAN
    BY <1>7, <1>a DEF HostCallClose, TypeOK, IsMap, HostCallSlot
  <2>2. g \in Event /\ g.kind = "host_call_close"
    BY <2>1, NewEventType DEF EventKinds, NewEvent
  <2> HIDE DEF g
  <2>3. Push(g) /\ delivered' = delivered
    BY <1>7 DEF HostCallClose, g
  <2> QED BY <1>5, <2>2, <2>3
<1>8. ASSUME NEW h \in Handle, NEW len \in Lens, WsSend(h, len) PROVE NotNewer(e)'
  <2> DEFINE g == NewEvent("ws_send", h, ws[h].req, len, FALSE)
  <2>1. ws[h].req \in Nat /\ len \in Nat
    BY <1>8, <1>a, RelayAssumption DEF WsSend, CanSend, TypeOK, IsMap, WsSlot
  <2>2. g \in Event /\ g.kind = "ws_send"
    BY <2>1, NewEventType DEF EventKinds, NewEvent
  <2> HIDE DEF g
  <2>3. Push(g) /\ delivered' = delivered
    BY <1>8 DEF WsSend, g
  <2> QED BY <1>5, <2>2, <2>3
<1>9. ASSUME NEW i \in DOMAIN events, PopEvent(i) PROVE NotNewer(e)'
  BY <1>9, <1>a, PopFrames
<1>10. CASE RelayNext \/ RelayNextSidecar
  <2>1. RelayNext => 1 \in DOMAIN events /\ PopEvent(1)
    BY <1>a, EmptySeq DEF RelayNext, TypeOK
  <2> QED BY <1>9, <1>10, <2>1 DEF RelayNextSidecar
<1>11. ASSUME NEW h \in Handle, NEW cap \in ReadCaps,
              \/ HttpBody(h, cap) \/ WsRecv(h, cap)
              \/ HostCallBody(h, cap) \/ PersistBody(h, cap)
       PROVE  NotNewer(e)'
  BY <1>11, <1>q DEF HttpBody, WsRecv, HostCallBody, PersistBody
<1>12. ASSUME NEW h \in Handle, HttpClose(h) \/ PersistClose(h) PROVE NotNewer(e)'
  BY <1>12, <1>q DEF HttpClose, PersistClose
<1>13. CASE GuestStep
  BY <1>1, <1>2, <1>3, <1>4, <1>6, <1>7, <1>8, <1>11, <1>12, <1>13 DEF GuestStep
<1>14. CASE AppAnswer
  BY <1>14, <1>q DEF AppAnswer, HttpRespond, HostCallRespond, PersistRespond,
                     AppWsOpen, AppWsPush, AppWsClose
<1>15. CASE UNCHANGED vars
  BY <1>15, <1>q DEF vars
<1> QED BY <1>10, <1>13, <1>14, <1>15 DEF Next

\* A slot that is made is of the newest request of all: no frame is newer.
LEMMA LatestStep == TypeInv /\ TypeInv' /\ HandleInv /\ [Next]_vars => LatestInv'
<1> SUFFICES ASSUME TypeInv, TypeInv', HandleInv, [Next]_vars,
                    NEW e \in Frames', e \in Frames
             PROVE  NotNewer(e)'
  BY FramesStep DEF LatestInv
<1>1. e.req \in Nat /\ e.req <= allocs /\ allocs \in Nat /\ NotNewer(e)
  <2>1. TypeOK /\ FramesTurn /\ LatestInv
    BY DEF TypeInv, HandleInv
  <2>2. \A f \in Frames : f \in Event /\ FrameTurn(f)
    BY <2>1 DEF TypeOK, Frames, FramesTurn
  <2>3. \A f \in Event : f.req \in Nat
    BY DEF Event
  <2> QED BY <2>1, <2>2, <2>3 DEF TypeOK, FrameTurn, LatestInv
<1>2. SlotsLast
  BY SlotsLastStep
<1> QED BY <1>1, <1>2 DEF SlotsLast, Lasts, NotNewer

LEMMA HandleStep == TypeInv /\ TypeInv' /\ HandleInv /\ [Next]_vars => HandleInv'
<1> DEFINE Goal == NextTurn /\ SlotsTurn /\ AnswersTurn /\ FramesTurn
<1> SUFFICES ASSUME TypeInv, TypeInv', HandleInv, [Next]_vars
             PROVE  Goal'
  BY LatestStep DEF HandleInv
<1>a. TypeOK /\ TypeOK' /\ allocs \in Nat
  BY DEF TypeInv, TypeOK
<1>b. NextTurn /\ SlotsTurn /\ AnswersTurn /\ FramesTurn /\ LatestInv
  BY DEF HandleInv
<1>c. ASSUME allocs' = allocs, next' = next, events' = events, delivered' = delivered
      PROVE  (NextTurn /\ FramesTurn)'
  BY <1>b, <1>c DEF NextTurn, FramesTurn, FrameTurn
<1>e. \A f \in delivered :
        /\ f.kind = "http" /\ f.handle \in DOMAIN http
             => Earlier(f.handle, f.req, http[f.handle].req)
        /\ f.kind = "host_call" /\ f.handle \in DOMAIN host_calls
             => Earlier(f.handle, f.req, host_calls[f.handle].req)
        /\ f.kind = "persist" /\ f.handle \in DOMAIN persist
             => Earlier(f.handle, f.req, persist[f.handle].req)
        /\ f.kind = "ws_connect" /\ f.handle \in DOMAIN ws
             => Earlier(f.handle, f.req, ws[f.handle].req)
  BY <1>b DEF LatestInv, NotNewer, Frames, FramesTurn, FrameTurn, Earlier
<1>f. /\ \A h \in DOMAIN http : http[h].req \in Nat
      /\ \A h \in DOMAIN host_calls : host_calls[h].req \in Nat
      /\ \A h \in DOMAIN persist : persist[h].req \in Nat
      /\ \A h \in DOMAIN ws : ws[h].req \in Nat
  BY <1>a DEF TypeOK, IsMap, HttpSlot, HostCallSlot, PersistSlot, WsSlot
<1>d. /\ \A e \in Event : e.handle \in Nat /\ e.handle \in Handle
      /\ Handle \subseteq Nat
  BY RelayAssumption DEF Event, Handle
<1>1. ASSUME HttpRequest PROVE Goal'
  <2>1. /\ next \in Handle /\ Turn(next, allocs + 1)
        /\ allocs' = allocs + 1 /\ NextTurn'
    BY <1>1, <1>a, <1>b, AllocTurn DEF HttpRequest
  <2>2. FramesTurn'
    <3> DEFINE e == NewEvent("http", next, allocs + 1, 0, FALSE)
    <3>z. "http" \in EventKinds
      BY DEF EventKinds
    <3>0. next \in Handle /\ allocs + 1 \in Nat
      BY <1>a DEF TypeOK
    <3>1. e \in Event /\ e.handle = next /\ e.req = allocs + 1
      BY <3>z, <3>0, StartEvent
    <3>2. Push(e) /\ delivered' = delivered
      BY <1>1 DEF HttpRequest
    <3> HIDE DEF e
    <3> QED BY <1>a, <1>b, <2>1, <3>1, <3>2, PushFrame
  <2>3. SlotsTurn' /\ AnswersTurn'
    <3>1. /\ DOMAIN http' = DOMAIN http \cup {next}
          /\ http'[next] = NewHttpSlot(allocs + 1)
          /\ \A h \in DOMAIN http \ {next} : http'[h] = http[h]
      BY <1>1 DEF HttpRequest, Insert
    <3>2. /\ DOMAIN http \subseteq Nat /\ DOMAIN host_calls \subseteq Nat
          /\ DOMAIN persist \subseteq Nat /\ DOMAIN ws \subseteq Nat
      BY <1>a, <1>d DEF TypeOK, IsMap
    <3>3. http'[next].req = allocs + 1 /\ ~http'[next].done
      BY <2>1, <3>1 DEF NewHttpSlot
    <3>4. AnswerTurn(http)'
      BY <1>b, <3>1, <3>3 DEF AnswersTurn, AnswerTurn
    <3>5. SlotTurn(http)'
      BY <1>a, <1>b, <1>f, <2>1, <3>1, <3>3 DEF SlotsTurn, SlotTurn
    <3>6. (SlotTurn(host_calls) /\ SlotTurn(persist) /\ SlotTurn(ws))'
      BY <1>1, <1>a, <1>b, <1>f, <2>1 DEF HttpRequest, SlotsTurn, SlotTurn
    <3>7. (AnswerTurn(host_calls) /\ AnswerTurn(persist) /\ (\A h \in DOMAIN ws : SocketTurn(h)))'
      BY <1>1, <1>b DEF HttpRequest, AnswersTurn, AnswerTurn, SocketTurn
    <3> QED BY <3>4, <3>5, <3>6, <3>7 DEF SlotsTurn, AnswersTurn
  <2> QED BY <2>1, <2>2, <2>3
<1>2. ASSUME WsConnect PROVE Goal'
  <2>1. /\ next \in Handle /\ Turn(next, allocs + 1)
        /\ allocs' = allocs + 1 /\ NextTurn'
    BY <1>2, <1>a, <1>b, AllocTurn DEF WsConnect
  <2>2. FramesTurn'
    <3> DEFINE e == NewEvent("ws_connect", next, allocs + 1, 0, FALSE)
    <3>z. "ws_connect" \in EventKinds
      BY DEF EventKinds
    <3>0. next \in Handle /\ allocs + 1 \in Nat
      BY <1>a DEF TypeOK
    <3>1. e \in Event /\ e.handle = next /\ e.req = allocs + 1
      BY <3>z, <3>0, StartEvent
    <3>2. Push(e) /\ delivered' = delivered
      BY <1>2 DEF WsConnect
    <3> HIDE DEF e
    <3> QED BY <1>a, <1>b, <2>1, <3>1, <3>2, PushFrame
  <2>3. SlotsTurn' /\ AnswersTurn'
    <3>1. /\ DOMAIN ws' = DOMAIN ws \cup {next}
          /\ ws'[next] = NewWsSlot(allocs + 1)
          /\ \A h \in DOMAIN ws \ {next} : ws'[h] = ws[h]
      BY <1>2 DEF WsConnect, Insert
    <3>2. /\ DOMAIN http \subseteq Nat /\ DOMAIN host_calls \subseteq Nat
          /\ DOMAIN persist \subseteq Nat /\ DOMAIN ws \subseteq Nat
      BY <1>a, <1>d DEF TypeOK, IsMap
    <3>3. /\ ws'[next].req = allocs + 1 /\ ~ws'[next].open /\ ~ws'[next].failed
          /\ ws'[next].incoming = <<>>
      BY <2>1, <3>1 DEF NewWsSlot
    <3>4. (\A h \in DOMAIN ws : SocketTurn(h))'
      BY <1>b, <3>1, <3>3 DEF AnswersTurn, SocketTurn
    <3>5. SlotTurn(ws)'
      BY <1>a, <1>b, <1>f, <2>1, <3>1, <3>3 DEF SlotsTurn, SlotTurn
    <3>6. (SlotTurn(http) /\ SlotTurn(host_calls) /\ SlotTurn(persist))'
      BY <1>2, <1>a, <1>b, <1>f, <2>1 DEF WsConnect, SlotsTurn, SlotTurn
    <3>7. (AnswerTurn(http) /\ AnswerTurn(host_calls) /\ AnswerTurn(persist))'
      BY <1>2, <1>b DEF WsConnect, AnswersTurn, AnswerTurn, SocketTurn
    <3> QED BY <3>4, <3>5, <3>6, <3>7 DEF SlotsTurn, AnswersTurn
  <2> QED BY <2>1, <2>2, <2>3
<1>3. ASSUME NEW sidecar \in BOOLEAN, HostCallStart(sidecar) PROVE Goal'
  <2>1. /\ next \in Handle /\ Turn(next, allocs + 1)
        /\ allocs' = allocs + 1 /\ NextTurn'
    BY <1>3, <1>a, <1>b, AllocTurn DEF HostCallStart
  <2>2. FramesTurn'
    <3> DEFINE e == NewEvent("host_call", next, allocs + 1, 0, sidecar)
    <3>z. "host_call" \in EventKinds
      BY DEF EventKinds
    <3>0. next \in Handle /\ allocs + 1 \in Nat
      BY <1>a DEF TypeOK
    <3>1. e \in Event /\ e.handle = next /\ e.req = allocs + 1
      BY <3>z, <3>0, StartEvent
    <3>2. Push(e) /\ delivered' = delivered
      BY <1>3 DEF HostCallStart
    <3> HIDE DEF e
    <3> QED BY <1>a, <1>b, <2>1, <3>1, <3>2, PushFrame
  <2>3. SlotsTurn' /\ AnswersTurn'
    <3>1. /\ DOMAIN host_calls' = DOMAIN host_calls \cup {next}
          /\ host_calls'[next] = NewHostCallSlot(allocs + 1, sidecar)
          /\ \A h \in DOMAIN host_calls \ {next} : host_calls'[h] = host_calls[h]
      BY <1>3 DEF HostCallStart, Insert
    <3>2. /\ DOMAIN http \subseteq Nat /\ DOMAIN host_calls \subseteq Nat
          /\ DOMAIN persist \subseteq Nat /\ DOMAIN ws \subseteq Nat
      BY <1>a, <1>d DEF TypeOK, IsMap
    <3>3. host_calls'[next].req = allocs + 1 /\ ~host_calls'[next].done
      BY <2>1, <3>1 DEF NewHostCallSlot
    <3>4. AnswerTurn(host_calls)'
      BY <1>b, <3>1, <3>3 DEF AnswersTurn, AnswerTurn
    <3>5. SlotTurn(host_calls)'
      BY <1>a, <1>b, <1>f, <2>1, <3>1, <3>3 DEF SlotsTurn, SlotTurn
    <3>6. (SlotTurn(http) /\ SlotTurn(persist) /\ SlotTurn(ws))'
      BY <1>3, <1>a, <1>b, <1>f, <2>1 DEF HostCallStart, SlotsTurn, SlotTurn
    <3>7. (AnswerTurn(http) /\ AnswerTurn(persist) /\ (\A h \in DOMAIN ws : SocketTurn(h)))'
      BY <1>3, <1>b DEF HostCallStart, AnswersTurn, AnswerTurn, SocketTurn
    <3> QED BY <3>4, <3>5, <3>6, <3>7 DEF SlotsTurn, AnswersTurn
  <2> QED BY <2>1, <2>2, <2>3
<1>4. ASSUME NEW op \in 0 .. 4, PersistStart(op) PROVE Goal'
  <2>1. /\ next \in Handle /\ Turn(next, allocs + 1)
        /\ allocs' = allocs + 1 /\ NextTurn'
    BY <1>4, <1>a, <1>b, AllocTurn DEF PersistStart
  <2>2. FramesTurn'
    <3> DEFINE e == NewEvent("persist", next, allocs + 1, 0, FALSE)
    <3>z. "persist" \in EventKinds
      BY DEF EventKinds
    <3>0. next \in Handle /\ allocs + 1 \in Nat
      BY <1>a DEF TypeOK
    <3>1. e \in Event /\ e.handle = next /\ e.req = allocs + 1
      BY <3>z, <3>0, StartEvent
    <3>2. CASE op \in PersistOps
      <4>1. Push(e) /\ delivered' = delivered
        BY <1>4, <3>2 DEF PersistStart
      <4> HIDE DEF e
      <4> QED BY <1>a, <1>b, <2>1, <3>1, <4>1, PushFrame
    <3>3. CASE op \notin PersistOps
      <4>1. events' = events /\ delivered' = delivered
        BY <1>4, <3>3 DEF PersistStart
      <4>2. \A g \in Event : g.req \in Nat
        BY DEF Event
      <4>3. /\ \A j \in DOMAIN events : events[j] \in Event
            /\ \A f \in delivered : f \in Event
        BY <1>a DEF TypeOK
      <4> QED BY <1>a, <1>b, <2>1, <4>1, <4>2, <4>3 DEF FramesTurn, FrameTurn
    <3> QED BY <3>2, <3>3
  <2>3. SlotsTurn' /\ AnswersTurn'
    <3>1. /\ DOMAIN persist' = DOMAIN persist \cup {next}
          /\ persist'[next] = NewPersistSlot(allocs + 1, op \in PersistOps)
          /\ \A h \in DOMAIN persist \ {next} : persist'[h] = persist[h]
      BY <1>4 DEF PersistStart, Insert
    <3>2. /\ DOMAIN http \subseteq Nat /\ DOMAIN host_calls \subseteq Nat
          /\ DOMAIN persist \subseteq Nat /\ DOMAIN ws \subseteq Nat
      BY <1>a, <1>d DEF TypeOK, IsMap
    <3>3. persist'[next].req = allocs + 1 /\ ~persist'[next].done
      BY <2>1, <3>1 DEF NewPersistSlot
    <3>4. AnswerTurn(persist)'
      BY <1>b, <3>1, <3>3 DEF AnswersTurn, AnswerTurn
    <3>5. SlotTurn(persist)'
      BY <1>a, <1>b, <1>f, <2>1, <3>1, <3>3 DEF SlotsTurn, SlotTurn
    <3>6. (SlotTurn(http) /\ SlotTurn(host_calls) /\ SlotTurn(ws))'
      BY <1>4, <1>a, <1>b, <1>f, <2>1 DEF PersistStart, SlotsTurn, SlotTurn
    <3>7. (AnswerTurn(http) /\ AnswerTurn(host_calls) /\ (\A h \in DOMAIN ws : SocketTurn(h)))'
      BY <1>4, <1>b DEF PersistStart, AnswersTurn, AnswerTurn, SocketTurn
    <3> QED BY <3>4, <3>5, <3>6, <3>7 DEF SlotsTurn, AnswersTurn
  <2> QED BY <2>1, <2>2, <2>3
<1>5. ASSUME NEW h \in Handle, HttpClose(h) PROVE Goal'
  <2>1. SlotsTurn' /\ AnswersTurn'
    BY <1>5, <1>b
    DEF HttpClose, Delete, Restrict, SlotsTurn, AnswersTurn, SlotTurn, AnswerTurn,
        SocketTurn
  <2> QED BY <1>5, <1>c, <2>1 DEF HttpClose
<1>6. ASSUME NEW h \in Handle, WsClose(h) PROVE Goal'
  <2>1. SlotsTurn' /\ AnswersTurn'
    BY <1>6, <1>b
    DEF WsClose, Delete, Restrict, SlotsTurn, AnswersTurn, SlotTurn, AnswerTurn,
        SocketTurn
  <2> DEFINE e == NewEvent("ws_close", h, ws[h].req, 0, FALSE)
  <2>2. h \in DOMAIN ws /\ ws[h] \in WsSlot
    BY <1>6, <1>a DEF WsClose, TypeOK, IsMap
  <2>3. ws[h].req <= allocs /\ Turn(h, ws[h].req)
    BY <1>b, <2>2 DEF SlotsTurn, SlotTurn
  <2>4. e \in Event /\ e.handle = h /\ e.req = ws[h].req
    BY <1>a, <2>2, <2>3, NewEventType DEF EventKinds, NewEvent, WsSlot
  <2>5. Push(e) /\ UNCHANGED <<next, allocs, delivered>>
    BY <1>6 DEF WsClose
  <2> HIDE DEF e
  <2>6. NextTurn' /\ FramesTurn'
    BY <1>a, <1>b, <2>3, <2>4, <2>5, PushFrame DEF NextTurn
  <2> QED BY <2>1, <2>6
<1>7. ASSUME NEW h \in Handle, HostCallClose(h) PROVE Goal'
  <2>1. SlotsTurn' /\ AnswersTurn'
    BY <1>7, <1>b
    DEF HostCallClose, Delete, Restrict, SlotsTurn, AnswersTurn, SlotTurn, AnswerTurn,
        SocketTurn
  <2> DEFINE e == NewEvent("host_call_close", h, host_calls[h].req, 0, host_calls[h].sidecar)
  <2>2. h \in DOMAIN host_calls /\ host_calls[h] \in HostCallSlot
    BY <1>7, <1>a DEF HostCallClose, TypeOK, IsMap
  <2>3. host_calls[h].req <= allocs /\ Turn(h, host_calls[h].req)
    BY <1>b, <2>2 DEF SlotsTurn, SlotTurn
  <2>4. e \in Event /\ e.handle = h /\ e.req = host_calls[h].req
    BY <1>a, <2>2, <2>3, NewEventType DEF EventKinds, NewEvent, HostCallSlot
  <2>5. Push(e) /\ UNCHANGED <<next, allocs, delivered>>
    BY <1>7 DEF HostCallClose
  <2> HIDE DEF e
  <2>6. NextTurn' /\ FramesTurn'
    BY <1>a, <1>b, <2>3, <2>4, <2>5, PushFrame DEF NextTurn
  <2> QED BY <2>1, <2>6
<1>8. ASSUME NEW h \in Handle, PersistClose(h) PROVE Goal'
  <2>1. SlotsTurn' /\ AnswersTurn'
    BY <1>8, <1>b
    DEF PersistClose, Delete, Restrict, SlotsTurn, AnswersTurn, SlotTurn, AnswerTurn,
        SocketTurn
  <2> QED BY <1>8, <1>c, <2>1 DEF PersistClose
<1>9. ASSUME NEW h \in Handle, NEW len \in Lens, WsSend(h, len) PROVE Goal'
  <2>0. /\ DOMAIN ws' = DOMAIN ws
        /\ \A x \in DOMAIN ws :
             /\ ws'[x].req = ws[x].req /\ ws'[x].open = ws[x].open
             /\ ws'[x].failed = ws[x].failed /\ ws'[x].answers = ws[x].answers
             /\ ws'[x].incoming = ws[x].incoming
    BY <1>9, <1>a DEF WsSend, TypeOK, IsMap, WsSlot
  <2>1. SlotsTurn' /\ AnswersTurn'
    BY <1>9, <1>b, <2>0
    DEF WsSend, SlotsTurn, AnswersTurn, SlotTurn, AnswerTurn, SocketTurn
  <2> DEFINE e == NewEvent("ws_send", h, ws[h].req, len, FALSE)
  <2>2. h \in DOMAIN ws /\ ws[h] \in WsSlot
    BY <1>9, <1>a DEF WsSend, CanSend, TypeOK, IsMap
  <2>3. ws[h].req <= allocs /\ Turn(h, ws[h].req)
    BY <1>b, <2>2 DEF SlotsTurn, SlotTurn
  <2>4. e \in Event /\ e.handle = h /\ e.req = ws[h].req
    BY <1>a, <2>2, <2>3, NewEventType, RelayAssumption
    DEF EventKinds, NewEvent, WsSlot
  <2>5. Push(e) /\ UNCHANGED <<next, allocs, delivered>>
    BY <1>9 DEF WsSend
  <2> HIDE DEF e
  <2>6. NextTurn' /\ FramesTurn'
    BY <1>a, <1>b, <2>3, <2>4, <2>5, PushFrame DEF NextTurn
  <2> QED BY <2>1, <2>6
<1>10. ASSUME NEW h \in Handle, NEW cap \in ReadCaps, HttpBody(h, cap) PROVE Goal'
  <2>1. /\ DOMAIN http' = DOMAIN http
        /\ \A x \in DOMAIN http :
             /\ http'[x].req = http[x].req /\ http'[x].done = http[x].done
             /\ http'[x].answers = http[x].answers
    BY <1>10, <1>a DEF HttpBody, TypeOK, IsMap, HttpSlot
  <2>2. host_calls' = host_calls /\ persist' = persist /\ ws' = ws /\ allocs' = allocs
    BY <1>10 DEF HttpBody
  <2>3. SlotsTurn'
    BY <1>b, <2>1, <2>2 DEF SlotsTurn, SlotTurn
  <2>4. AnswersTurn'
    BY <1>b, <2>1, <2>2 DEF AnswersTurn, AnswerTurn, SocketTurn
  <2> QED BY <1>10, <1>c, <2>3, <2>4 DEF HttpBody
<1>11. ASSUME NEW h \in Handle, NEW cap \in ReadCaps, WsRecv(h, cap) PROVE Goal'
  <2>1. /\ h \in DOMAIN ws /\ ws[h] \in WsSlot
        /\ DOMAIN ws' = DOMAIN ws
        /\ \A x \in DOMAIN ws \ {h} : ws'[x] = ws[x]
        /\ ws'[h].req = ws[h].req /\ ws'[h].open = ws[h].open
        /\ ws'[h].failed = ws[h].failed /\ ws'[h].answers = ws[h].answers
        /\ ws'[h].incoming \in {ws[h].incoming, Tail(ws[h].incoming)}
    BY <1>11, <1>a DEF WsRecv, TypeOK, IsMap, WsSlot
  <2>2. ws[h].incoming \in Seq(Message) /\ ws[h].incoming # <<>>
    BY <1>11, <2>1 DEF WsRecv, WsSlot
  <2>3. \A i \in DOMAIN Tail(ws[h].incoming) :
          i + 1 \in DOMAIN ws[h].incoming
            /\ Tail(ws[h].incoming)[i] = ws[h].incoming[i + 1]
    <3>1. /\ Tail(ws[h].incoming) \in Seq(Message)
          /\ Len(Tail(ws[h].incoming)) = Len(ws[h].incoming) - 1
          /\ \A i \in 1 .. Len(Tail(ws[h].incoming)) :
               Tail(ws[h].incoming)[i] = ws[h].incoming[i + 1]
      BY <2>2, HeadTailProperties
    <3> QED BY <2>2, <3>1, LenProperties
  <2>4. SocketTurn(h)
    BY <1>b, <2>1 DEF AnswersTurn
  <2>5. SocketTurn(h)'
    <3>1. CASE ws'[h].incoming = ws[h].incoming
      BY <2>1, <2>4, <3>1 DEF SocketTurn
    <3>2. CASE ws'[h].incoming = Tail(ws[h].incoming)
      <4>1. \A i \in DOMAIN ws'[h].incoming : Earlier(h, ws'[h].incoming[i].answers, ws[h].req)
        BY <2>3, <2>4, <3>2 DEF SocketTurn
      <4> QED BY <2>1, <2>4, <4>1 DEF SocketTurn
    <3> QED BY <2>1, <3>1, <3>2
  <2>6. \A x \in DOMAIN ws \ {h} : SocketTurn(x)'
    BY <1>b, <2>1 DEF AnswersTurn, SocketTurn
  <2>7. AnswersTurn'
    BY <1>11, <1>b, <2>1, <2>5, <2>6 DEF WsRecv, AnswersTurn, AnswerTurn
  <2>8. SlotsTurn'
    <3>1. /\ http' = http /\ host_calls' = host_calls /\ persist' = persist
          /\ allocs' = allocs
      BY <1>11 DEF WsRecv
    <3>2. \A x \in DOMAIN ws : ws'[x].req = ws[x].req
      BY <2>1
    <3> QED BY <1>b, <2>1, <3>1, <3>2 DEF SlotsTurn, SlotTurn
  <2> QED BY <1>11, <1>c, <2>7, <2>8 DEF WsRecv
<1>12. ASSUME NEW h \in Handle, NEW cap \in ReadCaps, HostCallBody(h, cap) PROVE Goal'
  <2>1. /\ DOMAIN host_calls' = DOMAIN host_calls
        /\ \A x \in DOMAIN host_calls :
             /\ host_calls'[x].req = host_calls[x].req /\ host_calls'[x].done = host_calls[x].done
             /\ host_calls'[x].answers = host_calls[x].answers
    BY <1>12, <1>a DEF HostCallBody, TypeOK, IsMap, HostCallSlot
  <2>2. http' = http /\ persist' = persist /\ ws' = ws /\ allocs' = allocs
    BY <1>12 DEF HostCallBody
  <2>3. SlotsTurn'
    BY <1>b, <2>1, <2>2 DEF SlotsTurn, SlotTurn
  <2>4. AnswersTurn'
    BY <1>b, <2>1, <2>2 DEF AnswersTurn, AnswerTurn, SocketTurn
  <2> QED BY <1>12, <1>c, <2>3, <2>4 DEF HostCallBody
<1>13. ASSUME NEW h \in Handle, NEW cap \in ReadCaps, PersistBody(h, cap) PROVE Goal'
  <2>1. /\ DOMAIN persist' = DOMAIN persist
        /\ \A x \in DOMAIN persist :
             /\ persist'[x].req = persist[x].req /\ persist'[x].done = persist[x].done
             /\ persist'[x].answers = persist[x].answers
    BY <1>13, <1>a DEF PersistBody, TypeOK, IsMap, PersistSlot
  <2>2. http' = http /\ host_calls' = host_calls /\ ws' = ws /\ allocs' = allocs
    BY <1>13 DEF PersistBody
  <2>3. SlotsTurn'
    BY <1>b, <2>1, <2>2 DEF SlotsTurn, SlotTurn
  <2>4. AnswersTurn'
    BY <1>b, <2>1, <2>2 DEF AnswersTurn, AnswerTurn, SocketTurn
  <2> QED BY <1>13, <1>c, <2>3, <2>4 DEF PersistBody
<1>14. ASSUME NEW i \in DOMAIN events, PopEvent(i) PROVE Goal'
  <2>1. FramesTurn'
    <3>1. /\ events \in Seq(Event) /\ i \in 1 .. Len(events)
          /\ events' = RemoveAt(events, i) /\ allocs' = allocs
          /\ delivered' \subseteq delivered \cup {events[i]}
      BY <1>14, <1>a DEF PopEvent, TypeOK
    <3>2. /\ DOMAIN events' = 1 .. Len(events) - 1
          /\ Len(events) \in Nat
          /\ \A j \in 1 .. Len(events) - 1 :
               events'[j] = IF j < i THEN events[j] ELSE events[j + 1]
      <4>1. /\ RemoveAt(events, i) \in Seq(Event)
            /\ Len(RemoveAt(events, i)) = Len(events) - 1
            /\ \A j \in 1 .. Len(events) - 1 :
                 RemoveAt(events, i)[j] = IF j < i THEN events[j] ELSE events[j + 1]
        BY <3>1, RemoveAtEvents
      <4> QED BY <3>1, <4>1
    <3>3. ASSUME NEW j \in DOMAIN events' PROVE FrameTurn(events[j])'
      BY <1>b, <3>1, <3>2 DEF FramesTurn, FrameTurn
    <3>4. ASSUME NEW f \in delivered' PROVE FrameTurn(f)'
      BY <1>b, <3>1 DEF FramesTurn, FrameTurn
    <3> QED BY <3>3, <3>4 DEF FramesTurn
  <2>2. SlotsTurn' /\ AnswersTurn'
    <3>1. /\ DOMAIN host_calls' = DOMAIN host_calls
          /\ \A h \in DOMAIN host_calls :
               /\ host_calls'[h].req = host_calls[h].req
               /\ host_calls'[h].done = host_calls[h].done
               /\ host_calls'[h].answers = host_calls[h].answers
      BY <1>14, <1>a, SMTT(30) DEF PopEvent, Dispatch, TypeOK, IsMap, HostCallSlot
    <3>2. /\ DOMAIN ws' = DOMAIN ws
          /\ \A h \in DOMAIN ws :
               /\ ws'[h].req = ws[h].req /\ ws'[h].open = ws[h].open
               /\ ws'[h].failed = ws[h].failed
               /\ ws'[h].answers = ws[h].answers
               /\ ws'[h].incoming = ws[h].incoming
      BY <1>14, <1>a, SMTT(60) DEF PopEvent, Dispatch, TypeOK, IsMap, WsSlot
    <3> QED BY <1>14, <1>b, <3>1, <3>2
            DEF PopEvent, SlotsTurn, AnswersTurn, SlotTurn, AnswerTurn, SocketTurn
  <2> QED BY <1>14, <1>b, <2>1, <2>2 DEF PopEvent, NextTurn
<1>15. ASSUME NEW f \in delivered, NEW ok \in BOOLEAN, NEW head \in Lens,
              NEW body \in Lens, HttpRespond(f, ok, head, body) PROVE Goal'
  <2>1. Earlier(f.handle, f.req, http[f.handle].req)
    BY <1>15, <1>e, <1>b DEF HttpRespond
  <2>2. /\ f.handle \in DOMAIN http /\ DOMAIN http' = DOMAIN http
        /\ \A x \in DOMAIN http \ {f.handle} : http'[x] = http[x]
        /\ http'[f.handle].req = http[f.handle].req
        /\ http'[f.handle].answers = f.req
    BY <1>15, <1>a DEF HttpRespond, TypeOK, IsMap, HttpSlot
  <2>3. SlotsTurn' /\ AnswersTurn'
    BY <1>15, <1>b, <2>1, <2>2
    DEF HttpRespond, SlotsTurn, AnswersTurn, SlotTurn, AnswerTurn, SocketTurn
  <2> QED BY <1>15, <1>c, <2>3 DEF HttpRespond
<1>16. ASSUME NEW f \in delivered, NEW ok \in BOOLEAN, NEW len \in Lens,
              HostCallRespond(f, ok, len) PROVE Goal'
  <2>1. Earlier(f.handle, f.req, host_calls[f.handle].req)
    BY <1>16, <1>e, <1>b DEF HostCallRespond
  <2>2. /\ f.handle \in DOMAIN host_calls /\ DOMAIN host_calls' = DOMAIN host_calls
        /\ \A x \in DOMAIN host_calls \ {f.handle} : host_calls'[x] = host_calls[x]
        /\ host_calls'[f.handle].req = host_calls[f.handle].req
        /\ host_calls'[f.handle].answers = f.req
    BY <1>16, <1>a DEF HostCallRespond, TypeOK, IsMap, HostCallSlot
  <2>3. SlotsTurn' /\ AnswersTurn'
    BY <1>16, <1>b, <2>1, <2>2
    DEF HostCallRespond, SlotsTurn, AnswersTurn, SlotTurn, AnswerTurn, SocketTurn
  <2> QED BY <1>16, <1>c, <2>3 DEF HostCallRespond
<1>17. ASSUME NEW f \in delivered, NEW ok \in BOOLEAN, NEW len \in Lens,
              PersistRespond(f, ok, len) PROVE Goal'
  <2>1. Earlier(f.handle, f.req, persist[f.handle].req)
    BY <1>17, <1>e, <1>b DEF PersistRespond
  <2>2. /\ f.handle \in DOMAIN persist /\ DOMAIN persist' = DOMAIN persist
        /\ \A x \in DOMAIN persist \ {f.handle} : persist'[x] = persist[x]
        /\ persist'[f.handle].req = persist[f.handle].req
        /\ persist'[f.handle].answers = f.req
    BY <1>17, <1>a DEF PersistRespond, TypeOK, IsMap, PersistSlot
  <2>3. SlotsTurn' /\ AnswersTurn'
    BY <1>17, <1>b, <2>1, <2>2
    DEF PersistRespond, SlotsTurn, AnswersTurn, SlotTurn, AnswerTurn, SocketTurn
  <2> QED BY <1>17, <1>c, <2>3 DEF PersistRespond
<1>18. ASSUME NEW f \in delivered, NEW ok \in BOOLEAN, AppWsOpen(f, ok) PROVE Goal'
  <2>1. Earlier(f.handle, f.req, ws[f.handle].req)
    BY <1>18, <1>e, <1>b DEF AppWsOpen
  <2>2. /\ f.handle \in DOMAIN ws /\ DOMAIN ws' = DOMAIN ws
        /\ \A x \in DOMAIN ws \ {f.handle} : ws'[x] = ws[x]
        /\ ws'[f.handle].req = ws[f.handle].req
        /\ ws'[f.handle].answers = f.req
        /\ ws'[f.handle].incoming = ws[f.handle].incoming
    BY <1>18, <1>a DEF AppWsOpen, TypeOK, IsMap, WsSlot
  <2>3. SocketTurn(f.handle)
    BY <1>b, <2>2 DEF AnswersTurn
  <2>4. SocketTurn(f.handle)'
    BY <2>1, <2>2, <2>3 DEF SocketTurn
  <2>5. \A x \in DOMAIN ws \ {f.handle} : SocketTurn(x)'
    BY <1>b, <2>2 DEF AnswersTurn, SocketTurn
  <2>6. AnswersTurn'
    BY <1>18, <1>b, <2>2, <2>4, <2>5 DEF AppWsOpen, AnswersTurn, AnswerTurn
  <2>7. SlotsTurn'
    BY <1>18, <1>b, <2>2 DEF AppWsOpen, SlotsTurn, SlotTurn
  <2> QED BY <1>18, <1>c, <2>6, <2>7 DEF AppWsOpen
<1>19. ASSUME NEW f \in delivered, NEW len \in Lens, AppWsPush(f, len) PROVE Goal'
  <2> DEFINE h == f.handle
             msg == [answers |-> f.req, len |-> len]
  <2>1. Earlier(h, f.req, ws[h].req) /\ f \in Event
    BY <1>19, <1>a, <1>e DEF AppWsPush, TypeOK
  <2>2. /\ h \in DOMAIN ws /\ ws[h] \in WsSlot
        /\ DOMAIN ws' = DOMAIN ws
        /\ \A x \in DOMAIN ws \ {h} : ws'[x] = ws[x]
        /\ ws'[h].req = ws[h].req /\ ws'[h].open = ws[h].open
        /\ ws'[h].failed = ws[h].failed /\ ws'[h].answers = ws[h].answers
        /\ ws'[h].incoming = Append(ws[h].incoming, msg)
    BY <1>19, <1>a DEF AppWsPush, TypeOK, IsMap, WsSlot
  <2>3. ws[h].incoming \in Seq(Message) /\ msg \in Message /\ Earlier(h, msg.answers, ws[h].req)
    BY <2>1, <2>2, RelayAssumption DEF WsSlot, Message, Event
  <2>4. SocketTurn(h)
    BY <1>b, <2>2 DEF AnswersTurn
  <2>5. /\ DOMAIN ws'[h].incoming = 1 .. Len(ws[h].incoming) + 1
        /\ \A i \in 1 .. Len(ws[h].incoming) :
             ws'[h].incoming[i] = ws[h].incoming[i]
        /\ ws'[h].incoming[Len(ws[h].incoming) + 1] = msg
        /\ DOMAIN ws[h].incoming = 1 .. Len(ws[h].incoming)
        /\ Len(ws[h].incoming) \in Nat
    BY <2>2, <2>3, AppendProperties, LenProperties
  <2> HIDE DEF msg, h
  <2>6. SocketTurn(h)'
    BY <2>2, <2>3, <2>4, <2>5 DEF SocketTurn
  <2>7. SlotsTurn' /\ AnswersTurn'
    BY <1>19, <1>b, <2>2, <2>6
    DEF AppWsPush, SlotsTurn, AnswersTurn, SlotTurn, AnswerTurn, SocketTurn
  <2> QED BY <1>19, <1>c, <2>7 DEF AppWsPush
<1>20. ASSUME NEW f \in delivered, AppWsClose(f) PROVE Goal'
  <2>0. /\ DOMAIN ws' = DOMAIN ws
        /\ \A x \in DOMAIN ws :
             /\ ws'[x].req = ws[x].req /\ (ws'[x].open => ws[x].open)
             /\ ws'[x].failed = ws[x].failed /\ ws'[x].answers = ws[x].answers
             /\ ws'[x].incoming = ws[x].incoming
    BY <1>20, <1>a DEF AppWsClose, TypeOK, IsMap, WsSlot
  <2>1. SlotsTurn' /\ AnswersTurn'
    BY <1>20, <1>b, <2>0
    DEF AppWsClose, SlotsTurn, AnswersTurn, SlotTurn, AnswerTurn, SocketTurn
  <2> QED BY <1>20, <1>c, <2>1 DEF AppWsClose
<1>21. CASE UNCHANGED vars
  BY <1>21, <1>b
  DEF vars, NextTurn, SlotsTurn, AnswersTurn, FramesTurn, SlotTurn, AnswerTurn,
      SocketTurn, FrameTurn
<1>22. CASE RelayNext \/ RelayNextSidecar
  <2>1. RelayNext => 1 \in DOMAIN events /\ PopEvent(1)
    BY <1>a, EmptySeq DEF RelayNext, TypeOK
  <2> QED BY <1>14, <1>22, <2>1 DEF RelayNextSidecar
<1>23. CASE GuestStep
  BY <1>1, <1>2, <1>3, <1>4, <1>5, <1>6, <1>7, <1>8, <1>9, <1>10, <1>11,
     <1>12, <1>13, <1>23 DEF GuestStep
<1>24. CASE AppAnswer
  BY <1>15, <1>16, <1>17, <1>18, <1>19, <1>20, <1>24 DEF AppAnswer
<1> QED BY <1>21, <1>22, <1>23, <1>24 DEF Next

LEMMA HandleInvariant == Spec => [](TypeInv /\ HandleInv)
<1>1. Init => TypeInv /\ HandleInv
  BY TypeInit, HandleInit
<1>2. TypeInv /\ HandleInv /\ [Next]_vars => (TypeInv /\ HandleInv)'
  BY TypeStep, HandleStep
<1> QED BY <1>1, <1>2, PTL DEF Spec

\* In the first turn an allocation is its own handle: a handle that a slot, a
\* frame or an answer names never meant another request.
NextInv == next = IF allocs = MaxHandle THEN 1 ELSE allocs + 1

OwnSlot(map) == \A h \in DOMAIN map : h <= allocs /\ map[h].req = h

OwnAnswer(map) == \A h \in DOMAIN map : map[h].done => map[h].answers = h

OwnSocket(h) == /\ ws[h].open \/ ws[h].failed => ws[h].answers = h
                /\ \A i \in DOMAIN ws[h].incoming : ws[h].incoming[i].answers = h

OwnFrame(e) == e.handle <= allocs /\ e.req = e.handle

SlotsInv == /\ OwnSlot(http) /\ OwnSlot(host_calls) /\ OwnSlot(persist) /\ OwnSlot(ws)

AnswersInv == /\ OwnAnswer(http) /\ OwnAnswer(host_calls) /\ OwnAnswer(persist)
              /\ \A h \in DOMAIN ws : OwnSocket(h)

FramesInv == /\ \A i \in DOMAIN events : OwnFrame(events[i])
             /\ \A f \in delivered : OwnFrame(f)

LEMMA MessageAnswers ==
  \A s \in Seq(Message) : \A i \in DOMAIN s : s[i].answers \in Nat
<1>1. \A m \in Message : m.answers \in Nat
  BY DEF Message
<1>2. \A s \in Seq(Message) : \A i \in DOMAIN s : s[i] \in Message
  OBVIOUS
<1> QED BY <1>1, <1>2

LEMMA UntilWrap ==
  ASSUME TypeOK, HandleInv, NoWrap
  PROVE  NextInv /\ SlotsInv /\ AnswersInv /\ FramesInv
<1>a. /\ allocs \in Nat /\ MaxHandle \in Nat \ {0} /\ allocs <= MaxHandle
      /\ next \in Handle /\ Handle \subseteq Nat /\ \A h \in Handle : h <= MaxHandle
  BY RelayAssumption DEF TypeOK, NoWrap, Handle
<1>b. NextTurn /\ SlotsTurn /\ AnswersTurn /\ FramesTurn
  BY DEF HandleInv
<1>c. /\ DOMAIN http \subseteq Handle /\ DOMAIN host_calls \subseteq Handle
      /\ DOMAIN persist \subseteq Handle /\ DOMAIN ws \subseteq Handle
      /\ \A h \in DOMAIN http : http[h].req \in Nat /\ http[h].answers \in Nat
      /\ \A h \in DOMAIN host_calls :
           host_calls[h].req \in Nat /\ host_calls[h].answers \in Nat
      /\ \A h \in DOMAIN persist : persist[h].req \in Nat /\ persist[h].answers \in Nat
      /\ \A h \in DOMAIN ws : ws[h].req \in Nat /\ ws[h].answers \in Nat
  BY DEF TypeOK, IsMap, HttpSlot, HostCallSlot, PersistSlot, WsSlot
<1>d. \A h \in DOMAIN ws : \A i \in DOMAIN ws[h].incoming :
        ws[h].incoming[i].answers \in Nat
  <2>1. \A h \in DOMAIN ws : ws[h].incoming \in Seq(Message)
    BY DEF TypeOK, IsMap, WsSlot
  <2> QED BY <2>1, MessageAnswers
<1>e. \A e \in Event : e.handle \in Handle /\ e.req \in Nat
  BY DEF Event
<1>f. \A h \in Handle, r \in Nat : Turn(h, r) /\ r <= MaxHandle => r = h
  BY FirstTurn
<1>g. \A h \in Handle, a \in Nat, r \in Nat :
        r <= allocs /\ Earlier(h, a, r) => a = h
  BY <1>a, <1>f DEF Earlier
<1>h. \A h \in Handle, r \in Nat :
        r <= allocs /\ Turn(h, r) => h <= allocs /\ r = h
  BY <1>a, <1>f
<1>1. NextInv
  <2>1. CASE allocs = MaxHandle
    <3>1. Turn(1, 1) /\ Turn(1, MaxHandle + 1)
      <4>1. 1 \in Handle /\ MaxHandle \in Handle
        BY <1>a DEF Handle
      <4>2. Turn(MaxHandle, MaxHandle)
        <5>1. MaxHandle = MaxHandle + 0 * MaxHandle /\ 0 \in Nat
          BY <1>a
        <5> QED BY <5>1 DEF Turn
      <4> QED BY <1>a, <4>1, <4>2, TurnSteps
    <3>2. PICK k \in Nat : MaxHandle + 1 = next + k * MaxHandle
      BY <1>b, <2>1 DEF NextTurn, Turn
    <3>3. next \in Nat /\ next >= 1 /\ next <= MaxHandle
      BY <1>a DEF Handle
    <3>4. k # 0
      BY <1>a, <3>2, <3>3
    <3>5. PICK d \in Nat : k = d + 1
      <4>1. k - 1 \in Nat /\ k = (k - 1) + 1
        BY <3>4
      <4> QED BY <4>1
    <3>6. k * MaxHandle = d * MaxHandle + MaxHandle /\ d * MaxHandle \in Nat
      BY <1>a, <3>5
    <3>7. next = 1
      BY <1>a, <3>2, <3>3, <3>6
    <3> QED BY <2>1, <3>7 DEF NextInv
  <2>2. CASE allocs # MaxHandle
    <3>1. allocs + 1 \in Nat /\ allocs + 1 <= MaxHandle
      BY <1>a, <2>2
    <3>2. Turn(next, allocs + 1)
      BY <1>b DEF NextTurn
    <3> QED BY <1>a, <1>f, <2>2, <3>1, <3>2 DEF NextInv
  <2> QED BY <2>1, <2>2
<1>2. SlotsInv
  BY <1>b, <1>c, <1>h DEF SlotsTurn, SlotTurn, SlotsInv, OwnSlot
<1>3. AnswersInv
  <2>1. /\ \A h \in DOMAIN http : http[h].req <= allocs
        /\ \A h \in DOMAIN host_calls : host_calls[h].req <= allocs
        /\ \A h \in DOMAIN persist : persist[h].req <= allocs
        /\ \A h \in DOMAIN ws : ws[h].req <= allocs
    BY <1>b DEF SlotsTurn, SlotTurn
  <2>2. OwnAnswer(http) /\ OwnAnswer(host_calls) /\ OwnAnswer(persist)
    BY <1>b, <1>c, <1>g, <2>1 DEF AnswersTurn, AnswerTurn, OwnAnswer
  <2>3. \A h \in DOMAIN ws : OwnSocket(h)
    BY <1>b, <1>c, <1>d, <1>g, <2>1 DEF AnswersTurn, SocketTurn, OwnSocket
  <2> QED BY <2>2, <2>3 DEF AnswersInv
<1>4. FramesInv
  <2>1. /\ \A i \in DOMAIN events : events[i] \in Event
        /\ \A f \in delivered : f \in Event
    BY DEF TypeOK
  <2> QED BY <1>b, <1>e, <1>h, <2>1 DEF FramesTurn, FrameTurn, FramesInv, OwnFrame
<1> QED BY <1>1, <1>2, <1>3, <1>4

\* While fewer than i32::MAX handles were given out, an answer, however late,
\* never reaches another request than the one it answers.
THEOREM AnswersMatchCorrect == Spec => []AnswersMatch
<1>1. TypeInv /\ HandleInv => AnswersMatch
  BY UntilWrap
  DEF TypeInv, AnswersMatch, SlotsInv, AnswersInv, OwnSlot, OwnAnswer, OwnSocket
<1> QED BY HandleInvariant, <1>1, PTL

\* What is stored for request r was given to r itself, or to a request that is
\* MaxHandle allocations older or more.
OwnOrTurnLate(a, r) == a = r \/ a + MaxHandle <= r

AnswersOwnOrTurnLate ==
  /\ \A h \in DOMAIN http : http[h].done => OwnOrTurnLate(http[h].answers, http[h].req)
  /\ \A h \in DOMAIN host_calls :
       host_calls[h].done => OwnOrTurnLate(host_calls[h].answers, host_calls[h].req)
  /\ \A h \in DOMAIN persist :
       persist[h].done => OwnOrTurnLate(persist[h].answers, persist[h].req)
  /\ \A h \in DOMAIN ws :
       /\ ws[h].open \/ ws[h].failed => OwnOrTurnLate(ws[h].answers, ws[h].req)
       /\ \A i \in DOMAIN ws[h].incoming :
            OwnOrTurnLate(ws[h].incoming[i].answers, ws[h].req)

\* Handles may wrap (alloc_handle: wrapping_add(1).max(1)).  An answer that
\* finds another request under its handle finds a newer one of its own kind,
\* and is then late by at least i32::MAX allocations: one whole turn.
THEOREM AnswersOwnOrTurnLateCorrect == Spec => []AnswersOwnOrTurnLate
<1>1. ASSUME TypeInv, HandleInv PROVE AnswersOwnOrTurnLate
  <2>a. SlotsTurn /\ AnswersTurn /\ TypeOK
    BY <1>1 DEF HandleInv, TypeInv
  <2>b. \A h \in Handle, a \in Nat, r \in Nat :
          Turn(h, r) /\ Earlier(h, a, r) => OwnOrTurnLate(a, r)
    BY TurnsApart DEF Earlier, OwnOrTurnLate
  <2>c. /\ DOMAIN http \subseteq Handle /\ DOMAIN host_calls \subseteq Handle
        /\ DOMAIN persist \subseteq Handle /\ DOMAIN ws \subseteq Handle
        /\ \A h \in DOMAIN http : http[h].req \in Nat /\ http[h].answers \in Nat
        /\ \A h \in DOMAIN host_calls :
             host_calls[h].req \in Nat /\ host_calls[h].answers \in Nat
        /\ \A h \in DOMAIN persist : persist[h].req \in Nat /\ persist[h].answers \in Nat
        /\ \A h \in DOMAIN ws : ws[h].req \in Nat /\ ws[h].answers \in Nat
    BY <2>a DEF TypeOK, IsMap, HttpSlot, HostCallSlot, PersistSlot, WsSlot
  <2>d. \A h \in DOMAIN ws : \A i \in DOMAIN ws[h].incoming :
          ws[h].incoming[i].answers \in Nat
    <3>1. \A h \in DOMAIN ws : ws[h].incoming \in Seq(Message)
      BY <2>a DEF TypeOK, IsMap, WsSlot
    <3> QED BY <3>1, MessageAnswers
  <2>1. \A h \in DOMAIN http : http[h].done => OwnOrTurnLate(http[h].answers, http[h].req)
    BY <2>a, <2>b, <2>c DEF SlotsTurn, SlotTurn, AnswersTurn, AnswerTurn
  <2>2. \A h \in DOMAIN host_calls :
          host_calls[h].done => OwnOrTurnLate(host_calls[h].answers, host_calls[h].req)
    BY <2>a, <2>b, <2>c DEF SlotsTurn, SlotTurn, AnswersTurn, AnswerTurn
  <2>3. \A h \in DOMAIN persist :
          persist[h].done => OwnOrTurnLate(persist[h].answers, persist[h].req)
    BY <2>a, <2>b, <2>c DEF SlotsTurn, SlotTurn, AnswersTurn, AnswerTurn
  <2>4. \A h \in DOMAIN ws :
          /\ ws[h].open \/ ws[h].failed => OwnOrTurnLate(ws[h].answers, ws[h].req)
          /\ \A i \in DOMAIN ws[h].incoming :
               OwnOrTurnLate(ws[h].incoming[i].answers, ws[h].req)
    BY <2>a, <2>b, <2>c, <2>d DEF SlotsTurn, SlotTurn, AnswersTurn, SocketTurn
  <2> QED BY <2>1, <2>2, <2>3, <2>4 DEF AnswersOwnOrTurnLate
<1> QED BY HandleInvariant, <1>1, PTL
-----------------------------------------------------------------------------
(***************************************************************************)
(* Frames.  A request has one slot, in one map, and what is queued or      *)
(* delivered of it is of that slot's kind: a slot that is there has no     *)
(* close frame, a refused persist slot has no frame at all.  Requests are  *)
(* told apart by their numbers, which no turn of the counter repeats.      *)
(***************************************************************************)
Apart(map, other) == \A g \in DOMAIN map, h \in DOMAIN other : map[g].req # other[h].req

Once(map) == \A g, h \in DOMAIN map : map[g].req = map[h].req => g = h

RequestsApart ==
  /\ Apart(http, host_calls) /\ Apart(http, persist) /\ Apart(http, ws)
  /\ Apart(host_calls, persist) /\ Apart(host_calls, ws) /\ Apart(persist, ws)
  /\ Once(host_calls) /\ Once(ws)

OfItsRequest(e) ==
  /\ \A h \in DOMAIN http : http[h].req = e.req => e.kind = "http"
  /\ \A h \in DOMAIN host_calls :
       host_calls[h].req = e.req
         => e.kind = "host_call" /\ e.sidecar = host_calls[h].sidecar
  /\ \A h \in DOMAIN persist :
       persist[h].req = e.req => e.kind = "persist" /\ persist[h].given
  /\ \A h \in DOMAIN ws : ws[h].req = e.req => e.kind \in {"ws_connect", "ws_send"}

\* The frames of one request are taken by the same puller: what
\* relay_next_sidecar takes first was not overtaken.
OnePuller ==
  \A i, j \in DOMAIN events :
    events[i].req = events[j].req
      => (IsSidecarEvent(events[i]) <=> IsSidecarEvent(events[j]))

Ordered ==
  \A i \in DOMAIN events :
    /\ \A j \in DOMAIN events :
         i < j /\ events[i].req = events[j].req
           => Rank(events[i]) <= Rank(events[j])
    /\ \A f \in delivered :
         f.req = events[i].req => Rank(f) <= Rank(events[i])

OrderInv == /\ RequestsApart
            /\ \A e \in Frames : OfItsRequest(e)
            /\ OnePuller /\ Ordered

\* A frame may be pushed that is not before the others of its request.
LEMMA PushOrder ==
  ASSUME TypeOK, NEW e \in Event, Push(e), delivered' = delivered,
         OnePuller, Ordered,
         \A f \in Frames : f.req = e.req =>
           Rank(f) <= Rank(e) /\ (IsSidecarEvent(f) <=> IsSidecarEvent(e))
  PROVE  (OnePuller /\ Ordered)'
<1>1. /\ Len(events) \in Nat /\ DOMAIN events = 1 .. Len(events)
      /\ DOMAIN events' = 1 .. Len(events) + 1
      /\ \A i \in 1 .. Len(events) : events'[i] = events[i]
      /\ events'[Len(events) + 1] = e
  BY PushFrames
<1>2. \A i \in DOMAIN events : events[i] \in Frames
  BY DEF Frames
<1>3. \A f \in delivered : f \in Frames
  BY DEF Frames
<1> DEFINE Same(f, g) == IsSidecarEvent(f) <=> IsSidecarEvent(g)
<1>4. ASSUME NEW i \in DOMAIN events', NEW j \in DOMAIN events',
             events'[i].req = events'[j].req
      PROVE  Same(events'[i], events'[j])
  <2> HIDE DEF Same
  <2>1. \A k, l \in DOMAIN events : events[k].req = events[l].req
                                      => Same(events[k], events[l])
    BY DEF Same, OnePuller
  <2>2. /\ Same(e, e)
        /\ \A k \in DOMAIN events : events[k].req = e.req
             => Same(events[k], e) /\ Same(e, events[k])
    BY <1>2 DEF Same
  <2> QED BY <1>1, <1>4, <2>1, <2>2
<1>5. OnePuller'
  BY <1>4 DEF OnePuller, IsSidecarEvent
<1>6. ASSUME NEW i \in DOMAIN events'
      PROVE  /\ \A j \in DOMAIN events' :
                  i < j /\ events'[i].req = events'[j].req
                    => Rank(events'[i]) <= Rank(events'[j])
             /\ \A f \in delivered' :
                  f.req = events'[i].req => Rank(f) <= Rank(events'[i])
  BY <1>1, <1>2, <1>3 DEF Ordered
<1> QED BY <1>5, <1>6 DEF Ordered, Rank

\* A frame may leave the queue that is the first of its request.
LEMMA PopOrder ==
  ASSUME TypeOK, NEW i \in DOMAIN events, PopEvent(i), OnePuller, Ordered,
         \A j \in 1 .. i - 1 : events[j].req # events[i].req
  PROVE  Frames' \subseteq Frames /\ (OnePuller /\ Ordered)'
<1> DEFINE at(j) == IF j < i THEN j ELSE j + 1
<1>1. /\ events \in Seq(Event) /\ i \in 1 .. Len(events)
      /\ events' = RemoveAt(events, i)
      /\ delivered' \subseteq delivered \cup {events[i]}
      /\ Len(events) \in Nat /\ DOMAIN events = 1 .. Len(events)
  BY DEF PopEvent, TypeOK
<1>2. /\ DOMAIN events' = 1 .. Len(events) - 1
      /\ \A j \in DOMAIN events' : events'[j] = events[at(j)] /\ at(j) \in DOMAIN events \ {i}
  <2>1. /\ RemoveAt(events, i) \in Seq(Event)
        /\ Len(RemoveAt(events, i)) = Len(events) - 1
        /\ \A j \in 1 .. Len(events) - 1 :
             RemoveAt(events, i)[j] = IF j < i THEN events[j] ELSE events[j + 1]
    BY <1>1, RemoveAtEvents
  <2> QED BY <1>1, <2>1
<1>3. \A j, k \in DOMAIN events' : j < k => at(j) < at(k)
  BY <1>1, <1>2
<1>4. \A j \in DOMAIN events' : at(j) > i \/ events[at(j)].req # events[i].req
  BY <1>1, <1>2
<1> HIDE DEF at
<1>5. Frames' \subseteq Frames
  BY <1>1, <1>2 DEF Frames
<1>6. OnePuller'
  BY <1>2 DEF OnePuller, IsSidecarEvent
<1>7. ASSUME NEW j \in DOMAIN events'
      PROVE  /\ \A k \in DOMAIN events' :
                  j < k /\ events'[j].req = events'[k].req
                    => Rank(events'[j]) <= Rank(events'[k])
             /\ \A f \in delivered' :
                  f.req = events'[j].req => Rank(f) <= Rank(events'[j])
  BY <1>1, <1>2, <1>3, <1>4 DEF Ordered
<1> QED BY <1>5, <1>6, <1>7 DEF Ordered, Rank

\* The number of a new request is no slot's and no frame's.
LEMMA StartOrder ==
  ASSUME TypeOK, HandleInv
  PROVE  /\ \A h \in DOMAIN http : http[h].req # allocs + 1
         /\ \A h \in DOMAIN host_calls : host_calls[h].req # allocs + 1
         /\ \A h \in DOMAIN persist : persist[h].req # allocs + 1
         /\ \A h \in DOMAIN ws : ws[h].req # allocs + 1
         /\ \A f \in Frames : f.req # allocs + 1
<1>1. SlotsTurn /\ FramesTurn /\ allocs \in Nat
  BY DEF HandleInv, TypeOK
<1>2. \A f \in Frames : f.req <= allocs /\ f \in Event
  BY <1>1 DEF Frames, FramesTurn, FrameTurn, TypeOK
<1>3. /\ \A f \in Event : f.req \in Nat
      /\ \A h \in DOMAIN http : http[h].req \in Nat
      /\ \A h \in DOMAIN host_calls : host_calls[h].req \in Nat
      /\ \A h \in DOMAIN persist : persist[h].req \in Nat
      /\ \A h \in DOMAIN ws : ws[h].req \in Nat
  BY DEF TypeOK, IsMap, Event, HttpSlot, HostCallSlot, PersistSlot, WsSlot
<1> QED BY <1>1, <1>2, <1>3 DEF SlotsTurn, SlotTurn

LEMMA OrderInit == Init => OrderInv
BY DEF Init, OrderInv, RequestsApart, Apart, Once, Frames, OnePuller, Ordered

LEMMA OrderStep ==
  ASSUME TypeInv, TypeInv', HandleInv, OrderInv, [Next]_vars
  PROVE  OrderInv'
<1>a. TypeOK /\ TypeOK' /\ allocs \in Nat
  BY DEF TypeInv, TypeOK
<1>c. RequestsApart /\ (\A e \in Frames : OfItsRequest(e)) /\ OnePuller /\ Ordered
  BY DEF OrderInv
<1>d. ASSUME events' = events, delivered' = delivered
      PROVE  Frames' = Frames /\ (OnePuller /\ Ordered)'
  BY <1>c, <1>d DEF Frames, OnePuller, Ordered, IsSidecarEvent, Rank
<1>1. ASSUME HttpRequest PROVE OrderInv'
  <2> DEFINE e == NewEvent("http", next, allocs + 1, 0, FALSE)
  <2>1. /\ AllocHandle /\ Push(e) /\ delivered' = delivered
        /\ host_calls' = host_calls /\ persist' = persist /\ ws' = ws
        /\ DOMAIN http' = DOMAIN http \cup {next}
        /\ \A x \in DOMAIN http \ {next} : http'[x] = http[x]
        /\ http'[next].req = allocs + 1
    BY <1>1 DEF HttpRequest, Insert, NewHttpSlot
  <2>2. e \in Event /\ e.req = allocs + 1 /\ e.kind = "http" /\ e.sidecar = FALSE
    <3>1. next \in Handle /\ allocs + 1 \in Nat /\ "http" \in EventKinds
      BY <1>a DEF TypeOK, EventKinds
    <3> QED BY <3>1, NewEventType DEF NewEvent
  <2> HIDE DEF e
  <2>3. /\ \A h \in DOMAIN http : http[h].req # allocs + 1
        /\ \A h \in DOMAIN host_calls : host_calls[h].req # allocs + 1
        /\ \A h \in DOMAIN persist : persist[h].req # allocs + 1
        /\ \A h \in DOMAIN ws : ws[h].req # allocs + 1
        /\ \A f \in Frames : f.req # allocs + 1
    BY <1>a, StartOrder
  <2>4. Frames' = Frames \cup {e} /\ (OnePuller /\ Ordered)'
    BY <1>a, <1>c, <2>1, <2>2, <2>3, PushFrames, PushOrder
  <2>5. RequestsApart'
    BY <1>c, <2>1, <2>3 DEF RequestsApart, Apart, Once
  <2>6. \A f \in Frames' : OfItsRequest(f)'
    BY <1>c, <2>1, <2>2, <2>3, <2>4 DEF OfItsRequest
  <2> QED BY <2>4, <2>5, <2>6 DEF OrderInv
<1>2. ASSUME WsConnect PROVE OrderInv'
  <2> DEFINE e == NewEvent("ws_connect", next, allocs + 1, 0, FALSE)
  <2>1. /\ AllocHandle /\ Push(e) /\ delivered' = delivered
        /\ http' = http /\ host_calls' = host_calls /\ persist' = persist
        /\ DOMAIN ws' = DOMAIN ws \cup {next}
        /\ \A x \in DOMAIN ws \ {next} : ws'[x] = ws[x]
        /\ ws'[next].req = allocs + 1
    BY <1>2 DEF WsConnect, Insert, NewWsSlot
  <2>2. e \in Event /\ e.req = allocs + 1 /\ e.kind = "ws_connect" /\ e.sidecar = FALSE
    <3>1. next \in Handle /\ allocs + 1 \in Nat /\ "ws_connect" \in EventKinds
      BY <1>a DEF TypeOK, EventKinds
    <3> QED BY <3>1, NewEventType DEF NewEvent
  <2> HIDE DEF e
  <2>3. /\ \A h \in DOMAIN http : http[h].req # allocs + 1
        /\ \A h \in DOMAIN host_calls : host_calls[h].req # allocs + 1
        /\ \A h \in DOMAIN persist : persist[h].req # allocs + 1
        /\ \A h \in DOMAIN ws : ws[h].req # allocs + 1
        /\ \A f \in Frames : f.req # allocs + 1
    BY <1>a, StartOrder
  <2>4. Frames' = Frames \cup {e} /\ (OnePuller /\ Ordered)'
    BY <1>a, <1>c, <2>1, <2>2, <2>3, PushFrames, PushOrder
  <2>5. RequestsApart'
    BY <1>c, <2>1, <2>3 DEF RequestsApart, Apart, Once
  <2>6. \A f \in Frames' : OfItsRequest(f)'
    BY <1>c, <2>1, <2>2, <2>3, <2>4 DEF OfItsRequest
  <2> QED BY <2>4, <2>5, <2>6 DEF OrderInv
<1>3. ASSUME NEW sidecar \in BOOLEAN, HostCallStart(sidecar) PROVE OrderInv'
  <2> DEFINE e == NewEvent("host_call", next, allocs + 1, 0, sidecar)
  <2>1. /\ AllocHandle /\ Push(e) /\ delivered' = delivered
        /\ http' = http /\ persist' = persist /\ ws' = ws
        /\ DOMAIN host_calls' = DOMAIN host_calls \cup {next}
        /\ \A x \in DOMAIN host_calls \ {next} : host_calls'[x] = host_calls[x]
        /\ host_calls'[next].req = allocs + 1
        /\ host_calls'[next].sidecar = sidecar
    BY <1>3 DEF HostCallStart, Insert, NewHostCallSlot
  <2>2. e \in Event /\ e.req = allocs + 1 /\ e.kind = "host_call" /\ e.sidecar = sidecar
    <3>1. next \in Handle /\ allocs + 1 \in Nat /\ "host_call" \in EventKinds
      BY <1>a DEF TypeOK, EventKinds
    <3> QED BY <3>1, NewEventType DEF NewEvent
  <2> HIDE DEF e
  <2>3. /\ \A h \in DOMAIN http : http[h].req # allocs + 1
        /\ \A h \in DOMAIN host_calls : host_calls[h].req # allocs + 1
        /\ \A h \in DOMAIN persist : persist[h].req # allocs + 1
        /\ \A h \in DOMAIN ws : ws[h].req # allocs + 1
        /\ \A f \in Frames : f.req # allocs + 1
    BY <1>a, StartOrder
  <2>4. Frames' = Frames \cup {e} /\ (OnePuller /\ Ordered)'
    BY <1>a, <1>c, <2>1, <2>2, <2>3, PushFrames, PushOrder
  <2>5. RequestsApart'
    BY <1>c, <2>1, <2>3 DEF RequestsApart, Apart, Once
  <2>6. \A f \in Frames' : OfItsRequest(f)'
    BY <1>c, <2>1, <2>2, <2>3, <2>4 DEF OfItsRequest
  <2> QED BY <2>4, <2>5, <2>6 DEF OrderInv
<1>4. ASSUME NEW op \in 0 .. 4, PersistStart(op) PROVE OrderInv'
  <2> DEFINE e == NewEvent("persist", next, allocs + 1, 0, FALSE)
  <2>1. /\ AllocHandle /\ delivered' = delivered
        /\ http' = http /\ host_calls' = host_calls /\ ws' = ws
        /\ DOMAIN persist' = DOMAIN persist \cup {next}
        /\ \A x \in DOMAIN persist \ {next} : persist'[x] = persist[x]
        /\ persist'[next].req = allocs + 1
        /\ persist'[next].given = (op \in PersistOps)
    BY <1>4 DEF PersistStart, Insert, NewPersistSlot
  <2>2. /\ op \in PersistOps => Push(e)
        /\ op \notin PersistOps => events' = events
    BY <1>4 DEF PersistStart
  <2>3. e \in Event /\ e.req = allocs + 1 /\ e.kind = "persist"
    <3>1. next \in Handle /\ allocs + 1 \in Nat /\ "persist" \in EventKinds
      BY <1>a DEF TypeOK, EventKinds
    <3> QED BY <3>1, NewEventType DEF NewEvent
  <2> HIDE DEF e
  <2>4. /\ \A h \in DOMAIN http : http[h].req # allocs + 1
        /\ \A h \in DOMAIN host_calls : host_calls[h].req # allocs + 1
        /\ \A h \in DOMAIN persist : persist[h].req # allocs + 1
        /\ \A h \in DOMAIN ws : ws[h].req # allocs + 1
        /\ \A f \in Frames : f.req # allocs + 1
    BY <1>a, StartOrder
  <2>5. /\ Frames' = (IF op \in PersistOps THEN Frames \cup {e} ELSE Frames)
        /\ (OnePuller /\ Ordered)'
    <3>1. CASE op \in PersistOps
      BY <1>a, <1>c, <2>1, <2>2, <2>3, <2>4, <3>1, PushFrames, PushOrder
    <3>2. CASE op \notin PersistOps
      BY <1>d, <2>1, <2>2, <3>2
    <3> QED BY <3>1, <3>2
  <2>6. RequestsApart'
    BY <1>c, <2>1, <2>4 DEF RequestsApart, Apart, Once
  <2>7. \A f \in Frames' : OfItsRequest(f)'
    <3>1. CASE op \in PersistOps
      <4>1. \A f \in Frames : OfItsRequest(f)'
        BY <1>c, <2>1, <2>4 DEF OfItsRequest
      <4>2. persist'[next].given
        BY <2>1, <3>1
      <4>3. \A h \in DOMAIN persist' :
              persist'[h].req = allocs + 1 => persist'[h].given
        BY <2>1, <2>4, <4>2
      <4>4. \A f : f = e => OfItsRequest(f)'
        BY <2>1, <2>3, <2>4, <4>3 DEF OfItsRequest
      <4>5. Frames' = Frames \cup {e}
        BY <2>5, <3>1
      <4> QED BY <4>1, <4>4, <4>5
    <3>2. CASE op \notin PersistOps
      BY <1>c, <2>1, <2>4, <2>5, <3>2 DEF OfItsRequest
    <3> QED BY <3>1, <3>2
  <2> QED BY <2>5, <2>6, <2>7 DEF OrderInv
<1>5. ASSUME NEW h \in Handle, HttpClose(h) \/ PersistClose(h) PROVE OrderInv'
  <2>1. /\ events' = events /\ delivered' = delivered
        /\ host_calls' = host_calls /\ ws' = ws
        /\ DOMAIN http' \subseteq DOMAIN http
        /\ DOMAIN persist' \subseteq DOMAIN persist
        /\ \A x \in DOMAIN http' : http'[x] = http[x]
        /\ \A x \in DOMAIN persist' : persist'[x] = persist[x]
    BY <1>5 DEF HttpClose, PersistClose, Delete, Restrict
  <2>2. RequestsApart'
    BY <1>c, <2>1 DEF RequestsApart, Apart, Once
  <2>3. \A f \in Frames : OfItsRequest(f)'
    BY <1>c, <2>1 DEF OfItsRequest
  <2> QED BY <1>d, <2>1, <2>2, <2>3 DEF OrderInv
<1>6. ASSUME NEW h \in Handle, WsClose(h) PROVE OrderInv'
  <2> DEFINE e == NewEvent("ws_close", h, ws[h].req, 0, FALSE)
  <2>1. /\ h \in DOMAIN ws /\ Push(e) /\ delivered' = delivered
        /\ http' = http /\ host_calls' = host_calls /\ persist' = persist
        /\ DOMAIN ws' = DOMAIN ws \ {h}
        /\ \A x \in DOMAIN ws' : ws'[x] = ws[x]
    BY <1>6 DEF WsClose, Delete, Restrict
  <2>2. e \in Event /\ e.req = ws[h].req /\ e.kind = "ws_close"
    <3>1. ws[h] \in WsSlot
      BY <1>a, <2>1 DEF TypeOK, IsMap
    <3> QED BY <3>1, NewEventType DEF NewEvent, EventKinds, WsSlot
  <2> HIDE DEF e
  <2>3. \A f \in Frames : f.req = ws[h].req => f.kind \in {"ws_connect", "ws_send"}
    BY <1>c, <2>1 DEF OfItsRequest
  <2>4. Frames' = Frames \cup {e} /\ (OnePuller /\ Ordered)'
    <3>1. \A f \in Frames : f.req = e.req =>
            Rank(f) <= Rank(e) /\ (IsSidecarEvent(f) <=> IsSidecarEvent(e))
      BY <2>2, <2>3 DEF Rank, IsSidecarEvent
    <3> QED BY <1>a, <1>c, <2>1, <2>2, <3>1, PushFrames, PushOrder
  <2>5. RequestsApart'
    BY <1>c, <2>1 DEF RequestsApart, Apart, Once
  <2>6. \A f \in Frames' : OfItsRequest(f)'
    BY <1>c, <2>1, <2>2, <2>4 DEF OfItsRequest, RequestsApart, Apart, Once
  <2> QED BY <2>4, <2>5, <2>6 DEF OrderInv
<1>7. ASSUME NEW h \in Handle, HostCallClose(h) PROVE OrderInv'
  <2> DEFINE e == NewEvent("host_call_close", h, host_calls[h].req, 0, host_calls[h].sidecar)
  <2>1. /\ h \in DOMAIN host_calls /\ Push(e) /\ delivered' = delivered
        /\ http' = http /\ ws' = ws /\ persist' = persist
        /\ DOMAIN host_calls' = DOMAIN host_calls \ {h}
        /\ \A x \in DOMAIN host_calls' : host_calls'[x] = host_calls[x]
    BY <1>7 DEF HostCallClose, Delete, Restrict
  <2>2. /\ e \in Event /\ e.req = host_calls[h].req /\ e.kind = "host_call_close"
        /\ e.sidecar = host_calls[h].sidecar
    <3>1. host_calls[h] \in HostCallSlot
      BY <1>a, <2>1 DEF TypeOK, IsMap
    <3> QED BY <3>1, NewEventType DEF NewEvent, EventKinds, HostCallSlot
  <2> HIDE DEF e
  <2>3. \A f \in Frames : f.req = host_calls[h].req => f.kind = "host_call" /\ f.sidecar = host_calls[h].sidecar
    BY <1>c, <2>1 DEF OfItsRequest
  <2>4. Frames' = Frames \cup {e} /\ (OnePuller /\ Ordered)'
    <3>1. \A f \in Frames : f.req = e.req =>
            Rank(f) <= Rank(e) /\ (IsSidecarEvent(f) <=> IsSidecarEvent(e))
      BY <2>2, <2>3 DEF Rank, IsSidecarEvent
    <3> QED BY <1>a, <1>c, <2>1, <2>2, <3>1, PushFrames, PushOrder
  <2>5. RequestsApart'
    BY <1>c, <2>1 DEF RequestsApart, Apart, Once
  <2>6. \A f \in Frames' : OfItsRequest(f)'
    BY <1>c, <2>1, <2>2, <2>4 DEF OfItsRequest, RequestsApart, Apart, Once
  <2> QED BY <2>4, <2>5, <2>6 DEF OrderInv
<1>8. ASSUME NEW h \in Handle, NEW len \in Lens, WsSend(h, len) PROVE OrderInv'
  <2> DEFINE e == NewEvent("ws_send", h, ws[h].req, len, FALSE)
  <2>1. /\ h \in DOMAIN ws /\ Push(e) /\ delivered' = delivered
        /\ http' = http /\ host_calls' = host_calls /\ persist' = persist
        /\ DOMAIN ws' = DOMAIN ws /\ \A x \in DOMAIN ws : ws'[x].req = ws[x].req
    BY <1>8, <1>a DEF WsSend, CanSend, TypeOK, IsMap, WsSlot
  <2>2. e \in Event /\ e.req = ws[h].req /\ e.kind = "ws_send"
    <3>1. ws[h] \in WsSlot
      BY <1>a, <2>1 DEF TypeOK, IsMap
    <3> QED BY <3>1, RelayAssumption, NewEventType DEF NewEvent, EventKinds, WsSlot
  <2> HIDE DEF e
  <2>3. \A f \in Frames : f.req = ws[h].req => f.kind \in {"ws_connect", "ws_send"}
    BY <1>c, <2>1 DEF OfItsRequest
  <2>4. Frames' = Frames \cup {e} /\ (OnePuller /\ Ordered)'
    <3>1. \A f \in Frames : f.req = e.req =>
            Rank(f) <= Rank(e) /\ (IsSidecarEvent(f) <=> IsSidecarEvent(e))
      BY <2>2, <2>3 DEF Rank, IsSidecarEvent
    <3> QED BY <1>a, <1>c, <2>1, <2>2, <3>1, PushFrames, PushOrder
  <2>5. RequestsApart'
    BY <1>c, <2>1 DEF RequestsApart, Apart, Once
  <2>6. \A f \in Frames' : OfItsRequest(f)'
    BY <1>c, <2>1, <2>2, <2>4 DEF OfItsRequest, RequestsApart, Apart, Once
  <2> QED BY <2>4, <2>5, <2>6 DEF OrderInv
<1>9. ASSUME NEW i \in DOMAIN events, PopEvent(i),
             \A j \in 1 .. i - 1 : events[j].req # events[i].req
      PROVE  OrderInv'
  <2>1. /\ http' = http /\ persist' = persist
        /\ DOMAIN host_calls' = DOMAIN host_calls
        /\ \A h \in DOMAIN host_calls : host_calls'[h].sidecar = host_calls[h].sidecar
        /\ \A h \in DOMAIN host_calls : host_calls'[h].req = host_calls[h].req
        /\ DOMAIN ws' = DOMAIN ws
    BY <1>9, <1>a, SMTT(30) DEF PopEvent, Dispatch, TypeOK, IsMap, HostCallSlot
  <2>2. \A h \in DOMAIN ws : ws'[h].req = ws[h].req
    BY <1>9, <1>a, SMTT(60) DEF PopEvent, Dispatch, TypeOK, IsMap, WsSlot
  <2>3. Frames' \subseteq Frames /\ (OnePuller /\ Ordered)'
    BY <1>9, <1>a, <1>c, PopOrder
  <2>4. RequestsApart'
    BY <1>c, <2>1, <2>2 DEF RequestsApart, Apart, Once
  <2>5. \A f \in Frames' : OfItsRequest(f)'
    BY <1>c, <2>1, <2>3, <2>2 DEF OfItsRequest
  <2> QED BY <2>3, <2>4, <2>5 DEF OrderInv
<1>10. CASE RelayNext \/ RelayNextSidecar
  <2>1. RelayNext => 1 \in DOMAIN events /\ PopEvent(1)
    BY <1>a, EmptySeq DEF RelayNext, TypeOK
  <2>2. ASSUME NEW i \in DOMAIN events, FirstSidecar(i)
        PROVE  \A j \in 1 .. i - 1 : events[j].req # events[i].req
    <3>1. \A j \in 1 .. i - 1 : j \in DOMAIN events
      BY <1>a DEF TypeOK
    <3> QED BY <1>c, <2>2, <3>1 DEF FirstSidecar, OnePuller
  <2> QED BY <1>9, <1>10, <2>1, <2>2 DEF RelayNextSidecar
<1>11. ASSUME /\ events' = events /\ delivered' = delivered
              /\ DOMAIN http' = DOMAIN http /\ DOMAIN host_calls' = DOMAIN host_calls
              /\ DOMAIN persist' = DOMAIN persist /\ DOMAIN ws' = DOMAIN ws
              /\ \A h \in DOMAIN host_calls : host_calls'[h].sidecar = host_calls[h].sidecar
              /\ \A h \in DOMAIN persist : persist'[h].given = persist[h].given
              /\ \A h \in DOMAIN http : http'[h].req = http[h].req
              /\ \A h \in DOMAIN host_calls : host_calls'[h].req = host_calls[h].req
              /\ \A h \in DOMAIN persist : persist'[h].req = persist[h].req
              /\ \A h \in DOMAIN ws : ws'[h].req = ws[h].req
       PROVE  OrderInv'
  <2>1. RequestsApart'
    BY <1>c, <1>11 DEF RequestsApart, Apart, Once
  <2>2. \A f \in Frames : OfItsRequest(f)'
    BY <1>c, <1>11 DEF OfItsRequest
  <2> QED BY <1>d, <1>11, <2>1, <2>2 DEF OrderInv
<1>12. ASSUME NEW h \in Handle, NEW cap \in ReadCaps,
              HttpBody(h, cap) \/ WsRecv(h, cap) \/ HostCallBody(h, cap) \/ PersistBody(h, cap)
       PROVE  OrderInv'
  <2>1. CASE HttpBody(h, cap)
    BY <1>11, <1>a, <2>1 DEF HttpBody, TypeOK, IsMap, HttpSlot
  <2>2. CASE WsRecv(h, cap)
    BY <1>11, <1>a, <2>2 DEF WsRecv, TypeOK, IsMap, WsSlot
  <2>3. CASE HostCallBody(h, cap)
    BY <1>11, <1>a, <2>3 DEF HostCallBody, TypeOK, IsMap, HostCallSlot
  <2>4. CASE PersistBody(h, cap)
    BY <1>11, <1>a, <2>4 DEF PersistBody, TypeOK, IsMap, PersistSlot
  <2> QED BY <1>12, <2>1, <2>2, <2>3, <2>4
<1>13. CASE AppAnswer
  <2> PICK f \in delivered :
        \/ \E ok \in BOOLEAN, head \in Lens, body \in Lens : HttpRespond(f, ok, head, body)
        \/ \E ok \in BOOLEAN, len \in Lens : HostCallRespond(f, ok, len)
        \/ \E ok \in BOOLEAN, len \in Lens : PersistRespond(f, ok, len)
        \/ \E ok \in BOOLEAN : AppWsOpen(f, ok)
        \/ \E len \in Lens : AppWsPush(f, len)
        \/ AppWsClose(f)
    BY <1>13 DEF AppAnswer
  <2>1. ASSUME NEW ok \in BOOLEAN, NEW head \in Lens, NEW body \in Lens,
               HttpRespond(f, ok, head, body) PROVE OrderInv'
    BY <1>11, <1>a, <2>1 DEF HttpRespond, TypeOK, IsMap, HttpSlot
  <2>2. ASSUME NEW ok \in BOOLEAN, NEW len \in Lens, HostCallRespond(f, ok, len) PROVE OrderInv'
    BY <1>11, <1>a, <2>2 DEF HostCallRespond, TypeOK, IsMap, HostCallSlot
  <2>3. ASSUME NEW ok \in BOOLEAN, NEW len \in Lens, PersistRespond(f, ok, len) PROVE OrderInv'
    BY <1>11, <1>a, <2>3 DEF PersistRespond, TypeOK, IsMap, PersistSlot
  <2>4. ASSUME NEW ok \in BOOLEAN, AppWsOpen(f, ok) PROVE OrderInv'
    BY <1>11, <1>a, <2>4 DEF AppWsOpen, TypeOK, IsMap, WsSlot
  <2>5. ASSUME NEW len \in Lens, AppWsPush(f, len) PROVE OrderInv'
    BY <1>11, <1>a, <2>5 DEF AppWsPush, TypeOK, IsMap, WsSlot
  <2>6. ASSUME AppWsClose(f) PROVE OrderInv'
    BY <1>11, <1>a, <2>6 DEF AppWsClose, TypeOK, IsMap, WsSlot
  <2> QED BY <2>1, <2>2, <2>3, <2>4, <2>5, <2>6
<1>14. CASE GuestStep
  BY <1>1, <1>2, <1>3, <1>4, <1>5, <1>6, <1>7, <1>8, <1>12, <1>14 DEF GuestStep
<1>15. CASE UNCHANGED vars
  BY <1>11, <1>15 DEF vars
<1> QED BY <1>10, <1>13, <1>14, <1>15 DEF Next

LEMMA OrderInvariant == Spec => [](TypeInv /\ HandleInv /\ OrderInv)
<1>1. Init => TypeInv /\ HandleInv /\ OrderInv
  BY TypeInit, HandleInit, OrderInit
<1>2. TypeInv /\ HandleInv /\ OrderInv /\ [Next]_vars
        => (TypeInv /\ HandleInv /\ OrderInv)'
  BY TypeStep, HandleStep, OrderStep
<1> QED BY <1>1, <1>2, PTL DEF Spec

\* In the first turn a request can be told by its handle as well.
Disjoint ==
  /\ DOMAIN http \cap DOMAIN host_calls = {}
  /\ DOMAIN http \cap DOMAIN persist = {}
  /\ DOMAIN http \cap DOMAIN ws = {}
  /\ DOMAIN host_calls \cap DOMAIN persist = {}
  /\ DOMAIN host_calls \cap DOMAIN ws = {}
  /\ DOMAIN persist \cap DOMAIN ws = {}

OfItsSlot(e) ==
  /\ e.handle \in DOMAIN http => e.kind = "http"
  /\ e.handle \in DOMAIN host_calls =>
       e.kind = "host_call" /\ e.sidecar = host_calls[e.handle].sidecar
  /\ e.handle \in DOMAIN persist => e.kind = "persist" /\ persist[e.handle].given
  /\ e.handle \in DOMAIN ws => e.kind \in {"ws_connect", "ws_send"}

LEMMA OrderUntilWrap ==
  ASSUME SlotsInv, FramesInv, OrderInv
  PROVE  /\ Disjoint /\ FramesInOrder
         /\ \A e \in Frames : OfItsSlot(e) /\ e.req = e.handle
<1>1. \A e \in Frames : e.req = e.handle
  BY DEF Frames, FramesInv, OwnFrame
<1>2. /\ \A h \in DOMAIN http : http[h].req = h
      /\ \A h \in DOMAIN host_calls : host_calls[h].req = h
      /\ \A h \in DOMAIN persist : persist[h].req = h
      /\ \A h \in DOMAIN ws : ws[h].req = h
  BY DEF SlotsInv, OwnSlot
<1>3. Disjoint
  BY <1>2 DEF OrderInv, RequestsApart, Apart, Disjoint
<1>4. \A e \in Frames : OfItsSlot(e)
  BY <1>1, <1>2 DEF OrderInv, OfItsRequest, OfItsSlot
<1>5. FramesInOrder
  <2>1. /\ \A i \in DOMAIN events : events[i].req = events[i].handle
        /\ \A f \in delivered : f.req = f.handle
    BY <1>1 DEF Frames
  <2>2. Ordered
    BY DEF OrderInv
  <2> HIDE DEF Ordered
  <2>3. \A i \in DOMAIN events :
          /\ \A j \in DOMAIN events :
               i < j /\ events[i].handle = events[j].handle
                 => Rank(events[i]) <= Rank(events[j])
          /\ \A f \in delivered :
               f.handle = events[i].handle => Rank(f) <= Rank(events[i])
    BY <2>1, <2>2 DEF Ordered
  <2> QED BY <2>3 DEF FramesInOrder
<1> QED BY <1>1, <1>3, <1>4, <1>5

LEMMA OrderUntilWrapNext ==
  TypeOK' /\ HandleInv' /\ OrderInv' /\ NoWrap' => SlotsInv' /\ Disjoint'
<1>1. TypeOK /\ HandleInv /\ OrderInv /\ NoWrap => SlotsInv /\ Disjoint
  BY UntilWrap, OrderUntilWrap
<1> QED BY <1>1, PTL

\* For each handle the application sees the request, then the messages, then
\* the close, whoever pulls them and whatever else is queued between them.
THEOREM FramesInOrderCorrect == Spec => []FramesInOrder
<1>1. ASSUME TypeInv, HandleInv, OrderInv PROVE FramesInOrder
  <2>1. CASE NoWrap
    BY <1>1, <2>1, UntilWrap, OrderUntilWrap DEF TypeInv
  <2>2. CASE ~NoWrap
    BY <2>2 DEF FramesInOrder
  <2> QED BY <2>1, <2>2
<1> QED BY OrderInvariant, <1>1, PTL

RequestFramesInOrder ==
  \A i \in DOMAIN events :
    /\ \A j \in DOMAIN events :
         i < j /\ events[i].req = events[j].req
           => Rank(events[i]) <= Rank(events[j])
    /\ \A f \in delivered :
         f.req = events[i].req => Rank(f) <= Rank(events[i])

\* However often handles are given out again, the frames of one request reach
\* the application in order: the two pullers (relay_next, relay_next_sidecar)
\* never let a close or a message overtake what it follows.
THEOREM RequestFramesInOrderCorrect == Spec => []RequestFramesInOrder
<1>1. OrderInv => RequestFramesInOrder
  BY DEF OrderInv, Ordered, RequestFramesInOrder
<1> QED BY OrderInvariant, <1>1, PTL
-----------------------------------------------------------------------------
(***************************************************************************)
(* The contract.  While handles do not wrap, the phase of a request can be  *)
(* read off its own slot: the one that has its number as the handle.       *)
(***************************************************************************)
Given(map) == \A h \in DOMAIN map : map[h].answers \in {0, h}

GivenInv == Given(http) /\ Given(host_calls) /\ Given(persist) /\ Given(ws)

PhaseInv == TypeInv /\ HandleInv /\ OrderInv /\ GivenInv /\ allocs <= MaxAllocs

\* What PhaseInv says of the slots, and of when it was asked.
SlotFacts == /\ allocs \in Nat /\ allocs <= MaxAllocs
             /\ SlotsInv /\ Disjoint /\ GivenInv

Refused(r) == \E h \in DOMAIN persist : persist[h].req = r /\ ~persist[h].given
Told(r)    == \E f \in delivered : Requesting(f, r)
Queued(r)  == \E i \in DOMAIN events : Requesting(events[i], r)

LEMMA PhaseInvParts ==
  ASSUME MaxAllocs <= MaxHandle, PhaseInv
  PROVE  /\ TypeOK /\ NoWrap /\ SlotFacts /\ NextInv /\ FramesInv
         /\ \A e \in Frames : OfItsSlot(e)
<1>1. TypeOK /\ allocs \in Nat /\ NoWrap
  BY RelayAssumption DEF PhaseInv, TypeInv, TypeOK, NoWrap
<1>2. NextInv /\ SlotsInv /\ FramesInv
  BY <1>1, UntilWrap DEF PhaseInv
<1>3. Disjoint /\ \A e \in Frames : OfItsSlot(e)
  BY <1>2, OrderUntilWrap DEF PhaseInv
<1> QED BY <1>1, <1>2, <1>3 DEF PhaseInv, SlotFacts

LEMMA PhaseInvPartsNext ==
  ASSUME MaxAllocs <= MaxHandle, PhaseInv'
  PROVE  SlotFacts'
<1>1. TypeOK' /\ NoWrap'
  BY RelayAssumption DEF PhaseInv, TypeInv, TypeOK, NoWrap
<1>2. SlotsInv' /\ Disjoint'
  BY <1>1, OrderUntilWrapNext DEF PhaseInv
<1> QED BY <1>1, <1>2 DEF PhaseInv, SlotFacts, TypeOK

\* The answers in a request's slots of one map.
LEMMA AnswersInSlot ==
  ASSUME NEW map, NEW r,
         \A h \in DOMAIN map : map[h].req = h /\ map[h].answers \in {0, h}
  PROVE  /\ r \in DOMAIN map => AnswersIn(map, r) = {map[r].answers}
         /\ r \notin DOMAIN map => AnswersIn(map, r) = {}
BY DEF AnswersIn

\* The answers in a request's slots, before a step and after it.
OfItsSlots(r) ==
  /\ r \in DOMAIN http => Answers(r) = {http[r].answers}
  /\ r \in DOMAIN host_calls => Answers(r) = {host_calls[r].answers}
  /\ r \in DOMAIN persist => Answers(r) = {persist[r].answers}
  /\ r \in DOMAIN ws => Answers(r) = {ws[r].answers}
  /\ r \notin LiveHandles => Answers(r) = {}
  /\ Answers(r) \in {{}, {0}, {r}}
  /\ Refused(r) <=> r \in DOMAIN persist /\ ~persist[r].given

LEMMA AnswersOf ==
  ASSUME SlotFacts, NEW r
  PROVE  OfItsSlots(r)
<1>1. /\ \A h \in DOMAIN http : http[h].req = h /\ http[h].answers \in {0, h}
      /\ \A h \in DOMAIN host_calls :
           host_calls[h].req = h /\ host_calls[h].answers \in {0, h}
      /\ \A h \in DOMAIN persist : persist[h].req = h /\ persist[h].answers \in {0, h}
      /\ \A h \in DOMAIN ws : ws[h].req = h /\ ws[h].answers \in {0, h}
      /\ Disjoint
  BY DEF SlotFacts, SlotsInv, OwnSlot, GivenInv, Given
<1>2. Refused(r) <=> r \in DOMAIN persist /\ ~persist[r].given
  BY <1>1 DEF Refused
<1>3. Answers(r) = AnswersIn(http, r) \cup AnswersIn(host_calls, r)
                     \cup AnswersIn(persist, r) \cup AnswersIn(ws, r)
  BY DEF Answers
<1>4. /\ r \in DOMAIN http =>
           r \notin DOMAIN host_calls /\ r \notin DOMAIN persist /\ r \notin DOMAIN ws
      /\ r \in DOMAIN host_calls => r \notin DOMAIN persist /\ r \notin DOMAIN ws
      /\ r \in DOMAIN persist => r \notin DOMAIN ws
  BY <1>1 DEF Disjoint
<1>5. /\ r \in DOMAIN http => AnswersIn(http, r) = {http[r].answers}
      /\ r \notin DOMAIN http => AnswersIn(http, r) = {}
  BY <1>1, AnswersInSlot
<1>6. /\ r \in DOMAIN host_calls => AnswersIn(host_calls, r) = {host_calls[r].answers}
      /\ r \notin DOMAIN host_calls => AnswersIn(host_calls, r) = {}
  BY <1>1, AnswersInSlot
<1>7. /\ r \in DOMAIN persist => AnswersIn(persist, r) = {persist[r].answers}
      /\ r \notin DOMAIN persist => AnswersIn(persist, r) = {}
  BY <1>1, AnswersInSlot
<1>8. /\ r \in DOMAIN ws => AnswersIn(ws, r) = {ws[r].answers}
      /\ r \notin DOMAIN ws => AnswersIn(ws, r) = {}
  BY <1>1, AnswersInSlot
<1>9. /\ r \in DOMAIN http => Answers(r) = {http[r].answers}
      /\ r \in DOMAIN host_calls => Answers(r) = {host_calls[r].answers}
      /\ r \in DOMAIN persist => Answers(r) = {persist[r].answers}
      /\ r \in DOMAIN ws => Answers(r) = {ws[r].answers}
      /\ r \notin LiveHandles => Answers(r) = {}
  BY <1>3, <1>4, <1>5, <1>6, <1>7, <1>8 DEF LiveHandles
<1>10. Answers(r) \in {{}, {0}, {r}}
  BY <1>1, <1>9 DEF LiveHandles
<1> QED BY <1>2, <1>9, <1>10 DEF OfItsSlots

LEMMA AnswersOfNext ==
  ASSUME SlotFacts', NEW r
  PROVE  OfItsSlots(r)'
<1>1. /\ \A h \in DOMAIN http' : http'[h].req = h /\ http'[h].answers \in {0, h}
      /\ \A h \in DOMAIN host_calls' :
           host_calls'[h].req = h /\ host_calls'[h].answers \in {0, h}
      /\ \A h \in DOMAIN persist' : persist'[h].req = h /\ persist'[h].answers \in {0, h}
      /\ \A h \in DOMAIN ws' : ws'[h].req = h /\ ws'[h].answers \in {0, h}
      /\ Disjoint'
  BY DEF SlotFacts, SlotsInv, OwnSlot, GivenInv, Given
<1>2. Refused(r)' <=> r \in DOMAIN persist' /\ ~persist'[r].given
  BY <1>1 DEF Refused
<1>3. Answers(r)' = AnswersIn(http', r) \cup AnswersIn(host_calls', r)
                      \cup AnswersIn(persist', r) \cup AnswersIn(ws', r)
  BY DEF Answers, AnswersIn
<1>4. /\ r \in DOMAIN http' =>
           r \notin DOMAIN host_calls' /\ r \notin DOMAIN persist' /\ r \notin DOMAIN ws'
      /\ r \in DOMAIN host_calls' => r \notin DOMAIN persist' /\ r \notin DOMAIN ws'
      /\ r \in DOMAIN persist' => r \notin DOMAIN ws'
  BY <1>1 DEF Disjoint
<1>5. /\ r \in DOMAIN http' => AnswersIn(http', r) = {http'[r].answers}
      /\ r \notin DOMAIN http' => AnswersIn(http', r) = {}
  BY <1>1, AnswersInSlot
<1>6. /\ r \in DOMAIN host_calls' => AnswersIn(host_calls', r) = {host_calls'[r].answers}
      /\ r \notin DOMAIN host_calls' => AnswersIn(host_calls', r) = {}
  BY <1>1, AnswersInSlot
<1>7. /\ r \in DOMAIN persist' => AnswersIn(persist', r) = {persist'[r].answers}
      /\ r \notin DOMAIN persist' => AnswersIn(persist', r) = {}
  BY <1>1, AnswersInSlot
<1>8. /\ r \in DOMAIN ws' => AnswersIn(ws', r) = {ws'[r].answers}
      /\ r \notin DOMAIN ws' => AnswersIn(ws', r) = {}
  BY <1>1, AnswersInSlot
<1>9. /\ r \in DOMAIN http' => Answers(r)' = {http'[r].answers}
      /\ r \in DOMAIN host_calls' => Answers(r)' = {host_calls'[r].answers}
      /\ r \in DOMAIN persist' => Answers(r)' = {persist'[r].answers}
      /\ r \in DOMAIN ws' => Answers(r)' = {ws'[r].answers}
      /\ r \notin LiveHandles' => Answers(r)' = {}
  BY <1>3, <1>4, <1>5, <1>6, <1>7, <1>8 DEF LiveHandles
<1>10. Answers(r)' \in {{}, {0}, {r}}
  BY <1>1, <1>9 DEF LiveHandles
<1> QED BY <1>2, <1>9, <1>10 DEF OfItsSlots

\* The phase of a request that has been asked, before a step and after it.
PhaseFacts(r) ==
  /\ r > allocs => Phase(r) = "new"
  /\ r <= allocs /\ r \notin LiveHandles => Phase(r) = "over"
  /\ r <= allocs /\ Answers(r) = {r} => Phase(r) = "answered"
  /\ r <= allocs /\ Answers(r) = {0} /\ Refused(r) => Phase(r) = "refused"
  /\ r <= allocs /\ Answers(r) = {0} /\ ~Refused(r) /\ Told(r) => Phase(r) = "told"
  /\ r <= allocs /\ Answers(r) = {0} /\ ~Refused(r) /\ ~Told(r) /\ Queued(r) =>
       Phase(r) = "queued"
  /\ r <= allocs /\ Answers(r) = {0} /\ ~Refused(r) /\ ~Told(r) /\ ~Queued(r) =>
       Phase(r) = "lost"
  /\ r <= allocs => Phase(r) # "new"
  /\ r \in LiveHandles => Answers(r) \in {{0}, {r}}

LEMMA PhaseOf ==
  ASSUME SlotFacts, NEW r \in 1 .. MaxAllocs
  PROVE  PhaseFacts(r)
<1>1. allocs \in Nat /\ r \in Nat /\ r > 0
  BY DEF SlotFacts
<1>2. OfItsSlots(r)
  BY AnswersOf
<1>3. r \in LiveHandles => Answers(r) \in {{0}, {r}}
  BY <1>2 DEF OfItsSlots, LiveHandles
<1>4. /\ r \notin LiveHandles => Answers(r) = {}
      /\ Answers(r) \in {{}, {0}, {r}}
  BY <1>2 DEF OfItsSlots
<1>5. /\ Refused(r) => Pending(r) = "refused"
      /\ ~Refused(r) /\ Told(r) => Pending(r) = "told"
      /\ ~Refused(r) /\ ~Told(r) /\ Queued(r) => Pending(r) = "queued"
      /\ ~Refused(r) /\ ~Told(r) /\ ~Queued(r) => Pending(r) = "lost"
      /\ Pending(r) # "new"
  BY DEF Pending, Refused, Told, Queued
<1> QED BY <1>1, <1>3, <1>4, <1>5 DEF Phase, PhaseFacts

LEMMA PhaseOfNext ==
  ASSUME SlotFacts', NEW r \in 1 .. MaxAllocs
  PROVE  PhaseFacts(r)'
<1>1. allocs' \in Nat /\ r \in Nat /\ r > 0
  BY DEF SlotFacts
<1>2. OfItsSlots(r)'
  BY AnswersOfNext
<1>3. r \in LiveHandles' => Answers(r)' \in {{0}, {r}}
  BY <1>2 DEF OfItsSlots, LiveHandles
<1>4. /\ r \notin LiveHandles' => Answers(r)' = {}
      /\ Answers(r)' \in {{}, {0}, {r}}
  BY <1>2 DEF OfItsSlots
<1>5. /\ Refused(r)' => Pending(r)' = "refused"
      /\ ~Refused(r)' /\ Told(r)' => Pending(r)' = "told"
      /\ ~Refused(r)' /\ ~Told(r)' /\ Queued(r)' => Pending(r)' = "queued"
      /\ ~Refused(r)' /\ ~Told(r)' /\ ~Queued(r)' => Pending(r)' = "lost"
      /\ Pending(r)' # "new"
  BY DEF Pending, Refused, Told, Queued
<1> QED BY <1>1, <1>3, <1>4, <1>5 DEF Phase, PhaseFacts

\* A request is in the same phase if nothing of it has changed.
SlotKept(q) ==
  /\ q <= allocs' <=> q <= allocs
  /\ q \in DOMAIN http' <=> q \in DOMAIN http
  /\ q \in DOMAIN host_calls' <=> q \in DOMAIN host_calls
  /\ q \in DOMAIN persist' <=> q \in DOMAIN persist
  /\ q \in DOMAIN ws' <=> q \in DOMAIN ws
  /\ q \in DOMAIN http => http'[q].answers = http[q].answers
  /\ q \in DOMAIN host_calls => host_calls'[q].answers = host_calls[q].answers
  /\ q \in DOMAIN persist => /\ persist'[q].answers = persist[q].answers
                             /\ persist'[q].given <=> persist[q].given
  /\ q \in DOMAIN ws => ws'[q].answers = ws[q].answers

FramesKept(q) == (Told(q)' <=> Told(q)) /\ (Queued(q)' <=> Queued(q))

LEMMA SameAnswers ==
  ASSUME SlotFacts, SlotFacts', NEW q, SlotKept(q)
  PROVE  Answers(q)' = Answers(q) /\ (Refused(q)' <=> Refused(q))
<1>1. OfItsSlots(q) /\ OfItsSlots(q)'
  BY AnswersOf, AnswersOfNext
<1>2. Answers(q)' = Answers(q)
  BY <1>1 DEF OfItsSlots, SlotKept, LiveHandles
<1>3. Refused(q)' <=> Refused(q)
  BY <1>1 DEF OfItsSlots, SlotKept
<1> QED BY <1>2, <1>3

LEMMA SamePhase ==
  ASSUME SlotFacts, SlotFacts', NEW q \in 1 .. MaxAllocs, SlotKept(q), FramesKept(q)
  PROVE  Phase(q)' = Phase(q)
<1>2. Answers(q)' = Answers(q)
  BY SameAnswers
<1>3. Refused(q)' <=> Refused(q)
  BY SameAnswers
<1>4. /\ Pending(q) = IF Refused(q) THEN "refused" ELSE IF Told(q) THEN "told"
                      ELSE IF Queued(q) THEN "queued" ELSE "lost"
      /\ Pending(q)' = IF Refused(q)' THEN "refused" ELSE IF Told(q)' THEN "told"
                       ELSE IF Queued(q)' THEN "queued" ELSE "lost"
  BY DEF Pending, Refused, Told, Queued
<1>5. Pending(q)' = Pending(q)
  BY <1>3, <1>4 DEF FramesKept
<1>6. q > allocs' <=> q > allocs
  BY DEF SlotKept, SlotFacts
<1> QED BY <1>2, <1>5, <1>6 DEF Phase

PhaseMap == [r \in 1 .. MaxAllocs |-> Phase(r)]

\* What may become of the phase of a request when the others stay.
Goes(r) ==
  \/ Phase(r)' = Phase(r)
  \/ /\ Phase(r) = "new" /\ Phase(r)' \in {"queued", "refused"}
     /\ \A q \in 1 .. r - 1 : Phase(q) # "new"
  \/ Phase(r) = "queued" /\ Phase(r)' = "told"
  \/ Phase(r) = "queued" /\ Phase(r)' = "lost" /\ FALSE \in PullFits
  \/ Phase(r) = "told" /\ Phase(r)' = "answered"
  \/ Phase(r) \in {"queued", "told", "lost", "answered"} /\ Phase(r)' = "over"

LEMMA ContractStep ==
  ASSUME NEW r \in 1 .. MaxAllocs,
         \A q \in (1 .. MaxAllocs) \ {r} : Phase(q)' = Phase(q), Goes(r)
  PROVE  Contract!Next \/ PhaseMap' = PhaseMap
<1>1. PhaseMap' = [PhaseMap EXCEPT ![r] = Phase(r)']
  BY DEF PhaseMap
<1>2. CASE Phase(r)' = Phase(r)
  BY <1>2 DEF PhaseMap
<1>3. CASE Phase(r)' # Phase(r)
  <2>1. PhaseMap' # PhaseMap /\ PhaseMap[r] = Phase(r)
    BY <1>3 DEF PhaseMap
  <2>2. Contract!Step(r)
    <3>1. \A q \in 1 .. r - 1 : PhaseMap[q] = Phase(q)
      BY RelayAssumption DEF PhaseMap
    <3> QED BY <1>1, <1>3, <2>1, <3>1
            DEF Goes, Contract!Step, Contract!Ask, Contract!Tell, Contract!Respond,
                Contract!Finish, Contract!Goes, PhaseMap
  <2> QED BY <2>1, <2>2 DEF Contract!Next, Contract!Requests, PhaseMap
<1> QED BY <1>2, <1>3

LEMMA ContractStutters ==
  ASSUME \A q \in 1 .. MaxAllocs : Phase(q)' = Phase(q)
  PROVE  PhaseMap' = PhaseMap
BY DEF PhaseMap

\* A step that touches the slot, the frames and the number of one request at
\* most is a step of that request.
LEMMA RequestStep ==
  ASSUME SlotFacts, SlotFacts', NEW r,
         \A q \in 1 .. MaxAllocs : q # r => SlotKept(q) /\ FramesKept(q),
         r \in 1 .. MaxAllocs => Goes(r)
  PROVE  Contract!Next \/ PhaseMap' = PhaseMap
<1>1. \A q \in (1 .. MaxAllocs) \ {r} : Phase(q)' = Phase(q)
  BY SamePhase
<1>2. CASE r \in 1 .. MaxAllocs
  BY <1>1, <1>2, ContractStep
<1>3. CASE r \notin 1 .. MaxAllocs
  BY <1>1, <1>3, ContractStutters
<1> QED BY <1>2, <1>3

\* What a push of a frame of request r, and a pull of one, does to the frames.
LEMMA PushKeeps ==
  ASSUME TypeOK, NEW e \in Event, Push(e), delivered' = delivered
  PROVE  /\ \A q : Told(q)' <=> Told(q)
         /\ \A q : Queued(q)' <=> Queued(q) \/ Requesting(e, q)
<1>1. /\ Len(events) \in Nat /\ DOMAIN events = 1 .. Len(events)
      /\ DOMAIN events' = 1 .. Len(events) + 1
      /\ \A i \in 1 .. Len(events) : events'[i] = events[i]
      /\ events'[Len(events) + 1] = e
  BY PushFrames
<1>2. \A q : (\E i \in DOMAIN events' : Requesting(events'[i], q))
             <=> (\E i \in DOMAIN events : Requesting(events[i], q)) \/ Requesting(e, q)
  BY <1>1
<1>3. \A q : Queued(q)' <=> (\E i \in DOMAIN events' : Requesting(events'[i], q))
  BY DEF Queued, Requesting
<1> QED BY <1>2, <1>3 DEF Told, Queued, Requesting

LEMMA PopKeeps ==
  ASSUME TypeOK, NEW i \in DOMAIN events, PopEvent(i)
  PROVE  /\ \A q : Queued(q)' => Queued(q)
         /\ \A q : Queued(q) /\ ~Requesting(events[i], q) => Queued(q)'
         /\ \/ \A q : Told(q)' <=> Told(q) \/ Requesting(events[i], q)
            \/ FALSE \in PullFits /\ \A q : Told(q)' <=> Told(q)
<1> DEFINE at(j) == IF j < i THEN j ELSE j + 1
<1>1. /\ events \in Seq(Event) /\ i \in 1 .. Len(events)
      /\ events' = RemoveAt(events, i)
      /\ Len(events) \in Nat /\ DOMAIN events = 1 .. Len(events)
  BY DEF PopEvent, TypeOK
<1>2. /\ DOMAIN events' = 1 .. Len(events) - 1
      /\ \A j \in DOMAIN events' : events'[j] = events[at(j)] /\ at(j) \in DOMAIN events
  <2>1. /\ RemoveAt(events, i) \in Seq(Event)
        /\ Len(RemoveAt(events, i)) = Len(events) - 1
        /\ \A j \in 1 .. Len(events) - 1 :
             RemoveAt(events, i)[j] = IF j < i THEN events[j] ELSE events[j + 1]
    BY <1>1, RemoveAtEvents
  <2> QED BY <1>1, <2>1
<1>3. \A k \in DOMAIN events \ {i} : \E j \in DOMAIN events' : at(j) = k
  <2> SUFFICES ASSUME NEW k \in DOMAIN events \ {i}
               PROVE  \E j \in DOMAIN events' : at(j) = k
    OBVIOUS
  <2>1. CASE k < i
    BY <1>1, <1>2, <2>1
  <2>2. CASE k > i
    <3>1. k - 1 \in DOMAIN events' /\ at(k - 1) = k
      BY <1>1, <1>2, <2>2
    <3> QED BY <3>1
  <2> QED BY <1>1, <2>1, <2>2
<1> HIDE DEF at
<1>4. \A q : Queued(q)' <=> \E j \in DOMAIN events' : Requesting(events'[j], q)
  BY DEF Queued, Requesting
<1>5. \A q : Queued(q)' => Queued(q)
  BY <1>2, <1>4 DEF Queued
<1>6. \A q : Queued(q) /\ ~Requesting(events[i], q) => Queued(q)'
  BY <1>2, <1>3, <1>4 DEF Queued
<1>7. \/ delivered' = delivered \cup {events[i]}
      \/ FALSE \in PullFits /\ delivered' = delivered
  BY RelayAssumption DEF PopEvent
<1>8. \A q : Told(q)' <=> \E f \in delivered' : Requesting(f, q)
  BY DEF Told, Requesting
<1> QED BY <1>5, <1>6, <1>7, <1>8 DEF Told

\* An answer names the slot it is in, or there is none yet.
LEMMA GivenStep ==
  ASSUME TypeInv, SlotsInv, FramesInv, GivenInv, [Next]_vars
  PROVE  GivenInv'
<1>a. TypeOK
  BY DEF TypeInv
<1>b. Given(http) /\ Given(host_calls) /\ Given(persist) /\ Given(ws)
  BY DEF GivenInv
<1>c. \A f \in delivered : f.req = f.handle
  BY DEF FramesInv, OwnFrame
<1>1. CASE HttpRequest
  BY <1>1, <1>b DEF HttpRequest, Insert, NewHttpSlot, Given, GivenInv
<1>2. CASE WsConnect
  BY <1>2, <1>b DEF WsConnect, Insert, NewWsSlot, Given, GivenInv
<1>3. ASSUME NEW sidecar \in BOOLEAN, HostCallStart(sidecar) PROVE GivenInv'
  BY <1>3, <1>b DEF HostCallStart, Insert, NewHostCallSlot, Given, GivenInv
<1>4. ASSUME NEW op \in 0 .. 4, PersistStart(op) PROVE GivenInv'
  BY <1>4, <1>b DEF PersistStart, Insert, NewPersistSlot, Given, GivenInv
<1>5. ASSUME NEW h \in Handle,
             HttpClose(h) \/ WsClose(h) \/ HostCallClose(h) \/ PersistClose(h)
      PROVE  GivenInv'
  <2>1. CASE HttpClose(h)
    BY <2>1, <1>b DEF HttpClose, Delete, Restrict, Given, GivenInv
  <2>2. CASE WsClose(h)
    BY <2>2, <1>b DEF WsClose, Delete, Restrict, Given, GivenInv
  <2>3. CASE HostCallClose(h)
    BY <2>3, <1>b DEF HostCallClose, Delete, Restrict, Given, GivenInv
  <2>4. CASE PersistClose(h)
    BY <2>4, <1>b DEF PersistClose, Delete, Restrict, Given, GivenInv
  <2> QED BY <1>5, <2>1, <2>2, <2>3, <2>4
<1>6. ASSUME /\ DOMAIN http' = DOMAIN http /\ DOMAIN host_calls' = DOMAIN host_calls
             /\ DOMAIN persist' = DOMAIN persist /\ DOMAIN ws' = DOMAIN ws
             /\ \A h \in DOMAIN http : http'[h].answers \in {http[h].answers, h}
             /\ \A h \in DOMAIN host_calls : host_calls'[h].answers \in {host_calls[h].answers, h}
             /\ \A h \in DOMAIN persist : persist'[h].answers \in {persist[h].answers, h}
             /\ \A h \in DOMAIN ws : ws'[h].answers \in {ws[h].answers, h}
      PROVE  GivenInv'
  BY <1>6, <1>b DEF Given, GivenInv
<1>7. ASSUME NEW h \in Handle, NEW len \in Lens, WsSend(h, len) PROVE GivenInv'
  BY <1>6, <1>7, <1>a DEF WsSend, TypeOK, IsMap, WsSlot
<1>8. ASSUME NEW h \in Handle, NEW cap \in ReadCaps,
             HttpBody(h, cap) \/ WsRecv(h, cap) \/ HostCallBody(h, cap) \/ PersistBody(h, cap)
      PROVE  GivenInv'
  <2>1. CASE HttpBody(h, cap)
    BY <1>6, <2>1, <1>a DEF HttpBody, TypeOK, IsMap, HttpSlot
  <2>2. CASE WsRecv(h, cap)
    BY <1>6, <2>2, <1>a DEF WsRecv, TypeOK, IsMap, WsSlot
  <2>3. CASE HostCallBody(h, cap)
    BY <1>6, <2>3, <1>a DEF HostCallBody, TypeOK, IsMap, HostCallSlot
  <2>4. CASE PersistBody(h, cap)
    BY <1>6, <2>4, <1>a DEF PersistBody, TypeOK, IsMap, PersistSlot
  <2> QED BY <1>8, <2>1, <2>2, <2>3, <2>4
<1>9. ASSUME NEW i \in DOMAIN events, PopEvent(i) PROVE GivenInv'
  BY <1>6, <1>9, <1>a, SMTT(30)
  DEF PopEvent, Dispatch, TypeOK, IsMap, HostCallSlot, WsSlot
<1>10. CASE RelayNext \/ RelayNextSidecar
  <2>1. RelayNext => 1 \in DOMAIN events /\ PopEvent(1)
    BY <1>a, EmptySeq DEF RelayNext, TypeOK
  <2> QED BY <1>9, <1>10, <2>1 DEF RelayNextSidecar
<1>11. ASSUME NEW f \in delivered, NEW ok \in BOOLEAN, NEW head \in Lens, NEW body \in Lens,
              HttpRespond(f, ok, head, body)
       PROVE  GivenInv'
  BY <1>6, <1>11, <1>a, <1>c DEF HttpRespond, TypeOK, IsMap, HttpSlot
<1>12. ASSUME NEW f \in delivered, NEW ok \in BOOLEAN, NEW len \in Lens, HostCallRespond(f, ok, len)
       PROVE  GivenInv'
  BY <1>6, <1>12, <1>a, <1>c DEF HostCallRespond, TypeOK, IsMap, HostCallSlot
<1>13. ASSUME NEW f \in delivered, NEW ok \in BOOLEAN, NEW len \in Lens, PersistRespond(f, ok, len)
       PROVE  GivenInv'
  BY <1>6, <1>13, <1>a, <1>c DEF PersistRespond, TypeOK, IsMap, PersistSlot
<1>14. ASSUME NEW f \in delivered, NEW ok \in BOOLEAN, AppWsOpen(f, ok) PROVE GivenInv'
  BY <1>6, <1>14, <1>a, <1>c DEF AppWsOpen, TypeOK, IsMap, WsSlot
<1>15. ASSUME NEW f \in delivered, NEW len \in Lens, AppWsPush(f, len) PROVE GivenInv'
  BY <1>6, <1>15, <1>a DEF AppWsPush, TypeOK, IsMap, WsSlot
<1>16. ASSUME NEW f \in delivered, AppWsClose(f) PROVE GivenInv'
  BY <1>6, <1>16, <1>a DEF AppWsClose, TypeOK, IsMap, WsSlot
<1>17. CASE AppAnswer
  BY <1>11, <1>12, <1>13, <1>14, <1>15, <1>16, <1>17 DEF AppAnswer
<1>18. CASE GuestStep
  BY <1>1, <1>2, <1>3, <1>4, <1>5, <1>7, <1>8, <1>18 DEF GuestStep
<1>19. CASE UNCHANGED vars
  BY <1>19, <1>b DEF vars, Given, GivenInv
<1> QED BY <1>10, <1>17, <1>18, <1>19 DEF Next

LEMMA PhaseInvInvariant ==
  ASSUME MaxAllocs <= MaxHandle
  PROVE  Spec => []PhaseInv
<1>1. Init => PhaseInv
  BY TypeInit, HandleInit, OrderInit, RelayAssumption
  DEF PhaseInv, Init, GivenInv, Given
<1>2. ASSUME PhaseInv, [Next]_vars PROVE PhaseInv'
  <2>1. /\ TypeOK /\ NoWrap /\ SlotFacts /\ NextInv /\ FramesInv
    BY PhaseInvParts, <1>2
  <2>2. TypeInv' /\ HandleInv'
    BY <1>2, TypeStep, HandleStep DEF PhaseInv
  <2>3. allocs' <= MaxAllocs
    BY <1>2, <2>1, AllocsGrow, RelayAssumption DEF SlotFacts, AllocHandle
  <2>4. NoWrap'
    BY <2>2, <2>3, RelayAssumption DEF NoWrap, TypeInv, TypeOK
  <2>5. OrderInv'
    BY <1>2, <2>2, <2>4, OrderStep DEF PhaseInv
  <2>6. GivenInv'
    BY <1>2, <2>1, GivenStep DEF PhaseInv, SlotFacts
  <2> QED BY <2>2, <2>3, <2>5, <2>6 DEF PhaseInv
<1> QED BY <1>1, <1>2, PTL DEF Spec

\* A slot that has been made and frames that have not changed.
LEMMA SameFrames ==
  ASSUME events' = events, delivered' = delivered
  PROVE  \A q : FramesKept(q)
BY DEF FramesKept, Told, Queued, Requesting

\* Asking: the next request, and no other, is queued or refused.
LEMMA AskStep ==
  ASSUME MaxAllocs <= MaxHandle, PhaseInv, PhaseInv', NEW r, r = next,
         AllocHandle,
         \A q \in 1 .. MaxAllocs : q # r => SlotKept(q),
         r \in LiveHandles', Answers(r)' = {0},
         \A q : Told(q)' <=> Told(q),
         \A q : q # r => (Queued(q)' <=> Queued(q)),
         Queued(r)' \/ Refused(r)'
  PROVE  Contract!Next \/ PhaseMap' = PhaseMap
<1>1. /\ TypeOK /\ NoWrap /\ SlotFacts /\ SlotFacts' /\ NextInv /\ FramesInv
      /\ allocs \in Nat /\ allocs < MaxAllocs
  BY PhaseInvParts, PhaseInvPartsNext DEF SlotFacts, AllocHandle
<1>2. r = allocs + 1 /\ allocs' = allocs + 1 /\ r \in 1 .. MaxAllocs
  BY <1>1, RelayAssumption DEF NextInv, AllocHandle
<1>3. PhaseFacts(r)' /\ \A q \in 1 .. MaxAllocs : PhaseFacts(q)
  BY <1>1, <1>2, PhaseOf, PhaseOfNext
<1>4. ~Told(r)
  BY <1>1, <1>2 DEF Told, Requesting, FramesInv, OwnFrame
<1>5. Phase(r)' \in {"queued", "refused"}
  BY <1>2, <1>3, <1>4 DEF PhaseFacts
<1>6. Phase(r) = "new" /\ \A q \in 1 .. r - 1 : Phase(q) # "new"
  <2>1. r > allocs /\ Phase(r) = "new"
    BY <1>1, <1>2, <1>3 DEF PhaseFacts
  <2>2. \A q \in 1 .. r - 1 : q \in 1 .. MaxAllocs /\ q <= allocs
    BY <1>1, <1>2, RelayAssumption
  <2> QED BY <1>3, <2>1, <2>2 DEF PhaseFacts
<1>7. Goes(r)
  BY <1>5, <1>6 DEF Goes
<1> QED BY <1>1, <1>7, RequestStep DEF FramesKept

\* Closing: a request that was not refused is over.
LEMMA FinishStep ==
  ASSUME MaxAllocs <= MaxHandle, PhaseInv, PhaseInv', NEW r,
         r \in LiveHandles, ~Refused(r), r \notin LiveHandles', allocs' = allocs,
         \A q \in 1 .. MaxAllocs : q # r => SlotKept(q),
         \A q : FramesKept(q)
  PROVE  Contract!Next \/ PhaseMap' = PhaseMap
<1>1. SlotFacts /\ SlotFacts'
  BY PhaseInvParts, PhaseInvPartsNext
<1>2. r <= allocs
  BY <1>1 DEF SlotFacts, SlotsInv, OwnSlot, LiveHandles
<1>3. ASSUME r \in 1 .. MaxAllocs PROVE Goes(r)
  <2>1. PhaseFacts(r) /\ PhaseFacts(r)'
    BY <1>1, <1>3, PhaseOf, PhaseOfNext
  <2>2. Phase(r)' = "over"
    BY <1>2, <2>1 DEF PhaseFacts
  <2>3. Phase(r) \in {"queued", "told", "lost", "answered"}
    BY <1>2, <2>1 DEF PhaseFacts
  <2> QED BY <2>2, <2>3 DEF Goes
<1> QED BY <1>1, <1>3, RequestStep

\* Telling: the request of the frame that is pulled is told or lost.
LEMMA TellStep ==
  ASSUME MaxAllocs <= MaxHandle, PhaseInv, PhaseInv', NEW i \in DOMAIN events, PopEvent(i),
         NEW e, e = events[i], NEW r, r = e.req, \A q : SlotKept(q)
  PROVE  Contract!Next \/ PhaseMap' = PhaseMap
<1>1. SlotFacts /\ SlotFacts' /\ TypeOK
  BY PhaseInvParts, PhaseInvPartsNext
<1>2. /\ \A q : Queued(q)' => Queued(q)
      /\ \A q : Queued(q) /\ ~Requesting(e, q) => Queued(q)'
      /\ \/ \A q : Told(q)' <=> Told(q) \/ Requesting(e, q)
         \/ FALSE \in PullFits /\ \A q : Told(q)' <=> Told(q)
  BY <1>1, PopKeeps
<1>3. \A q : Requesting(e, q) => q = r /\ Queued(q)
  BY DEF Requesting, Queued
<1>4. \A q : q # r => FramesKept(q)
  BY <1>2, <1>3 DEF FramesKept
<1>5. ASSUME r \in 1 .. MaxAllocs PROVE Goes(r)
  <2>1. PhaseFacts(r) /\ PhaseFacts(r)' /\ OfItsSlots(r) /\ OfItsSlots(r)'
    BY <1>1, <1>5, PhaseOf, PhaseOfNext, AnswersOf, AnswersOfNext
  <2>2. CASE ~Requesting(e, r)
    <3>1. FramesKept(r)
      BY <1>2, <2>2 DEF FramesKept
    <3> QED BY <1>1, <1>5, <3>1, SamePhase DEF Goes
  <2>3. CASE Requesting(e, r)
    <3>1. Queued(r)
      BY <1>3, <2>3
    <3>2. /\ Answers(r)' = Answers(r) /\ (Refused(r)' <=> Refused(r))
          /\ (r <= allocs' <=> r <= allocs)
      <4>1. SlotKept(r)
        OBVIOUS
      <4> QED BY <1>1, <4>1, SameAnswers DEF SlotKept
    <3>3. CASE r <= allocs /\ Answers(r) = {0} /\ ~Refused(r) /\ ~Told(r)
      <4>1. Phase(r) = "queued"
        BY <2>1, <3>1, <3>3 DEF PhaseFacts
      <4>2. \/ Phase(r)' \in {"queued", "told"}
            \/ Phase(r)' = "lost" /\ FALSE \in PullFits
        BY <1>2, <2>1, <2>3, <3>2, <3>3 DEF PhaseFacts
      <4> QED BY <4>1, <4>2 DEF Goes
    <3>4. CASE ~(r <= allocs /\ Answers(r) = {0} /\ ~Refused(r) /\ ~Told(r))
      <4>1. Answers(r) \in {{}, {0}, {r}} /\ r # 0
        BY <2>1, <1>5 DEF OfItsSlots
      <4>2. Told(r) => Told(r)'
        BY <1>2
      <4>3. allocs \in Nat /\ allocs' \in Nat
        BY <1>1 DEF SlotFacts
      <4>4. Phase(r)' = Phase(r)
        <5>1. /\ ~(r <= allocs) => r > allocs
              /\ ~(r <= allocs') => r > allocs'
          BY <1>5, <4>3
        <5>2. CASE ~(r <= allocs)
          BY <2>1, <3>2, <5>1, <5>2 DEF PhaseFacts
        <5>3. CASE r <= allocs /\ Answers(r) = {}
          <6>1. r \notin LiveHandles /\ r \notin LiveHandles'
            BY <2>1, <3>2, <5>3 DEF PhaseFacts
          <6> QED BY <2>1, <3>2, <5>3, <6>1 DEF PhaseFacts
        <5>4. CASE r <= allocs /\ Answers(r) = {r}
          BY <2>1, <3>2, <5>4 DEF PhaseFacts
        <5>5. CASE r <= allocs /\ Answers(r) = {0}
          BY <2>1, <3>2, <3>4, <4>2, <5>5 DEF PhaseFacts
        <5> QED BY <4>1, <5>2, <5>3, <5>4, <5>5
      <4> QED BY <4>4 DEF Goes
    <3> QED BY <3>3, <3>4
  <2> QED BY <2>2, <2>3
<1> QED BY <1>1, <1>4, <1>5, RequestStep

\* Answering: a request that was told is answered, or is answered again.
LEMMA RespondStep ==
  ASSUME MaxAllocs <= MaxHandle, PhaseInv, PhaseInv', NEW r, Told(r), ~Refused(r),
         r \in LiveHandles, ~Refused(r)', Answers(r)' = {r}, allocs' = allocs,
         \A q \in 1 .. MaxAllocs : q # r => SlotKept(q),
         \A q : FramesKept(q)
  PROVE  Contract!Next \/ PhaseMap' = PhaseMap
<1>1. SlotFacts /\ SlotFacts'
  BY PhaseInvParts, PhaseInvPartsNext
<1>2. r <= allocs
  BY <1>1 DEF SlotFacts, SlotsInv, OwnSlot, LiveHandles
<1>3. ASSUME r \in 1 .. MaxAllocs PROVE Goes(r)
  <2>1. PhaseFacts(r) /\ PhaseFacts(r)'
    BY <1>1, <1>3, PhaseOf, PhaseOfNext
  <2>2. Phase(r)' = "answered"
    BY <1>2, <2>1 DEF PhaseFacts
  <2>3. Phase(r) \in {"told", "answered"}
    BY <1>2, <2>1 DEF PhaseFacts
  <2> QED BY <2>2, <2>3 DEF Goes
<1> QED BY <1>1, <1>3, RequestStep

\* Every step of the relay is one of the contract's, or none of its business.
LEMMA PhaseStep ==
  ASSUME MaxAllocs <= MaxHandle, PhaseInv, PhaseInv', [Next]_vars
  PROVE  Contract!Next \/ PhaseMap' = PhaseMap
<1> DEFINE Goal == Contract!Next \/ PhaseMap' = PhaseMap
<1>a. /\ TypeOK /\ NoWrap /\ SlotFacts /\ SlotFacts' /\ NextInv /\ FramesInv
      /\ allocs \in Nat /\ SlotsInv /\ Disjoint
      /\ \A e \in Frames : OfItsSlot(e)
  BY PhaseInvParts, PhaseInvPartsNext DEF SlotFacts
<1>b. AllocHandle => next = allocs + 1 /\ allocs' = allocs + 1
  BY <1>a, RelayAssumption DEF NextInv, AllocHandle, SlotFacts
<1>1. ASSUME HttpRequest PROVE Goal
  <2> PICK r : r = next
    OBVIOUS
  <2>1. /\ AllocHandle /\ delivered' = delivered
        /\ host_calls' = host_calls /\ persist' = persist /\ ws' = ws
        /\ DOMAIN http' = DOMAIN http \cup {r}
        /\ \A x \in DOMAIN http \ {r} : http'[x] = http[x]
        /\ http'[r].answers = 0
    BY <1>1 DEF HttpRequest, Insert, NewHttpSlot
  <2>2. r = allocs + 1 /\ allocs' = allocs + 1
    BY <1>b, <2>1
  <2> DEFINE e == NewEvent("http", next, allocs + 1, 0, FALSE)
  <2>3. e \in Event /\ e.req = r /\ e.kind = "http"
    <3>1. next \in Handle /\ allocs + 1 \in Nat /\ "http" \in EventKinds
      BY <1>a DEF TypeOK, EventKinds
    <3> QED BY <2>2, <3>1, NewEventType DEF NewEvent
  <2>4. Push(e)
    BY <1>1 DEF HttpRequest
  <2> HIDE DEF e
  <2>5. /\ \A q : Told(q)' <=> Told(q)
        /\ \A q : q # r => (Queued(q)' <=> Queued(q))
        /\ Queued(r)'
    BY <1>a, <2>1, <2>3, <2>4, PushKeeps DEF Requesting
  <2>6. \A q \in 1 .. MaxAllocs : q # r => SlotKept(q)
    BY <1>a, <2>1, <2>2 DEF SlotKept
  <2>7. r \in LiveHandles' /\ Answers(r)' = {0}
    BY <1>a, <2>1, AnswersOfNext DEF OfItsSlots, LiveHandles
  <2> QED BY <2>1, <2>5, <2>6, <2>7, AskStep
<1>2. ASSUME WsConnect PROVE Goal
  <2> PICK r : r = next
    OBVIOUS
  <2>1. /\ AllocHandle /\ delivered' = delivered
        /\ http' = http /\ host_calls' = host_calls /\ persist' = persist
        /\ DOMAIN ws' = DOMAIN ws \cup {r}
        /\ \A x \in DOMAIN ws \ {r} : ws'[x] = ws[x]
        /\ ws'[r].answers = 0
    BY <1>2 DEF WsConnect, Insert, NewWsSlot
  <2>2. r = allocs + 1 /\ allocs' = allocs + 1
    BY <1>b, <2>1
  <2> DEFINE e == NewEvent("ws_connect", next, allocs + 1, 0, FALSE)
  <2>3. e \in Event /\ e.req = r /\ e.kind = "ws_connect"
    <3>1. next \in Handle /\ allocs + 1 \in Nat /\ "ws_connect" \in EventKinds
      BY <1>a DEF TypeOK, EventKinds
    <3> QED BY <2>2, <3>1, NewEventType DEF NewEvent
  <2>4. Push(e)
    BY <1>2 DEF WsConnect
  <2> HIDE DEF e
  <2>5. /\ \A q : Told(q)' <=> Told(q)
        /\ \A q : q # r => (Queued(q)' <=> Queued(q))
        /\ Queued(r)'
    BY <1>a, <2>1, <2>3, <2>4, PushKeeps DEF Requesting
  <2>6. \A q \in 1 .. MaxAllocs : q # r => SlotKept(q)
    BY <1>a, <2>1, <2>2 DEF SlotKept
  <2>7. r \in LiveHandles' /\ Answers(r)' = {0}
    BY <1>a, <2>1, AnswersOfNext DEF OfItsSlots, LiveHandles
  <2> QED BY <2>1, <2>5, <2>6, <2>7, AskStep
<1>3. ASSUME NEW sidecar \in BOOLEAN, HostCallStart(sidecar) PROVE Goal
  <2> PICK r : r = next
    OBVIOUS
  <2>1. /\ AllocHandle /\ delivered' = delivered
        /\ http' = http /\ persist' = persist /\ ws' = ws
        /\ DOMAIN host_calls' = DOMAIN host_calls \cup {r}
        /\ \A x \in DOMAIN host_calls \ {r} : host_calls'[x] = host_calls[x]
        /\ host_calls'[r].answers = 0
    BY <1>3 DEF HostCallStart, Insert, NewHostCallSlot
  <2>2. r = allocs + 1 /\ allocs' = allocs + 1
    BY <1>b, <2>1
  <2> DEFINE e == NewEvent("host_call", next, allocs + 1, 0, sidecar)
  <2>3. e \in Event /\ e.req = r /\ e.kind = "host_call"
    <3>1. next \in Handle /\ allocs + 1 \in Nat /\ "host_call" \in EventKinds
      BY <1>a DEF TypeOK, EventKinds
    <3> QED BY <2>2, <3>1, NewEventType DEF NewEvent
  <2>4. Push(e)
    BY <1>3 DEF HostCallStart
  <2> HIDE DEF e
  <2>5. /\ \A q : Told(q)' <=> Told(q)
        /\ \A q : q # r => (Queued(q)' <=> Queued(q))
        /\ Queued(r)'
    BY <1>a, <2>1, <2>3, <2>4, PushKeeps DEF Requesting
  <2>6. \A q \in 1 .. MaxAllocs : q # r => SlotKept(q)
    BY <1>a, <2>1, <2>2 DEF SlotKept
  <2>7. r \in LiveHandles' /\ Answers(r)' = {0}
    BY <1>a, <2>1, AnswersOfNext DEF OfItsSlots, LiveHandles
  <2> QED BY <2>1, <2>5, <2>6, <2>7, AskStep
<1>4. ASSUME NEW op \in 0 .. 4, PersistStart(op) PROVE Goal
  <2> PICK r : r = next
    OBVIOUS
  <2>1. /\ AllocHandle /\ delivered' = delivered
        /\ http' = http /\ host_calls' = host_calls /\ ws' = ws
        /\ DOMAIN persist' = DOMAIN persist \cup {r}
        /\ \A x \in DOMAIN persist \ {r} : persist'[x] = persist[x]
        /\ persist'[r].answers = 0
        /\ op \notin PersistOps => ~persist'[r].given
    BY <1>4 DEF PersistStart, Insert, NewPersistSlot
  <2>2. r = allocs + 1 /\ allocs' = allocs + 1
    BY <1>b, <2>1
  <2> DEFINE e == NewEvent("persist", next, allocs + 1, 0, FALSE)
  <2>3. e \in Event /\ e.req = r /\ e.kind = "persist"
    <3>1. next \in Handle /\ allocs + 1 \in Nat /\ "persist" \in EventKinds
      BY <1>a DEF TypeOK, EventKinds
    <3> QED BY <2>2, <3>1, NewEventType DEF NewEvent
  <2>4. IF op \in PersistOps THEN Push(e) ELSE events' = events
    BY <1>4 DEF PersistStart
  <2> HIDE DEF e
  <2>5. /\ \A q : Told(q)' <=> Told(q)
        /\ \A q : q # r => (Queued(q)' <=> Queued(q))
        /\ op \in PersistOps => Queued(r)'
    <3>1. CASE op \in PersistOps
      BY <1>a, <2>1, <2>3, <2>4, <3>1, PushKeeps DEF Requesting
    <3>2. CASE op \notin PersistOps
      BY <2>1, <2>4, <3>2, SameFrames DEF FramesKept
    <3> QED BY <3>1, <3>2
  <2>6. \A q \in 1 .. MaxAllocs : q # r => SlotKept(q)
    BY <1>a, <2>1, <2>2 DEF SlotKept
  <2>7. r \in LiveHandles' /\ Answers(r)' = {0}
    BY <1>a, <2>1, AnswersOfNext DEF OfItsSlots, LiveHandles
  <2>8. Queued(r)' \/ Refused(r)'
    BY <1>a, <2>1, <2>5, AnswersOfNext DEF OfItsSlots
  <2> QED BY <2>1, <2>5, <2>6, <2>7, <2>8, AskStep
<1>5. ASSUME NEW h \in Handle, HttpClose(h) PROVE Goal
  <2>1. /\ h \in DOMAIN http /\ delivered' = delivered /\ allocs' = allocs
        /\ host_calls' = host_calls /\ persist' = persist /\ ws' = ws
        /\ DOMAIN http' = DOMAIN http \ {h}
        /\ \A x \in DOMAIN http' : http'[x] = http[x]
    BY <1>5 DEF HttpClose, Delete, Restrict
  <2>3. \A q : FramesKept(q)
    BY <1>5, SameFrames DEF HttpClose
  <2>4. \A q \in 1 .. MaxAllocs : q # h => SlotKept(q)
    BY <2>1 DEF SlotKept
  <2>5. h \in LiveHandles /\ h \notin LiveHandles'
    BY <1>a, <2>1 DEF LiveHandles, Disjoint
  <2>6. ~Refused(h)
    BY <1>5, <1>a, <2>1, AnswersOf DEF OfItsSlots, Disjoint
  <2> QED BY <2>1, <2>3, <2>4, <2>5, <2>6, FinishStep
<1>6. ASSUME NEW h \in Handle, PersistClose(h) PROVE Goal
  <2>1. /\ h \in DOMAIN persist /\ delivered' = delivered /\ allocs' = allocs
        /\ http' = http /\ host_calls' = host_calls /\ ws' = ws
        /\ DOMAIN persist' = DOMAIN persist \ {h}
        /\ \A x \in DOMAIN persist' : persist'[x] = persist[x]
    BY <1>6 DEF PersistClose, Delete, Restrict
  <2>3. \A q : FramesKept(q)
    BY <1>6, SameFrames DEF PersistClose
  <2>4. \A q \in 1 .. MaxAllocs : q # h => SlotKept(q)
    BY <2>1 DEF SlotKept
  <2>5. h \in LiveHandles /\ h \notin LiveHandles'
    BY <1>a, <2>1 DEF LiveHandles, Disjoint
  <2>6. ~Refused(h)
    BY <1>6, <1>a, <2>1, AnswersOf DEF OfItsSlots, PersistClose
  <2> QED BY <2>1, <2>3, <2>4, <2>5, <2>6, FinishStep
<1>7. ASSUME NEW h \in Handle, WsClose(h) PROVE Goal
  <2>1. /\ h \in DOMAIN ws /\ delivered' = delivered /\ allocs' = allocs
        /\ http' = http /\ host_calls' = host_calls /\ persist' = persist
        /\ DOMAIN ws' = DOMAIN ws \ {h}
        /\ \A x \in DOMAIN ws' : ws'[x] = ws[x]
    BY <1>7 DEF WsClose, Delete, Restrict
  <2> DEFINE e == NewEvent("ws_close", h, ws[h].req, 0, FALSE)
  <2>2. e \in Event /\ Push(e) /\ e.kind = "ws_close"
    <3>1. ws[h] \in WsSlot
      BY <1>a, <2>1 DEF TypeOK, IsMap
    <3> QED BY <1>7, <3>1, NewEventType DEF WsClose, NewEvent, EventKinds, WsSlot
  <2> HIDE DEF e
  <2>3. \A q : FramesKept(q)
    BY <1>a, <2>1, <2>2, PushKeeps DEF FramesKept, Requesting
  <2>4. \A q \in 1 .. MaxAllocs : q # h => SlotKept(q)
    BY <2>1 DEF SlotKept
  <2>5. h \in LiveHandles /\ h \notin LiveHandles'
    BY <1>a, <2>1 DEF LiveHandles, Disjoint
  <2>6. ~Refused(h)
    BY <1>7, <1>a, <2>1, AnswersOf DEF OfItsSlots, Disjoint
  <2> QED BY <2>1, <2>3, <2>4, <2>5, <2>6, FinishStep
<1>8. ASSUME NEW h \in Handle, HostCallClose(h) PROVE Goal
  <2>1. /\ h \in DOMAIN host_calls /\ delivered' = delivered /\ allocs' = allocs
        /\ http' = http /\ persist' = persist /\ ws' = ws
        /\ DOMAIN host_calls' = DOMAIN host_calls \ {h}
        /\ \A x \in DOMAIN host_calls' : host_calls'[x] = host_calls[x]
    BY <1>8 DEF HostCallClose, Delete, Restrict
  <2> DEFINE e == NewEvent("host_call_close", h, host_calls[h].req, 0, host_calls[h].sidecar)
  <2>2. e \in Event /\ Push(e) /\ e.kind = "host_call_close"
    <3>1. host_calls[h] \in HostCallSlot
      BY <1>a, <2>1 DEF TypeOK, IsMap
    <3> QED BY <1>8, <3>1, NewEventType DEF HostCallClose, NewEvent, EventKinds, HostCallSlot
  <2> HIDE DEF e
  <2>3. \A q : FramesKept(q)
    BY <1>a, <2>1, <2>2, PushKeeps DEF FramesKept, Requesting
  <2>4. \A q \in 1 .. MaxAllocs : q # h => SlotKept(q)
    BY <2>1 DEF SlotKept
  <2>5. h \in LiveHandles /\ h \notin LiveHandles'
    BY <1>a, <2>1 DEF LiveHandles, Disjoint
  <2>6. ~Refused(h)
    BY <1>8, <1>a, <2>1, AnswersOf DEF OfItsSlots, Disjoint
  <2> QED BY <2>1, <2>3, <2>4, <2>5, <2>6, FinishStep
<1>9. ASSUME \A q : SlotKept(q), \A q : FramesKept(q) PROVE Goal
  BY <1>9, <1>a, SamePhase, ContractStutters
<1>10. ASSUME /\ allocs' = allocs
              /\ DOMAIN http' = DOMAIN http /\ DOMAIN host_calls' = DOMAIN host_calls
              /\ DOMAIN persist' = DOMAIN persist /\ DOMAIN ws' = DOMAIN ws
              /\ \A q \in DOMAIN http : http'[q].answers = http[q].answers
              /\ \A q \in DOMAIN host_calls : host_calls'[q].answers = host_calls[q].answers
              /\ \A q \in DOMAIN persist : /\ persist'[q].answers = persist[q].answers
                                           /\ persist'[q].given = persist[q].given
              /\ \A q \in DOMAIN ws : ws'[q].answers = ws[q].answers
       PROVE  \A q : SlotKept(q)
  BY <1>10 DEF SlotKept
<1>11. ASSUME NEW h \in Handle, NEW len \in Lens, WsSend(h, len) PROVE Goal
  <2> DEFINE e == NewEvent("ws_send", h, ws[h].req, len, FALSE)
  <2>1. h \in DOMAIN ws /\ Push(e) /\ delivered' = delivered
    BY <1>11 DEF WsSend, CanSend
  <2>2. e \in Event /\ e.kind = "ws_send"
    <3>1. ws[h] \in WsSlot
      BY <1>a, <2>1 DEF TypeOK, IsMap
    <3> QED BY <3>1, RelayAssumption, NewEventType DEF NewEvent, EventKinds, WsSlot
  <2> HIDE DEF e
  <2>3. \A q : FramesKept(q)
    BY <1>a, <2>1, <2>2, PushKeeps DEF FramesKept, Requesting
  <2>4. \A q : SlotKept(q)
    BY <1>10, <1>11, <1>a DEF WsSend, TypeOK, IsMap, WsSlot
  <2> QED BY <1>9, <2>3, <2>4
<1>12. ASSUME NEW h \in Handle, NEW cap \in ReadCaps,
              HttpBody(h, cap) \/ WsRecv(h, cap) \/ HostCallBody(h, cap) \/ PersistBody(h, cap)
       PROVE  Goal
  <2>1. \A q : FramesKept(q)
    BY <1>12, SameFrames DEF HttpBody, WsRecv, HostCallBody, PersistBody
  <2>2. CASE HttpBody(h, cap)
    BY <1>10, <1>9, <2>1, <2>2, <1>a DEF HttpBody, TypeOK, IsMap, HttpSlot
  <2>3. CASE WsRecv(h, cap)
    BY <1>10, <1>9, <2>1, <2>3, <1>a DEF WsRecv, TypeOK, IsMap, WsSlot
  <2>4. CASE HostCallBody(h, cap)
    BY <1>10, <1>9, <2>1, <2>4, <1>a DEF HostCallBody, TypeOK, IsMap, HostCallSlot
  <2>5. CASE PersistBody(h, cap)
    BY <1>10, <1>9, <2>1, <2>5, <1>a DEF PersistBody, TypeOK, IsMap, PersistSlot
  <2> QED BY <1>12, <2>2, <2>3, <2>4, <2>5
<1>13. ASSUME NEW i \in DOMAIN events, PopEvent(i) PROVE Goal
  <2>1. \A q : SlotKept(q)
    BY <1>10, <1>13, <1>a, SMTT(30)
    DEF PopEvent, Dispatch, TypeOK, IsMap, HostCallSlot, WsSlot
  <2> PICK e : e = events[i]
    OBVIOUS
  <2> PICK r : r = e.req
    OBVIOUS
  <2> QED BY <1>13, <2>1, TellStep
<1>14. CASE RelayNext \/ RelayNextSidecar
  <2>1. RelayNext => 1 \in DOMAIN events /\ PopEvent(1)
    BY <1>a, EmptySeq DEF RelayNext, TypeOK
  <2> QED BY <1>13, <1>14, <2>1 DEF RelayNextSidecar
<1>15. ASSUME NEW f \in delivered
       PROVE  /\ OfItsSlot(f)
              /\ f.kind \in {"http", "host_call", "persist", "ws_connect"} => Told(f.handle)
              /\ f.handle \in LiveHandles => ~Refused(f.handle)
  <2>1. OfItsSlot(f) /\ f.req = f.handle
    BY <1>a DEF Frames, FramesInv, OwnFrame
  <2>2. OfItsSlots(f.handle)
    BY <1>a, AnswersOf
  <2>3. f.handle \in LiveHandles => ~Refused(f.handle)
    BY <2>1, <2>2 DEF OfItsSlot, OfItsSlots
  <2> QED BY <2>1, <2>3 DEF Told, Requesting
<1>16. ASSUME NEW f \in delivered, NEW ok \in BOOLEAN, NEW head \in Lens, NEW body \in Lens,
              HttpRespond(f, ok, head, body)
       PROVE  Goal
  <2> PICK r : r = f.handle
    OBVIOUS
  <2>1. /\ f.kind = "http" /\ r \in DOMAIN http /\ allocs' = allocs
        /\ events' = events /\ delivered' = delivered
        /\ host_calls' = host_calls /\ persist' = persist /\ ws' = ws
        /\ DOMAIN http' = DOMAIN http
        /\ \A x \in DOMAIN http \ {r} : http'[x] = http[x]
        /\ http'[r].answers = r
    BY <1>16, <1>a DEF HttpRespond, FramesInv, OwnFrame, TypeOK, IsMap, HttpSlot
  <2>2. Told(r) /\ ~Refused(r) /\ r \in LiveHandles
    BY <1>15, <2>1 DEF LiveHandles
  <2>3. OfItsSlots(r) /\ OfItsSlots(r)'
    BY <1>a, AnswersOf, AnswersOfNext
  <2>4. Answers(r)' = {r} /\ ~Refused(r)'
    BY <2>1, <2>2, <2>3 DEF OfItsSlots
  <2>5. \A q : FramesKept(q)
    BY <2>1, SameFrames
  <2>6. \A q \in 1 .. MaxAllocs : q # r => SlotKept(q)
    BY <2>1 DEF SlotKept
  <2> QED BY <2>1, <2>2, <2>4, <2>5, <2>6, RespondStep
<1>17. ASSUME NEW f \in delivered, NEW ok \in BOOLEAN, NEW len \in Lens,
              HostCallRespond(f, ok, len)
       PROVE  Goal
  <2> PICK r : r = f.handle
    OBVIOUS
  <2>1. /\ f.kind = "host_call" /\ r \in DOMAIN host_calls /\ allocs' = allocs
        /\ events' = events /\ delivered' = delivered
        /\ http' = http /\ persist' = persist /\ ws' = ws
        /\ DOMAIN host_calls' = DOMAIN host_calls
        /\ \A x \in DOMAIN host_calls \ {r} : host_calls'[x] = host_calls[x]
        /\ host_calls'[r].answers = r
    BY <1>17, <1>a DEF HostCallRespond, FramesInv, OwnFrame, TypeOK, IsMap, HostCallSlot
  <2>2. Told(r) /\ ~Refused(r) /\ r \in LiveHandles
    BY <1>15, <2>1 DEF LiveHandles
  <2>3. OfItsSlots(r) /\ OfItsSlots(r)'
    BY <1>a, AnswersOf, AnswersOfNext
  <2>4. Answers(r)' = {r} /\ ~Refused(r)'
    BY <2>1, <2>2, <2>3 DEF OfItsSlots
  <2>5. \A q : FramesKept(q)
    BY <2>1, SameFrames
  <2>6. \A q \in 1 .. MaxAllocs : q # r => SlotKept(q)
    BY <2>1 DEF SlotKept
  <2> QED BY <2>1, <2>2, <2>4, <2>5, <2>6, RespondStep
<1>18. ASSUME NEW f \in delivered, NEW ok \in BOOLEAN, NEW len \in Lens,
              PersistRespond(f, ok, len)
       PROVE  Goal
  <2> PICK r : r = f.handle
    OBVIOUS
  <2>1. /\ f.kind = "persist" /\ r \in DOMAIN persist /\ allocs' = allocs
        /\ events' = events /\ delivered' = delivered
        /\ http' = http /\ host_calls' = host_calls /\ ws' = ws
        /\ DOMAIN persist' = DOMAIN persist
        /\ \A x \in DOMAIN persist \ {r} : persist'[x] = persist[x]
        /\ persist'[r].answers = r
        /\ persist'[r].given = persist[r].given
    <3>1. f.req = r
      BY <1>a DEF FramesInv, OwnFrame
    <3>2. /\ f.kind = "persist" /\ r \in DOMAIN persist /\ allocs' = allocs
          /\ events' = events /\ delivered' = delivered
          /\ http' = http /\ host_calls' = host_calls /\ ws' = ws
      BY <1>18 DEF PersistRespond
    <3>3. /\ DOMAIN persist' = DOMAIN persist
          /\ \A x \in DOMAIN persist \ {r} : persist'[x] = persist[x]
          /\ persist'[r].answers = f.req
          /\ persist'[r].given = persist[r].given
      BY <1>18, <1>a, <3>2 DEF PersistRespond, TypeOK, IsMap, PersistSlot
    <3> QED BY <3>1, <3>2, <3>3
  <2>2. Told(r) /\ ~Refused(r) /\ r \in LiveHandles
    BY <1>15, <2>1 DEF LiveHandles
  <2>3. OfItsSlots(r) /\ OfItsSlots(r)'
    BY <1>a, AnswersOf, AnswersOfNext
  <2>4. Answers(r)' = {r} /\ ~Refused(r)'
    BY <2>1, <2>2, <2>3 DEF OfItsSlots
  <2>5. \A q : FramesKept(q)
    BY <2>1, SameFrames
  <2>6. \A q \in 1 .. MaxAllocs : q # r => SlotKept(q)
    BY <2>1 DEF SlotKept
  <2> QED BY <2>1, <2>2, <2>4, <2>5, <2>6, RespondStep
<1>19. ASSUME NEW f \in delivered, NEW ok \in BOOLEAN,
              AppWsOpen(f, ok)
       PROVE  Goal
  <2> PICK r : r = f.handle
    OBVIOUS
  <2>1. /\ f.kind = "ws_connect" /\ r \in DOMAIN ws /\ allocs' = allocs
        /\ events' = events /\ delivered' = delivered
        /\ http' = http /\ host_calls' = host_calls /\ persist' = persist
        /\ DOMAIN ws' = DOMAIN ws
        /\ \A x \in DOMAIN ws \ {r} : ws'[x] = ws[x]
        /\ ws'[r].answers = r
    BY <1>19, <1>a DEF AppWsOpen, FramesInv, OwnFrame, TypeOK, IsMap, WsSlot
  <2>2. Told(r) /\ ~Refused(r) /\ r \in LiveHandles
    BY <1>15, <2>1 DEF LiveHandles
  <2>3. OfItsSlots(r) /\ OfItsSlots(r)'
    BY <1>a, AnswersOf, AnswersOfNext
  <2>4. Answers(r)' = {r} /\ ~Refused(r)'
    BY <2>1, <2>2, <2>3 DEF OfItsSlots
  <2>5. \A q : FramesKept(q)
    BY <2>1, SameFrames
  <2>6. \A q \in 1 .. MaxAllocs : q # r => SlotKept(q)
    BY <2>1 DEF SlotKept
  <2> QED BY <2>1, <2>2, <2>4, <2>5, <2>6, RespondStep
<1>20. ASSUME NEW f \in delivered, NEW len \in Lens, AppWsPush(f, len) PROVE Goal
  BY <1>9, <1>10, <1>20, <1>a, SameFrames DEF AppWsPush, TypeOK, IsMap, WsSlot
<1>21. ASSUME NEW f \in delivered, AppWsClose(f) PROVE Goal
  BY <1>9, <1>10, <1>21, <1>a, SameFrames DEF AppWsClose, TypeOK, IsMap, WsSlot
<1>22. CASE AppAnswer
  BY <1>16, <1>17, <1>18, <1>19, <1>20, <1>21, <1>22 DEF AppAnswer
<1>23. CASE GuestStep
  BY <1>1, <1>2, <1>3, <1>4, <1>5, <1>6, <1>7, <1>8, <1>11, <1>12, <1>23 DEF GuestStep
<1>24. CASE UNCHANGED vars
  BY <1>9, <1>10, <1>24, SameFrames DEF vars
<1> QED BY <1>14, <1>22, <1>23, <1>24 DEF Next

\* As long as fewer requests are asked than there are handles, whatever the
\* slots, the queue and the frames do, each request is asked once, told once,
\* answered after that by its own answer, and over for good once it is closed.
THEOREM ImplementsContractCorrect ==
  MaxAllocs <= MaxHandle => (Spec => ImplementsContract)
<1> SUFFICES ASSUME MaxAllocs <= MaxHandle PROVE Spec => ImplementsContract
  OBVIOUS
<1>1. Init => Contract!Init
  BY RelayAssumption DEF Init, Contract!Init, Contract!Requests, Phase
<1>2. PhaseInv /\ PhaseInv' /\ [Next]_vars
        => [Contract!Next]_([r \in 1 .. MaxAllocs |-> Phase(r)])
  BY PhaseStep DEF PhaseMap
<1> QED BY PhaseInvInvariant, <1>1, <1>2, PTL DEF Spec, ImplementsContract, Contract!Spec
-----------------------------------------------------------------------------
(***************************************************************************)
(* Back-pressure.  The account of a socket is the number of units queued   *)
(* for it: a frame adds its units when it is pushed and takes them away    *)
(* when it is pulled, from wherever in the queue it is pulled.             *)
(***************************************************************************)
SendOf(e, h) == e.kind = "ws_send" /\ e.handle = h

\* QueuedUnits(h), of any queue s.
Units(s, h) == {u \in (DOMAIN s) \X (1 .. WsSendMark) :
                  SendOf(s[u[1]], h) /\ u[2] <= s[u[1]].len}

LEMMA UnitsFinite ==
  ASSUME NEW s \in Seq(Event), NEW h
  PROVE  IsFiniteSet(Units(s, h)) /\ Cardinality(Units(s, h)) \in Nat
<1>1. DOMAIN s = 1 .. Len(s) /\ Len(s) \in Nat /\ WsSendMark \in Nat
  BY RelayAssumption
<1>2. IsFiniteSet(1 .. Len(s)) /\ IsFiniteSet(1 .. WsSendMark)
  BY <1>1, FS_Interval
<1>3. IsFiniteSet((1 .. Len(s)) \X (1 .. WsSendMark))
  BY <1>2, FS_Product
<1>4. Units(s, h) \subseteq (1 .. Len(s)) \X (1 .. WsSendMark)
  BY <1>1 DEF Units
<1>5. IsFiniteSet(Units(s, h))
  BY <1>3, <1>4, FS_Subset
<1> QED BY <1>5, FS_CardinalityType

\* The units of one frame.
LEMMA UnitsOfFrame ==
  ASSUME NEW k, NEW len \in Nat
  PROVE  IsFiniteSet({k} \X (1 .. len)) /\ Cardinality({k} \X (1 .. len)) = len
<1>1. IsFiniteSet({k}) /\ Cardinality({k}) = 1
  BY FS_Singleton
<1>2. IsFiniteSet(1 .. len) /\ Cardinality(1 .. len) = len
  BY FS_Interval
<1>3. /\ IsFiniteSet({k} \X (1 .. len))
      /\ Cardinality({k} \X (1 .. len)) = Cardinality({k}) * Cardinality(1 .. len)
  BY <1>1, <1>2, FS_Product
<1>4. 1 * len = len
  OBVIOUS
<1> QED BY <1>1, <1>2, <1>3, <1>4

LEMMA UnitsPush ==
  ASSUME NEW s \in Seq(Event), NEW e \in Event, NEW h,
         SendOf(e, h) => e.len <= WsSendMark
  PROVE  Cardinality(Units(Append(s, e), h))
           = Cardinality(Units(s, h)) + IF SendOf(e, h) THEN e.len ELSE 0
<1> DEFINE t == Append(s, e)
           n == Len(s) + 1
           own == {n} \X (1 .. e.len)
<1>1. /\ Len(s) \in Nat /\ DOMAIN s = 1 .. Len(s)
      /\ DOMAIN t = 1 .. n
      /\ \A i \in 1 .. Len(s) : t[i] = s[i]
      /\ t[n] = e
  BY AppendProperties
<1>2. e.len \in Nat /\ WsSendMark \in Nat
  BY RelayAssumption DEF Event
<1>3. IsFiniteSet(Units(s, h)) /\ Cardinality(Units(s, h)) \in Nat
  BY UnitsFinite
<1>4. IsFiniteSet(own) /\ Cardinality(own) = e.len
  BY <1>2, UnitsOfFrame
<1> HIDE DEF t, n
<1>5. n \notin 1 .. Len(s) /\ 1 .. n = (1 .. Len(s)) \cup {n}
  BY <1>1 DEF n
<1>6. CASE SendOf(e, h)
  <2>1. Units(t, h) = Units(s, h) \cup own
    <3>1. ASSUME NEW u \in Units(t, h) PROVE u \in Units(s, h) \cup own
      BY <1>1, <1>2, <1>5 DEF Units
    <3>2. ASSUME NEW u \in Units(s, h) PROVE u \in Units(t, h)
      BY <1>1, <1>5 DEF Units
    <3>3. ASSUME NEW u \in own PROVE u \in Units(t, h)
      BY <1>1, <1>2, <1>5, <1>6 DEF Units
    <3> QED BY <3>1, <3>2, <3>3
  <2>2. Units(s, h) \cap own = {}
    BY <1>1, <1>5 DEF Units
  <2> HIDE DEF own
  <2>3. Cardinality(Units(t, h))
          = Cardinality(Units(s, h)) + Cardinality(own) - Cardinality(Units(s, h) \cap own)
    BY <1>3, <1>4, <2>1, FS_Union
  <2>4. Cardinality(Units(s, h) \cap own) = 0
    BY <2>2, FS_EmptySet
  <2> QED BY <1>2, <1>3, <1>4, <1>6, <2>3, <2>4 DEF t
<1>7. CASE ~SendOf(e, h)
  <2>1. Units(t, h) = Units(s, h)
    BY <1>1, <1>5, <1>7 DEF Units
  <2> QED BY <1>3, <1>7, <2>1 DEF t
<1> QED BY <1>6, <1>7

LEMMA UnitsPull ==
  ASSUME NEW s \in Seq(Event), NEW i \in 1 .. Len(s), NEW h,
         SendOf(s[i], h) => s[i].len <= WsSendMark
  PROVE  Cardinality(Units(RemoveAt(s, i), h))
           = Cardinality(Units(s, h)) - IF SendOf(s[i], h) THEN s[i].len ELSE 0
<1> DEFINE t == RemoveAt(s, i)
           at(j) == IF j < i THEN j ELSE j + 1
           own == Units(s, h) \cap ({i} \X (1 .. WsSendMark))
           rest == Units(s, h) \ own
           Move == [u \in Units(t, h) |-> <<at(u[1]), u[2]>>]
<1>1. /\ Len(s) \in Nat /\ DOMAIN s = 1 .. Len(s) /\ i \in 1 .. Len(s)
      /\ t \in Seq(Event) /\ Len(t) = Len(s) - 1
      /\ DOMAIN t = 1 .. Len(s) - 1
      /\ \A j \in 1 .. Len(s) - 1 : t[j] = s[at(j)]
  <2>1. /\ t \in Seq(Event) /\ Len(t) = Len(s) - 1
        /\ \A j \in 1 .. Len(s) - 1 : t[j] = IF j < i THEN s[j] ELSE s[j + 1]
    BY RemoveAtEvents
  <2> HIDE DEF t
  <2>2. /\ Len(s) \in Nat /\ DOMAIN s = 1 .. Len(s) /\ DOMAIN t = 1 .. Len(s) - 1
    BY <2>1
  <2> QED BY <2>1, <2>2
<1>2. /\ \A j \in 1 .. Len(s) - 1 : at(j) \in (1 .. Len(s)) \ {i}
      /\ \A j, k \in 1 .. Len(s) - 1 : at(j) = at(k) => j = k
  BY <1>1
<1>3. \A k \in (1 .. Len(s)) \ {i} : \E j \in 1 .. Len(s) - 1 : at(j) = k
  <2> SUFFICES ASSUME NEW k \in (1 .. Len(s)) \ {i}
               PROVE  \E j \in 1 .. Len(s) - 1 : at(j) = k
    OBVIOUS
  <2>1. CASE k < i
    BY <1>1, <2>1
  <2>2. CASE k > i
    <3>1. k - 1 \in 1 .. Len(s) - 1 /\ at(k - 1) = k
      BY <1>1, <2>2
    <3> QED BY <3>1
  <2> QED BY <1>1, <2>1, <2>2
<1>4. s[i] \in Event /\ s[i].len \in Nat /\ WsSendMark \in Nat
  <2>1. s[i] \in Event
    BY <1>1
  <2> QED BY <2>1, RelayAssumption DEF Event
<1>5. /\ IsFiniteSet(Units(s, h)) /\ Cardinality(Units(s, h)) \in Nat
      /\ IsFiniteSet(Units(t, h)) /\ Cardinality(Units(t, h)) \in Nat
  BY <1>1, UnitsFinite
<1> HIDE DEF t, at
<1>6. rest = {u \in Units(s, h) : u[1] # i}
  BY DEF Units
<1>7. Move \in Bijection(Units(t, h), rest)
  <2> HIDE DEF rest
  <2>1. ASSUME NEW u \in Units(t, h)
        PROVE  <<at(u[1]), u[2]>> \in rest
    BY <1>1, <1>2, <1>6 DEF Units
  <2>2. Move \in [Units(t, h) -> rest]
    BY <2>1
  <2>3. ASSUME NEW u \in Units(t, h), NEW v \in Units(t, h), Move[u] = Move[v]
        PROVE  u = v
    <3>1. u[1] = v[1] /\ u[2] = v[2]
      BY <1>1, <1>2, <2>3 DEF Units
    <3> QED BY <3>1 DEF Units
  <2>4. ASSUME NEW v \in rest PROVE \E u \in Units(t, h) : Move[u] = v
    <3>1. v \in Units(s, h) /\ v[1] \in (1 .. Len(s)) \ {i} /\ v = <<v[1], v[2]>>
      BY <1>1, <1>6 DEF Units
    <3> PICK j \in 1 .. Len(s) - 1 : at(j) = v[1]
      BY <1>3, <3>1
    <3>2. <<j, v[2]>> \in Units(t, h)
      BY <1>1, <3>1 DEF Units
    <3>3. Move[<<j, v[2]>>] = v
      BY <3>1, <3>2
    <3> QED BY <3>2, <3>3
  <2> HIDE DEF Move
  <2> QED BY <2>2, <2>3, <2>4, Fun_IsBij
<1> HIDE DEF Move
<1>8. Cardinality(rest) = Cardinality(Units(t, h))
  BY <1>5, <1>7, FS_Bijection DEF ExistsBijection
<1>9. Cardinality(rest) = Cardinality(Units(s, h)) - Cardinality(own)
  <2>1. Units(s, h) \cap own = own
    OBVIOUS
  <2> HIDE DEF own
  <2> QED BY <1>5, <2>1, FS_Difference
<1>10. CASE SendOf(s[i], h)
  <2>1. own = {i} \X (1 .. s[i].len)
    BY <1>1, <1>4, <1>10 DEF Units
  <2>2. Cardinality(own) = s[i].len
    BY <1>4, <2>1, UnitsOfFrame
  <2> QED BY <1>8, <1>9, <1>10, <2>2 DEF t
<1>11. CASE ~SendOf(s[i], h)
  <2>1. own = {}
    BY <1>11 DEF Units
  <2>2. Cardinality(own) = 0
    BY <2>1, FS_EmptySet
  <2> QED BY <1>5, <1>8, <1>9, <1>11, <2>2 DEF t
<1> QED BY <1>10, <1>11

WithinMark == \A i \in DOMAIN events :
                events[i].kind = "ws_send" => events[i].len <= WsSendMark

Accounts == \A h \in DOMAIN ws : ws[h].queued_bytes = Cardinality(QueuedUnits(h))

BacklogInv == WithinMark /\ Accounts

\* What the step does to the queue decides what each account must be after it.
LEMMA QueuePush ==
  ASSUME TypeOK, NEW e \in Event, Push(e), WithinMark,
         e.kind = "ws_send" => e.len <= WsSendMark
  PROVE  /\ WithinMark'
         /\ \A h : Cardinality(QueuedUnits(h)') = Cardinality(QueuedUnits(h))
                     + IF SendOf(e, h) THEN e.len ELSE 0
<1>1. events \in Seq(Event) /\ events' = Append(events, e)
  BY DEF TypeOK, Push
<1>2. WithinMark'
  <2>1. /\ DOMAIN events' = 1 .. Len(events) + 1
        /\ \A i \in 1 .. Len(events) : events'[i] = events[i]
        /\ events'[Len(events) + 1] = e
        /\ DOMAIN events = 1 .. Len(events) /\ Len(events) \in Nat
    BY <1>1, AppendProperties
  <2> QED BY <2>1 DEF WithinMark
<1>3. \A h : QueuedUnits(h) = Units(events, h) /\ QueuedUnits(h)' = Units(events', h)
  BY DEF QueuedUnits, Units, SendOf
<1>4. \A h : Cardinality(Units(events', h))
               = Cardinality(Units(events, h)) + IF SendOf(e, h) THEN e.len ELSE 0
  BY <1>1, UnitsPush DEF SendOf
<1> QED BY <1>2, <1>3, <1>4

LEMMA QueuePull ==
  ASSUME TypeOK, NEW i \in DOMAIN events, PopEvent(i), WithinMark
  PROVE  /\ WithinMark'
         /\ \A h : /\ Cardinality(QueuedUnits(h)) \in Nat
                   /\ Cardinality(QueuedUnits(h)') \in Nat
                   /\ Cardinality(QueuedUnits(h)') = Cardinality(QueuedUnits(h))
                        - IF SendOf(events[i], h) THEN events[i].len ELSE 0
<1>1. /\ events \in Seq(Event) /\ i \in 1 .. Len(events) /\ Len(events) \in Nat
      /\ DOMAIN events = 1 .. Len(events) /\ events' = RemoveAt(events, i)
  BY DEF TypeOK, PopEvent
<1>2. /\ events' \in Seq(Event) /\ Len(events') = Len(events) - 1
      /\ DOMAIN events' = 1 .. Len(events) - 1
      /\ \A j \in 1 .. Len(events) - 1 :
           events'[j] = IF j < i THEN events[j] ELSE events[j + 1]
  <2>1. /\ events' \in Seq(Event) /\ Len(events') = Len(events) - 1
        /\ \A j \in 1 .. Len(events) - 1 :
             events'[j] = IF j < i THEN events[j] ELSE events[j + 1]
    BY <1>1, RemoveAtEvents
  <2> QED BY <2>1
<1>3. WithinMark'
  BY <1>1, <1>2 DEF WithinMark
<1>4. \A h : QueuedUnits(h) = Units(events, h) /\ QueuedUnits(h)' = Units(events', h)
  BY DEF QueuedUnits, Units, SendOf
<1>5. \A h : SendOf(events[i], h) => events[i].len <= WsSendMark
  BY DEF WithinMark, SendOf
<1>6. \A h : Cardinality(Units(events', h)) = Cardinality(Units(events, h))
                - IF SendOf(events[i], h) THEN events[i].len ELSE 0
  BY <1>1, <1>5, UnitsPull
<1>7. \A h : /\ Cardinality(Units(events, h)) \in Nat
             /\ Cardinality(Units(events', h)) \in Nat
  BY <1>1, <1>2, UnitsFinite
<1> QED BY <1>3, <1>4, <1>6, <1>7

\* No unit is queued for a handle that no frame names.
LEMMA NothingQueued ==
  ASSUME NEW h, \A i \in DOMAIN events : events[i].handle # h
  PROVE  Cardinality(QueuedUnits(h)) = 0
<1>1. QueuedUnits(h) = {}
  BY DEF QueuedUnits
<1> QED BY <1>1, FS_EmptySet

\* In the first turn the handle of a new request is no slot's and no frame's.
LEMMA FreshHandle ==
  ASSUME TypeOK, NextInv, SlotsInv, FramesInv, AllocHandle, NoWrap'
  PROVE  next \notin DOMAIN ws /\ \A f \in Frames : f.handle # next
<1>1. next = allocs + 1 /\ allocs \in Nat
  BY RelayAssumption DEF NextInv, AllocHandle, NoWrap, TypeOK
<1>2. \A f \in Frames : f.handle <= allocs
  BY DEF Frames, FramesInv, OwnFrame
<1> QED BY <1>1, <1>2 DEF SlotsInv, OwnSlot

LEMMA BacklogStep ==
  ASSUME TypeInv, TypeInv', HandleInv, BacklogInv, [Next]_vars, NoWrap'
  PROVE  BacklogInv'
<1>a. TypeOK /\ allocs \in Nat /\ WithinMark /\ Accounts
  BY DEF TypeInv, TypeOK, BacklogInv
<1>b. NextInv /\ SlotsInv /\ FramesInv
  <2>1. NoWrap
    BY <1>a, AllocsGrow, RelayAssumption DEF NoWrap, AllocHandle
  <2> QED BY <1>a, <2>1, UntilWrap
<1>c. \A h \in DOMAIN ws : ws[h].queued_bytes \in Nat
  BY <1>a DEF TypeOK, IsMap, WsSlot
<1>1. ASSUME events' = events,
             \A h \in DOMAIN ws' :
               h \in DOMAIN ws /\ ws'[h].queued_bytes = ws[h].queued_bytes
      PROVE  BacklogInv'
  <2>1. \A h : QueuedUnits(h)' = QueuedUnits(h)
    BY <1>1 DEF QueuedUnits
  <2> QED BY <1>1, <1>a, <2>1 DEF BacklogInv, WithinMark, Accounts
<1>2. ASSUME NEW e \in Event, Push(e), e.kind # "ws_send",
             \A h \in DOMAIN ws' :
               h \in DOMAIN ws /\ ws'[h].queued_bytes = ws[h].queued_bytes
      PROVE  BacklogInv'
  <2>1. /\ WithinMark'
        /\ \A h : Cardinality(QueuedUnits(h)') = Cardinality(QueuedUnits(h))
                    + IF SendOf(e, h) THEN e.len ELSE 0
    BY <1>2, <1>a, QueuePush
  <2>2. \A h : ~SendOf(e, h)
    BY <1>2 DEF SendOf
  <2>3. ASSUME NEW h \in DOMAIN ws'
        PROVE  ws'[h].queued_bytes = Cardinality(QueuedUnits(h)')
    <3>1. /\ h \in DOMAIN ws /\ ws'[h].queued_bytes = Cardinality(QueuedUnits(h))
          /\ Cardinality(QueuedUnits(h)) \in Nat
      BY <1>2, <1>a, <1>c DEF Accounts
    <3> QED BY <2>1, <2>2, <3>1
  <2> QED BY <2>1, <2>3 DEF BacklogInv, Accounts
<1>3. ASSUME AllocHandle, NEW kind \in EventKinds, NEW sidecar \in BOOLEAN
      PROVE  /\ NewEvent(kind, next, allocs + 1, 0, sidecar) \in Event
             /\ NewEvent(kind, next, allocs + 1, 0, sidecar).kind = kind
  <2>1. next \in Handle /\ allocs + 1 \in Nat
    BY <1>a DEF TypeOK
  <2> QED BY <2>1, NewEventType DEF NewEvent
<1>4. CASE HttpRequest
  BY <1>2, <1>3, <1>4 DEF HttpRequest, EventKinds
<1>5. CASE WsConnect
  <2> DEFINE e == NewEvent("ws_connect", next, allocs + 1, 0, FALSE)
  <2>1. /\ AllocHandle /\ Push(e)
        /\ DOMAIN ws' = DOMAIN ws \cup {next}
        /\ \A h \in DOMAIN ws \ {next} : ws'[h] = ws[h]
        /\ ws'[next].queued_bytes = 0
    BY <1>5 DEF WsConnect, Insert, NewWsSlot
  <2>2. e \in Event /\ e.kind = "ws_connect"
    BY <1>3, <2>1 DEF EventKinds
  <2> HIDE DEF e
  <2>3. /\ next \notin DOMAIN ws
        /\ \A f \in Frames : f.handle # next
    BY <1>a, <1>b, <2>1, FreshHandle
  <2>4. /\ WithinMark'
        /\ \A h : Cardinality(QueuedUnits(h)') = Cardinality(QueuedUnits(h))
                    + IF SendOf(e, h) THEN e.len ELSE 0
    BY <1>a, <2>1, <2>2, QueuePush
  <2>5. \A h : ~SendOf(e, h)
    BY <2>2 DEF SendOf
  <2>6. ASSUME NEW h \in DOMAIN ws'
        PROVE  ws'[h].queued_bytes = Cardinality(QueuedUnits(h)')
    <3>1. CASE h = next
      <4>1. \A i \in DOMAIN events : events[i].handle # h
        BY <2>3, <3>1 DEF Frames
      <4>2. Cardinality(QueuedUnits(h)) = 0
        BY <4>1, NothingQueued
      <4>3. Cardinality(QueuedUnits(h)') = 0 + 0
        BY <2>4, <2>5, <4>2
      <4> QED BY <2>1, <3>1, <4>3
    <3>2. CASE h # next
      <4>1. /\ h \in DOMAIN ws /\ ws'[h].queued_bytes = Cardinality(QueuedUnits(h))
            /\ Cardinality(QueuedUnits(h)) \in Nat
        BY <1>a, <1>c, <2>1, <3>2 DEF Accounts
      <4> QED BY <2>4, <2>5, <4>1
    <3> QED BY <3>1, <3>2
  <2> QED BY <2>4, <2>6 DEF BacklogInv, Accounts
<1>6. ASSUME NEW sidecar \in BOOLEAN, HostCallStart(sidecar) PROVE BacklogInv'
  BY <1>2, <1>3, <1>6 DEF HostCallStart, EventKinds
<1>7. ASSUME NEW op \in 0 .. 4, PersistStart(op) PROVE BacklogInv'
  BY <1>1, <1>2, <1>3, <1>7 DEF PersistStart, EventKinds
<1>8. ASSUME NEW h \in Handle, HttpClose(h) \/ PersistClose(h) PROVE BacklogInv'
  BY <1>1, <1>8 DEF HttpClose, PersistClose
<1>9. ASSUME NEW h \in Handle, WsClose(h) PROVE BacklogInv'
  <2> DEFINE e == NewEvent("ws_close", h, ws[h].req, 0, FALSE)
  <2>1. /\ h \in DOMAIN ws /\ Push(e)
        /\ DOMAIN ws' \subseteq DOMAIN ws
        /\ \A x \in DOMAIN ws' : ws'[x] = ws[x]
    BY <1>9 DEF WsClose, Delete, Restrict
  <2>2. e \in Event /\ e.kind = "ws_close"
    <3>1. ws[h] \in WsSlot
      BY <1>a, <2>1 DEF TypeOK, IsMap
    <3> QED BY <3>1, NewEventType DEF NewEvent, EventKinds, WsSlot
  <2> HIDE DEF e
  <2> QED BY <1>2, <2>1, <2>2
<1>10. ASSUME NEW h \in Handle, HostCallClose(h) PROVE BacklogInv'
  <2> DEFINE e == NewEvent("host_call_close", h, host_calls[h].req, 0, host_calls[h].sidecar)
  <2>1. h \in DOMAIN host_calls /\ Push(e) /\ ws' = ws
    BY <1>10 DEF HostCallClose
  <2>2. e \in Event /\ e.kind = "host_call_close"
    <3>1. host_calls[h] \in HostCallSlot
      BY <1>a, <2>1 DEF TypeOK, IsMap
    <3> QED BY <3>1, NewEventType DEF NewEvent, EventKinds, HostCallSlot
  <2> HIDE DEF e
  <2> QED BY <1>2, <2>1, <2>2
<1>11. ASSUME NEW h \in Handle, NEW len \in Lens, WsSend(h, len) PROVE BacklogInv'
  <2> DEFINE e == NewEvent("ws_send", h, ws[h].req, len, FALSE)
  <2>1. /\ h \in DOMAIN ws /\ len <= WsSendMark /\ Push(e)
        /\ DOMAIN ws' = DOMAIN ws
        /\ ws'[h].queued_bytes = ws[h].queued_bytes + len
        /\ \A x \in DOMAIN ws \ {h} : ws'[x] = ws[x]
    BY <1>11, <1>a DEF WsSend, CanSend, TypeOK, IsMap, WsSlot
  <2>2. e \in Event /\ e.kind = "ws_send" /\ e.handle = h /\ e.len = len /\ len \in Nat
    <3>1. ws[h] \in WsSlot
      BY <1>a, <2>1 DEF TypeOK, IsMap
    <3> QED BY <3>1, RelayAssumption, NewEventType DEF NewEvent, EventKinds, WsSlot
  <2> HIDE DEF e
  <2>3. /\ WithinMark'
        /\ \A x : Cardinality(QueuedUnits(x)') = Cardinality(QueuedUnits(x))
                    + IF SendOf(e, x) THEN e.len ELSE 0
    BY <1>a, <2>1, <2>2, QueuePush
  <2>4. \A x : SendOf(e, x) <=> x = h
    BY <2>2 DEF SendOf
  <2>5. ASSUME NEW x \in DOMAIN ws'
        PROVE  ws'[x].queued_bytes = Cardinality(QueuedUnits(x)')
    <3>1. /\ x \in DOMAIN ws /\ ws[x].queued_bytes = Cardinality(QueuedUnits(x))
          /\ Cardinality(QueuedUnits(x)) \in Nat
      BY <1>a, <1>c, <2>1 DEF Accounts
    <3>2. CASE x = h
      BY <2>1, <2>2, <2>3, <2>4, <3>1, <3>2
    <3>3. CASE x # h
      BY <2>1, <2>3, <2>4, <3>1, <3>3
    <3> QED BY <3>2, <3>3
  <2> QED BY <2>3, <2>5 DEF BacklogInv, Accounts
<1>12. ASSUME NEW h \in Handle, NEW cap \in ReadCaps,
              HttpBody(h, cap) \/ WsRecv(h, cap) \/ HostCallBody(h, cap) \/ PersistBody(h, cap)
       PROVE  BacklogInv'
  <2>1. CASE HttpBody(h, cap) \/ HostCallBody(h, cap) \/ PersistBody(h, cap)
    BY <1>1, <2>1 DEF HttpBody, HostCallBody, PersistBody
  <2>2. CASE WsRecv(h, cap)
    BY <1>1, <2>2, <1>a DEF WsRecv, TypeOK, IsMap, WsSlot
  <2> QED BY <1>12, <2>1, <2>2
<1>13. ASSUME NEW i \in DOMAIN events, PopEvent(i) PROVE BacklogInv'
  <2> DEFINE e == events[i]
  <2>1. /\ WithinMark'
        /\ \A h : /\ Cardinality(QueuedUnits(h)) \in Nat
                  /\ Cardinality(QueuedUnits(h)') \in Nat
                  /\ Cardinality(QueuedUnits(h)') = Cardinality(QueuedUnits(h))
                       - IF SendOf(e, h) THEN e.len ELSE 0
    BY <1>13, <1>a, QueuePull
  <2>2. e \in Event /\ e.len \in Nat
    <3>1. e \in Event
      BY <1>a DEF TypeOK
    <3> QED BY <3>1 DEF Event
  <2>3. /\ DOMAIN ws' = DOMAIN ws
        /\ \A h \in DOMAIN ws : ws'[h].queued_bytes =
             IF SendOf(e, h) THEN ws[h].queued_bytes - Least(ws[h].queued_bytes, e.len)
             ELSE ws[h].queued_bytes
    BY <1>13, <1>a DEF PopEvent, Dispatch, SendOf, TypeOK, IsMap, WsSlot
  <2> HIDE DEF e
  <2>4. ASSUME NEW h \in DOMAIN ws'
        PROVE  ws'[h].queued_bytes = Cardinality(QueuedUnits(h)')
    <3>1. h \in DOMAIN ws /\ ws[h].queued_bytes = Cardinality(QueuedUnits(h))
      BY <1>a, <2>3 DEF Accounts
    <3>2. CASE SendOf(e, h)
      BY <2>1, <2>2, <2>3, <3>1, <3>2 DEF Least
    <3>3. CASE ~SendOf(e, h)
      BY <2>1, <2>3, <3>1, <3>3
    <3> QED BY <3>2, <3>3
  <2> QED BY <2>1, <2>4 DEF BacklogInv, Accounts
<1>14. CASE RelayNext \/ RelayNextSidecar
  <2>1. RelayNext => 1 \in DOMAIN events /\ PopEvent(1)
    BY <1>a, EmptySeq DEF RelayNext, TypeOK
  <2> QED BY <1>13, <1>14, <2>1 DEF RelayNextSidecar
<1>15. CASE AppAnswer
  <2> PICK f \in delivered :
        \/ \E ok \in BOOLEAN, head \in Lens, body \in Lens : HttpRespond(f, ok, head, body)
        \/ \E ok \in BOOLEAN, len \in Lens : HostCallRespond(f, ok, len)
        \/ \E ok \in BOOLEAN, len \in Lens : PersistRespond(f, ok, len)
        \/ \E ok \in BOOLEAN : AppWsOpen(f, ok)
        \/ \E len \in Lens : AppWsPush(f, len)
        \/ AppWsClose(f)
    BY <1>15 DEF AppAnswer
  <2>1. ASSUME events' = events, ws' = ws PROVE BacklogInv'
    BY <1>1, <2>1
  <2>2. ASSUME NEW ok \in BOOLEAN, AppWsOpen(f, ok) PROVE BacklogInv'
    BY <1>1, <2>2, <1>a DEF AppWsOpen, TypeOK, IsMap, WsSlot
  <2>3. ASSUME NEW len \in Lens, AppWsPush(f, len) PROVE BacklogInv'
    BY <1>1, <2>3, <1>a DEF AppWsPush, TypeOK, IsMap, WsSlot
  <2>4. ASSUME AppWsClose(f) PROVE BacklogInv'
    BY <1>1, <2>4, <1>a DEF AppWsClose, TypeOK, IsMap, WsSlot
  <2> QED BY <2>1, <2>2, <2>3, <2>4 DEF HttpRespond, HostCallRespond, PersistRespond
<1>16. CASE GuestStep
  BY <1>4, <1>5, <1>6, <1>7, <1>8, <1>9, <1>10, <1>11, <1>12, <1>16 DEF GuestStep
<1>17. CASE UNCHANGED vars
  BY <1>1, <1>17 DEF vars
<1> QED BY <1>14, <1>15, <1>16, <1>17 DEF Next

\* A socket's account is what the application has still to pull from it,
\* whatever else is queued and whoever pulls it: room under the mark is neither
\* lost nor given out twice.
THEOREM WsBacklogExactCorrect == Spec => []WsBacklogExact
<1> DEFINE Inv == TypeInv /\ HandleInv /\ (NoWrap => BacklogInv)
<1>1. Init => Inv
  BY TypeInit, HandleInit, OrderInit
  DEF Init, BacklogInv, WithinMark, Accounts
<1>2. ASSUME Inv, [Next]_vars PROVE Inv'
  <2>1. NoWrap' => NoWrap
    BY <1>2, AllocsGrow, RelayAssumption DEF NoWrap, AllocHandle, TypeInv, TypeOK
  <2>2. TypeInv' /\ HandleInv'
    BY <1>2, TypeStep, HandleStep
  <2>3. NoWrap' => BacklogInv'
    BY <1>2, <2>1, <2>2, BacklogStep
  <2> QED BY <2>2, <2>3
<1>3. Inv => WsBacklogExact
  BY DEF BacklogInv, Accounts, WsBacklogExact
<1> QED BY <1>1, <1>2, <1>3, PTL DEF Spec
=============================================================================
