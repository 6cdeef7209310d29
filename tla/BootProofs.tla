------------------------------ MODULE BootProofs ------------------------------
(***************************************************************************)
(* The types and the safety properties of Boot, for any options, threads   *)
(* and ticks.  The invariant keeps, next to the types, what a thread in    *)
(* the library has not done yet: it has set no error and returned nothing. *)
(***************************************************************************)
EXTENDS Boot, TLAPS

CallShape ==
  [op : {"none", "boot", "restore", "tick", "overflow"}, n : Nat, guest : Nat,
   rc : {0, -1}, ticks : 0 .. MaxTicks, at : {"idle", "boots", "works", "asks", "returned"}]

GuestShape ==
  [opts : Options, granted : SUBSET Effects, rules : {ParsePolicies(p) : p \in Options},
   credentials : {ParseConnections(p) : p \in Options}, used : SUBSET Effects,
   relay : Relay, holds : SUBSET Hold, born : SUBSET Hold]

GuestsInv == /\ guests \in Seq(GuestShape) /\ Len(guests) <= MaxVms
             /\ table \subseteq DOMAIN guests
             /\ images \subseteq SUBSET Hold

CallsInv ==
  /\ issued \in 0 .. MaxCalls
  /\ error \in [Threads -> 0 .. MaxCalls]
  /\ calls \in [Threads -> CallShape]
  /\ \A t \in Threads : /\ calls[t].n <= issued
                        /\ calls[t].guest <= Len(guests)

\* What a thread that has not returned has done: nothing its caller is told.
Unreported ==
  \A t \in Threads :
    /\ calls[t].at \in {"boots", "works", "asks"} =>
         calls[t].rc = 0 /\ error[t] = 0 /\ calls[t].guest \in DOMAIN guests
    /\ calls[t].at = "boots" => calls[t].op = "boot"

Inv == GuestsInv /\ CallsInv /\ Unreported /\ ToldItsOwnError
-----------------------------------------------------------------------------
LEMMA ElementInSeq == ASSUME NEW S, NEW s \in Seq(S), NEW i \in DOMAIN s
                      PROVE  s[i] \in S
  OBVIOUS

LEMMA UpdateSeq == ASSUME NEW S, NEW s \in Seq(S), NEW i \in DOMAIN s, NEW e \in S
                   PROVE  /\ [s EXCEPT ![i] = e] \in Seq(S)
                          /\ Len([s EXCEPT ![i] = e]) = Len(s)
                          /\ DOMAIN [s EXCEPT ![i] = e] = DOMAIN s
  OBVIOUS

LEMMA NewGuestShape ==
  ASSUME NEW p \in Options, NEW memory \in SUBSET Hold
  PROVE  NewGuest(p, memory) \in GuestShape
<1>1. Granted(p) \in SUBSET Effects
  BY DEF Granted
<1>2. NewRelay \in Relay
  BY DEF NewRelay, Relay
<1>3. {} \in SUBSET Effects
  OBVIOUS
<1> QED
  BY <1>1, <1>2, <1>3 DEF NewGuest, GuestShape

\* What a guest that asks keeps, and what is added.
LEMMA AsksShape ==
  ASSUME NEW g \in 1 .. MaxVms, NEW e \in Effects, guests[g] \in GuestShape
  PROVE  /\ Asks(g, e) \in GuestShape
         /\ Asks(g, e).opts = guests[g].opts
         /\ Asks(g, e).granted = guests[g].granted
         /\ Asks(g, e).rules = guests[g].rules
         /\ Asks(g, e).credentials = guests[g].credentials
         /\ Asks(g, e).born = guests[g].born
         /\ Asks(g, e).used \subseteq guests[g].used \cup ({e} \cap guests[g].granted)
         /\ guests[g].relay.slots \subseteq Asks(g, e).relay.slots
         /\ \A a \in Asks(g, e).holds :
              \/ a \in guests[g].holds
              \/ a.vm = g /\ a.handle \in Asks(g, e).relay.slots
<1> DEFINE h == guests[g].relay.next
           relay == [next |-> h + 1, slots |-> guests[g].relay.slots \cup {h}]
           hold == [vm |-> g, handle |-> h]
           used == guests[g].used \cup {e}
<1>1. h \in Nat /\ relay \in Relay /\ hold \in Hold /\ guests[g].relay.slots \subseteq relay.slots
  BY DEF GuestShape, Relay, Hold
<1>2. hold.vm = g /\ hold.handle \in relay.slots
  OBVIOUS
<1>3. used \in SUBSET Effects
  BY DEF GuestShape
<1>4. /\ used = guests[g].used \cup {e} /\ guests[g].holds \cup {hold} \in SUBSET Hold
      /\ DOMAIN guests[g] = {"opts", "granted", "rules", "credentials", "used", "relay", "holds", "born"}
  BY <1>1 DEF GuestShape
<1>5. CASE Asks(g, e) = guests[g]
  BY <1>5
<1>6. CASE /\ e \in guests[g].granted
           /\ Asks(g, e) = [guests[g] EXCEPT !.used = used]
  <2> HIDE DEF used, relay, hold, h
  <2> QED
    BY <1>3, <1>4, <1>6 DEF GuestShape
<1>7. CASE /\ e \in guests[g].granted
           /\ Asks(g, e) = [guests[g] EXCEPT !.used = used, !.relay = relay]
  <2> HIDE DEF used, relay, hold, h
  <2>1. Asks(g, e) \in GuestShape
    BY <1>1, <1>3, <1>4, <1>7 DEF GuestShape
  <2> QED
    BY <1>1, <1>4, <1>7, <2>1 DEF GuestShape
<1>8. CASE /\ e \in guests[g].granted
           /\ Asks(g, e) = [guests[g] EXCEPT !.used = used, !.relay = relay,
                                             !.holds = guests[g].holds \cup {hold}]
  <2> HIDE DEF used, relay, hold, h
  <2>1. Asks(g, e) \in GuestShape
    BY <1>1, <1>3, <1>4, <1>8 DEF GuestShape
  <2> QED
    BY <1>1, <1>2, <1>4, <1>8, <2>1 DEF GuestShape
<1> QED
  BY <1>5, <1>6, <1>7, <1>8 DEF Asks, GuestShape
-----------------------------------------------------------------------------
(* What a step does to the guests: a new one, one that asks, one that is   *)
(* done with a request, or nothing.                                        *)

Appended == \E p \in Options, memory \in SUBSET Hold :
              /\ ~Refused(p) /\ Len(guests) < MaxVms
              /\ guests' = Append(guests, NewGuest(p, memory))

Closed(g, a) == [guests[g] EXCEPT !.holds = @ \ {a}, !.relay.slots = @ \ {a.handle}]

GuestsChange ==
  \/ guests' = guests
  \/ Appended
  \/ \E g \in DOMAIN guests, e \in Effects : guests' = [guests EXCEPT ![g] = Asks(g, e)]
  \/ \E g \in DOMAIN guests : \E a \in guests[g].holds :
       guests' = [guests EXCEPT ![g] = Closed(g, a)]

LEMMA GuestNumbers ==
  ASSUME Inv
  PROVE  /\ DOMAIN guests = 1 .. Len(guests) /\ Len(guests) \in Nat
         /\ MaxVms \in Nat /\ DOMAIN guests \subseteq 1 .. MaxVms
         /\ \A g \in DOMAIN guests : guests[g] \in GuestShape
<1>1. MaxVms \in Nat
  BY BootAssumption DEF BootAssumption
<1>2. \A g \in DOMAIN guests : guests[g] \in GuestShape
  BY ElementInSeq DEF Inv, GuestsInv
<1> QED
  BY <1>1, <1>2 DEF Inv, GuestsInv

LEMMA GuestSteps == Inv /\ [Next]_vars => GuestsChange
<1> SUFFICES ASSUME Inv, [Next]_vars PROVE GuestsChange
  OBVIOUS
<1> USE DEF GuestsChange
<1>1. ASSUME NEW t \in Threads, NEW p \in Options, BootEx(t, p) PROVE GuestsChange
  BY <1>1 DEF BootEx, Fails, Appended
<1>2. ASSUME NEW t \in Threads, NEW p \in Options, NEW image \in images, Restore(t, p, image)
      PROVE  GuestsChange
  <2>1. {image, {}} \subseteq SUBSET Hold
    BY DEF Inv, GuestsInv
  <2> QED
    BY <1>2, <2>1 DEF Restore, Fails, Appended
<1>3. ASSUME NEW t \in Threads, BootTick(t) PROVE GuestsChange
  BY <1>3 DEF BootTick, Inv, Unreported
<1>4. ASSUME NEW t \in Threads, NEW e \in Effects, NEW in_tick \in AskInTick,
             GuestAsks(t, e, in_tick)
      PROVE  GuestsChange
  BY <1>4 DEF GuestAsks, Inv, Unreported
<1>5. ASSUME NEW t \in Threads, calls[t].guest # 0,
             NEW a \in guests[calls[t].guest].holds, GuestCloses(t, a)
      PROVE  GuestsChange
  <2>1. calls[t].guest \in DOMAIN guests
    BY <1>5 DEF GuestCloses, Inv, Unreported
  <2>2. guests' = [guests EXCEPT ![calls[t].guest] = Closed(calls[t].guest, a)]
    BY <1>5 DEF GuestCloses, Closed
  <2> QED
    BY <2>1, <2>2
<1>6. CASE \E t \in Threads : InsertVm(t) \/ ReadResult(t) \/ TickEnds(t)
                              \/ \E g \in DOMAIN guests : Tick(t, g)
  BY <1>6 DEF InsertVm, ReadResult, TickEnds, Tick
<1>7. CASE \E g \in DOMAIN guests : Snapshot(g) \/ Close(g)
  BY <1>7 DEF Snapshot, Close
<1>8. CASE UNCHANGED vars
  BY <1>8 DEF vars
<1>9. CASE Next
  <2>1. CASE \E t \in Threads : \E a \in IF calls[t].guest = 0 THEN {}
                                        ELSE guests[calls[t].guest].holds : GuestCloses(t, a)
    BY <2>1, <1>5
  <2> QED
    BY <1>9, <2>1, <1>1, <1>2, <1>3, <1>4, <1>6, <1>7 DEF Next
<1> QED
  BY <1>8, <1>9

LEMMA ClosedShape ==
  ASSUME NEW g, guests[g] \in GuestShape, NEW a
  PROVE  /\ Closed(g, a) \in GuestShape
         /\ Closed(g, a).opts = guests[g].opts
         /\ Closed(g, a).granted = guests[g].granted
         /\ Closed(g, a).rules = guests[g].rules
         /\ Closed(g, a).credentials = guests[g].credentials
         /\ Closed(g, a).born = guests[g].born
         /\ Closed(g, a).used = guests[g].used
         /\ Closed(g, a).holds = guests[g].holds \ {a}
         /\ Closed(g, a).relay.slots = guests[g].relay.slots \ {a.handle}
<1> DEFINE relay == [guests[g].relay EXCEPT !.slots = @ \ {a.handle}]
<1>1. relay \in Relay /\ relay.slots = guests[g].relay.slots \ {a.handle}
  BY DEF GuestShape, Relay
<1>2. Closed(g, a) = [guests[g] EXCEPT !.holds = guests[g].holds \ {a}, !.relay = relay]
  BY DEF Closed, GuestShape
<1> HIDE DEF relay
<1> QED
  BY <1>1, <1>2 DEF GuestShape

\* The guests stay as many as they were, or are one more, and have their shape.
LEMMA GuestsShape ==
  ASSUME Inv, GuestsChange
  PROVE  /\ guests' \in Seq(GuestShape)
         /\ Len(guests') \in Len(guests) .. MaxVms
         /\ DOMAIN guests \subseteq DOMAIN guests'
<1>0. guests \in Seq(GuestShape) /\ Len(guests) <= MaxVms
  BY DEF Inv, GuestsInv
<1>1. CASE guests' = guests
  BY <1>0, <1>1, GuestNumbers
<1>2. CASE Appended
  <2>1. PICK p \in Options, memory \in SUBSET Hold :
               guests' = Append(guests, NewGuest(p, memory)) /\ Len(guests) < MaxVms
    BY <1>2 DEF Appended
  <2>2. NewGuest(p, memory) \in GuestShape
    BY NewGuestShape
  <2> QED
    BY <1>0, <2>1, <2>2, GuestNumbers
<1>3. ASSUME NEW g \in DOMAIN guests, NEW new \in GuestShape,
             guests' = [guests EXCEPT ![g] = new]
      PROVE  guests' \in Seq(GuestShape) /\ Len(guests') = Len(guests)
  BY <1>0, <1>3, UpdateSeq
<1>4. CASE \E g \in DOMAIN guests, e \in Effects : guests' = [guests EXCEPT ![g] = Asks(g, e)]
  BY <1>0, <1>3, <1>4, AsksShape, GuestNumbers
<1>5. CASE \E g \in DOMAIN guests : \E a \in guests[g].holds :
             guests' = [guests EXCEPT ![g] = Closed(g, a)]
  BY <1>0, <1>3, <1>5, ClosedShape, GuestNumbers
<1> QED
  BY <1>1, <1>2, <1>4, <1>5 DEF GuestsChange
-----------------------------------------------------------------------------
(* What a step does to the threads.                                        *)

LEMMA InitInv == Init => Inv
<1> SUFFICES ASSUME Init PROVE Inv
  OBVIOUS
<1> USE BootAssumption DEF BootAssumption, Init
<1>1. GuestsInv
  BY DEF GuestsInv
<1>2. Idle \in CallShape /\ Idle.at = "idle" /\ Idle.n = 0 /\ Idle.guest = 0
  BY DEF Idle, CallShape
<1>3. CallsInv
  BY <1>2 DEF CallsInv
<1>4. Unreported /\ ToldItsOwnError
  BY <1>2 DEF Unreported, ToldItsOwnError
<1> QED
  BY <1>1, <1>3, <1>4 DEF Inv

\* One thread moves: what is to be shown of it, and nothing of the others.
LEMMA ThreadStep ==
  ASSUME Inv, NEW t \in Threads, NEW call \in CallShape, NEW message \in 0 .. MaxCalls,
         calls' = [calls EXCEPT ![t] = call],
         error' = [error EXCEPT ![t] = message],
         issued' \in issued .. MaxCalls,
         guests' \in Seq(GuestShape), Len(guests') \in Len(guests) .. MaxVms,
         call.n <= issued', call.guest <= Len(guests'),
         call.at \in {"boots", "works", "asks"} =>
           call.rc = 0 /\ message = 0 /\ call.guest \in DOMAIN guests',
         call.at = "boots" => call.op = "boot",
         call.at = "returned" /\ call.rc = -1 =>
           message = IF call.op = "overflow" THEN 0 ELSE call.n
  PROVE  CallsInv' /\ Unreported' /\ ToldItsOwnError'
<1>1. /\ calls' \in [Threads -> CallShape] /\ error' \in [Threads -> 0 .. MaxCalls]
      /\ issued \in Nat /\ issued' \in 0 .. MaxCalls /\ Len(guests) \in Nat
      /\ DOMAIN guests \subseteq DOMAIN guests'
  BY BootAssumption DEF BootAssumption, Inv, CallsInv, GuestsInv
<1>2. calls'[t] = call /\ error'[t] = message
  BY DEF Inv, CallsInv
<1>3. \A u \in Threads \ {t} : calls'[u] = calls[u] /\ error'[u] = error[u]
  BY DEF Inv, CallsInv
<1>4. \A u \in Threads \ {t} : calls[u].n <= issued' /\ calls[u].guest <= Len(guests')
  BY <1>1 DEF Inv, CallsInv, CallShape
<1>5. CallsInv'
  BY <1>1, <1>2, <1>3, <1>4 DEF CallsInv
<1>6. Unreported'
  BY <1>1, <1>2, <1>3 DEF Inv, Unreported
<1>7. ToldItsOwnError'
  BY <1>2, <1>3 DEF Inv, ToldItsOwnError
<1> QED
  BY <1>5, <1>6, <1>7

\* A thread that enters the library: the call is the next, the error cleared.
LEMMA Entered ==
  ASSUME Inv, NEW t \in Threads, Enter(t)
  PROVE  /\ issued' = issued + 1 /\ issued' \in issued .. MaxCalls /\ issued' \in Nat
         /\ error' = [error EXCEPT ![t] = 0] /\ 0 \in 0 .. MaxCalls
  BY BootAssumption DEF BootAssumption, Enter, Inv, CallsInv

LEMMA FailsStep ==
  ASSUME Inv, NEW t \in Threads, NEW op \in {"boot", "restore"}, Fails(t, op)
  PROVE  CallsInv' /\ Unreported' /\ ToldItsOwnError'
<1> DEFINE call == [op |-> op, n |-> issued', guest |-> 0, rc |-> -1, ticks |-> 0,
                    at |-> "returned"]
<1>1. issued' = issued + 1 /\ issued' \in issued .. MaxCalls /\ issued' \in 0 .. MaxCalls
  BY BootAssumption DEF BootAssumption, Fails, Inv, CallsInv
<1>2. /\ call \in CallShape /\ call.n = issued' /\ call.guest = 0 /\ call.op # "overflow"
      /\ call.at = "returned"
  BY <1>1, BootAssumption DEF BootAssumption, CallShape
<1>3. calls' = [calls EXCEPT ![t] = call] /\ error' = [error EXCEPT ![t] = issued']
  BY DEF Fails, Returns
<1>4. guests' \in Seq(GuestShape) /\ Len(guests') \in Len(guests) .. MaxVms
  BY GuestsShape DEF Fails, GuestsChange
<1>5. call.guest <= Len(guests') /\ call.n <= issued'
  BY <1>1, <1>2, <1>4
<1> HIDE DEF call
<1> QED
  BY <1>1, <1>2, <1>3, <1>4, <1>5, ThreadStep

LEMMA BootExStep ==
  ASSUME Inv, NEW t \in Threads, NEW p \in Options, BootEx(t, p), GuestsChange
  PROVE  CallsInv' /\ Unreported' /\ ToldItsOwnError'
<1>1. CASE Fails(t, "boot")
  BY <1>1, FailsStep
<1>2. CASE ~Fails(t, "boot")
  <2> DEFINE call == [op |-> "boot", n |-> issued', rc |-> 0, ticks |-> 0,
                      guest |-> Len(guests'), at |-> "boots"]
  <2>1. /\ Enter(t) /\ guests' = Append(guests, NewGuest(p, {}))
        /\ calls' = [calls EXCEPT ![t] = call]
    BY <1>2 DEF BootEx
  <2>2. /\ guests' \in Seq(GuestShape) /\ Len(guests') \in Len(guests) .. MaxVms
        /\ Len(guests') \in DOMAIN guests' /\ Len(guests') \in Nat
    BY <2>1, GuestsShape DEF Inv, GuestsInv
  <2>3. call \in CallShape
    BY <2>1, <2>2, Entered, BootAssumption DEF BootAssumption, CallShape
  <2>4. /\ call.n = issued' /\ call.guest = Len(guests') /\ call.rc = 0
        /\ call.at = "boots" /\ call.op = "boot"
    OBVIOUS
  <2>5. call.guest <= Len(guests') /\ call.n <= issued'
    BY <2>1, <2>2, Entered
  <2> HIDE DEF call
  <2>6. /\ issued' \in issued .. MaxCalls /\ 0 \in 0 .. MaxCalls
        /\ error' = [error EXCEPT ![t] = 0]
    BY <2>1, Entered
  <2> QED
    BY <2>1, <2>2, <2>3, <2>4, <2>5, <2>6, ThreadStep
<1> QED
  BY <1>1, <1>2

LEMMA RestoreStep ==
  ASSUME Inv, NEW t \in Threads, NEW p \in Options, NEW image \in images,
         Restore(t, p, image), GuestsChange
  PROVE  CallsInv' /\ Unreported' /\ ToldItsOwnError'
<1>1. CASE Fails(t, "restore")
  BY <1>1, FailsStep
<1>2. CASE ~Fails(t, "restore")
  <2> DEFINE call == [op |-> "restore", n |-> issued', rc |-> 0, ticks |-> 0,
                      guest |-> Len(guests'), at |-> "returned"]
  <2>1. Enter(t) /\ calls' = [calls EXCEPT ![t] = call]
    BY <1>2 DEF Restore, Returns
  <2>2. /\ guests' \in Seq(GuestShape) /\ Len(guests') \in Len(guests) .. MaxVms
        /\ Len(guests') \in Nat
    BY GuestsShape DEF Inv, GuestsInv
  <2>3. call \in CallShape
    BY <2>1, <2>2, Entered, BootAssumption DEF BootAssumption, CallShape
  <2>4. /\ call.n = issued' /\ call.guest = Len(guests') /\ call.rc = 0
        /\ call.at = "returned" /\ call.rc # -1
    OBVIOUS
  <2>5. call.guest <= Len(guests') /\ call.n <= issued'
    BY <2>1, <2>2, Entered
  <2> HIDE DEF call
  <2>6. /\ issued' \in issued .. MaxCalls /\ 0 \in 0 .. MaxCalls
        /\ error' = [error EXCEPT ![t] = 0]
    BY <2>1, Entered
  <2> QED
    BY <2>1, <2>2, <2>3, <2>4, <2>5, <2>6, ThreadStep
<1> QED
  BY <1>1, <1>2

LEMMA TickStep ==
  ASSUME Inv, NEW t \in Threads, NEW g \in DOMAIN guests, Tick(t, g)
  PROVE  CallsInv' /\ Unreported' /\ ToldItsOwnError'
<1> DEFINE call == [op |-> "tick", n |-> issued', guest |-> g, rc |-> 0, ticks |-> 0,
                    at |-> "works"]
<1>1. Enter(t) /\ guests' = guests /\ calls' = [calls EXCEPT ![t] = call]
  BY DEF Tick
<1>2. /\ guests' \in Seq(GuestShape) /\ Len(guests') \in Len(guests) .. MaxVms
      /\ g \in Nat /\ g <= Len(guests')
  BY <1>1, GuestsShape, GuestNumbers DEF GuestsChange
<1>3. call \in CallShape
  BY <1>1, <1>2, Entered, BootAssumption DEF BootAssumption, CallShape
<1>4. call.n = issued' /\ call.guest = g /\ call.rc = 0 /\ call.at = "works"
  OBVIOUS
<1>5. call.guest <= Len(guests') /\ call.n <= issued'
  BY <1>1, <1>2, Entered
<1> HIDE DEF call
<1>6. /\ issued' \in issued .. MaxCalls /\ 0 \in 0 .. MaxCalls
      /\ error' = [error EXCEPT ![t] = 0]
  BY <1>1, Entered
<1> QED
  BY <1>1, <1>2, <1>3, <1>4, <1>5, <1>6, ThreadStep

\* A thread that goes on with the call it is in, and sets no error.
LEMMA GoesOn ==
  ASSUME Inv, NEW t \in Threads, NEW call \in CallShape, GuestsChange,
         calls' = [calls EXCEPT ![t] = call], UNCHANGED <<error, issued>>,
         calls[t].at \in {"boots", "works"},
         call.n = calls[t].n, call.guest = calls[t].guest, call.rc = 0,
         call.at = "boots" => call.op = "boot"
  PROVE  CallsInv' /\ Unreported' /\ ToldItsOwnError'
<1>1. /\ guests' \in Seq(GuestShape) /\ Len(guests') \in Len(guests) .. MaxVms
      /\ DOMAIN guests \subseteq DOMAIN guests'
  BY GuestsShape
<1>2. /\ calls[t].n \in Nat /\ calls[t].n <= issued
      /\ calls[t].guest \in DOMAIN guests /\ error[t] = 0
      /\ calls[t].guest \in Nat /\ calls[t].guest <= Len(guests)
      /\ issued \in Nat /\ issued \in 0 .. MaxCalls /\ Len(guests) \in Nat
      /\ error \in [Threads -> 0 .. MaxCalls]
  BY BootAssumption DEF BootAssumption, Inv, CallsInv, Unreported, CallShape, GuestsInv
<1>3. /\ error' = [error EXCEPT ![t] = 0] /\ 0 \in 0 .. MaxCalls
      /\ issued' \in issued .. MaxCalls
      /\ call.n <= issued' /\ call.guest <= Len(guests') /\ call.guest \in DOMAIN guests'
  BY <1>1, <1>2, BootAssumption DEF BootAssumption
<1>4. call.rc # -1
  OBVIOUS
<1> QED
  BY <1>1, <1>3, <1>4, ThreadStep

LEMMA BootTickStep ==
  ASSUME Inv, NEW t \in Threads, BootTick(t), GuestsChange
  PROVE  CallsInv' /\ Unreported' /\ ToldItsOwnError'
<1> DEFINE ticked(at) == [calls[t] EXCEPT !.ticks = @ + 1, !.at = at]
<1>1. calls[t] \in CallShape /\ calls[t].at = "boots" /\ calls[t].ticks < MaxTicks
      /\ calls[t].op = "boot" /\ calls[t].rc = 0
  BY DEF BootTick, Inv, CallsInv, Unreported
<1>2. \A at \in {"boots", "asks"} :
        /\ ticked(at) \in CallShape /\ ticked(at).at = at
        /\ ticked(at).n = calls[t].n /\ ticked(at).guest = calls[t].guest
        /\ ticked(at).rc = 0 /\ ticked(at).op = "boot"
  <2> SUFFICES ASSUME NEW at \in {"boots", "asks"}
               PROVE  /\ ticked(at) \in CallShape /\ ticked(at).at = at
                      /\ ticked(at).n = calls[t].n /\ ticked(at).guest = calls[t].guest
                      /\ ticked(at).rc = 0 /\ ticked(at).op = "boot"
    BY Zenon
  <2>1. calls[t].ticks + 1 \in 0 .. MaxTicks
    BY <1>1, BootAssumption DEF BootAssumption, CallShape
  <2> QED
    BY <1>1, <2>1 DEF CallShape
<1>3. \E at \in {"boots", "asks"} : calls' = [calls EXCEPT ![t] = ticked(at)]
  <2>1. \/ calls' = [calls EXCEPT ![t].ticks = @ + 1]
        \/ \E at \in {"boots", "asks"} : calls' = [calls EXCEPT ![t].ticks = @ + 1, ![t].at = at]
    BY <1>1 DEF BootTick
  <2>2. calls \in [Threads -> CallShape]
    BY DEF Inv, CallsInv
  <2>3. \A at \in {"boots", "asks"} :
          [calls EXCEPT ![t].ticks = @ + 1, ![t].at = at] = [calls EXCEPT ![t] = ticked(at)]
    BY <2>2 DEF CallShape
  <2>4. [calls EXCEPT ![t].ticks = @ + 1] = [calls EXCEPT ![t] = ticked("boots")]
    BY <1>1, <2>2 DEF CallShape
  <2> HIDE DEF ticked
  <2> QED
    BY <2>1, <2>3, <2>4
<1>4. UNCHANGED <<error, issued>>
  BY DEF BootTick
<1> HIDE DEF ticked
<1> QED
  BY <1>1, <1>2, <1>3, <1>4, GoesOn

LEMMA GuestAsksStep ==
  ASSUME Inv, NEW t \in Threads, NEW e, NEW in_tick, GuestAsks(t, e, in_tick), GuestsChange
  PROVE  CallsInv' /\ Unreported' /\ ToldItsOwnError'
<1> DEFINE moved(at) == [calls[t] EXCEPT !.at = at]
<1>1. calls[t] \in CallShape /\ calls[t].at = "works" /\ calls[t].rc = 0
  BY DEF GuestAsks, Inv, CallsInv, Unreported
<1>2. \A at \in {"works", "asks"} :
        /\ moved(at) \in CallShape /\ moved(at).at = at
        /\ moved(at).n = calls[t].n /\ moved(at).guest = calls[t].guest
        /\ moved(at).rc = 0
  BY <1>1 DEF CallShape
<1>3. calls = [calls EXCEPT ![t] = moved("works")]
  BY <1>1 DEF Inv, CallsInv, CallShape
<1>4. \E at \in {"works", "asks"} : calls' = [calls EXCEPT ![t] = moved(at)]
  BY <1>3 DEF GuestAsks
<1>5. UNCHANGED <<error, issued>>
  BY DEF GuestAsks
<1> HIDE DEF moved
<1> QED
  BY <1>1, <1>2, <1>4, <1>5, GoesOn

\* The thread has returned from a boot, or the isolate has read its result.
LEMMA InsertVmStep ==
  ASSUME Inv, NEW t \in Threads, InsertVm(t)
  PROVE  CallsInv' /\ Unreported' /\ ToldItsOwnError'
<1> DEFINE call == [calls[t] EXCEPT !.at = "returned"]
<1>1. calls[t] \in CallShape /\ calls[t].at = "boots" /\ calls[t].rc = 0
  BY DEF InsertVm, Inv, CallsInv, Unreported
<1>2. /\ call \in CallShape /\ call.at = "returned" /\ call.rc = 0
      /\ call.n = calls[t].n /\ call.guest = calls[t].guest
  BY <1>1 DEF CallShape
<1>3. calls' = [calls EXCEPT ![t] = call] /\ UNCHANGED <<error, issued, guests>>
  BY <1>1 DEF InsertVm
<1> HIDE DEF call
<1> QED
  BY <1>1, <1>2, <1>3, GoesOn DEF GuestsChange

LEMMA ReadResultStep ==
  ASSUME Inv, NEW t \in Threads, ReadResult(t)
  PROVE  CallsInv' /\ Unreported' /\ ToldItsOwnError'
<1>1. /\ Idle \in CallShape /\ Idle.at = "idle" /\ Idle.n = 0 /\ Idle.guest = 0
  BY BootAssumption DEF BootAssumption, Idle, CallShape
<1>2. calls' = [calls EXCEPT ![t] = Idle] /\ UNCHANGED <<error, issued, guests>>
  BY DEF ReadResult
<1>3. /\ error[t] \in 0 .. MaxCalls /\ error = [error EXCEPT ![t] = error[t]]
      /\ issued \in issued .. MaxCalls /\ 0 <= issued /\ 0 <= Len(guests)
  BY BootAssumption DEF BootAssumption, Inv, CallsInv, GuestsInv
<1>4. guests' \in Seq(GuestShape) /\ Len(guests') \in Len(guests) .. MaxVms
  BY <1>2, GuestsShape DEF GuestsChange
<1> QED
  BY <1>1, <1>2, <1>3, <1>4, ThreadStep

LEMMA TickEndsStep ==
  ASSUME Inv, NEW t \in Threads, TickEnds(t)
  PROVE  CallsInv' /\ Unreported' /\ ToldItsOwnError'
<1>1. PICK rc \in {0, -1}, op \in {"tick", "overflow"} :
        /\ op = "overflow" => rc = -1
        /\ calls' = [calls EXCEPT ![t].at = "returned", ![t].rc = rc, ![t].op = op]
        /\ error' = IF op = "tick" /\ rc = -1 THEN [error EXCEPT ![t] = calls[t].n] ELSE error
  BY DEF TickEnds
<1> DEFINE call == [calls[t] EXCEPT !.at = "returned", !.rc = rc, !.op = op]
           message == IF op = "tick" /\ rc = -1 THEN calls[t].n ELSE 0
<1>2. /\ calls[t] \in CallShape /\ error[t] = 0 /\ calls[t].n \in 0 .. issued
      /\ calls[t].guest <= Len(guests) /\ issued \in 0 .. MaxCalls
      /\ error \in [Threads -> 0 .. MaxCalls] /\ calls \in [Threads -> CallShape]
  BY DEF TickEnds, Inv, CallsInv, Unreported, CallShape
<1>3. /\ call \in CallShape /\ call.at = "returned" /\ call.rc = rc /\ call.op = op
      /\ call.n = calls[t].n /\ call.guest = calls[t].guest
  BY <1>2 DEF CallShape
<1>4. calls' = [calls EXCEPT ![t] = call]
  BY <1>1, <1>2 DEF CallShape
<1>5. message \in 0 .. MaxCalls /\ error' = [error EXCEPT ![t] = message]
  <2>1. CASE op = "tick" /\ rc = -1
    BY <1>1, <1>2, <2>1, BootAssumption DEF BootAssumption
  <2>2. CASE ~(op = "tick" /\ rc = -1)
    BY <1>1, <1>2, <2>2, BootAssumption DEF BootAssumption
  <2> QED
    BY <2>1, <2>2
<1>6. rc = -1 => message = IF op = "overflow" THEN 0 ELSE calls[t].n
  OBVIOUS
<1>7. /\ issued' = issued /\ issued' \in issued .. MaxCalls /\ guests' = guests
  BY <1>2, BootAssumption DEF BootAssumption, TickEnds
<1>8. guests' \in Seq(GuestShape) /\ Len(guests') \in Len(guests) .. MaxVms
  BY <1>7, GuestsShape DEF GuestsChange
<1>9. call.n <= issued' /\ call.guest <= Len(guests')
  BY <1>2, <1>3, <1>7
<1> HIDE DEF call, message
<1> QED
  BY <1>3, <1>4, <1>5, <1>6, <1>7, <1>8, <1>9, ThreadStep

LEMMA GuestClosesStep ==
  ASSUME Inv, NEW t \in Threads, NEW a, GuestCloses(t, a), GuestsChange
  PROVE  CallsInv' /\ Unreported' /\ ToldItsOwnError'
<1>1. calls[t] \in CallShape /\ calls[t].at \in {"boots", "works"} /\ calls[t].rc = 0
  BY DEF GuestCloses, Inv, CallsInv, Unreported
<1>2. calls' = [calls EXCEPT ![t] = calls[t]] /\ UNCHANGED <<error, issued>>
  BY DEF GuestCloses, Inv, CallsInv
<1>3. calls[t].at = "boots" => calls[t].op = "boot"
  BY DEF Inv, Unreported
<1> QED
  BY <1>1, <1>2, <1>3, GoesOn

\* A step of which no thread and no guest is part.
LEMMA QuietStep ==
  ASSUME Inv, UNCHANGED <<error, calls, guests, issued>>
  PROVE  CallsInv' /\ Unreported' /\ ToldItsOwnError'
  BY DEF Inv, CallsInv, Unreported, ToldItsOwnError

LEMMA StepInv == Inv /\ [Next]_vars => Inv' /\ GuestsChange
<1> SUFFICES ASSUME Inv, [Next]_vars PROVE Inv' /\ GuestsChange
  OBVIOUS
<1>1. GuestsChange
  BY GuestSteps
<1>2. CallsInv' /\ Unreported' /\ ToldItsOwnError'
  <2>1. CASE \E t \in Threads, p \in Options :
               BootEx(t, p) \/ \E image \in images : Restore(t, p, image)
    BY <1>1, <2>1, BootExStep, RestoreStep
  <2>2. CASE \E t \in Threads : BootTick(t) \/ InsertVm(t) \/ ReadResult(t) \/ TickEnds(t)
    BY <1>1, <2>2, BootTickStep, InsertVmStep, ReadResultStep, TickEndsStep
  <2>3. CASE \E t \in Threads, g \in DOMAIN guests : Tick(t, g)
    BY <2>3, TickStep
  <2>4. CASE \E t \in Threads, e \in Effects, in_tick \in AskInTick : GuestAsks(t, e, in_tick)
    BY <1>1, <2>4, GuestAsksStep
  <2>5. CASE \E t \in Threads : \E a \in IF calls[t].guest = 0 THEN {}
                                        ELSE guests[calls[t].guest].holds : GuestCloses(t, a)
    BY <1>1, <2>5, GuestClosesStep
  <2>6. CASE \E g \in DOMAIN guests : Snapshot(g) \/ Close(g)
    BY <2>6, QuietStep DEF Snapshot, Close
  <2>7. CASE UNCHANGED vars
    BY <2>7, QuietStep DEF vars
  <2> QED
    BY <2>1, <2>2, <2>3, <2>4, <2>5, <2>6, <2>7 DEF Next
<1>3. table' \subseteq DOMAIN guests'
  <2>0. table \subseteq DOMAIN guests'
    BY <1>1, GuestsShape DEF Inv, GuestsInv
  <2>1. ASSUME NEW t \in Threads, InsertVm(t) PROVE table' \subseteq DOMAIN guests'
    BY <2>0, <2>1 DEF InsertVm, Inv, Unreported
  <2>2. ASSUME NEW t \in Threads, NEW p \in Options, NEW image \in images, Restore(t, p, image)
        PROVE  table' \subseteq DOMAIN guests'
    <3>1. \/ table' = table
          \/ /\ table' = table \cup {Len(guests')}
             /\ \E memory : guests' = Append(guests, NewGuest(p, memory))
      BY <2>2 DEF Restore, Fails
    <3>2. (\E memory : guests' = Append(guests, NewGuest(p, memory)))
             => Len(guests') \in DOMAIN guests'
      BY DEF Inv, GuestsInv
    <3> QED
      BY <2>0, <3>1, <3>2
  <2>3. ASSUME NEW t \in Threads, NEW p \in Options, BootEx(t, p)
        PROVE  table' \subseteq DOMAIN guests'
    BY <2>0, <2>3 DEF BootEx, Fails
  <2>4. CASE \E g \in DOMAIN guests : Snapshot(g) \/ Close(g)
    BY <2>0, <2>4 DEF Snapshot, Close
  <2>5. CASE UNCHANGED vars
    BY <2>0, <2>5 DEF vars
  <2>6. CASE \E t \in Threads : \/ BootTick(t) \/ ReadResult(t) \/ TickEnds(t)
                                \/ \E g \in DOMAIN guests : Tick(t, g)
    BY <2>0, <2>6 DEF BootTick, ReadResult, TickEnds, Tick
  <2>7. CASE \E t \in Threads, e \in Effects, in_tick \in AskInTick : GuestAsks(t, e, in_tick)
    BY <2>0, <2>7 DEF GuestAsks
  <2>8. CASE \E t \in Threads : \E a \in IF calls[t].guest = 0 THEN {}
                                        ELSE guests[calls[t].guest].holds : GuestCloses(t, a)
    BY <2>0, <2>8 DEF GuestCloses
  <2> QED
    BY <2>1, <2>2, <2>3, <2>4, <2>5, <2>6, <2>7, <2>8 DEF Next
<1>4. images' \subseteq SUBSET Hold
  <2>1. ASSUME NEW g \in DOMAIN guests, Snapshot(g) PROVE images' \subseteq SUBSET Hold
    <3>1. guests[g].holds \in SUBSET Hold
      BY GuestNumbers DEF GuestShape
    <3> QED
      BY <2>1, <3>1 DEF Snapshot, Inv, GuestsInv
  <2>2. CASE UNCHANGED images
    BY <2>2 DEF Inv, GuestsInv
  <2>3. CASE Next
    <3>1. (\E g \in DOMAIN guests : Snapshot(g)) \/ UNCHANGED images
      BY <2>3 DEF Next, BootEx, Restore, Fails, BootTick, InsertVm, ReadResult, TickEnds,
                  Tick, GuestAsks, GuestCloses, Close
    <3> QED
      BY <2>1, <2>2, <3>1
  <2> QED
    BY <2>2, <2>3 DEF vars
<1>5. GuestsInv'
  <2>1. Len(guests') <= MaxVms
    BY <1>1, GuestsShape, GuestNumbers
  <2> QED
    BY <1>1, <1>3, <1>4, <2>1, GuestsShape DEF GuestsInv
<1> QED
  BY <1>1, <1>2, <1>5 DEF Inv

LEMMA InvHolds == Spec => []Inv
<1>1. Inv /\ [Next]_vars => Inv'
  BY StepInv
<1> QED
  BY <1>1, InitInv, PTL DEF Spec

\* A boot has no more than its ticks, a thread no guest that was not built, and
\* a guest no more than the effects there are.
THEOREM TypeCorrect == Spec => []TypeOK
<1>1. Inv => TypeOK
  <2> SUFFICES ASSUME Inv PROVE TypeOK
    OBVIOUS
  <2>1. \A t \in Threads :
          /\ calls[t].at \in {"idle", "boots", "works", "asks", "returned"}
          /\ calls[t].rc \in {0, -1} /\ calls[t].n \in 0 .. issued
          /\ calls[t].guest \in 0 .. Len(guests) /\ calls[t].ticks \in 0 .. MaxTicks
    BY GuestNumbers, BootAssumption DEF BootAssumption, Inv, CallsInv, CallShape
  <2>2. \A g \in DOMAIN guests :
          /\ guests[g].granted \subseteq Effects /\ guests[g].used \subseteq Effects
          /\ guests[g].relay \in Relay
          /\ guests[g].holds \cup guests[g].born \subseteq Hold
    BY GuestNumbers DEF GuestShape
  <2> QED
    BY <2>1, <2>2 DEF TypeOK, Inv, GuestsInv, CallsInv
<1> QED
  BY <1>1, InvHolds, PTL

\* However many threads call the library and however their calls are mixed, the
\* message a caller reads is that of its own failed call.
THEOREM ToldItsOwnErrorCorrect == Spec => []ToldItsOwnError
<1>1. Inv => ToldItsOwnError
  BY DEF Inv
<1> QED
  BY <1>1, InvHolds, PTL
-----------------------------------------------------------------------------
(* What a guest may do, and what it has asked for.                         *)

LEMMA AskedStep == Inv /\ GuestsChange /\ AskedIsKept => AskedIsKept'
<1> SUFFICES ASSUME Inv, GuestsChange, AskedIsKept PROVE AskedIsKept'
  OBVIOUS
<1> DEFINE Kept(guest, g) == guest.born = {} => \A a \in guest.holds :
                               a.vm = g /\ a.handle \in guest.relay.slots
<1>0. \A g \in DOMAIN guests : Kept(guests[g], g)
  BY DEF AskedIsKept
<1>1. SUFFICES \A g \in DOMAIN guests' : Kept(guests'[g], g)
  BY DEF AskedIsKept
<1>2. CASE guests' = guests
  BY <1>0, <1>2
<1>3. CASE Appended
  <2>1. PICK p \in Options, memory \in SUBSET Hold :
               guests' = Append(guests, NewGuest(p, memory))
    BY <1>3 DEF Appended
  <2> DEFINE guest == NewGuest(p, memory)
  <2>2. guest.born = {} => guest.holds = {}
    BY DEF NewGuest
  <2> HIDE DEF guest
  <2> QED
    BY <1>0, <2>1, <2>2 DEF guest, Inv, GuestsInv
<1>4. ASSUME NEW g \in DOMAIN guests, NEW new,
             guests' = [guests EXCEPT ![g] = new], Kept(new, g)
      PROVE  \A u \in DOMAIN guests' : Kept(guests'[u], u)
  BY <1>0, <1>4
<1>5. CASE \E g \in DOMAIN guests, e \in Effects : guests' = [guests EXCEPT ![g] = Asks(g, e)]
  <2>1. PICK g \in DOMAIN guests, e \in Effects : guests' = [guests EXCEPT ![g] = Asks(g, e)]
    BY <1>5
  <2>2. Kept(Asks(g, e), g)
    BY <1>0, AsksShape, GuestNumbers
  <2> QED
    BY <1>4, <2>1, <2>2
<1>6. CASE \E g \in DOMAIN guests : \E a \in guests[g].holds :
             guests' = [guests EXCEPT ![g] = Closed(g, a)]
  <2>0. PICK g \in DOMAIN guests : \E a \in guests[g].holds :
               guests' = [guests EXCEPT ![g] = Closed(g, a)]
    BY <1>6
  <2>1. PICK a \in guests[g].holds : guests' = [guests EXCEPT ![g] = Closed(g, a)]
    BY <2>0
  <2>2. Kept(Closed(g, a), g)
    <3>1. guests[g] \in GuestShape /\ guests[g].holds \subseteq Hold
      BY GuestNumbers DEF GuestShape
    <3>2. \A b \in guests[g].holds \ {a} : b.vm = a.vm => b.handle # a.handle
      BY <3>1 DEF Hold
    <3> QED
      BY <1>0, <3>1, <3>2, ClosedShape
  <2> QED
    BY <1>4, <2>1, <2>2
<1> QED
  BY <1>2, <1>3, <1>5, <1>6 DEF GuestsChange

\* A guest that remembers no other relay finds in its own every request that it
\* is not done with, those of its boot among them, whatever else is asked for.
THEOREM AskedIsKeptCorrect == Spec => []AskedIsKept
<1>1. Init => AskedIsKept
  BY DEF Init, AskedIsKept
<1> QED
  BY <1>1, AskedStep, StepInv, InvHolds, PTL DEF Spec

\* The options a guest was built with were not refused, and it has the
\* capabilities, the rules and the credentials they say.
AsPlanned(guest) ==
  /\ guest.opts \in Options /\ ~Refused(guest.opts)
  /\ guest.granted = Granted(guest.opts)
  /\ guest.used \subseteq guest.granted
  /\ guest.rules = ParsePolicies(guest.opts)
  /\ guest.credentials = ParseConnections(guest.opts)

PlanInv == \A g \in DOMAIN guests : AsPlanned(guests[g])

LEMMA PlanStep == Inv /\ GuestsChange /\ PlanInv => PlanInv'
<1> SUFFICES ASSUME Inv, GuestsChange, PlanInv PROVE PlanInv'
  OBVIOUS
<1>1. CASE guests' = guests
  BY <1>1 DEF PlanInv, AsPlanned
<1>2. CASE Appended
  <2>1. PICK p \in Options, memory \in SUBSET Hold :
               ~Refused(p) /\ guests' = Append(guests, NewGuest(p, memory))
    BY <1>2 DEF Appended
  <2>2. AsPlanned(NewGuest(p, memory))
    BY <2>1 DEF NewGuest, AsPlanned
  <2> QED
    BY <2>1, <2>2 DEF PlanInv, Inv, GuestsInv
<1>3. ASSUME NEW g \in DOMAIN guests, NEW new,
             guests' = [guests EXCEPT ![g] = new], AsPlanned(new)
      PROVE  PlanInv'
  BY <1>3 DEF PlanInv
<1>4. CASE \E g \in DOMAIN guests, e \in Effects : guests' = [guests EXCEPT ![g] = Asks(g, e)]
  <2>1. PICK g \in DOMAIN guests, e \in Effects : guests' = [guests EXCEPT ![g] = Asks(g, e)]
    BY <1>4
  <2>2. AsPlanned(Asks(g, e))
    BY AsksShape, GuestNumbers DEF PlanInv, AsPlanned
  <2> QED
    BY <1>3, <2>1, <2>2
<1>5. CASE \E g \in DOMAIN guests : \E a \in guests[g].holds :
             guests' = [guests EXCEPT ![g] = Closed(g, a)]
  <2>0. PICK g \in DOMAIN guests : \E a \in guests[g].holds :
               guests' = [guests EXCEPT ![g] = Closed(g, a)]
    BY <1>5
  <2>1. PICK a \in guests[g].holds : guests' = [guests EXCEPT ![g] = Closed(g, a)]
    BY <2>0
  <2>2. AsPlanned(Closed(g, a))
    BY ClosedShape, GuestNumbers DEF PlanInv, AsPlanned
  <2> QED
    BY <1>3, <2>1, <2>2
<1> QED
  BY <1>1, <1>2, <1>4, <1>5 DEF GuestsChange

\* No rule that the kernel would not know gets past the boot.
LEMMA RulesGood ==
  ASSUME NEW p \in Options, ~CapsRefused(p), p.net = 2
  PROVE  \A i \in DOMAIN p.policies.items : ~RuleRefused(p.policies.items[i])
<1>1. CASE p.policies.given
  BY <1>1 DEF CapsRefused, BlobRefused, BadRules
<1>2. CASE ~p.policies.given
  <2>1. p.policies.items = <<>>
    BY <1>2, BootAssumption DEF BootAssumption
  <2> QED
    BY <2>1
<1> QED
  BY <1>1, <1>2

\* Boot or restore, whatever the guest remembers and however long it runs: it
\* never has done for it what its options did not ask for, and RealNet works
\* for it under every rule.
THEOREM GrantedAsAskedCorrect == Spec => []GrantedAsAsked
<1>1. PlanInv => GrantedAsAsked
  <2> SUFFICES ASSUME PlanInv, NEW g \in DOMAIN guests
               PROVE  LET o == guests[g].opts
                          used == guests[g].used
                      IN  /\ "http" \in used => o.net = 1
                          /\ "approval" \in used => o.approval
                          /\ "host_call" \in used => o.host_call = 1 /\ ~o.sidecar_only
                          /\ "sidecar" \in used => o.host_call = 1
                          /\ "persist" \in used => o.persist = 1
                          /\ "real" \in used =>
                               /\ o.net = 2
                               /\ guests[g].rules = o.policies.items
                               /\ \A i \in DOMAIN guests[g].rules : ~RuleRefused(guests[g].rules[i])
                               /\ DOMAIN guests[g].credentials = DOMAIN o.connections.items
    BY DEF GrantedAsAsked
  <2> DEFINE o == guests[g].opts
  <2>1. /\ o \in Options /\ ~CapsRefused(o)
        /\ guests[g].used \subseteq Granted(o)
        /\ guests[g].rules = o.policies.items
        /\ DOMAIN guests[g].credentials = DOMAIN o.connections.items
    BY DEF PlanInv, AsPlanned, Refused, ParsePolicies, ParseConnections
  <2>2. /\ "http" \in Granted(o) => o.net = 1
        /\ "real" \in Granted(o) => o.net = 2
        /\ "approval" \in Granted(o) => o.approval
        /\ "host_call" \in Granted(o) => o.host_call = 1 /\ ~o.sidecar_only
        /\ "sidecar" \in Granted(o) => o.host_call = 1
        /\ "persist" \in Granted(o) => o.persist = 1
    BY DEF Granted, Effects
  <2>3. o.net = 2 => \A i \in DOMAIN o.policies.items : ~RuleRefused(o.policies.items[i])
    BY <2>1, RulesGood
  <2> HIDE DEF o
  <2> QED
    BY <2>1, <2>2, <2>3 DEF o
<1>2. Init => PlanInv
  BY DEF Init, PlanInv
<1> QED
  BY <1>1, <1>2, PlanStep, StepInv, InvHolds, PTL DEF Spec
=============================================================================
