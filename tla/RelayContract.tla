---------------------------- MODULE RelayContract ----------------------------
(***************************************************************************)
(* What one request to the relay goes through, whatever its kind and       *)
(* wherever its handle, slot and frame are kept: the guest asks, the       *)
(* application is told, it answers, the guest is done with it.  Module     *)
(* Relay implements this.                                                  *)
(***************************************************************************)
EXTENDS Integers

CONSTANTS
  MaxRequests,  \* bound: requests asked
  MayLose       \* whether a frame may be pulled into a buffer it does not fit

VARIABLE phase  \* of each request, in the order they are asked
-----------------------------------------------------------------------------
Requests == 1 .. MaxRequests

Phases == {"new", "refused", "queued", "told", "lost", "answered", "over"}

TypeOK == phase \in [Requests -> Phases]

Init == phase = [r \in Requests |-> "new"]

Goes(r, from, to) == /\ phase[r] \in from
                     /\ phase' = [phase EXCEPT ![r] = to]

\* The guest asks, or what it asks for is refused on the spot.
Ask(r) == /\ \A q \in 1 .. r - 1 : phase[q] # "new"
          /\ Goes(r, {"new"}, "queued") \/ Goes(r, {"new"}, "refused")

\* The application pulls the frame, or the frame is lost on the way.
Tell(r) == \/ Goes(r, {"queued"}, "told")
           \/ MayLose /\ Goes(r, {"queued"}, "lost")

\* Only who was told of a request answers it.  A later answer changes nothing here.
Respond(r) == Goes(r, {"told"}, "answered")

\* The guest closes the request; answered or not, it does not come back.
Finish(r) == Goes(r, {"queued", "told", "lost", "answered"}, "over")

Step(r) == Ask(r) \/ Tell(r) \/ Respond(r) \/ Finish(r)

\* What the relay does besides is a stutter here.
Next == phase' # phase /\ \E r \in Requests : Step(r)

Spec == Init /\ [][Next]_phase
=============================================================================
