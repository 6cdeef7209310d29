--------------------------------- MODULE Boot ---------------------------------
(***************************************************************************)
(* How a VM comes to be: the boot options, what they grant and refuse, the *)
(* ticks of a boot, restore (boot.rs; apply_boot_caps and the parsers of   *)
(* relay.rs), and the error a failed call leaves for its caller (error.rs, *)
(* lib/agent_os/vm.dart).                                                  *)
(*                                                                         *)
(* A call runs on one thread from its entry until Dart has read its        *)
(* result; the error slot is the thread's.  A boot ticks its guest before  *)
(* the VM has a handle, so what the guest asks for meanwhile waits in a    *)
(* relay that nobody can reach yet.  A snapshot holds the guest's memory,  *)
(* in it the relay handles it uses; the restored VM has a relay of its     *)
(* own, which knows none of them.                                          *)
(***************************************************************************)
EXTENDS Integers, SequencesExt

CONSTANTS
  Threads,     \* the threads that isolates run on
  Options,     \* the AosBootOpts that are passed
  MaxTicks,    \* the 64 of tick_toward_prompt
  AskInTick,   \* whether RealNet asks for an approval on the ticking thread
  MaxVms,      \* bound: guests built
  MaxAsks,     \* bound: requests of one guest
  MaxImages,   \* bound: snapshots the application keeps
  MaxCalls     \* bound: calls that may fail

ASSUME BootAssumption ==
  /\ MaxTicks \in Nat \ {0}
  /\ AskInTick \subseteq BOOLEAN
  /\ {MaxVms, MaxAsks, MaxImages, MaxCalls} \subseteq Nat
  /\ \A p \in Options : \A blob \in {p.connections, p.policies} :
       ~blob.given => blob.items = <<>>

VARIABLES
  error,   \* LAST_ERROR of each thread: the call whose message it is, or 0
  calls,   \* what each thread is doing
  guests,  \* the kernel hosts built, in order
  table,   \* those whose VM is in the table
  images,  \* the snapshots taken
  issued   \* auxiliary: calls so far

vars == <<error, calls, guests, table, images, issued>>
-----------------------------------------------------------------------------
(* The options.  A blob is JSON or not, and an array of items. *)

NoBlob == [given |-> FALSE, json |-> TRUE, items |-> <<>>]

DefaultPlan ==
  [base |-> "none", layers |-> "none", net |-> 0, host_call |-> 0,
   sidecar_only |-> FALSE, persist |-> 0, approval |-> FALSE,
   connections |-> NoBlob, policies |-> NoBlob]

\* read_opts: a length without a pointer, or both kinds of image.
OptsRefused(o) == \/ "null" \in {o.base, o.layers}
                  \/ o.base # "none" /\ o.layers # "none"

\* An origin list may be missing; a kind that is missing or no string is "none".
CredentialKinds == {"none", "bearer", "header", "query"}
ConnectionRefused(c) == \/ c.reference # "text"
                        \/ c.kind \notin CredentialKinds \cup {"absent", "odd"}
                        \/ c.origins = "odd"

RuleRefused(r) == \/ r.owner \notin {"org", "user"}
                  \/ r.pattern # "text"
                  \/ r.action \notin {"approve", "require_approval", "block"}

\* A blob is refused whole, for one bad item too.
BlobRefused(blob, bad) == blob.given /\ (~blob.json \/ bad # {})
BadConnections(p) == {i \in DOMAIN p.connections.items : ConnectionRefused(p.connections.items[i])}
BadRules(p) == {i \in DOMAIN p.policies.items : RuleRefused(p.policies.items[i])}

\* parse_policies_blob, of a blob that is not refused.
ParsePolicies(p) == p.policies.items

ParseConnections(p) ==
  [i \in DOMAIN p.connections.items |->
     LET c == p.connections.items[i]
     IN  [kind |-> IF c.kind \in CredentialKinds THEN c.kind ELSE "none",
          origins |-> IF c.origins = "text" THEN "given" ELSE "derived"]]

\* Mutant of CapsRefused: a bad rule does not stop the boot.
CapsRefusedButRules(p) ==
  \/ p.net \notin 0 .. 2 \/ p.host_call \notin 0 .. 1 \/ p.persist \notin 0 .. 1
  \/ p.net # 2 /\ (p.connections.given \/ p.policies.given \/ p.approval)
  \/ p.net = 2 /\ BlobRefused(p.connections, BadConnections(p))

\* apply_boot_caps: what is refused rather than ignored.
CapsRefused(p) ==
  \/ p.net \notin 0 .. 2 \/ p.host_call \notin 0 .. 1 \/ p.persist \notin 0 .. 1
  \/ p.net # 2 /\ (p.connections.given \/ p.policies.given \/ p.approval)
  \/ p.net = 2 /\ \/ BlobRefused(p.connections, BadConnections(p))
                  \/ BlobRefused(p.policies, BadRules(p))

\* What a guest can have done for it.  "real" is the work of RealNet; the
\* others are events of the relay.
Effects == {"http", "real", "approval", "host_call", "sidecar", "persist"}

\* apply_boot_caps: the capabilities attached; what is not attached is denied.
Granted(p) ==
  {e \in Effects :
     CASE e = "http"      -> p.net = 1
       [] e = "real"      -> p.net = 2
       [] e = "approval"  -> p.net = 2 /\ p.approval
       [] e = "host_call" -> p.host_call = 1 /\ ~p.sidecar_only
       [] e = "sidecar"   -> p.host_call = 1
       [] e = "persist"   -> p.persist = 1}
-----------------------------------------------------------------------------
\* Of a relay: the counter and the slots; what becomes of them is in module Relay.
Relay == [next : Nat, slots : SUBSET Nat]
NewRelay == [next |-> 1, slots |-> {}]

\* A handle the guest's memory holds, with the VM whose relay gave it out.
Hold == [vm : 1 .. MaxVms, handle : Nat]

Idle == [op |-> "none", n |-> 0, guest |-> 0, rc |-> 0, ticks |-> 0, at |-> "idle"]

TypeOK ==
  /\ error \in [Threads -> 0 .. MaxCalls]
  /\ \A t \in Threads :
       /\ calls[t].at \in {"idle", "boots", "works", "asks", "returned"}
       /\ calls[t].rc \in {0, -1} /\ calls[t].n \in 0 .. issued
       /\ calls[t].guest \in 0 .. Len(guests) /\ calls[t].ticks \in 0 .. MaxTicks
  /\ \A g \in DOMAIN guests :
       /\ guests[g].granted \subseteq Effects /\ guests[g].used \subseteq Effects
       /\ guests[g].relay \in Relay
       /\ guests[g].holds \cup guests[g].born \subseteq Hold
  /\ Len(guests) <= MaxVms /\ table \subseteq DOMAIN guests
  /\ images \subseteq SUBSET Hold
  /\ issued \in 0 .. MaxCalls

Init ==
  /\ error = [t \in Threads |-> 0]
  /\ calls = [t \in Threads |-> Idle]
  /\ guests = <<>> /\ table = {} /\ images = {} /\ issued = 0

\* A tick or a command holds the lock of the table until it returns, also while
\* it waits in approve().
Locked == \E t \in Threads : /\ calls[t].op = "tick"
                             /\ calls[t].at \in {"works", "asks"}
-----------------------------------------------------------------------------
\* Mutant of Enter: the entry point does not clear the error.
EnterUncleared(t) ==
  /\ calls[t].at = "idle" /\ issued < MaxCalls
  /\ issued' = issued + 1
  /\ error' = error

\* Thread t enters the library with a call that may fail: clear_error.
Enter(t) ==
  /\ calls[t].at = "idle" /\ issued < MaxCalls
  /\ issued' = issued + 1
  /\ error' = [error EXCEPT ![t] = 0]

Returns(t, op, g, rc) ==
  calls' = [calls EXCEPT ![t] = [op |-> op, n |-> issued', guest |-> g,
                                 rc |-> rc, ticks |-> 0, at |-> "returned"]]

\* set_error, and -1.
Fails(t, op) ==
  /\ calls[t].at = "idle" /\ issued < MaxCalls
  /\ issued' = issued + 1
  /\ error' = [error EXCEPT ![t] = issued']
  /\ Returns(t, op, 0, -1)
  /\ UNCHANGED <<guests, table, images>>

\* The capabilities of a new guest are those of the plan, whatever it remembers.
NewGuest(p, memory) ==
  [opts |-> p, granted |-> Granted(p), rules |-> ParsePolicies(p),
   credentials |-> ParseConnections(p), used |-> {}, relay |-> NewRelay,
   holds |-> memory, born |-> memory]

Refused(p) == OptsRefused(p) \/ CapsRefused(p)

\* aos_vm_boot and aos_vm_boot_ex, up to the first tick; build() may fail too.
BootEx(t, p) ==
  \/ Fails(t, "boot")
  \/ /\ ~Refused(p) /\ Len(guests) < MaxVms
     /\ Enter(t)
     /\ guests' = Append(guests, NewGuest(p, {}))
     /\ calls' = [calls EXCEPT ![t] = [op |-> "boot", n |-> issued', rc |-> 0, ticks |-> 0,
                                       guest |-> Len(guests'), at |-> "boots"]]
     /\ UNCHANGED <<table, images>>

\* aos_vm_restore: no image of the options, no contract and no tick; a relay
\* that begins anew.  Whether the host lets go of requests that were in flight
\* is not known here: the guest remembers its handles, or none.
Restore(t, p, image) ==
  \/ Fails(t, "restore")
  \/ /\ ~Refused(p) /\ Len(guests) < MaxVms /\ ~Locked
     /\ Enter(t)
     /\ \E memory \in {image, {}} : guests' = Append(guests, NewGuest(p, memory))
     /\ table' = table \cup {Len(guests')}
     /\ Returns(t, "restore", Len(guests'), 0)
     /\ UNCHANGED images
-----------------------------------------------------------------------------
(* The guest. *)

\* Guest g asks for effect e: refused, done by RealNet, or left to its relay.
\* The handle of an approval is held by approve(), outside the guest's memory.
Asks(g, e) ==
  LET guest == guests[g]
      h == guest.relay.next
      asked == [guest EXCEPT !.used = @ \cup {e},
                             !.relay = [next |-> h + 1, slots |-> @.slots \cup {h}]]
  IN  CASE e \notin guest.granted -> guest
        [] e \in guest.granted \cap {"real"} -> [guest EXCEPT !.used = @ \cup {e}]
        [] e \in guest.granted \cap {"approval"} -> asked
        [] OTHER -> [asked EXCEPT !.holds = @ \cup {[vm |-> g, handle |-> h]}]

MayAsk(g) == guests[g].relay.next <= MaxAsks

\* Mutant of BootTick: a guest that asks for something gets its ticks anew.
BootTickAnew(t) ==
  LET g == calls[t].guest
  IN  /\ calls[t].at = "boots"
      /\ calls' = [calls EXCEPT ![t].ticks = (@ + 1) % MaxTicks]
      /\ UNCHANGED <<error, guests, table, images, issued>>

(***************************************************************************)
(* One tick of tick_toward_prompt that leaves the guest runnable.  An      *)
(* approval may be asked for on this thread, which then waits in approve() *)
(* for an answer to a VM that is not in the table.                         *)
(***************************************************************************)
BootTick(t) ==
  LET g == calls[t].guest
  IN  /\ calls[t].at = "boots"
      /\ calls[t].ticks < MaxTicks
      /\ \/ /\ calls' = [calls EXCEPT ![t].ticks = @ + 1]
            /\ UNCHANGED guests
         \/ \E e \in Effects, in_tick \in AskInTick :
              /\ MayAsk(g)
              /\ guests' = [guests EXCEPT ![g] = Asks(g, e)]
              /\ calls' = [calls EXCEPT ![t].ticks = @ + 1,
                             ![t].at = IF e = "approval" /\ in_tick /\ e \in guests[g].granted
                                       THEN "asks" ELSE @]
      /\ UNCHANGED <<error, table, images, issued>>

\* Mutant of InsertVm: the VM gets a relay of its own, not that of its guest.
InsertVmNewRelay(t) ==
  LET g == calls[t].guest
  IN  /\ calls[t].at = "boots" /\ ~Locked
      /\ table' = table \cup {g}
      /\ guests' = [guests EXCEPT ![g].relay = NewRelay]
      /\ calls' = [calls EXCEPT ![t].at = "returned"]
      /\ UNCHANGED <<error, images, issued>>

\* The guest waits, has exited, failed, is at its prompt, or has had its ticks.
InsertVm(t) ==
  /\ calls[t].at = "boots" /\ ~Locked
  /\ table' = table \cup {calls[t].guest}
  /\ calls' = [calls EXCEPT ![t].at = "returned"]
  /\ UNCHANGED <<error, guests, images, issued>>

\* The isolate reads the result, and the message if it is -1, and ends.
ReadResult(t) ==
  /\ calls[t].at = "returned"
  /\ calls' = [calls EXCEPT ![t] = Idle]
  /\ UNCHANGED <<error, guests, table, images, issued>>
-----------------------------------------------------------------------------
(* What happens to a VM that is in the table. *)

\* A tick of the session, or a command: with_vm, with the lock.
Tick(t, g) ==
  /\ g \in table /\ ~Locked
  /\ Enter(t)
  /\ calls' = [calls EXCEPT ![t] = [op |-> "tick", n |-> issued', guest |-> g,
                                    rc |-> 0, ticks |-> 0, at |-> "works"]]
  /\ UNCHANGED <<guests, table, images>>

\* The guest asks in it, perhaps for an approval on the ticking thread.
GuestAsks(t, e, in_tick) ==
  LET g == calls[t].guest
  IN  /\ calls[t].at = "works" /\ MayAsk(g)
      /\ guests' = [guests EXCEPT ![g] = Asks(g, e)]
      /\ calls' = IF e = "approval" /\ in_tick /\ e \in guests[g].granted
                  THEN [calls EXCEPT ![t].at = "asks"] ELSE calls
      /\ UNCHANGED <<error, table, images, issued>>

\* The guest is done with a request: the slot of that handle goes.
GuestCloses(t, a) ==
  LET g == calls[t].guest
  IN  /\ calls[t].at \in {"boots", "works"}
      /\ guests' = [guests EXCEPT ![g] = [guests[g] EXCEPT !.holds = @ \ {a},
                                                  !.relay.slots = @ \ {a.handle}]]
      /\ UNCHANGED <<error, calls, table, images, issued>>

\* It ends, fails with a message, or its answer does not fit the buffer, of
\* which fill_buf says nothing.
TickEnds(t) ==
  /\ calls[t].at = "works"
  /\ \E rc \in {0, -1}, op \in {"tick", "overflow"} :
       /\ op = "overflow" => rc = -1
       /\ calls' = [calls EXCEPT ![t].at = "returned", ![t].rc = rc, ![t].op = op]
       /\ error' = IF op = "tick" /\ rc = -1 THEN [error EXCEPT ![t] = calls[t].n] ELSE error
  /\ UNCHANGED <<guests, table, images, issued>>

Snapshot(g) ==
  /\ g \in table /\ ~Locked /\ Cardinality(images) < MaxImages
  /\ images' = images \cup {guests[g].holds}
  /\ UNCHANGED <<error, calls, guests, table, issued>>

\* aos_vm_close of the VM of guest g.
Close(g) ==
  /\ g \in table /\ ~Locked
  /\ table' = table \ {g}
  /\ UNCHANGED <<error, calls, guests, images, issued>>

Next ==
  \/ \E t \in Threads :
       \/ \E p \in Options : \/ BootEx(t, p)
                             \/ \E image \in images : Restore(t, p, image)
       \/ BootTick(t) \/ InsertVm(t) \/ ReadResult(t)
       \/ \E g \in DOMAIN guests : Tick(t, g)
       \/ \E e \in Effects, in_tick \in AskInTick : GuestAsks(t, e, in_tick)
       \/ \E a \in IF calls[t].guest = 0 THEN {} ELSE guests[calls[t].guest].holds :
            GuestCloses(t, a)
       \/ TickEnds(t)
  \/ \E g \in DOMAIN guests : Snapshot(g) \/ Close(g)

Spec == Init /\ [][Next]_vars

\* A thread in the library goes on unless it waits for an approval.
FairSpec ==
  /\ Spec
  /\ \A t \in Threads :
       WF_vars(BootTick(t) \/ InsertVm(t) \/ TickEnds(t) \/ ReadResult(t))
-----------------------------------------------------------------------------
(* Properties. *)

\* A call that fails leaves its own message for the isolate that made it, or
\* none if a buffer was too small: never that of an earlier call on the thread,
\* nor that of a call on another (error.rs:8-20, vm.dart:364-368).
ToldItsOwnError ==
  \A t \in Threads :
    calls[t].at = "returned" /\ calls[t].rc = -1 =>
      error[t] = IF calls[t].op = "overflow" THEN 0 ELSE calls[t].n

\* Whatever a guest has had done for it, its own options asked for, and RealNet
\* worked for it under every rule and credential of the options; a restored
\* guest is no exception (docs/aos-c-api.md:72 and :446,
\* docs/agentos-capabilities.md:131).
GrantedAsAsked ==
  \A g \in DOMAIN guests :
    LET o == guests[g].opts
        used == guests[g].used
    IN  /\ "http" \in used => o.net = 1
        /\ "approval" \in used => o.approval
        /\ "host_call" \in used => o.host_call = 1 /\ ~o.sidecar_only
        /\ "sidecar" \in used => o.host_call = 1
        /\ "persist" \in used => o.persist = 1
        /\ "real" \in used =>
             /\ o.net = 2
             /\ guests[g].rules = o.policies.items
             /\ \A i \in DOMAIN guests[g].rules : ~RuleRefused(guests[g].rules[i])
             /\ DOMAIN guests[g].credentials = DOMAIN o.connections.items

\* What a guest has asked of its relay, be it before its VM had a handle, stays
\* there until the guest is done with it.  Not so of a guest restored with
\* handles of another relay: closing one takes the slot of a request it has
\* made since.
AskedIsKept ==
  \A g \in DOMAIN guests :
    guests[g].born = {} =>
      \A a \in guests[g].holds : a.vm = g /\ a.handle \in guests[g].relay.slots

\* A boot ends, be the guest at its prompt or not and whoever uses the table
\* meanwhile, unless its own thread or one that holds the table's lock waits for
\* an approval that nobody can give (boot.rs:195-207, table.rs:136).
BootReturns ==
  \A t \in Threads :
    calls[t].at = "boots" ~>
      calls[t].at # "boots" \/ \E u \in Threads : calls[u].at = "asks"
=============================================================================
