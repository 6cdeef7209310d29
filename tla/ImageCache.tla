------------------------------ MODULE ImageCache ------------------------------
(***************************************************************************)
(* lib/vt/image_cache.dart: VtImageCache keeps one decoded ui.Image for    *)
(* each Kitty graphics placement and the lists the painter draws from.     *)
(* sync() is called by the live loop and by scrolling and resizing; it     *)
(* awaits one decode after another, and what runs in between (a paint,     *)
(* another sync(), dispose()) sees what it has done so far.                *)
(*                                                                         *)
(* A layer is its key and the generation of its pixels.  A ui.Image is     *)
(* named by its key, the generation decoded and the sync() that decoded it.*)
(*                                                                         *)
(* A ProductSession owns one.  What both modules define carries the word   *)
(* Images here, so that one module can extend the two.                     *)
(***************************************************************************)
EXTENDS Integers, FiniteSets

CONSTANTS
  NKeys,      \* the placements are 1..NKeys, in the order of the layer list
  MaxContent, \* bound: generations of the pixels of one placement
  Malformed,  \* generations whose pixel buffer is too short to decode
  MaxToken,   \* bound: number of calls of sync() and dispose()
  MaxSyncs    \* bound: calls of sync() in flight

ASSUME ImageAssumption ==
  /\ {NKeys, MaxContent, MaxToken, MaxSyncs} \subseteq Nat
  /\ Malformed \subseteq 1 .. MaxContent

VARIABLES
  content,  \* the terminal: generation of each placement, 0 while it is unused
  placed,   \* the terminal: the placements on the screen
  images,   \* _images and _gens: the decoded image of each key, or NoImage
  live,     \* the ui.Images that have not been disposed
  paint,    \* _paintBelow and _paintAbove
  token,    \* _syncGen
  syncs,    \* the calls of sync() waiting for a decode
  wanted    \* auxiliary: the layers of the newest sync(), as of its call

imageVars == <<content, placed, images, live, paint, token, syncs, wanted>>
-----------------------------------------------------------------------------
Keys == 1 .. NKeys
NoImage == [key |-> 0, gen |-> 0, by |-> 0]
Image == [key : Keys, gen : 1 .. MaxContent, by : 1 .. MaxToken]
Layers == UNION {[S -> 1 .. MaxContent] : S \in SUBSET Keys}

ImagesTypeOK ==
  /\ content \in [Keys -> 0 .. MaxContent]
  /\ placed \subseteq Keys
  /\ images \in [Keys -> Image \cup {NoImage}]
  /\ live \subseteq Image /\ paint \subseteq Image
  /\ token \in 0 .. MaxToken
  /\ \A s \in syncs : s.token \in 1 .. token /\ s.at \in DOMAIN s.layers
  /\ wanted \in Layers

ImagesInit ==
  /\ content = [k \in Keys |-> 0] /\ placed = {}
  /\ images = [k \in Keys |-> NoImage]
  /\ live = {} /\ paint = {}
  /\ token = 0 /\ syncs = {} /\ wanted = <<>>

\* The guest places an image or replaces its pixels, or deletes the placement.
Place(k) ==
  /\ content[k] < MaxContent
  /\ content' = [content EXCEPT ![k] = @ + 1]
  /\ placed' = placed \cup {k}
  /\ UNCHANGED <<images, live, paint, token, syncs, wanted>>

Unplace(k) ==
  /\ k \in placed
  /\ placed' = placed \ {k}
  /\ UNCHANGED <<content, images, live, paint, token, syncs, wanted>>
-----------------------------------------------------------------------------
\* Mutant of ToDecode: an image of an older generation is as good.
MissingOnly(layers, k, imgs) ==
  {j \in DOMAIN layers : /\ j >= k
                         /\ imgs[j] = NoImage
                         /\ layers[j] \notin Malformed}

\* The layers from key k on that are not in the cache as they should be.
\* _decodeLayer gives null at once for a buffer too short: no await, no effect.
ToDecode(layers, k, imgs) ==
  {j \in DOMAIN layers : /\ j >= k
                         /\ imgs[j].gen # layers[j]
                         /\ layers[j] \notin Malformed}

\* After the loop: drop what is not needed and build the paint lists.
Finish(layers, imgs, undisposed) ==
  /\ images' = [k \in Keys |-> IF k \in DOMAIN layers THEN imgs[k] ELSE NoImage]
  /\ live' = undisposed \ {imgs[k] : k \in Keys \ DOMAIN layers}
  /\ paint' = {imgs[k] : k \in DOMAIN layers} \ {NoImage}

\* The loop of sync() from key k on, up to the next decode it awaits or to its
\* end.  others are the calls of sync() in flight but this one.
LoopFrom(t, layers, k, imgs, undisposed, others) ==
  LET todo == ToDecode(layers, k, imgs)
  IN  IF todo = {}
      THEN Finish(layers, imgs, undisposed) /\ syncs' = others
      ELSE /\ \E next \in todo :
                /\ \A j \in todo : next <= j
                /\ syncs' = others \cup {[token |-> t, layers |-> layers, at |-> next]}
           /\ images' = imgs /\ live' = undisposed
           /\ UNCHANGED paint

SyncCall ==
  /\ token < MaxToken /\ Cardinality(syncs) < MaxSyncs
  /\ token' = token + 1
  /\ wanted' = [k \in placed |-> content[k]]
  /\ LoopFrom(token', wanted', 1, images, live, syncs)
  /\ UNCHANGED <<content, placed>>

\* Mutant of Decoded: the image of a call that is no longer the newest is kept.
DecodedAnyToken(s) ==
  LET img == [key |-> s.at, gen |-> s.layers[s.at], by |-> s.token]
  IN  /\ LoopFrom(s.token, s.layers, s.at + 1, [images EXCEPT ![s.at] = img],
                  (live \ {images[s.at]}) \cup {img}, syncs \ {s})
      /\ UNCHANGED <<content, placed, token, wanted>>

\* Mutant of Decoded: the image of an abandoned call is not disposed.
DecodedLeak(s) ==
  LET img == [key |-> s.at, gen |-> s.layers[s.at], by |-> s.token]
  IN  /\ IF s.token # token
         THEN live' = live \cup {img} /\ syncs' = syncs \ {s} /\ UNCHANGED <<images, paint>>
         ELSE LoopFrom(s.token, s.layers, s.at + 1, [images EXCEPT ![s.at] = img],
                       (live \ {images[s.at]}) \cup {img}, syncs \ {s})
      /\ UNCHANGED <<content, placed, token, wanted>>

(***************************************************************************)
(* _decodeLayer returned.  A newer call or dispose() has taken over: the   *)
(* image is dropped.  Otherwise it replaces the one in the cache, which is *)
(* disposed here, before the paint lists are built again.                  *)
(***************************************************************************)
Decoded(s) ==
  LET img == [key |-> s.at, gen |-> s.layers[s.at], by |-> s.token]
  IN  /\ IF s.token # token
         THEN syncs' = syncs \ {s} /\ UNCHANGED <<images, live, paint>>
         ELSE LoopFrom(s.token, s.layers, s.at + 1, [images EXCEPT ![s.at] = img],
                       (live \ {images[s.at]}) \cup {img}, syncs \ {s})
      /\ UNCHANGED <<content, placed, token, wanted>>

DisposeImages ==
  /\ token < MaxToken
  /\ token' = token + 1
  /\ live' = live \ {images[k] : k \in Keys}
  /\ images' = [k \in Keys |-> NoImage]
  /\ paint' = {}
  /\ wanted' = <<>>
  /\ UNCHANGED <<content, placed, syncs>>
-----------------------------------------------------------------------------
ImagesNext ==
  \/ \E k \in Keys : Place(k) \/ Unplace(k)
  \/ SyncCall
  \/ \E s \in syncs : Decoded(s)
  \/ DisposeImages

ImagesSpec == ImagesInit /\ [][ImagesNext]_imageVars
-----------------------------------------------------------------------------
(* Properties. *)

\* The painter may run at any await: what the paint lists name can be drawn
\* (image_cache.dart:22, "Safe to call every frame").
PaintListLive == paint \subseteq live

\* Every ui.Image that has not been disposed is one the cache can still reach,
\* whichever calls were overtaken (image_cache.dart:45-48, :59-64).
NoImageLeak == live \subseteq {images[k] : k \in Keys}

\* A call that was overtaken never brings older pixels back to the screen.
PaintNeverGoesBack ==
  [][\A p \in paint, q \in paint' : p.key = q.key => p.gen <= q.gen]_imageVars

\* Once no call waits, the paint lists show the layers of the newest call, but
\* for those it could not decode.
SettledPaint ==
  syncs = {} =>
    /\ \A p \in paint : p.key \in DOMAIN wanted
    /\ \A k \in DOMAIN wanted :
         wanted[k] \notin Malformed => \E p \in paint : p.key = k /\ p.gen = wanted[k]
=============================================================================
