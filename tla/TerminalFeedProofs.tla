-------------------------- MODULE TerminalFeedProofs --------------------------
(***************************************************************************)
(* TLAPS proofs about TerminalFeed, for any banners, chunks, heights and   *)
(* bounds.  First what the filter and the terminal compute, then one       *)
(* invariant for each property:                                            *)
(*   TextInv    the characters shown, carried and dropped are the ones     *)
(*              printed, and a carried tail is a banner's beginning        *)
(*   TermInv    the shape of the screen and of the frame                   *)
(*   RenderInv  the flags of the terminal cover every row in which the     *)
(*              frame is not what is shown                                 *)
(*   EffectInv  answers are with the terminal, with the tick or sent, in   *)
(*              their order                                                *)
(***************************************************************************)
EXTENDS TerminalFeed, FiniteSetTheorems, SequenceTheorems, WellFoundedInduction, TLAPS

(* What the recursive functions of the filter and of the terminal compute.   *)
(* Induction is over a set of numbers, so that the lemma can be cited.       *)

LEMMA UpTo ==
  ASSUME NEW n \in Nat, NEW P, 0 \in P, \A i \in 0 .. n - 1 : i \in P => i + 1 \in P
  PROVE  0 .. n \subseteq P
<1> DEFINE Q == (0 .. n) \ P
           less == OpToRel(<, Nat)
<1>1. SUFFICES ASSUME Q # {} PROVE FALSE
  OBVIOUS
<1>2. \A x, y \in Nat : x < y => <<x, y>> \in less
  BY DEF OpToRel
<1>3. IsWellFoundedOn(less, Nat) /\ Q \in SUBSET Nat
  <2>1. Q \in SUBSET Nat
    OBVIOUS
  <2> QED
    BY <2>1, NatLessThanWellFounded
<1> HIDE DEF less
<1>4. PICK a \in Q : \A b \in Q : ~ (<<b, a>> \in less)
  BY <1>1, <1>3, WFMin
<1>5. a \in Nat /\ a # 0 /\ a <= n
  OBVIOUS
<1>6. a - 1 \in P
  <2>1. a - 1 \in Nat /\ a - 1 < a /\ a - 1 \in 0 .. n
    BY <1>5
  <2>2. <<a - 1, a>> \in less
    BY <1>2, <1>5, <2>1, Zenon
  <2> QED
    BY <1>4, <2>1, <2>2
<1>7. a - 1 \in 0 .. n - 1 /\ a - 1 + 1 = a
  BY <1>5
<1>8. a \in P
  BY <1>6, <1>7
<1> QED
  BY <1>8

\* A function that is defined along the numbers exists.
Iterated(g, n, x0, step) == g[0] = x0 /\ \A i \in 1 .. n : g[i] = step[<<i, g[i - 1]>>]

LEMMA Iterates ==
  ASSUME NEW n \in Nat, NEW X, NEW x0 \in X, NEW step \in [(1 .. n) \X X -> X]
  PROVE  \E g \in [0 .. n -> X] : Iterated(g, n, x0, step)
<1> DEFINE P == {k \in 0 .. n : \E g \in [0 .. k -> X] :
                   g[0] = x0 /\ \A i \in 1 .. k : g[i] = step[<<i, g[i - 1]>>]}
<1>1. 0 \in P
  <2> DEFINE g == [i \in 0 .. 0 |-> x0]
  <2>1. g \in [0 .. 0 -> X] /\ g[0] = x0 /\ \A i \in 1 .. 0 : g[i] = step[<<i, g[i - 1]>>]
    OBVIOUS
  <2> HIDE DEF g
  <2> QED
    BY <2>1
<1>2. ASSUME NEW k \in 0 .. n - 1, k \in P PROVE k + 1 \in P
  <2>1. PICK g \in [0 .. k -> X] : g[0] = x0 /\ \A i \in 1 .. k : g[i] = step[<<i, g[i - 1]>>]
    BY <1>2
  <2> DEFINE h == [i \in 0 .. k + 1 |-> IF i = k + 1 THEN step[<<k + 1, g[k]>>] ELSE g[i]]
  <2>2. k + 1 \in 1 .. n /\ g[k] \in X
    OBVIOUS
  <2>3. step[<<k + 1, g[k]>>] \in X
    BY <2>2
  <2>4. h \in [0 .. k + 1 -> X]
    BY <2>3
  <2>5. h[0] = x0 /\ \A i \in 1 .. k + 1 : h[i] = step[<<i, h[i - 1]>>]
    <3>1. h[0] = x0
      BY <2>1
    <3>2. ASSUME NEW i \in 1 .. k PROVE h[i] = step[<<i, h[i - 1]>>]
      BY <2>1
    <3>3. h[k + 1] = step[<<k + 1, h[k]>>]
      <4>1. k \in 0 .. k + 1 /\ k + 1 \in 0 .. k + 1 /\ k # k + 1
        OBVIOUS
      <4>2. h[k] = g[k] /\ h[k + 1] = step[<<k + 1, g[k]>>]
        BY <4>1
      <4> QED
        BY <4>2
    <3>4. \A i \in 1 .. k + 1 : i \in 1 .. k \/ (i = k + 1 /\ i - 1 = k)
      OBVIOUS
    <3> HIDE DEF h
    <3> QED
      BY <3>1, <3>2, <3>3, <3>4
  <2>6. k + 1 \in 0 .. n
    OBVIOUS
  <2> HIDE DEF h
  <2> QED
    BY <2>4, <2>5, <2>6
<1> HIDE DEF P
<1>3. n \in P
  BY <1>1, <1>2, UpTo
<1> QED
  BY <1>3 DEF P, Iterated

LEMMA GreatestIn ==
  ASSUME NEW n \in Nat, NEW S \in SUBSET (0 .. n), 0 \in S
  PROVE  Max(S) \in S /\ \A y \in S : y <= Max(S)
<1> DEFINE P == {k \in 0 .. n : \E m \in S : \A y \in S : y <= k => y <= m}
<1>1. 0 \in P
  OBVIOUS
<1>2. ASSUME NEW k \in 0 .. n - 1, k \in P PROVE k + 1 \in P
  <2>1. PICK m \in S : \A y \in S : y <= k => y <= m
    BY <1>2
  <2>2. CASE k + 1 \in S
    <3>1. \A y \in S : y <= k + 1 => y <= k + 1
      OBVIOUS
    <3> QED
      BY <2>2, <3>1
  <2>3. CASE k + 1 \notin S
    <3>1. \A y \in S : y <= k + 1 => y <= m
      BY <2>1, <2>3
    <3> QED
      BY <3>1
  <2> QED
    BY <2>2, <2>3
<1> HIDE DEF P
<1>3. n \in P
  BY <1>1, <1>2, UpTo
<1>4. PICK m \in S : \A y \in S : y <= m
  BY <1>3 DEF P
<1>5. \A y \in S : m >= y
  BY <1>4
<1> QED
  BY <1>5 DEF Max

\* The steps of Without.
LEMMA WithoutSteps ==
  ASSUME NEW C, NEW s \in Seq(C), NEW gone
  PROVE  \E f : /\ Without(s, gone) = f[Len(s)] /\ f[0] = <<>>
                /\ \A i \in 1 .. Len(s) :
                     f[i] = IF s[i] \in gone THEN f[i - 1] ELSE Append(f[i - 1], s[i])
<1> DEFINE n == Len(s)
           body(f) == [i \in 0 .. n |-> IF i = 0 THEN <<>>
                         ELSE IF s[i] \in gone THEN f[i - 1] ELSE Append(f[i - 1], s[i])]
           step == [p \in (1 .. n) \X Seq(C) |->
                      IF s[p[1]] \in gone THEN p[2] ELSE Append(p[2], s[p[1]])]
           kept == CHOOSE f : f = body(f)
<1>1. n \in Nat /\ <<>> \in Seq(C)
  OBVIOUS
<1>2. step \in [(1 .. n) \X Seq(C) -> Seq(C)]
  <2> SUFFICES ASSUME NEW i \in 1 .. n, NEW t \in Seq(C)
               PROVE  (IF s[i] \in gone THEN t ELSE Append(t, s[i])) \in Seq(C)
    OBVIOUS
  <2> QED
    OBVIOUS
<1>3. \A i \in 1 .. n, t \in Seq(C) :
        step[<<i, t>>] = IF s[i] \in gone THEN t ELSE Append(t, s[i])
  OBVIOUS
<1> HIDE DEF step, n
<1>4. PICK g \in [0 .. n -> Seq(C)] : Iterated(g, n, <<>>, step)
  BY <1>1, <1>2, Iterates, Zenon
<1>5. \A i \in 1 .. n : i - 1 \in 0 .. n /\ g[i - 1] \in Seq(C)
  BY <1>1
<1>6. \A i \in 1 .. n : g[i] = IF s[i] \in gone THEN g[i - 1] ELSE Append(g[i - 1], s[i])
  BY <1>3, <1>4, <1>5 DEF Iterated
<1>7. \A i \in 0 .. n : i = 0 \/ i \in 1 .. n
  BY <1>1
<1>8. \A i \in 0 .. n : g[i] = IF i = 0 THEN <<>>
                         ELSE IF s[i] \in gone THEN g[i - 1] ELSE Append(g[i - 1], s[i])
  BY <1>4, <1>6, <1>7 DEF Iterated
<1>9. g = body(g)
  BY <1>8
<1>10. kept = body(kept)
  BY <1>9
<1>11. Without(s, gone) = kept[n]
  BY DEF Without, n
<1> HIDE DEF kept
<1>12. kept[0] = <<>> /\ \A i \in 1 .. n :
         kept[i] = IF s[i] \in gone THEN kept[i - 1] ELSE Append(kept[i - 1], s[i])
  <2>1. \A i \in 0 .. n : body(kept)[i] = IF i = 0 THEN <<>>
           ELSE IF s[i] \in gone THEN kept[i - 1] ELSE Append(kept[i - 1], s[i])
    OBVIOUS
  <2>2. \A i \in 0 .. n : kept[i] = IF i = 0 THEN <<>>
           ELSE IF s[i] \in gone THEN kept[i - 1] ELSE Append(kept[i - 1], s[i])
    BY <1>10, <2>1
  <2> QED
    BY <1>1, <2>2
<1> QED
  BY <1>11, <1>12 DEF n

\* What is left of s is in the order of s.
LEMMA WithoutIs ==
  ASSUME NEW C, NEW s \in Seq(C), NEW gone
  PROVE  /\ Without(s, gone) \in Seq(C)
         /\ ToSet(Without(s, gone)) = ToSet(s) \ gone
         /\ \A i, j \in DOMAIN Without(s, gone) : i < j =>
              \E a, b \in DOMAIN s : a < b /\ Without(s, gone)[i] = s[a]
                                           /\ Without(s, gone)[j] = s[b]
<1> DEFINE n == Len(s)
<1>1. PICK f : /\ Without(s, gone) = f[n] /\ f[0] = <<>>
               /\ \A i \in 1 .. n :
                    f[i] = IF s[i] \in gone THEN f[i - 1] ELSE Append(f[i - 1], s[i])
  BY WithoutSteps
<1> DEFINE Good(k) ==
      /\ f[k] \in Seq(C)
      /\ ToSet(f[k]) = {s[i] : i \in 1 .. k} \ gone
      /\ \A i, j \in DOMAIN f[k] : i < j =>
           \E a, b \in 1 .. k : a < b /\ f[k][i] = s[a] /\ f[k][j] = s[b]
<1> DEFINE P == {k \in 0 .. n : Good(k)}
<1>2. n \in Nat /\ DOMAIN s = 1 .. n
  OBVIOUS
<1>3. 0 \in P
  <2>1. f[0] \in Seq(C) /\ DOMAIN f[0] = {} /\ ToSet(f[0]) = {}
    BY <1>1 DEF ToSet
  <2> QED
    BY <1>2, <2>1
<1>4. ASSUME NEW k \in 0 .. n - 1, k \in P PROVE k + 1 \in P
  <2>1. k \in Nat /\ k + 1 \in 1 .. n /\ (k + 1) - 1 = k /\ s[k + 1] \in C
    BY <1>2
  <2>2. Good(k)
    BY <1>4
  <2>3. f[k + 1] = IF s[k + 1] \in gone THEN f[k] ELSE Append(f[k], s[k + 1])
    BY <1>1, <2>1
  <2>4. {s[i] : i \in 1 .. k + 1} = {s[i] : i \in 1 .. k} \cup {s[k + 1]}
    BY <2>1
  <2>5. CASE s[k + 1] \in gone
    <3>1. f[k + 1] = f[k]
      BY <2>3, <2>5
    <3>2. ToSet(f[k + 1]) = {s[i] : i \in 1 .. k + 1} \ gone
      BY <2>2, <2>4, <2>5, <3>1
    <3>3. 1 .. k \subseteq 1 .. k + 1
      BY <2>1
    <3>4. Good(k + 1)
      BY <2>2, <3>1, <3>2, <3>3
    <3> QED
      BY <1>2, <2>1, <3>4
  <2>6. CASE s[k + 1] \notin gone
    <3> DEFINE t == f[k]
               e == s[k + 1]
    <3>1. f[k + 1] = Append(t, e) /\ t \in Seq(C) /\ e \in C
      BY <2>1, <2>2, <2>3, <2>6
    <3>2. /\ DOMAIN Append(t, e) = 1 .. Len(t) + 1 /\ DOMAIN t = 1 .. Len(t) /\ Len(t) \in Nat
          /\ Append(t, e)[Len(t) + 1] = e /\ \A i \in 1 .. Len(t) : Append(t, e)[i] = t[i]
      BY <3>1
    <3>3. ToSet(f[k + 1]) = ToSet(t) \cup {e}
      BY <3>1, <3>2 DEF ToSet
    <3>4. ToSet(f[k + 1]) = {s[i] : i \in 1 .. k + 1} \ gone
      BY <2>2, <2>4, <2>6, <3>3
    <3>5. ASSUME NEW i \in DOMAIN f[k + 1], NEW j \in DOMAIN f[k + 1], i < j
          PROVE  \E a, b \in 1 .. k + 1 : a < b /\ f[k + 1][i] = s[a] /\ f[k + 1][j] = s[b]
      <4>1. i \in DOMAIN t /\ f[k + 1][i] = t[i]
        BY <3>1, <3>2, <3>5
      <4>2. CASE j \in DOMAIN t
        <5>1. f[k + 1][j] = t[j]
          BY <3>1, <3>2, <4>2
        <5>2. PICK a \in 1 .. k, b \in 1 .. k : a < b /\ t[i] = s[a] /\ t[j] = s[b]
          BY <2>2, <3>5, <4>1, <4>2
        <5>3. a \in 1 .. k + 1 /\ b \in 1 .. k + 1
          BY <2>1
        <5> QED
          BY <4>1, <5>1, <5>2, <5>3
      <4>3. CASE j = Len(t) + 1
        <5>1. f[k + 1][j] = s[k + 1]
          BY <3>1, <3>2, <4>3
        <5>2. t[i] \in ToSet(t)
          BY <4>1 DEF ToSet
        <5>3. PICK a \in 1 .. k : t[i] = s[a]
          BY <2>2, <5>2
        <5>4. a \in 1 .. k + 1 /\ k + 1 \in 1 .. k + 1 /\ a < k + 1
          BY <2>1
        <5> QED
          BY <4>1, <5>1, <5>3, <5>4
      <4> QED
        BY <3>1, <3>2, <4>2, <4>3
    <3>6. f[k + 1] \in Seq(C)
      BY <3>1
    <3>7. Good(k + 1)
      BY <3>4, <3>5, <3>6
    <3> QED
      BY <1>2, <2>1, <3>7
  <2> QED
    BY <2>5, <2>6
<1> HIDE DEF P, n
<1>5. n \in P
  BY <1>2, <1>3, <1>4, UpTo
<1>6. Good(n)
  BY <1>5 DEF P
<1>7. ToSet(s) = {s[i] : i \in 1 .. n}
  BY <1>2 DEF ToSet
<1> QED
  <2> DEFINE w == Without(s, gone)
  <2>1. w = f[n]
    BY <1>1
  <2> HIDE DEF w
  <2>2. w \in Seq(C) /\ ToSet(w) = ToSet(s) \ gone
    BY <1>6, <1>7, <2>1
  <2>3. \A i, j \in DOMAIN w : i < j => \E a, b \in DOMAIN s : a < b /\ w[i] = s[a] /\ w[j] = s[b]
    BY <1>2, <1>6, <2>1
  <2> QED
    BY <2>2, <2>3 DEF w

\* What is written keeps the rows there are, and adds rows below.
LEMMA WriteIs ==
  ASSUME NEW scr \in Seq(Seq(Chars)), scr # <<>>, NEW chars \in Seq(Chars)
  PROVE  /\ Write(scr, chars) \in Seq(Seq(Chars)) /\ Len(Write(scr, chars)) >= Len(scr)
         /\ Write(scr, chars) # <<>>
<1> DEFINE n == Len(chars)
           Next1(t, ch) == CASE ch.tok = "n" -> Append(t, <<>>)
                             [] ch.tok \in {"q", "c"} -> t
                             [] OTHER -> Show(t, ch)
           X == {t \in Seq(Seq(Chars)) : Len(t) >= Len(scr)}
           body(f) == [i \in 0 .. n |-> IF i = 0 THEN scr ELSE Next1(f[i - 1], chars[i])]
           step == [p \in (1 .. n) \X X |-> Next1(p[2], chars[p[1]])]
           after == CHOOSE f : f = body(f)
<1>1. n \in Nat /\ scr \in X /\ Len(scr) >= 1
  OBVIOUS
<1>2. ASSUME NEW t \in X, NEW ch \in Chars PROVE Next1(t, ch) \in X
  <2>1. t \in Seq(Seq(Chars)) /\ Len(t) \in Nat /\ Len(t) >= Len(scr) /\ Len(t) >= 1
    BY <1>1
  <2>2. Append(t, <<>>) \in X
    BY <2>1
  <2>3. Show(t, ch) \in X
    <3>1. t[Len(t)] \in Seq(Chars)
      BY <2>1
    <3>2. Append(t[Len(t)], ch) \in Seq(Chars)
      BY <3>1
    <3>3. Show(t, ch) \in Seq(Seq(Chars)) /\ Len(Show(t, ch)) = Len(t)
      BY <2>1, <3>2 DEF Show
    <3> QED
      BY <2>1, <3>3
  <2> HIDE DEF X
  <2> QED
    BY <2>2, <2>3
<1>3. \A i \in 1 .. n : chars[i] \in Chars
  OBVIOUS
<1>4. Write(scr, chars) = after[n]
  BY DEF Write
<1> HIDE DEF X, Next1
<1>5. step \in [(1 .. n) \X X -> X]
  BY <1>2, <1>3
<1>6. \A i \in 1 .. n, t \in X : step[<<i, t>>] = Next1(t, chars[i])
  OBVIOUS
<1> HIDE DEF step, n
<1>7. PICK g \in [0 .. n -> X] : Iterated(g, n, scr, step)
  BY <1>1, <1>5, Iterates, Zenon
<1>8. \A i \in 1 .. n : i - 1 \in 0 .. n /\ g[i - 1] \in X
  BY <1>1
<1>9. \A i \in 1 .. n : g[i] = Next1(g[i - 1], chars[i])
  BY <1>6, <1>7, <1>8 DEF Iterated
<1>10. \A i \in 0 .. n : i = 0 \/ i \in 1 .. n
  BY <1>1
<1>11. \A i \in 0 .. n : g[i] = IF i = 0 THEN scr ELSE Next1(g[i - 1], chars[i])
  BY <1>7, <1>9, <1>10 DEF Iterated
<1>12. g = body(g)
  BY <1>11
<1>13. after = body(after)
  BY <1>12
<1> HIDE DEF after
<1>14. \A i \in 0 .. n : after[i] = IF i = 0 THEN scr ELSE Next1(after[i - 1], chars[i])
  BY <1>13
<1> DEFINE P == {i \in 0 .. n : after[i] \in X}
<1>15. 0 \in P
  BY <1>1, <1>14
<1>16. ASSUME NEW i \in 0 .. n - 1, i \in P PROVE i + 1 \in P
  <2>1. i + 1 \in 1 .. n /\ i + 1 \in 0 .. n /\ i + 1 # 0 /\ (i + 1) - 1 = i
    BY <1>1
  <2>2. after[i + 1] = Next1(after[i], chars[i + 1])
    BY <1>14, <2>1
  <2> QED
    BY <1>2, <1>3, <1>16, <2>1, <2>2
<1> HIDE DEF P
<1>17. n \in P
  <2>1. 0 .. n \subseteq P
    BY <1>1, <1>15, <1>16, UpTo, Zenon
  <2> QED
    BY <1>1, <2>1
<1>18. Write(scr, chars) \in X
  BY <1>4, <1>17 DEF P
<1> QED
  BY <1>1, <1>18 DEF X
-----------------------------------------------------------------------------
(* The order of positions.                                                   *)

Pos(s) == [i \in DOMAIN s |-> s[i].pos]

LEMMA PosIs ==
  ASSUME NEW s \in Seq(Chars)
  PROVE  /\ Pos(s) \in Seq(Nat) /\ Len(Pos(s)) = Len(s)
         /\ ToSet(Pos(s)) = {ch.pos : ch \in ToSet(s)}
<1>1. \A i \in 1 .. Len(s) : s[i].pos \in Nat
  <2>1. \A i \in 1 .. Len(s) : s[i] \in Chars
    OBVIOUS
  <2>2. \A ch \in Chars : ch.pos \in Nat
    BY FeedAssumption DEF FeedAssumption, Chars
  <2> QED
    BY <2>1, <2>2
<1>2. Pos(s) \in [1 .. Len(s) -> Nat] /\ Len(s) \in Nat
  BY <1>1 DEF Pos
<1>3. Pos(s) \in Seq(Nat) /\ Len(Pos(s)) = Len(s)
  BY <1>2
<1>4. ToSet(Pos(s)) = {ch.pos : ch \in ToSet(s)}
  BY DEF Pos, ToSet
<1> QED
  BY <1>3, <1>4

LEMMA PosOfConcat ==
  ASSUME NEW s \in Seq(Chars), NEW t \in Seq(Chars)
  PROVE  Pos(s \o t) = Pos(s) \o Pos(t)
<1>1. /\ s \o t \in Seq(Chars) /\ Len(s \o t) = Len(s) + Len(t)
      /\ \A i \in 1 .. Len(s) + Len(t) :
           (s \o t)[i] = IF i <= Len(s) THEN s[i] ELSE t[i - Len(s)]
  BY ConcatProperties
<1>2. /\ Pos(s) \in Seq(Nat) /\ Pos(t) \in Seq(Nat) /\ Pos(s \o t) \in Seq(Nat)
      /\ Len(Pos(s)) = Len(s) /\ Len(Pos(t)) = Len(t) /\ Len(Pos(s \o t)) = Len(s) + Len(t)
  BY <1>1, PosIs
<1>3. /\ Pos(s) \o Pos(t) \in Seq(Nat) /\ Len(Pos(s) \o Pos(t)) = Len(s) + Len(t)
      /\ \A i \in 1 .. Len(s) + Len(t) :
           (Pos(s) \o Pos(t))[i] = IF i <= Len(s) THEN Pos(s)[i] ELSE Pos(t)[i - Len(s)]
  BY <1>2, ConcatProperties
<1>4. ASSUME NEW i \in 1 .. Len(s) + Len(t) PROVE Pos(s \o t)[i] = (Pos(s) \o Pos(t))[i]
  <2>1. Pos(s \o t)[i] = (s \o t)[i].pos
    BY <1>1 DEF Pos
  <2>2. CASE i <= Len(s)
    <3>1. i \in DOMAIN s
      BY <2>2
    <3> QED
      BY <1>1, <1>3, <2>1, <2>2, <3>1 DEF Pos
  <2>3. CASE i > Len(s)
    <3>1. i - Len(s) \in DOMAIN t
      BY <2>3
    <3>2. Pos(t)[i - Len(s)] = t[i - Len(s)].pos
      BY <3>1 DEF Pos
    <3>3. (s \o t)[i] = t[i - Len(s)] /\ (Pos(s) \o Pos(t))[i] = Pos(t)[i - Len(s)]
      BY <1>1, <1>3, <2>3
    <3> QED
      BY <2>1, <3>2, <3>3
  <2>4. i \in Int /\ Len(s) \in Int
    OBVIOUS
  <2>5. i <= Len(s) \/ i > Len(s)
    BY <2>4
  <2> QED
    BY <2>2, <2>3, <2>5
<1> QED
  BY <1>2, <1>3, <1>4, SeqEqual

LEMMA SetOfConcat == ASSUME NEW S, NEW s \in Seq(S), NEW t \in Seq(S)
                     PROVE  ToSet(s \o t) = ToSet(s) \cup ToSet(t)
<1>1. /\ DOMAIN (s \o t) = 1 .. Len(s) + Len(t)
      /\ \A i \in 1 .. Len(s) + Len(t) :
           (s \o t)[i] = IF i <= Len(s) THEN s[i] ELSE t[i - Len(s)]
      /\ DOMAIN s = 1 .. Len(s) /\ DOMAIN t = 1 .. Len(t) /\ Len(s) \in Nat /\ Len(t) \in Nat
  BY ConcatProperties
<1>2. \A b \in ToSet(s) : b \in ToSet(s \o t)
  BY <1>1 DEF ToSet
<1>3. ASSUME NEW j \in DOMAIN t PROVE t[j] \in ToSet(s \o t)
  <2>1. Len(s) + j \in DOMAIN (s \o t) /\ (s \o t)[Len(s) + j] = t[j]
    BY <1>1
  <2> QED
    BY <2>1 DEF ToSet
<1>4. ASSUME NEW i \in DOMAIN (s \o t) PROVE (s \o t)[i] \in ToSet(s) \cup ToSet(t)
  <2>1. i <= Len(s) => i \in DOMAIN s
    BY <1>1
  <2>2. i > Len(s) => i - Len(s) \in DOMAIN t
    BY <1>1
  <2> QED
    BY <1>1, <2>1, <2>2 DEF ToSet
<1>5. ToSet(t) \subseteq ToSet(s \o t)
  BY <1>3 DEF ToSet
<1>6. ToSet(s \o t) \subseteq ToSet(s) \cup ToSet(t)
  BY <1>4 DEF ToSet
<1> QED
  BY <1>2, <1>5, <1>6

\* All numbers of s are below all numbers of t.
Below(s, t) == \A x \in ToSet(s), y \in ToSet(t) : x < y

LEMMA IncreasingParts ==
  ASSUME NEW s \in Seq(Nat), NEW t \in Seq(Nat)
  PROVE  Increasing(s \o t) <=> Increasing(s) /\ Increasing(t) /\ Below(s, t)
<1> DEFINE u == s \o t
           m == Len(s)
           n == Len(t)
<1>1. /\ DOMAIN u = 1 .. m + n /\ m \in Nat /\ n \in Nat
      /\ \A i \in 1 .. m : u[i] = s[i]
      /\ \A i \in 1 .. n : u[m + i] = t[i]
      /\ DOMAIN s = 1 .. m /\ DOMAIN t = 1 .. n
  BY ConcatProperties
<1> HIDE DEF u, m, n
<1>2. ASSUME Increasing(u) PROVE Increasing(s) /\ Increasing(t) /\ Below(s, t)
  <2>1. Increasing(s)
    <3>1. \A i \in 1 .. m : i \in DOMAIN u /\ u[i] = s[i]
      BY <1>1
    <3> QED
      BY <1>1, <1>2, <3>1 DEF Increasing
  <2>2. ASSUME NEW i \in 1 .. n, NEW j \in 1 .. n, i < j PROVE t[i] < t[j]
    <3>1. m + i \in DOMAIN u /\ m + j \in DOMAIN u /\ m + i < m + j
      BY <1>1, <2>2
    <3> QED
      BY <1>1, <1>2, <3>1 DEF Increasing
  <2>3. ASSUME NEW i \in 1 .. m, NEW j \in 1 .. n PROVE s[i] < t[j]
    <3>1. i \in DOMAIN u /\ m + j \in DOMAIN u /\ i < m + j
      BY <1>1
    <3> QED
      BY <1>1, <1>2, <3>1 DEF Increasing
  <2>4. Increasing(t)
    BY <1>1, <2>2 DEF Increasing
  <2>5. Below(s, t)
    BY <1>1, <2>3 DEF Below, ToSet
  <2> QED
    BY <2>1, <2>4, <2>5
<1>3. ASSUME Increasing(s), Increasing(t), Below(s, t) PROVE Increasing(u)
  <2> SUFFICES ASSUME NEW i \in DOMAIN u, NEW j \in DOMAIN u, i < j PROVE u[i] < u[j]
    BY DEF Increasing
  <2>1. CASE j <= m
    BY <1>1, <1>3, <2>1 DEF Increasing
  <2>2. CASE i > m
    <3>1. i - m \in 1 .. n /\ j - m \in 1 .. n /\ i - m < j - m
      BY <1>1, <2>2
    <3>2. u[i] = t[i - m] /\ u[j] = t[j - m]
      BY <1>1, <3>1
    <3> QED
      BY <1>1, <1>3, <3>1, <3>2 DEF Increasing
  <2>3. CASE i <= m /\ j > m
    <3>1. i \in 1 .. m /\ j - m \in 1 .. n
      BY <1>1, <2>3
    <3>2. u[i] = s[i] /\ u[j] = t[j - m]
      BY <1>1, <3>1
    <3> QED
      BY <1>1, <1>3, <3>1, <3>2 DEF Below, ToSet
  <2> QED
    BY <1>1, <2>1, <2>2, <2>3
<1> QED
  BY <1>2, <1>3 DEF u
-----------------------------------------------------------------------------
(* The boot filter.                                                          *)

LEMMA CharsArePositioned ==
  /\ \A ch \in Chars : ch.pos \in 0 .. MaxOut /\ ch.tok \in Tokens \cup {"?", "$"}
  /\ \A tok \in Tokens \cup {"?", "$"}, pos \in 0 .. MaxOut :
       Char(tok, pos) \in Chars /\ Char(tok, pos).pos = pos
  /\ MaxOut \in Nat
  BY FeedAssumption DEF FeedAssumption, Chars, Char

\* A chunk keeps its positions, whatever its bytes decode to.
LEMMA DecodeIs ==
  ASSUME NEW toks \in Seq(Tokens), NEW k \in Nat, k + Len(toks) <= MaxOut,
         NEW chunk, chunk = [i \in DOMAIN toks |-> Char(toks[i], k + i)]
  PROVE  /\ Decode(chunk) \in Seq(Chars) /\ Len(Decode(chunk)) = Len(toks)
         /\ \A i \in 1 .. Len(toks) : Decode(chunk)[i].pos = k + i
<1>1. DOMAIN toks = 1 .. Len(toks) /\ Len(toks) \in Nat /\ DOMAIN chunk = 1 .. Len(toks)
  OBVIOUS
<1>2. ASSUME NEW i \in 1 .. Len(toks) PROVE chunk[i] \in Chars /\ chunk[i].pos = k + i
  <2>1. k + i \in 0 .. MaxOut /\ toks[i] \in Tokens \cup {"?", "$"}
    BY <1>1, CharsArePositioned
  <2>2. chunk[i] = Char(toks[i], k + i)
    BY <1>1
  <2> QED
    BY <2>1, <2>2, CharsArePositioned
<1>3. ASSUME NEW i \in 1 .. Len(toks)
      PROVE  Decode(chunk)[i] \in Chars /\ Decode(chunk)[i].pos = k + i
  <2>1. Decode(chunk)[i] \in {chunk[i], Char("?", chunk[i].pos)}
    BY <1>1 DEF Decode
  <2>2. chunk[i].pos \in 0 .. MaxOut
    BY <1>2, CharsArePositioned
  <2>3. Char("?", chunk[i].pos) \in Chars /\ Char("?", chunk[i].pos).pos = chunk[i].pos
    BY <2>2, CharsArePositioned
  <2> QED
    BY <1>2, <2>1, <2>3
<1>4. DOMAIN Decode(chunk) = 1 .. Len(toks)
  BY <1>1 DEF Decode
<1>5. Decode(chunk) = [i \in 1 .. Len(toks) |-> Decode(chunk)[i]]
  BY <1>1 DEF Decode
<1> DEFINE d == Decode(chunk)
<1> HIDE DEF d
<1>6. d \in [1 .. Len(toks) -> Chars]
  BY <1>3, <1>4, <1>5 DEF d
<1>7. d \in Seq(Chars) /\ Len(d) = Len(toks)
  BY <1>1, <1>6
<1> QED
  BY <1>3, <1>7 DEF d

LEMMA LastNewlineIs == ASSUME NEW s \in Seq(Chars) PROVE LastNewline(s) \in 0 .. Len(s)
<1> DEFINE S == {0} \cup {i \in DOMAIN s : s[i].tok = "n"}
<1>1. S \in SUBSET (0 .. Len(s)) /\ 0 \in S /\ Len(s) \in Nat
  OBVIOUS
<1> HIDE DEF S
<1>2. Max(S) \in S
  BY <1>1, GreatestIn
<1>3. LastNewline(s) = Max(S)
  BY DEF LastNewline, S
<1> QED
  BY <1>1, <1>2, <1>3

\* The characters are in the order of their positions.
Ordered(s) == Increasing(Pos(s))

LEMMA OrderedIs ==
  ASSUME NEW s \in Seq(Chars)
  PROVE  Ordered(s) <=> \A i, j \in DOMAIN s : i < j => s[i].pos < s[j].pos
  BY DEF Ordered, Increasing, Pos

\* A text split in what is painted, what is held and what is dropped.
Splits(s, out, held, noise) ==
  /\ held \in Seq(Chars) /\ out \in Seq(Chars)
  /\ ToSet(out) \cup ToSet(held) \cup noise = ToSet(s)
  /\ Ordered(out) /\ Ordered(held)
  /\ \A a \in ToSet(out) \cup noise, b \in ToSet(held) : a.pos < b.pos
  /\ \A a \in ToSet(out), b \in noise : a.pos # b.pos

Kept(s, held) == Without(s, Noise(s) \cup ToSet(held))

\* What the filter does with a text in order: what is held is the end of it, a
\* banner is in lines before that, and the rest is painted in order.
LEMMA FilterIs ==
  ASSUME NEW s \in Seq(Chars), Ordered(s), NEW held \in {Partial(s), <<>>}
  PROVE  Splits(s, Kept(s, held), held, Noise(s))
<1> DEFINE m == LastNewline(s)
           n == Len(s)
           out == Kept(s, held)
<1>0. out = Without(s, Noise(s) \cup ToSet(held))
  BY DEF Kept
<1> HIDE DEF out
<1>1. m \in 0 .. n /\ n \in Nat /\ DOMAIN s = 1 .. n
  BY LastNewlineIs
<1>2. \A i, j \in 1 .. n : i < j => s[i].pos < s[j].pos
  BY <1>1, OrderedIs
<1>3. \A b \in Noise(s) : \E i \in 1 .. m : b = s[i]
  BY DEF Noise
<1>4. /\ held \in Seq(Chars) /\ Ordered(held)
      /\ \A b \in ToSet(held) : \E i \in 1 .. n : i > m /\ b = s[i]
  <2>1. CASE held = <<>>
    <3>1. ToSet(held) = {} /\ DOMAIN held = {} /\ held \in Seq(Chars)
      BY <2>1 DEF ToSet
    <3> QED
      BY <3>1, OrderedIs
  <2>2. CASE held = Partial(s)
    <3> DEFINE h == SubSeq(s, m + 1, n)
    <3>1. /\ h \in Seq(Chars) /\ DOMAIN h = 1 .. n - m
          /\ \A i \in 1 .. n - m : h[i] = s[m + i] /\ m + i \in 1 .. n
      BY <1>1
    <3>2. held = h
      BY <2>2 DEF Partial
    <3> HIDE DEF h, m, n
    <3>3. \A i, j \in DOMAIN h : i < j => h[i].pos < h[j].pos
      <4> SUFFICES ASSUME NEW i \in DOMAIN h, NEW j \in DOMAIN h, i < j
                   PROVE  h[i].pos < h[j].pos
        OBVIOUS
      <4>1. i \in 1 .. n - m /\ j \in 1 .. n - m
        BY <3>1
      <4>2. m + i \in 1 .. n /\ m + j \in 1 .. n /\ m + i < m + j
        BY <1>1, <3>1, <4>1
      <4> QED
        BY <1>2, <3>1, <4>1, <4>2
    <3>4. Ordered(h)
      BY <3>1, <3>3, OrderedIs
    <3>5. \A b \in ToSet(h) : \E i \in 1 .. n - m : b = h[i]
      BY <3>1 DEF ToSet
    <3>6. \A i \in 1 .. n - m : m + i > m
      BY <1>1
    <3>7. \A b \in ToSet(h) : \E i \in 1 .. n : i > m /\ b = s[i]
      BY <3>1, <3>5, <3>6
    <3> QED
      BY <3>1, <3>2, <3>4, <3>7
  <2> QED
    BY <2>1, <2>2
<1>5. /\ out \in Seq(Chars)
      /\ ToSet(out) = ToSet(s) \ (Noise(s) \cup ToSet(held))
      /\ \A i, j \in DOMAIN out : i < j =>
           \E a, b \in DOMAIN s : a < b /\ out[i] = s[a] /\ out[j] = s[b]
  <2> DEFINE gone == Noise(s) \cup ToSet(held)
             w == Without(s, gone)
  <2>1. out = w
    BY <1>0
  <2> HIDE DEF gone
  <2>2. w \in Seq(Chars) /\ ToSet(w) = ToSet(s) \ gone
    BY WithoutIs
  <2>3. \A i, j \in DOMAIN w : i < j =>
          \E a, b \in DOMAIN s : a < b /\ w[i] = s[a] /\ w[j] = s[b]
    BY WithoutIs
  <2> HIDE DEF w
  <2>4. gone = Noise(s) \cup ToSet(held)
    BY DEF gone
  <2>5. \A i, j \in DOMAIN out : i < j =>
          \E a, b \in DOMAIN s : a < b /\ out[i] = s[a] /\ out[j] = s[b]
    BY <2>1, <2>3
  <2> QED
    BY <2>1, <2>2, <2>4, <2>5
<1>6. Noise(s) \cup ToSet(held) \subseteq ToSet(s)
  <2>1. \A i \in 1 .. n : s[i] \in ToSet(s)
    BY <1>1 DEF ToSet
  <2>2. 1 .. m \subseteq 1 .. n
    BY <1>1
  <2> QED
    BY <1>3, <1>4, <2>1, <2>2
<1>7. Ordered(out)
  <2>1. \A i, j \in DOMAIN out : i < j => out[i].pos < out[j].pos
    <3> SUFFICES ASSUME NEW i \in DOMAIN out, NEW j \in DOMAIN out, i < j
                 PROVE  out[i].pos < out[j].pos
      OBVIOUS
    <3>1. PICK a \in DOMAIN s, b \in DOMAIN s : a < b /\ out[i] = s[a] /\ out[j] = s[b]
      BY <1>5
    <3> QED
      BY <1>1, <1>2, <3>1
  <2> QED
    BY <1>5, <2>1, OrderedIs
<1>8. \A a \in ToSet(s) : \E i \in 1 .. n : a = s[i]
  BY <1>1 DEF ToSet
<1>9. ASSUME NEW a \in ToSet(out), NEW b \in Noise(s) PROVE a.pos # b.pos
  <2>1. a \in ToSet(s) /\ a # b
    BY <1>5
  <2>2. PICK i \in 1 .. n, j \in 1 .. n : a = s[i] /\ b = s[j]
    BY <1>1, <1>3, <1>8, <2>1
  <2>3. s[i] \in Chars /\ s[j] \in Chars
    OBVIOUS
  <2>4. i < j \/ j < i
    BY <2>1, <2>2
  <2> QED
    BY <1>2, <2>2, <2>3, <2>4, CharsArePositioned
<1>10. ASSUME NEW a \in ToSet(out) \cup Noise(s), NEW b \in ToSet(held) PROVE a.pos < b.pos
  <2>1. PICK j \in 1 .. n : j > m /\ b = s[j]
    BY <1>4
  <2>2. CASE a \in Noise(s)
    BY <1>1, <1>2, <1>3, <2>1, <2>2
  <2>3. CASE a \in ToSet(out)
    <3>1. PICK i \in 1 .. n : a = s[i]
      BY <1>5, <1>8, <2>3
    <3>2. i < j \/ i >= j
      OBVIOUS
    <3>3. CASE i >= j
      <4>1. held = Partial(s)
        BY DEF ToSet
      <4>2. held = SubSeq(s, m + 1, n)
        BY <4>1 DEF Partial
      <4>3. i - m \in DOMAIN held /\ held[i - m] = s[i]
        <5>1. /\ DOMAIN SubSeq(s, m + 1, n) = 1 .. n - m
              /\ \A x \in 1 .. n - m : SubSeq(s, m + 1, n)[x] = s[m + x]
          BY <1>1
        <5> HIDE DEF m, n
        <5>2. i - m \in 1 .. n - m /\ m + (i - m) = i
          BY <1>1, <2>1, <3>3
        <5> QED
          BY <4>2, <5>1, <5>2
      <4>4. a \in ToSet(held)
        BY <3>1, <4>3 DEF ToSet
      <4> QED
        BY <1>5, <2>3, <4>4
    <3> QED
      BY <1>2, <2>1, <3>1, <3>2, <3>3
  <2> QED
    BY <2>2, <2>3
<1> QED
  BY <1>4, <1>5, <1>6, <1>7, <1>9, <1>10 DEF Splits, out
-----------------------------------------------------------------------------
(* The text: what is shown, held and dropped of what the guest printed.      *)

\* What is held is apart from what was dropped, so that it can still be shown.
HeldApart == \A ch \in ToSet(carry), d \in dropped : ch.pos # d.pos

TextInv ==
  /\ printed \in 0 .. MaxOut
  /\ carry \in Seq(Chars) /\ shown \in Seq(1 .. MaxOut) /\ dropped \subseteq Chars
  /\ PaintedInOrder
  /\ HeldApart

\* The parts of TickOutput.
ChunkOf(toks) == [i \in DOMAIN toks |-> Char(toks[i], printed + i)]
Filtered(toks) == StripBootNoise(ChunkOf(toks))
Becomes == ~ready /\ (at_prompt \/ ticks + 1 >= ReadyTicks)
Flushed(toks) == IF Becomes THEN FlushBootCarry(Filtered(toks).held) ELSE <<>>
Painted(toks) == Filtered(toks).out \o Flushed(toks)

LEMMA ChunkIsSeq ==
  ASSUME NEW toks \in BoundedSeq(Tokens, MaxChunk) PROVE toks \in Seq(Tokens)
<1>1. PICK m \in 0 .. MaxChunk : toks \in [1 .. m -> Tokens]
  BY DEF BoundedSeq, SeqOf
<1>2. m \in Nat
  BY FeedAssumption DEF FeedAssumption
<1> QED
  BY <1>1, <1>2

LEMMA SeqOfSubset ==
  ASSUME NEW S, NEW T, S \subseteq T, NEW s \in Seq(S)
  PROVE  s \in Seq(T)
<1>1. s \in [1 .. Len(s) -> T] /\ Len(s) \in Nat
  OBVIOUS
<1> QED
  BY <1>1

LEMMA SeqOfElements ==
  ASSUME NEW S, NEW T, NEW s \in Seq(S), ToSet(s) \subseteq T PROVE s \in Seq(T)
<1>1. \A i \in 1 .. Len(s) : s[i] \in ToSet(s)
  BY DEF ToSet
<1>2. s \in [1 .. Len(s) -> T] /\ Len(s) \in Nat
  BY <1>1
<1> QED
  BY <1>2

\* The positions of the old text, in sets.
LEMMA OldText ==
  ASSUME TextInv
  PROVE  /\ Increasing(shown) /\ Ordered(carry)
         /\ \A x \in ToSet(shown) : x \in 1 .. printed
         /\ \A ch \in ToSet(carry) \cup dropped : ch.pos \in 1 .. printed
         /\ \A x \in ToSet(shown), ch \in ToSet(carry) : x < ch.pos
         /\ \A x \in ToSet(shown), ch \in dropped : x # ch.pos
         /\ \A x \in 1 .. printed :
              x \in ToSet(shown) \/ \E ch \in ToSet(carry) \cup dropped : x = ch.pos
<1>1. shown \in Seq(Nat) /\ carry \in Seq(Chars)
  <2>1. 1 .. MaxOut \subseteq Nat /\ shown \in Seq(1 .. MaxOut) /\ carry \in Seq(Chars)
    BY CharsArePositioned DEF TextInv
  <2> QED
    BY <2>1, SeqOfSubset
<1>2. Increasing(shown \o Pos(carry))
  BY DEF TextInv, PaintedInOrder, Pos
<1>3. Pos(carry) \in Seq(Nat) /\ ToSet(Pos(carry)) = {ch.pos : ch \in ToSet(carry)}
  BY <1>1, PosIs
<1>4. Increasing(shown) /\ Increasing(Pos(carry)) /\ Below(shown, Pos(carry))
  BY <1>1, <1>2, <1>3, IncreasingParts
<1>5. ToSet(shown) \cup {ch.pos : ch \in ToSet(carry) \cup dropped} = 1 .. printed
  BY DEF TextInv, PaintedInOrder
<1>6. ToSet(shown) \cap {ch.pos : ch \in dropped} = {}
  BY DEF TextInv, PaintedInOrder
<1>7. \A x \in ToSet(shown), ch \in ToSet(carry) : x < ch.pos
  BY <1>3, <1>4 DEF Below
<1>8. \A x \in ToSet(shown), ch \in dropped : x # ch.pos
  BY <1>6
<1>9. \A x \in ToSet(shown) : x \in 1 .. printed
  BY <1>5
<1>10. \A ch \in ToSet(carry) \cup dropped : ch.pos \in 1 .. printed
  BY <1>5
<1>11. \A x \in 1 .. printed :
         x \in ToSet(shown) \/ \E ch \in ToSet(carry) \cup dropped : x = ch.pos
  BY <1>5
<1> QED
  BY <1>4, <1>7, <1>8, <1>9, <1>10, <1>11 DEF Ordered

\* The text the filter works on: what was held, and the new chunk.
TextOf(toks) == carry \o Decode(ChunkOf(toks))

LEMMA NewText ==
  ASSUME TextInv, NEW toks \in Seq(Tokens), printed + Len(toks) <= MaxOut
  PROVE  /\ TextOf(toks) \in Seq(Chars) /\ Ordered(TextOf(toks))
         /\ \A ch \in ToSet(TextOf(toks)) : ch.pos \in 1 .. printed + Len(toks)
         /\ \A x \in ToSet(shown), ch \in ToSet(TextOf(toks)) : x < ch.pos
         /\ \A ch \in ToSet(TextOf(toks)), d \in dropped : ch.pos # d.pos
         /\ \A x \in 1 .. printed + Len(toks) :
              \/ x \in ToSet(shown)
              \/ \E ch \in ToSet(TextOf(toks)) \cup dropped : x = ch.pos
<1> DEFINE dec == Decode(ChunkOf(toks))
           n == Len(toks)
<1>1. printed \in Nat /\ n \in Nat /\ carry \in Seq(Chars)
  BY DEF TextInv
<1>2. dec \in Seq(Chars) /\ Len(dec) = n /\ \A i \in 1 .. n : dec[i].pos = printed + i
  BY <1>1, DecodeIs DEF ChunkOf
<1>3. TextOf(toks) = carry \o dec
  BY DEF TextOf
<1> HIDE DEF dec, n
<1>4. Ordered(dec)
  <2>1. \A i, j \in DOMAIN dec : i < j => dec[i].pos < dec[j].pos
    BY <1>1, <1>2
  <2> QED
    BY <1>2, <2>1, OrderedIs
<1>5. \A ch \in ToSet(dec) : ch.pos \in printed + 1 .. printed + n
  BY <1>1, <1>2 DEF ToSet
<1>6. \A x \in printed + 1 .. printed + n : \E ch \in ToSet(dec) : x = ch.pos
  <2> SUFFICES ASSUME NEW x \in printed + 1 .. printed + n
               PROVE  \E ch \in ToSet(dec) : x = ch.pos
    OBVIOUS
  <2>1. x - printed \in 1 .. n /\ printed + (x - printed) = x
    BY <1>1
  <2>2. dec[x - printed] \in ToSet(dec) /\ dec[x - printed].pos = x
    BY <1>2, <2>1 DEF ToSet
  <2> QED
    BY <2>2
<1>7. carry \o dec \in Seq(Chars) /\ ToSet(carry \o dec) = ToSet(carry) \cup ToSet(dec)
  BY <1>1, <1>2, SetOfConcat
<1>8. Ordered(carry \o dec)
  <2>1. Pos(carry \o dec) = Pos(carry) \o Pos(dec)
    BY <1>1, <1>2, PosOfConcat
  <2>2. Pos(carry) \in Seq(Nat) /\ Pos(dec) \in Seq(Nat)
        /\ ToSet(Pos(carry)) = {ch.pos : ch \in ToSet(carry)}
        /\ ToSet(Pos(dec)) = {ch.pos : ch \in ToSet(dec)}
    BY <1>1, <1>2, PosIs
  <2>3. \A ch \in ToSet(carry) : ch.pos \in 1 .. printed
    BY OldText
  <2>4. Below(Pos(carry), Pos(dec))
    BY <1>1, <1>5, <2>2, <2>3 DEF Below
  <2>5. Increasing(Pos(carry)) /\ Increasing(Pos(dec))
    BY <1>4, OldText DEF Ordered
  <2> QED
    BY <2>1, <2>2, <2>4, <2>5, IncreasingParts DEF Ordered
<1>9. ASSUME NEW ch \in ToSet(carry \o dec) PROVE ch \in ToSet(carry) \/ ch \in ToSet(dec)
  BY <1>7
<1>10. \A ch \in ToSet(carry) \cup dropped : ch.pos \in 1 .. printed
  BY OldText
<1>11. \A ch \in ToSet(carry \o dec) : ch.pos \in 1 .. printed + n
  BY <1>1, <1>5, <1>9, <1>10
<1>12. \A x \in ToSet(shown), ch \in ToSet(carry \o dec) : x < ch.pos
  <2> SUFFICES ASSUME NEW x \in ToSet(shown), NEW ch \in ToSet(carry \o dec) PROVE x < ch.pos
    OBVIOUS
  <2>1. x \in 1 .. printed
    BY OldText
  <2>2. CASE ch \in ToSet(carry)
    BY <2>2, OldText
  <2>3. CASE ch \in ToSet(dec)
    BY <1>1, <1>5, <2>1, <2>3
  <2> QED
    BY <1>9, <2>2, <2>3
<1>13. \A ch \in ToSet(carry \o dec), d \in dropped : ch.pos # d.pos
  <2> SUFFICES ASSUME NEW ch \in ToSet(carry \o dec), NEW d \in dropped PROVE ch.pos # d.pos
    OBVIOUS
  <2>1. CASE ch \in ToSet(carry)
    BY <2>1 DEF TextInv, HeldApart
  <2>2. CASE ch \in ToSet(dec)
    BY <1>1, <1>5, <1>10, <2>2
  <2> QED
    BY <1>9, <2>1, <2>2
<1>14. ASSUME NEW x \in 1 .. printed + n
       PROVE  x \in ToSet(shown) \/ \E ch \in ToSet(carry \o dec) \cup dropped : x = ch.pos
  <2>1. CASE x \in 1 .. printed
    <3>1. x \in ToSet(shown) \/ \E ch \in ToSet(carry) \cup dropped : x = ch.pos
      BY <2>1, OldText
    <3> QED
      BY <1>7, <3>1
  <2>2. CASE x \in printed + 1 .. printed + n
    BY <1>6, <1>7, <2>2
  <2> QED
    BY <1>1, <2>1, <2>2
<1> QED
  BY <1>3, <1>7, <1>8, <1>11, <1>12, <1>13, <1>14 DEF n

\* What the filter makes of the text, as TickOutput uses it: painted, then held.
LEMMA OutputText ==
  ASSUME TextInv, NEW toks \in BoundedSeq(Tokens, MaxChunk), TickOutput(toks)
  PROVE  /\ Painted(toks) \in Seq(Chars)
         /\ \E painted \in Seq(Chars), held \in Seq(Chars), gone \in SUBSET Chars :
              /\ painted = Painted(toks)
              /\ shown' = shown \o Pos(painted) /\ carry' = held
              /\ dropped' = dropped \cup gone
              /\ Ordered(painted) /\ Ordered(held)
              /\ ToSet(painted) \cup ToSet(held) \cup gone = ToSet(TextOf(toks))
              /\ \A a \in ToSet(painted), b \in ToSet(held) : a.pos < b.pos
              /\ \A a \in ToSet(painted) \cup ToSet(held), b \in gone : a.pos # b.pos
<1> DEFINE s == TextOf(toks)
           f == Filtered(toks)
           out == f.out
           h == f.held
           fl == Flushed(toks)
           noise == Noise(s)
<1>1. toks \in Seq(Tokens) /\ printed + Len(toks) <= MaxOut
  BY ChunkIsSeq DEF TickOutput
<1>2. s \in Seq(Chars) /\ Ordered(s)
  BY <1>1, NewText
<1>3. h \in {Partial(s), <<>>} /\ out = Kept(s, h) /\ f.noise = noise
  BY DEF Filtered, StripBootNoise, TextOf, Kept
<1>4. fl \in {h, <<>>} /\ (~Becomes => fl = <<>>)
  BY DEF Flushed, FlushBootCarry
<1>5. /\ carry' = (IF Becomes THEN <<>> ELSE h)
      /\ dropped' = dropped \cup noise \cup (IF Becomes THEN ToSet(h) \ ToSet(fl) ELSE {})
      /\ shown' = shown \o Pos(out \o fl)
      /\ Painted(toks) = out \o fl
  BY <1>3 DEF TickOutput, Becomes, Flushed, Painted, Filtered, ChunkOf, Pos
<1> HIDE DEF s, f, out, h, fl, noise
<1>6. /\ h \in Seq(Chars) /\ out \in Seq(Chars)
      /\ ToSet(out) \cup ToSet(h) \cup noise = ToSet(s)
      /\ Ordered(out) /\ Ordered(h)
      /\ \A a \in ToSet(out) \cup noise, b \in ToSet(h) : a.pos < b.pos
      /\ \A a \in ToSet(out), b \in noise : a.pos # b.pos
  <2>1. Splits(s, out, h, noise)
    BY <1>2, <1>3, FilterIs DEF noise
  <2> QED
    BY <2>1 DEF Splits
<1>7. ToSet(<<>>) = {} /\ <<>> \in Seq(Chars) /\ Ordered(<<>>)
  BY DEF ToSet, Ordered, Pos, Increasing
<1> DEFINE painted == out \o fl
           held == IF Becomes THEN <<>> ELSE h
           gone == noise \cup (IF Becomes THEN ToSet(h) \ ToSet(fl) ELSE {})
<1>8. fl \in Seq(Chars) /\ Ordered(fl) /\ ToSet(fl) \subseteq ToSet(h)
      /\ held \in Seq(Chars) /\ Ordered(held) /\ ToSet(held) \subseteq ToSet(h)
  BY <1>4, <1>6, <1>7
<1>9. painted \in Seq(Chars) /\ ToSet(painted) = ToSet(out) \cup ToSet(fl)
  BY <1>6, <1>8, SetOfConcat
<1>10. Ordered(painted)
  <2>1. /\ Pos(painted) = Pos(out) \o Pos(fl) /\ Pos(out) \in Seq(Nat) /\ Pos(fl) \in Seq(Nat)
        /\ ToSet(Pos(out)) = {ch.pos : ch \in ToSet(out)}
        /\ ToSet(Pos(fl)) = {ch.pos : ch \in ToSet(fl)}
    BY <1>6, <1>8, PosOfConcat, PosIs
  <2>2. Below(Pos(out), Pos(fl))
    BY <1>6, <1>8, <2>1 DEF Below
  <2> QED
    BY <1>6, <1>8, <2>1, <2>2, IncreasingParts DEF Ordered
<1>11. gone \in SUBSET Chars
  <2>1. ToSet(s) \subseteq Chars
    BY <1>2 DEF ToSet
  <2> QED
    BY <1>6, <2>1
<1>12. ToSet(painted) \cup ToSet(held) \cup gone = ToSet(s)
  <2>1. CASE Becomes
    BY <1>6, <1>7, <1>8, <1>9, <2>1
  <2>2. CASE ~Becomes
    BY <1>4, <1>6, <1>7, <1>8, <1>9, <2>2
  <2> QED
    BY <2>1, <2>2
<1>13. ASSUME NEW a \in ToSet(painted), NEW b \in ToSet(held) PROVE a.pos < b.pos
  <2>1. ~Becomes
    BY <1>7
  <2>2. a \in ToSet(out) /\ b \in ToSet(h)
    BY <1>4, <1>7, <1>8, <1>9, <2>1
  <2> QED
    BY <1>6, <2>2
<1>14. ASSUME NEW a \in ToSet(painted) \cup ToSet(held), NEW b \in gone PROVE a.pos # b.pos
  <2>1. a \in Chars /\ b \in Chars
    <3>1. ToSet(painted) \subseteq Chars /\ ToSet(held) \subseteq Chars
      BY <1>8, <1>9 DEF ToSet
    <3> QED
      BY <1>11, <3>1
  <2>2. a.pos \in Nat /\ b.pos \in Nat
    BY <2>1, CharsArePositioned
  <2>3. CASE b \in noise
    <3>1. a \in ToSet(out) \/ a \in ToSet(h)
      BY <1>8, <1>9
    <3>2. a \in ToSet(h) => b.pos < a.pos
      BY <1>6, <2>3
    <3> QED
      BY <1>6, <2>2, <2>3, <3>1, <3>2
  <2>4. CASE b \in ToSet(h) \ ToSet(fl) /\ Becomes
    <3>1. fl = <<>> /\ held = <<>>
      BY <1>4, <2>4
    <3>2. a \in ToSet(out)
      BY <1>7, <1>9, <3>1
    <3>3. a.pos < b.pos
      BY <1>6, <2>4, <3>2
    <3> QED
      BY <2>2, <3>3
  <2> QED
    BY <2>3, <2>4
<1>15. shown' = shown \o Pos(painted) /\ carry' = held /\ dropped' = dropped \cup gone
       /\ painted = Painted(toks)
  BY <1>5
<1> HIDE DEF painted, held, gone
<1> QED
  BY <1>8, <1>9, <1>10, <1>11, <1>12, <1>13, <1>14, <1>15 DEF s

LEMMA TextInit == Init => TextInv
<1> SUFFICES ASSUME Init PROVE TextInv
  OBVIOUS
<1>1. printed = 0 /\ carry = <<>> /\ shown = <<>> /\ dropped = {}
  BY DEF Init
<1>2. ToSet(<<>>) = {} /\ DOMAIN <<>> = {} /\ <<>> \in Seq(Chars) /\ <<>> \in Seq(1 .. MaxOut)
  BY DEF ToSet
<1>3. Increasing(shown \o [i \in DOMAIN carry |-> carry[i].pos])
  BY <1>1 DEF Increasing
<1> QED
  BY <1>1, <1>2, <1>3, CharsArePositioned DEF TextInv, PaintedInOrder, HeldApart

LEMMA TextOutput ==
  ASSUME TextInv, NEW toks \in BoundedSeq(Tokens, MaxChunk), TickOutput(toks)
  PROVE  TextInv' /\ Painted(toks) \in Seq(Chars)
<1>0. PICK painted \in Seq(Chars), held \in Seq(Chars), gone \in SUBSET Chars :
        /\ painted = Painted(toks)
        /\ shown' = shown \o Pos(painted) /\ carry' = held
        /\ dropped' = dropped \cup gone
        /\ Ordered(painted) /\ Ordered(held)
        /\ ToSet(painted) \cup ToSet(held) \cup gone = ToSet(TextOf(toks))
        /\ \A a \in ToSet(painted), b \in ToSet(held) : a.pos < b.pos
        /\ \A a \in ToSet(painted) \cup ToSet(held), b \in gone : a.pos # b.pos
  BY OutputText
<1> DEFINE s == TextOf(toks)
           k == printed + Len(toks)
<1>1. toks \in Seq(Tokens) /\ k <= MaxOut /\ printed' = k /\ k \in Nat
  BY ChunkIsSeq DEF TickOutput, TextInv
<1>2. /\ \A ch \in ToSet(s) : ch.pos \in 1 .. k
      /\ \A x \in ToSet(shown), ch \in ToSet(s) : x < ch.pos
      /\ \A ch \in ToSet(s), d \in dropped : ch.pos # d.pos
      /\ \A x \in 1 .. k : x \in ToSet(shown) \/ \E ch \in ToSet(s) \cup dropped : x = ch.pos
  BY <1>1, NewText
<1> HIDE DEF s, k
<1>3. ToSet(painted) \cup ToSet(held) \cup gone = ToSet(s)
  BY <1>0 DEF s
<1>4. /\ shown \in Seq(Nat) /\ Increasing(shown) /\ Pos(painted) \in Seq(Nat) /\ Pos(held) \in Seq(Nat)
      /\ ToSet(Pos(painted)) = {ch.pos : ch \in ToSet(painted)}
      /\ ToSet(Pos(held)) = {ch.pos : ch \in ToSet(held)}
  <2>1. 1 .. MaxOut \subseteq Nat /\ shown \in Seq(1 .. MaxOut)
    BY CharsArePositioned DEF TextInv
  <2>2. shown \in Seq(Nat)
    BY <2>1, SeqOfSubset
  <2> QED
    BY <2>2, OldText, PosIs
<1>5. /\ shown' \in Seq(Nat) /\ ToSet(shown') = ToSet(shown) \cup ToSet(Pos(painted))
  <2>1. shown \o Pos(painted) \in Seq(Nat)
    BY <1>4
  <2>2. ToSet(shown \o Pos(painted)) = ToSet(shown) \cup ToSet(Pos(painted))
    BY <1>4, SetOfConcat
  <2> QED
    BY <1>0, <2>1, <2>2
<1>6. Increasing(shown')
  <2>1. Below(shown, Pos(painted))
    BY <1>2, <1>3, <1>4 DEF Below
  <2>2. Increasing(shown \o Pos(painted))
    BY <1>0, <1>4, <2>1, IncreasingParts DEF Ordered
  <2> QED
    BY <1>0, <2>2
<1>7. Increasing(shown' \o Pos(held))
  <2>1. \A x \in ToSet(shown'), ch \in ToSet(held) : x < ch.pos
    BY <1>0, <1>2, <1>3, <1>4, <1>5
  <2>2. Below(shown', Pos(held))
    BY <1>4, <2>1 DEF Below
  <2> QED
    BY <1>0, <1>4, <1>5, <1>6, <2>2, IncreasingParts DEF Ordered
<1>8. \A x \in ToSet(shown') : x \in 1 .. k
  <2>1. \A x \in ToSet(shown) : x \in 1 .. k
    <3>1. printed \in Nat /\ Len(toks) \in Nat /\ k = printed + Len(toks)
      BY <1>1 DEF TextInv, k
    <3>2. \A x \in ToSet(shown) : x \in 1 .. printed
      BY OldText
    <3> QED
      BY <3>1, <3>2
  <2> QED
    BY <1>2, <1>3, <1>4, <1>5, <2>1
<1>9. \A ch \in ToSet(held) \cup dropped' : ch.pos \in 1 .. k
  <2>1. \A ch \in dropped : ch.pos \in 1 .. k
    <3>1. printed \in Nat /\ Len(toks) \in Nat /\ k = printed + Len(toks)
      BY <1>1 DEF TextInv, k
    <3>2. \A ch \in dropped : ch.pos \in 1 .. printed
      BY OldText
    <3> QED
      BY <3>1, <3>2
  <2> QED
    BY <1>0, <1>2, <1>3, <2>1
<1>10. ASSUME NEW x \in 1 .. k
       PROVE  x \in ToSet(shown') \/ \E ch \in ToSet(held) \cup dropped' : x = ch.pos
  <2>1. x \in ToSet(shown) \/ \E ch \in ToSet(s) \cup dropped : x = ch.pos
    BY <1>2
  <2>2. ASSUME NEW ch \in ToSet(s), x = ch.pos
        PROVE  x \in ToSet(shown') \/ \E c \in ToSet(held) \cup dropped' : x = c.pos
    <3>1. ch \in ToSet(painted) \/ ch \in ToSet(held) \cup dropped'
      BY <1>0, <1>3
    <3>2. ch \in ToSet(painted) => x \in ToSet(shown')
      BY <1>4, <1>5, <2>2
    <3> QED
      BY <2>2, <3>1, <3>2
  <2>3. dropped \subseteq dropped' /\ ToSet(shown) \subseteq ToSet(shown')
    BY <1>0, <1>5
  <2> QED
    BY <2>1, <2>2, <2>3
<1>11. \A ch \in ToSet(held), d \in dropped' : ch.pos # d.pos
  <2> SUFFICES ASSUME NEW ch \in ToSet(held), NEW d \in dropped' PROVE ch.pos # d.pos
    OBVIOUS
  <2>1. ch \in ToSet(s)
    BY <1>3
  <2>2. d \in dropped \/ d \in gone
    BY <1>0
  <2> QED
    BY <1>0, <1>2, <2>1, <2>2
<1>12. \A x \in ToSet(shown'), d \in dropped' : x # d.pos
  <2> SUFFICES ASSUME NEW x \in ToSet(shown'), NEW d \in dropped' PROVE x # d.pos
    OBVIOUS
  <2>1. CASE x \in ToSet(shown)
    <3>1. d \in dropped \/ d \in ToSet(s)
      BY <1>0, <1>3
    <3>2. d \in dropped => x # d.pos
      BY <2>1, OldText
    <3>3. d \in ToSet(s) => x < d.pos /\ d.pos \in Nat /\ x \in Nat
      BY <1>2, <1>8, <2>1
    <3> QED
      BY <3>1, <3>2, <3>3
  <2>2. CASE \E a \in ToSet(painted) : x = a.pos
    <3>1. PICK a \in ToSet(painted) : x = a.pos
      BY <2>2
    <3>2. a \in ToSet(s)
      BY <1>3
    <3>3. d \in dropped \/ d \in gone
      BY <1>0
    <3> QED
      BY <1>0, <1>2, <3>1, <3>2, <3>3
  <2> QED
    BY <1>4, <1>5, <2>1, <2>2
<1>13. shown' \in Seq(1 .. MaxOut)
  <2>1. 1 .. k \subseteq 1 .. MaxOut
    BY <1>1, CharsArePositioned
  <2>2. ToSet(shown') \subseteq 1 .. MaxOut
    BY <1>8, <2>1
  <2> QED
    BY <1>5, <2>2, SeqOfElements
<1>14. PaintedInOrder'
  <2>1. ToSet(shown') \cup {ch.pos : ch \in ToSet(held) \cup dropped'} = 1 .. k
    BY <1>8, <1>9, <1>10
  <2>2. ToSet(shown') \cap {ch.pos : ch \in dropped'} = {}
    BY <1>12
  <2>3. carry' = held /\ printed' = k
    BY <1>0, <1>1
  <2> QED
    BY <1>7, <2>1, <2>2, <2>3 DEF PaintedInOrder, Pos
<1>15. k \in 0 .. MaxOut
  BY <1>1, CharsArePositioned
<1>16. dropped' \subseteq Chars
  BY <1>0 DEF TextInv
<1> QED
  BY <1>0, <1>1, <1>11, <1>13, <1>14, <1>15, <1>16 DEF TextInv, HeldApart

LEMMA TextStep == TextInv /\ [Next]_vars => TextInv'
<1> SUFFICES ASSUME TextInv, [Next]_vars PROVE TextInv'
  OBVIOUS
<1>1. CASE \E toks \in BoundedSeq(Tokens, MaxChunk) : TickOutput(toks)
  BY <1>1, TextOutput
<1>2. CASE UNCHANGED <<printed, carry, shown, dropped>>
  BY <1>2 DEF TextInv, PaintedInOrder, HeldApart
<1> QED
  BY <1>1, <1>2 DEF Next, TickStatus, TickPty, TickClip, TickPaint, OnScroll, Resize,
                    OnPointer, BeginNewTerminalSurface, text, vars

\* Whatever way the output is cut into chunks and whatever the filter takes for a
\* banner: each character is written once and in order, held back, or dropped.
THEOREM PaintedInOrderCorrect == Spec => []PaintedInOrder
<1>1. TextInv => PaintedInOrder
  BY DEF TextInv
<1> QED
  BY <1>1, TextInit, TextStep, PTL DEF Spec
-----------------------------------------------------------------------------
(* The terminal and its frames.                                              *)

\* The place of the viewport is on the screen: a resize to the same height
\* leaves it where it is, and so does every write.
TermInv ==
  /\ screen \in Seq(Seq(Chars)) /\ screen # <<>>
  /\ top \in 0 .. Len(screen) /\ (top # 0 => top + rows <= Len(screen))
  /\ selected \in Nat /\ rows \in Heights

RenderInv ==
  /\ dirty \in {"clean", "partial", "full"}
  /\ row_dirty \subseteq 1 .. rows
  /\ (dirty = "clean" => row_dirty = {})
  /\ FrameUpToDate

LEMMA RowsPositive == TermInv => rows \in Nat /\ rows >= 1
  BY FeedAssumption DEF FeedAssumption, TermInv

LEMMA ActiveTopIs == ASSUME NEW scr \in Seq(Seq(Chars)), NEW height \in Nat
                     PROVE  ActiveTop(scr, height) \in Nat /\ ActiveTop(scr, height) >= 1
<1> DEFINE k == Len(scr) - height + 1
<1>1. k \in Int
  OBVIOUS
<1> HIDE DEF k
<1>2. \E x \in {1, k} : \A y \in {1, k} : x >= y
  BY <1>1
<1>3. Max({1, k}) \in {1, k} /\ Max({1, k}) >= 1
  BY <1>2 DEF Max
<1> QED
  BY <1>1, <1>3 DEF ActiveTop, k

LEMMA ViewShape == ASSUME NEW scr, NEW first, NEW height, NEW sel
                   PROVE  DOMAIN ViewOf(scr, first, height, sel) = 1 .. height
  BY DEF ViewOf

Shows(f, view) == DOMAIN f = DOMAIN view /\ \A y \in DOMAIN view : f[y] = view[y]

\* The flags tell which rows of the view differ from those before.
Flagged(previous, view, kind, flags) ==
  /\ kind \in {"clean", "partial", "full"} /\ (kind = "clean" => flags = {})
  /\ DOMAIN previous = DOMAIN view /\ kind # "full" =>
       \A y \in DOMAIN view \ flags : previous[y] = view[y]

\* A projection shows the view if the flags tell the difference.
LEMMA Projected ==
  ASSUME NEW previous, NEW view, NEW kind, NEW flags, Flagged(previous, view, kind, flags)
  PROVE  Shows(ProjectRenderState(previous, view, kind, flags), view)
<1> USE DEF Flagged, Shows
<1>1. CASE kind = "clean" /\ DOMAIN previous = DOMAIN view
  <2>1. ProjectRenderState(previous, view, kind, flags) = previous
    BY <1>1 DEF ProjectRenderState
  <2> QED
    BY <1>1, <2>1
<1>2. CASE kind = "partial" /\ DOMAIN previous = DOMAIN view
  <2>1. ProjectRenderState(previous, view, kind, flags)
          = [y \in DOMAIN view |-> IF y \in flags THEN view[y] ELSE previous[y]]
    BY <1>2 DEF ProjectRenderState
  <2> QED
    BY <1>2, <2>1
<1>3. CASE ~(kind = "clean" /\ DOMAIN previous = DOMAIN view)
           /\ ~(kind = "partial" /\ DOMAIN previous = DOMAIN view)
  <2>1. ProjectRenderState(previous, view, kind, flags) = view
    BY <1>3 DEF ProjectRenderState
  <2> QED
    BY <2>1
<1> QED
  BY <1>1, <1>2, <1>3

\* The flags after a change tell which rows of the frame are out of date.
LEMMA LookIs ==
  ASSUME RenderInv, NEW view, NEW moved
  PROVE  /\ KindAfter(view, moved) \in {"clean", "partial", "full"}
         /\ FlagsAfter(view) \subseteq 1 .. rows
         /\ ~moved /\ KindAfter(view, moved) = "clean" => FlagsAfter(view) = {}
         /\ KindAfter(view, moved) = "clean" => FlagsAfter(view) = {}
         /\ KindAfter(view, moved) # "full" =>
              /\ DOMAIN frame = 1 .. rows
              /\ \A y \in (1 .. rows) \ FlagsAfter(view) : frame[y] = view[y]
  BY DEF RenderInv, FrameUpToDate, KindAfter, FlagsAfter

\* A snapshot after a change.
LEMMA SnapshotIs ==
  ASSUME NEW previous, NEW view, NEW kind, NEW flags,
         Snapshot(previous, view, kind, flags),
         view = View', DOMAIN view = 1 .. rows', Flagged(previous, view, kind, flags)
  PROVE  RenderInv'
<1>1. frame' = ProjectRenderState(previous, view, kind, flags) /\ dirty' = "clean" /\ row_dirty' = {}
  BY DEF Snapshot
<1>2. Shows(frame', view)
  BY <1>1, Projected
<1> QED
  BY <1>1, <1>2 DEF RenderInv, FrameUpToDate, Shows

LEMMA TermInit == Init => TermInv /\ RenderInv
<1> SUFFICES ASSUME Init PROVE TermInv /\ RenderInv
  OBVIOUS
<1>1. TermInv
  <2>1. screen = <<<<>>>> /\ <<>> \in Seq(Chars) /\ top = 0 /\ selected = 0 /\ rows \in Heights
    BY DEF Init
  <2>2. screen \in Seq(Seq(Chars)) /\ Len(screen) = 1
    BY <2>1
  <2> QED
    BY <2>1, <2>2 DEF TermInv
<1>2. DOMAIN View = 1 .. rows
  BY ViewShape DEF View
<1> QED
  BY <1>1, <1>2 DEF Init, RenderInv, FrameUpToDate

LEMMA TermStep == TextInv /\ TermInv /\ RenderInv /\ [Next]_vars => TermInv' /\ RenderInv'
<1> SUFFICES ASSUME TextInv, TermInv, RenderInv, [Next]_vars PROVE TermInv' /\ RenderInv'
  OBVIOUS
<1>0. rows \in Nat /\ rows >= 1 /\ Len(screen) \in Nat /\ top \in Nat
  BY RowsPositive DEF TermInv
<1>1. ASSUME NEW toks \in BoundedSeq(Tokens, MaxChunk), TickOutput(toks)
      PROVE  TermInv' /\ RenderInv'
  <2>1. Painted(toks) \in Seq(Chars)
    BY <1>1, TextOutput
  <2>2. screen' = Write(screen, Painted(toks)) /\ UNCHANGED <<top, selected, rows>>
    BY <1>1 DEF TickOutput, Painted, Flushed, Becomes, Filtered, ChunkOf
  <2>3. Look(ViewOf(screen', top, rows, selected))
    BY <1>1 DEF TickOutput
  <2>4. screen' \in Seq(Seq(Chars)) /\ Len(screen') >= Len(screen) /\ screen' # <<>>
    BY <2>1, <2>2, WriteIs DEF TermInv
  <2>5. TermInv'
    BY <1>0, <2>2, <2>4 DEF TermInv
  <2>a. PICK view : view = ViewOf(screen', top, rows, selected)
    OBVIOUS
  <2>6. View' = view
    BY <2>2, <2>a DEF View
  <2>7. /\ dirty' = KindAfter(view, FALSE) /\ row_dirty' = FlagsAfter(view) /\ frame' = frame
    BY <2>3, <2>a DEF Look
  <2>8. RenderInv'
    BY <2>2, <2>6, <2>7, LookIs DEF RenderInv, FrameUpToDate
  <2> QED
    BY <2>5, <2>8
<1>2. CASE TickPaint
  <2>1. UNCHANGED <<screen, top, selected, rows>> /\ Snapshot(frame, View, dirty, row_dirty)
    BY <1>2 DEF TickPaint, terminal
  <2>2. View' = View /\ DOMAIN View = 1 .. rows
    BY <2>1, ViewShape DEF View
  <2>3. TermInv'
    BY <2>1 DEF TermInv
  <2>a. PICK view, kind, flags, previous :
          view = View /\ kind = dirty /\ flags = row_dirty /\ previous = frame
    OBVIOUS
  <2>4. kind # "full" => \A y \in DOMAIN view \ flags : previous[y] = view[y]
    BY <2>2, <2>a DEF RenderInv, FrameUpToDate
  <2>5. RenderInv'
    BY <2>1, <2>2, <2>a, <2>4, SnapshotIs DEF RenderInv, Flagged
  <2> QED
    BY <2>3, <2>5
<1>3. ASSUME NEW first \in 0 .. Len(screen), OnScroll(first) PROVE TermInv' /\ RenderInv'
  <2>a. PICK view, kind, flags :
          /\ view = ViewOf(screen, first, rows, selected)
          /\ kind = KindAfter(view, first # top) /\ flags = FlagsAfter(view)
    OBVIOUS
  <2>1. /\ top' = first /\ (first = 0 \/ first + rows <= Len(screen))
        /\ UNCHANGED <<screen, selected, rows>> /\ Snapshot(<<>>, view, kind, flags)
    BY <1>3, <2>a DEF OnScroll
  <2>2. TermInv'
    BY <2>1 DEF TermInv
  <2>3. View' = view /\ DOMAIN view = 1 .. rows
    BY <2>1, <2>a, ViewShape DEF View
  <2>4. DOMAIN <<>> # DOMAIN view
    BY <1>0, <2>3
  <2>5. kind \in {"clean", "partial", "full"} /\ (kind = "clean" => flags = {})
    BY <2>a, LookIs
  <2>6. RenderInv'
    BY <2>1, <2>3, <2>4, <2>5, SnapshotIs DEF Flagged
  <2> QED
    BY <2>2, <2>6
<1>4. ASSUME NEW height \in Heights, NEW reports \in BOOLEAN, Resize(height, reports)
      PROVE  TermInv' /\ RenderInv'
  <2>a. PICK view, kind, flags, previous :
          /\ view = ViewOf(screen, top', height, selected) /\ flags = row_dirty
          /\ kind = (IF height = rows THEN dirty ELSE "full") /\ previous = frame
    OBVIOUS
  <2>1. /\ rows' = height /\ top' = (IF top + height > Len(screen) THEN 0 ELSE top)
        /\ UNCHANGED <<screen, selected>> /\ Snapshot(previous, view, kind, flags)
    BY <1>4, <2>a DEF Resize
  <2>2. height \in Nat
    BY FeedAssumption DEF FeedAssumption
  <2>3. TermInv'
    BY <1>0, <2>1, <2>2 DEF TermInv
  <2>4. View' = view /\ DOMAIN view = 1 .. rows'
    BY <2>1, <2>a, ViewShape DEF View
  <2>5. kind \in {"clean", "partial", "full"} /\ (kind = "clean" => flags = {})
    BY <2>a DEF RenderInv
  <2>6. kind # "full" => \A y \in DOMAIN view \ flags : previous[y] = view[y]
    <3> SUFFICES ASSUME kind # "full" PROVE \A y \in DOMAIN view \ flags : previous[y] = view[y]
      OBVIOUS
    <3>1. height = rows /\ kind = dirty
      BY <2>a
    <3>2. top' = top
      BY <1>0, <2>1, <3>1 DEF TermInv
    <3>3. view = View
      BY <2>a, <3>1, <3>2 DEF View
    <3>4. DOMAIN view = 1 .. rows
      BY <2>1, <2>4, <3>1
    <3> QED
      BY <2>a, <3>1, <3>3, <3>4 DEF RenderInv, FrameUpToDate
  <2>7. RenderInv'
    BY <2>1, <2>4, <2>5, <2>6, SnapshotIs DEF Flagged
  <2> QED
    BY <2>3, <2>7
<1>5. ASSUME NEW y \in 1 .. rows, OnPointer(y) PROVE TermInv' /\ RenderInv'
  <2>a. PICK view, kind, flags, previous :
          /\ view = ViewOf(screen, top, rows, selected') /\ previous = frame
          /\ kind = KindAfter(view, FALSE) /\ flags = FlagsAfter(view)
    OBVIOUS
  <2>1. /\ selected' = ActiveTop(screen, rows) + y - 1
        /\ UNCHANGED <<screen, top, rows>> /\ Snapshot(previous, view, kind, flags)
    BY <1>5, <2>a DEF OnPointer
  <2>2. TermInv'
    <3>1. ActiveTop(screen, rows) \in Nat /\ ActiveTop(screen, rows) >= 1
      BY <1>0, ActiveTopIs DEF TermInv
    <3>2. selected' \in Nat
      BY <1>0, <2>1, <3>1
    <3> QED
      BY <2>1, <3>2 DEF TermInv
  <2>3. View' = view /\ DOMAIN view = 1 .. rows
    BY <2>1, <2>a, ViewShape DEF View
  <2>4. /\ kind \in {"clean", "partial", "full"} /\ (kind = "clean" => flags = {})
        /\ kind # "full" => \A x \in (1 .. rows) \ flags : previous[x] = view[x]
    BY <2>a, LookIs
  <2>5. RenderInv'
    BY <2>1, <2>3, <2>4, SnapshotIs DEF Flagged
  <2> QED
    BY <2>2, <2>5
<1>6. CASE BeginNewTerminalSurface
  <2>a. PICK view, kind, flags, previous :
          /\ view = ViewOf(screen', 0, rows, 0) /\ previous = frame
          /\ kind = KindAfter(view, top # 0) /\ flags = FlagsAfter(view)
    OBVIOUS
  <2>1. /\ screen' = <<IF at_prompt THEN <<Char("$", 0)>> ELSE <<>>>>
        /\ top' = 0 /\ selected' = 0 /\ rows' = rows
        /\ Snapshot(previous, view, kind, flags)
    BY <1>6, <2>a DEF BeginNewTerminalSurface
  <2>2. TermInv'
    <3>1. Char("$", 0) \in Chars
      BY CharsArePositioned
    <3>2. (IF at_prompt THEN <<Char("$", 0)>> ELSE <<>>) \in Seq(Chars)
      BY <3>1
    <3>3. screen' \in Seq(Seq(Chars)) /\ Len(screen') = 1
      BY <2>1, <3>2
    <3> QED
      BY <2>1, <3>3 DEF TermInv
  <2>3. View' = view /\ DOMAIN view = 1 .. rows
    BY <2>1, <2>a, ViewShape DEF View
  <2>4. /\ kind \in {"clean", "partial", "full"} /\ (kind = "clean" => flags = {})
        /\ kind # "full" => \A x \in (1 .. rows) \ flags : previous[x] = view[x]
    BY <2>a, LookIs
  <2>5. RenderInv'
    BY <2>1, <2>3, <2>4, SnapshotIs DEF Flagged
  <2> QED
    BY <2>2, <2>5
<1>7. CASE UNCHANGED <<screen, top, selected, rows, dirty, row_dirty, frame>>
  BY <1>7 DEF TermInv, RenderInv, FrameUpToDate, View
<1>8. UNCHANGED <<terminal, render>> => TermInv' /\ RenderInv'
  BY <1>7 DEF terminal, render
<1> QED
  BY <1>1, <1>2, <1>3, <1>4, <1>5, <1>6, <1>8 DEF Next, TickStatus, TickPty, TickClip, vars

\* A row whose flag is clear is in the frame as it is in the terminal, for any
\* output, heights, scrolling and selections between two snapshots.
THEOREM FrameUpToDateCorrect == Spec => []FrameUpToDate
<1>1. RenderInv => FrameUpToDate
  BY DEF RenderInv
<1> QED
  BY <1>1, TextInit, TextStep, TermInit, TermStep, PTL DEF Spec
-----------------------------------------------------------------------------
(* The answers of the terminal.                                              *)

Ticks == [at : {"idle", "pty", "clip", "paint"}, taken : Seq(Nat), clips : Nat]

\* The answers that have reached the guest or are on their way to it.
OnTheWay == sent \o tick.taken \o pty_out

\* Only a tick that waits for send_input holds answers.
EffectInv ==
  /\ answers \in Nat /\ chrome \in Nat
  /\ sent \in Seq(Nat) /\ pty_out \in Seq(Nat) /\ tick \in Ticks
  /\ failed \subseteq 1 .. answers
  /\ tick.at # "pty" => tick.taken = <<>>
  /\ AnswersSentOnce

LEMMA CountIs == ASSUME NEW chars \in Seq(Chars), NEW tok PROVE Count(chars, tok) \in Nat
<1>1. IsFiniteSet(1 .. Len(chars))
  BY FS_Interval
<1>2. {i \in DOMAIN chars : chars[i].tok = tok} \subseteq 1 .. Len(chars)
  OBVIOUS
<1>3. IsFiniteSet({i \in DOMAIN chars : chars[i].tok = tok})
  BY <1>1, <1>2, FS_Subset
<1> QED
  BY <1>3, FS_CardinalityType DEF Count

LEMMA NumbersIs ==
  ASSUME NEW k \in Nat, NEW n \in Nat
  PROVE  /\ Numbers(k, n) \in Seq(Nat) /\ Increasing(Numbers(k, n))
         /\ ToSet(Numbers(k, n)) = k + 1 .. k + n
<1>1. Numbers(k, n) \in [1 .. n -> Nat] /\ DOMAIN Numbers(k, n) = 1 .. n
  BY DEF Numbers
<1>2. \A i \in 1 .. n : Numbers(k, n)[i] = k + i
  BY DEF Numbers
<1>3. Increasing(Numbers(k, n))
  BY <1>1, <1>2 DEF Increasing
<1>4. \A x \in k + 1 .. k + n : x - k \in 1 .. n /\ k + (x - k) = x
  OBVIOUS
<1>5. \A x \in k + 1 .. k + n : x \in ToSet(Numbers(k, n))
  BY <1>1, <1>2, <1>4 DEF ToSet
<1>6. \A x \in ToSet(Numbers(k, n)) : x \in k + 1 .. k + n
  BY <1>1, <1>2 DEF ToSet
<1>7. ToSet(Numbers(k, n)) = k + 1 .. k + n
  BY <1>5, <1>6
<1>8. Numbers(k, n) \in Seq(Nat)
  BY <1>1
<1> QED
  BY <1>3, <1>7, <1>8

\* The answers up to k, in order, but those lost.
Answered(s, k, lost) ==
  s \in Seq(Nat) /\ Increasing(s) /\ lost \subseteq 1 .. k /\ ToSet(s) = (1 .. k) \ lost

LEMMA NewAnswers ==
  ASSUME NEW s, NEW k \in Nat, NEW n \in Nat, NEW lost, Answered(s, k, lost)
  PROVE  Answered(s \o Numbers(k, n), k + n, lost)
<1> DEFINE t == Numbers(k, n)
<1>0. s \in Seq(Nat) /\ Increasing(s) /\ lost \subseteq 1 .. k /\ ToSet(s) = (1 .. k) \ lost
  BY DEF Answered
<1>1. t \in Seq(Nat) /\ Increasing(t) /\ ToSet(t) = k + 1 .. k + n
  BY NumbersIs
<1> HIDE DEF t
<1>2. Below(s, t)
  BY <1>0, <1>1 DEF Below
<1>3. s \o t \in Seq(Nat) /\ Increasing(s \o t)
  BY <1>0, <1>1, <1>2, IncreasingParts
<1>4. ToSet(s \o t) = ToSet(s) \cup ToSet(t)
  BY <1>0, <1>1, SetOfConcat
<1>5. 1 .. k + n = (1 .. k) \cup (k + 1 .. k + n)
  OBVIOUS
<1>6. ToSet(s \o t) = (1 .. k + n) \ lost
  BY <1>0, <1>1, <1>4, <1>5
<1>7. lost \subseteq 1 .. k + n
  BY <1>0, <1>5
<1> QED
  BY <1>3, <1>6, <1>7 DEF t, Answered

LEMMA EffectInit == Init => EffectInv
<1> SUFFICES ASSUME Init PROVE EffectInv
  OBVIOUS
<1>1. /\ answers = 0 /\ chrome = 0 /\ sent = <<>> /\ pty_out = <<>> /\ failed = {}
      /\ tick = [at |-> "idle", taken |-> <<>>, clips |-> 0]
  BY DEF Init, At
<1>2. tick \in Ticks /\ tick.taken = <<>>
  BY <1>1 DEF Ticks
<1>3. sent \o tick.taken \o pty_out = <<>>
  BY <1>1, <1>2
<1>4. AnswersSentOnce
  BY <1>1, <1>3 DEF AnswersSentOnce, Increasing, ToSet
<1> QED
  BY <1>1, <1>2, <1>4 DEF EffectInv

LEMMA TakeChromeIs ==
  ASSUME NEW queued \in Nat, TakeChrome(queued)
  PROVE  chrome' = 0 /\ tick' \in Ticks /\ tick'.taken = <<>> /\ tick'.at # "pty"
<1>1. <<>> \in Seq(Nat)
  OBVIOUS
<1> QED
  BY <1>1 DEF TakeChrome, At, Ticks

LEMMA EffectParts ==
  ASSUME EffectInv
  PROVE  /\ tick.taken \in Seq(Nat) /\ tick.at \in {"idle", "pty", "clip", "paint"} /\ tick.clips \in Nat
         /\ Answered(OnTheWay, answers, failed)
<1>1. tick.taken \in Seq(Nat) /\ tick.at \in {"idle", "pty", "clip", "paint"} /\ tick.clips \in Nat
  BY DEF EffectInv, Ticks
<1>2. sent \o tick.taken \o pty_out \in Seq(Nat)
  <2> DEFINE st == sent \o tick.taken
  <2>1. st \in Seq(Nat)
    BY <1>1 DEF EffectInv
  <2> HIDE DEF st
  <2>2. st \o pty_out \in Seq(Nat)
    BY <2>1 DEF EffectInv
  <2> QED
    BY <2>2 DEF st
<1> QED
  BY <1>1, <1>2 DEF EffectInv, AnswersSentOnce, OnTheWay, Answered

LEMMA EffectOutput ==
  ASSUME TextInv, EffectInv, NEW toks \in BoundedSeq(Tokens, MaxChunk), TickOutput(toks)
  PROVE  EffectInv'
<1> DEFINE n == Count(Painted(toks), "q")
           c == Count(Painted(toks), "c")
           taken == pty_out \o Numbers(answers, n)
<1>1. n \in Nat /\ c \in Nat
  <2>1. Painted(toks) \in Seq(Chars)
    BY TextOutput
  <2> QED
    BY <2>1, CountIs
<1>2. /\ tick.at = "idle" /\ answers' = answers + n /\ pty_out' = <<>>
      /\ IF taken # <<>> THEN tick' = [At("pty") EXCEPT !.taken = taken] /\ chrome' = chrome + c
                         ELSE TakeChrome(chrome + c)
      /\ UNCHANGED <<sent, failed>>
  BY DEF TickOutput, Painted, Flushed, Becomes, Filtered, ChunkOf, TakePtyOutput
<1>3. sent \in Seq(Nat) /\ pty_out \in Seq(Nat) /\ answers \in Nat /\ chrome \in Nat
      /\ failed \subseteq 1 .. answers
  BY DEF EffectInv
<1>4. tick.taken = <<>>
  BY <1>2 DEF EffectInv
<1>5. OnTheWay = sent \o pty_out
  BY <1>3, <1>4 DEF OnTheWay
<1> HIDE DEF n, c
<1>6. Numbers(answers, n) \in Seq(Nat)
  BY <1>1, <1>3, NumbersIs
<1>7. taken \in Seq(Nat)
  BY <1>3, <1>6
<1>b. sent \o taken = OnTheWay \o Numbers(answers, n)
  <2>1. sent \in Seq(Nat) /\ pty_out \in Seq(Nat) /\ Numbers(answers, n) \in Seq(Nat)
    BY <1>3, <1>6
  <2>2. (sent \o pty_out) \o Numbers(answers, n) = sent \o (pty_out \o Numbers(answers, n))
    BY <2>1, ConcatAssociative
  <2> QED
    BY <1>5, <2>2
<1> HIDE DEF taken
<1>8. tick' \in Ticks /\ chrome' \in Nat /\ tick'.taken = taken
      /\ (tick'.at # "pty" => tick'.taken = <<>>)
  <2>1. CASE taken # <<>>
    <3>1. tick' = [at |-> "pty", taken |-> taken, clips |-> 0] /\ chrome' = chrome + c
      BY <1>2, <2>1 DEF At
    <3> QED
      BY <1>1, <1>3, <1>7, <3>1 DEF Ticks
  <2>2. CASE taken = <<>>
    <3>1. TakeChrome(chrome + c) /\ chrome + c \in Nat
      BY <1>1, <1>2, <1>3, <2>2
    <3> QED
      BY <2>2, <3>1, TakeChromeIs
  <2> QED
    BY <2>1, <2>2
<1>9. OnTheWay' = sent \o taken
  <2>1. OnTheWay' = (sent \o taken) \o <<>>
    BY <1>2, <1>8 DEF OnTheWay
  <2> DEFINE st == sent \o taken
  <2>2. st \in Seq(Nat)
    BY <1>3, <1>7
  <2> HIDE DEF st
  <2>3. st \o <<>> = st
    BY <2>2
  <2> QED
    BY <2>1, <2>3 DEF st
<1>10. Answered(OnTheWay, answers, failed)
  BY EffectParts
<1>a. PICK way : way = OnTheWay
  OBVIOUS
<1>11. Answered(way \o Numbers(answers, n), answers + n, failed)
  BY <1>1, <1>3, <1>10, <1>a, NewAnswers
<1>12. AnswersSentOnce'
  <2>1. OnTheWay' = way \o Numbers(answers, n)
    BY <1>9, <1>a, <1>b
  <2> QED
    BY <1>2, <1>11, <2>1 DEF AnswersSentOnce, OnTheWay, Answered
<1>13. failed' \subseteq 1 .. answers'
  BY <1>1, <1>2, <1>3
<1>14. answers' \in Nat /\ sent' \in Seq(Nat) /\ pty_out' \in Seq(Nat)
  BY <1>1, <1>2, <1>3
<1> QED
  BY <1>8, <1>12, <1>13, <1>14 DEF EffectInv

LEMMA EffectPty == ASSUME EffectInv, NEW ok \in BOOLEAN, TickPty(ok) PROVE EffectInv'
<1> DEFINE t == tick.taken
<1>1. /\ sent' = (IF ok THEN sent \o t ELSE sent)
      /\ failed' = (IF ok THEN failed ELSE failed \cup ToSet(t))
      /\ TakeChrome(chrome) /\ pty_out' = pty_out /\ answers' = answers
  BY DEF TickPty
<1>2. sent \in Seq(Nat) /\ pty_out \in Seq(Nat) /\ answers \in Nat /\ chrome \in Nat
      /\ failed \subseteq 1 .. answers
  BY DEF EffectInv
<1>3. t \in Seq(Nat) /\ Increasing((sent \o t) \o pty_out)
      /\ ToSet((sent \o t) \o pty_out) = (1 .. answers) \ failed
  BY EffectParts DEF OnTheWay, Answered
<1>4. chrome' \in Nat /\ tick' \in Ticks /\ tick'.taken = <<>>
  BY <1>1, <1>2, TakeChromeIs
<1> HIDE DEF t
<1>5. OnTheWay' = sent' \o pty_out
  <2>1. sent' \in Seq(Nat)
    BY <1>1, <1>2, <1>3
  <2>2. sent' \o <<>> = sent'
    BY <2>1
  <2> QED
    BY <1>1, <1>4, <2>2 DEF OnTheWay
<1>6. sent \o t \in Seq(Nat) /\ ToSet(sent \o t) = ToSet(sent) \cup ToSet(t)
  BY <1>2, <1>3, SetOfConcat
<1>7. /\ Increasing(sent \o t) /\ Increasing(pty_out) /\ Below(sent \o t, pty_out)
      /\ ToSet((sent \o t) \o pty_out) = ToSet(sent \o t) \cup ToSet(pty_out)
  <2> DEFINE st == sent \o t
  <2>1. st \in Seq(Nat) /\ Increasing(st \o pty_out)
    BY <1>3, <1>6
  <2> HIDE DEF st
  <2>2. Increasing(st) /\ Increasing(pty_out) /\ Below(st, pty_out)
    BY <1>2, <2>1, IncreasingParts
  <2>3. ToSet(st \o pty_out) = ToSet(st) \cup ToSet(pty_out)
    BY <1>2, <2>1, SetOfConcat
  <2> QED
    BY <2>2, <2>3 DEF st
<1>8. Increasing(sent) /\ Below(sent, t)
  BY <1>2, <1>3, <1>7, IncreasingParts
<1>9. CASE ok
  <2>1. OnTheWay' = (sent \o t) \o pty_out /\ failed' = failed
    BY <1>1, <1>5, <1>9
  <2>2. AnswersSentOnce'
    BY <1>1, <1>3, <2>1 DEF AnswersSentOnce, OnTheWay
  <2> QED
    BY <1>1, <1>2, <1>4, <1>6, <1>9, <2>1, <2>2 DEF EffectInv
<1>10. CASE ~ok
  <2>1. OnTheWay' = sent \o pty_out /\ failed' = failed \cup ToSet(t) /\ sent' = sent
    BY <1>1, <1>5, <1>10
  <2>2. Below(sent, pty_out)
    BY <1>6, <1>7 DEF Below
  <2>3. Increasing(sent \o pty_out)
    BY <1>2, <1>7, <1>8, <2>2, IncreasingParts
  <2>4. ToSet(sent \o pty_out) = ToSet(sent) \cup ToSet(pty_out)
    BY <1>2, SetOfConcat
  <2>5. \A x \in ToSet(t) : x \in 1 .. answers /\ x \notin ToSet(sent) /\ x \notin ToSet(pty_out)
    <3> SUFFICES ASSUME NEW x \in ToSet(t)
                 PROVE  x \in 1 .. answers /\ x \notin ToSet(sent) /\ x \notin ToSet(pty_out)
      OBVIOUS
    <3>1. x \in ToSet(sent \o t) /\ x \in 1 .. answers
      BY <1>3, <1>6, <1>7
    <3>2. x \in ToSet(sent) => x < x
      BY <1>8 DEF Below
    <3>3. x \in ToSet(pty_out) => x < x
      BY <1>7, <3>1 DEF Below
    <3> QED
      BY <3>1, <3>2, <3>3
  <2>6. ToSet(sent \o pty_out) = (1 .. answers) \ (failed \cup ToSet(t))
    BY <1>3, <1>6, <1>7, <2>4, <2>5
  <2>7. AnswersSentOnce'
    BY <1>1, <2>1, <2>3, <2>6 DEF AnswersSentOnce, OnTheWay
  <2>8. failed' \subseteq 1 .. answers'
    BY <1>1, <1>2, <2>1, <2>5
  <2> QED
    BY <1>1, <1>2, <1>4, <2>1, <2>7, <2>8 DEF EffectInv
<1> QED
  BY <1>9, <1>10

LEMMA EffectResize ==
  ASSUME EffectInv, NEW height \in Heights, NEW reports \in BOOLEAN, Resize(height, reports)
  PROVE  EffectInv'
<1>1. /\ answers' = (IF reports THEN answers + 1 ELSE answers)
      /\ pty_out' = (IF reports THEN Append(pty_out, answers + 1) ELSE pty_out)
      /\ UNCHANGED <<chrome, sent, failed, tick>>
  BY DEF Resize
<1>2. CASE ~reports
  BY <1>1, <1>2 DEF EffectInv, AnswersSentOnce
<1>3. CASE reports
  <2>1. answers' = answers + 1 /\ pty_out' = Append(pty_out, answers + 1)
    BY <1>1, <1>3
  <2>2. sent \in Seq(Nat) /\ pty_out \in Seq(Nat) /\ answers \in Nat /\ failed \subseteq 1 .. answers
    BY DEF EffectInv
  <2>3. tick.taken \in Seq(Nat) /\ Answered(OnTheWay, answers, failed)
    BY EffectParts
  <2> DEFINE st == sent \o tick.taken
  <2>4. st \in Seq(Nat) /\ OnTheWay = st \o pty_out /\ OnTheWay' = st \o pty_out'
    BY <1>1, <2>2, <2>3 DEF OnTheWay
  <2> HIDE DEF st
  <2>5. OnTheWay' = Append(OnTheWay, answers + 1)
    <3>1. st \o Append(pty_out, answers + 1) = Append(st \o pty_out, answers + 1)
      BY <2>2, <2>4
    <3> QED
      BY <2>1, <2>4, <3>1
  <2>6. Numbers(answers, 1) = <<answers + 1>>
    BY <2>2 DEF Numbers
  <2>a. PICK way : way = OnTheWay
    OBVIOUS
  <2>7. Append(way, answers + 1) = way \o Numbers(answers, 1)
    <3>1. way \in Seq(Nat) /\ answers + 1 \in Nat
      BY <2>2, <2>3, <2>a DEF Answered
    <3>2. Append(way, answers + 1) = way \o <<answers + 1>>
      BY <3>1, AppendIsConcat
    <3> QED
      BY <2>6, <3>2
  <2>8. Answered(way \o Numbers(answers, 1), answers + 1, failed)
    BY <2>2, <2>3, <2>a, NewAnswers
  <2>9. AnswersSentOnce'
    <3>1. OnTheWay' = way \o Numbers(answers, 1)
      BY <2>5, <2>7, <2>a
    <3> QED
      BY <1>1, <2>1, <2>8, <3>1 DEF AnswersSentOnce, OnTheWay, Answered
  <2>10. failed' \subseteq 1 .. answers' /\ answers' \in Nat /\ pty_out' \in Seq(Nat)
    BY <1>1, <2>1, <2>2
  <2> QED
    BY <1>1, <2>9, <2>10 DEF EffectInv
<1> QED
  BY <1>2, <1>3

LEMMA EffectStep == TextInv /\ EffectInv /\ [Next]_vars => EffectInv'
<1> SUFFICES ASSUME TextInv, EffectInv, [Next]_vars PROVE EffectInv'
  OBVIOUS
<1>1. CASE \E toks \in BoundedSeq(Tokens, MaxChunk) : TickOutput(toks)
  BY <1>1, EffectOutput
<1>2. CASE \E ok \in BOOLEAN : TickPty(ok)
  BY <1>2, EffectPty
<1>3. CASE \E height \in Heights, reports \in BOOLEAN : Resize(height, reports)
  BY <1>3, EffectResize
<1>4. CASE UNCHANGED effects /\ (UNCHANGED tick \/ TickClip \/ TickPaint)
  <2>1. UNCHANGED <<pty_out, chrome, answers, sent, failed>>
    BY <1>4 DEF effects
  <2>2. CASE UNCHANGED tick
    BY <2>1, <2>2 DEF EffectInv, AnswersSentOnce
  <2>3. CASE TickClip \/ TickPaint
    <3>1. /\ tick.at # "pty"
          /\ \/ tick.clips > 1 /\ tick' = [tick EXCEPT !.clips = tick.clips - 1]
             \/ tick' \in {At("paint"), At("idle")}
      BY <2>3 DEF TickClip, TickPaint
    <3>2. tick \in Ticks /\ tick.taken = <<>>
      BY <3>1 DEF EffectInv
    <3>3. At("paint") \in Ticks /\ At("idle") \in Ticks
          /\ At("paint").taken = <<>> /\ At("idle").taken = <<>>
          /\ At("paint").at # "pty" /\ At("idle").at # "pty"
      BY DEF At, Ticks
    <3>4. tick.clips > 1 => [tick EXCEPT !.clips = tick.clips - 1] \in Ticks
      BY <3>2 DEF Ticks
    <3>5. [tick EXCEPT !.clips = tick.clips - 1].taken = tick.taken
          /\ [tick EXCEPT !.clips = tick.clips - 1].at = tick.at
      BY <3>2 DEF Ticks
    <3>6. tick' \in Ticks /\ tick'.taken = <<>> /\ tick'.at # "pty"
      BY <3>1, <3>2, <3>3, <3>4, <3>5
    <3> QED
      BY <2>1, <3>2, <3>6 DEF EffectInv, AnswersSentOnce
  <2> QED
    BY <1>4, <2>2, <2>3
<1> QED
  BY <1>1, <1>2, <1>3, <1>4 DEF Next, TickStatus, TickClip, TickPaint, OnScroll, OnPointer,
                    BeginNewTerminalSurface, vars

\* Each answer of the terminal reaches the guest once, in the order given, for any
\* awaits between the two, unless its send_input failed.
THEOREM AnswersSentOnceCorrect == Spec => []AnswersSentOnce
<1>1. EffectInv => AnswersSentOnce
  BY DEF EffectInv
<1> QED
  BY <1>1, TextInit, TextStep, EffectInit, EffectStep, PTL DEF Spec
-----------------------------------------------------------------------------
CountsInv == ready \in BOOLEAN /\ at_prompt \in BOOLEAN /\ ticks \in 0 .. ReadyTicks

LEMMA CountsInit == Init => CountsInv
<1> SUFFICES ASSUME Init PROVE CountsInv
  OBVIOUS
<1>1. ready \in BOOLEAN /\ at_prompt \in BOOLEAN
  BY Zenon DEF Init
<1>2. ticks = 0
  BY DEF Init
<1>3. ticks \in 0 .. ReadyTicks
  BY <1>2, FeedAssumption DEF FeedAssumption
<1> QED
  BY <1>1, <1>3 DEF CountsInv

LEMMA CountsStep == CountsInv /\ [Next]_vars => CountsInv'
<1> SUFFICES ASSUME CountsInv, [Next]_vars PROVE CountsInv'
  OBVIOUS
<1>1. ASSUME NEW toks \in BoundedSeq(Tokens, MaxChunk), TickOutput(toks) PROVE CountsInv'
  <2>1. /\ ready' = (ready \/ (~ready /\ (at_prompt \/ ticks + 1 >= ReadyTicks)))
        /\ at_prompt' = at_prompt
        /\ ticks' = IF ticks < ReadyTicks THEN ticks + 1 ELSE ticks
    BY <1>1 DEF TickOutput
  <2>2. ready' \in BOOLEAN
    BY <2>1 DEF CountsInv
  <2>3. ticks' \in 0 .. ReadyTicks
    BY <2>1, FeedAssumption DEF FeedAssumption, CountsInv
  <2>4. at_prompt' \in BOOLEAN
    BY <2>1 DEF CountsInv
  <2> QED
    BY <2>2, <2>3, <2>4 DEF CountsInv
<1>2. ASSUME NEW prompt \in BOOLEAN, TickStatus(prompt) PROVE CountsInv'
  BY <1>2 DEF TickStatus, CountsInv
<1>3. CASE UNCHANGED text
  BY <1>3 DEF text, CountsInv
<1> QED
  BY <1>1, <1>2, <1>3 DEF Next, TickPty, TickClip, TickPaint, OnScroll, Resize,
                    OnPointer, BeginNewTerminalSurface, vars

\* The state of the screen, the filter and the queues, for any output, heights,
\* banners and bounds.
THEOREM TypeCorrect == Spec => []TypeOK
<1>1. TextInv /\ CountsInv /\ TermInv /\ RenderInv /\ EffectInv => TypeOK
  <2> SUFFICES ASSUME TextInv, CountsInv, TermInv, RenderInv, EffectInv PROVE TypeOK
    OBVIOUS
  <2>1. /\ tick.taken \in Seq(Nat) /\ tick.at \in {"idle", "pty", "clip", "paint"} /\ tick.clips \in Nat
        /\ ToSet(sent \o tick.taken \o pty_out) = (1 .. answers) \ failed
    BY EffectParts DEF OnTheWay, Answered
  <2>2. sent \in Seq(Nat) /\ pty_out \in Seq(Nat)
    BY DEF EffectInv
  <2> DEFINE st == sent \o tick.taken
  <2>3. st \in Seq(Nat) /\ ToSet(st) = ToSet(sent) \cup ToSet(tick.taken)
    BY <2>1, <2>2, SetOfConcat
  <2> HIDE DEF st
  <2>4. ToSet(st \o pty_out) = ToSet(st) \cup ToSet(pty_out)
    BY <2>2, <2>3, SetOfConcat
  <2>5. ToSet(sent) \cup ToSet(tick.taken) \cup ToSet(pty_out) \subseteq 1 .. answers
    BY <2>1, <2>3, <2>4 DEF st
  <2>6. sent \in Seq(1 .. answers) /\ tick.taken \in Seq(1 .. answers) /\ pty_out \in Seq(1 .. answers)
    BY <2>1, <2>2, <2>5, SeqOfElements
  <2>7. answers \in Nat /\ chrome \in Nat /\ failed \subseteq 1 .. answers
    BY DEF EffectInv
  <2>8. ready \in BOOLEAN /\ at_prompt \in BOOLEAN /\ ticks \in 0 .. ReadyTicks
    BY DEF CountsInv
  <2> QED
    BY <2>1, <2>6, <2>7, <2>8 DEF TypeOK, TextInv, TermInv, RenderInv
<1> QED
  BY <1>1, TextInit, TextStep, CountsInit, CountsStep, TermInit, TermStep,
     EffectInit, EffectStep, PTL DEF Spec
===============================================================================
