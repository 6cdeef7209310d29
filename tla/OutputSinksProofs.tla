--------------------------- MODULE OutputSinksProofs ---------------------------
(***************************************************************************)
(* The types of OutputSinks; that no byte of the guest's output is lost,   *)
(* for any callers, buffers and masks; and that a single caller, or a      *)
(* reader of streams, gets the bytes in order and once.                    *)
(*                                                                         *)
(* What makes the first inductive: that a byte is accounted for does not   *)
(* hang on the sinks of the streams, which take_output empties unread      *)
(* whenever the combined sink has bytes.  The order rests on two facts     *)
(* about the sinks: each byte carries its place in what was written and    *)
(* is in the sink of its stream (Sound), and while only take_output is     *)
(* called the streams hold nothing the combined sink does not (Emptied).   *)
(***************************************************************************)
EXTENDS OutputSinks, SequenceTheorems, TLAPS

Accounted(b) == \/ b \in ToSet(out) \cup ToSet(got) \cup spilled
                \/ \E c \in Takers : b \in ToSet(rest[c])

AllAccounted == open => \A b \in ToSet(written) : Accounted(b)

\* The types, with the bytes written numbered up to the bound.
TypeInv == TypeOK /\ Len(written) <= MaxWrites
-----------------------------------------------------------------------------
LEMMA SetOfConcat == ASSUME NEW S, NEW s \in Seq(S), NEW t \in Seq(S)
                     PROVE  ToSet(s \o t) = ToSet(s) \cup ToSet(t)
<1>1. ASSUME NEW b \in ToSet(s) \cup ToSet(t) PROVE b \in ToSet(s \o t)
  <2>1. CASE b \in ToSet(s)
    <3>1. PICK i \in DOMAIN s : b = s[i]
      BY <2>1 DEF ToSet
    <3>2. i \in DOMAIN (s \o t) /\ (s \o t)[i] = s[i]
      OBVIOUS
    <3> QED
      BY <3>1, <3>2 DEF ToSet
  <2>2. CASE b \in ToSet(t)
    <3>1. PICK i \in DOMAIN t : b = t[i]
      BY <2>2 DEF ToSet
    <3>2. Len(s) + i \in DOMAIN (s \o t) /\ (s \o t)[Len(s) + i] = t[i]
      OBVIOUS
    <3> QED
      BY <3>1, <3>2 DEF ToSet
  <2> QED
    BY <1>1, <2>1, <2>2
<1>2. ASSUME NEW b \in ToSet(s \o t) PROVE b \in ToSet(s) \cup ToSet(t)
  <2>1. PICK i \in DOMAIN (s \o t) : b = (s \o t)[i]
    BY DEF ToSet
  <2>2. CASE i <= Len(s)
    BY <2>1, <2>2 DEF ToSet
  <2>3. CASE i > Len(s)
    <3>1. i - Len(s) \in DOMAIN t /\ (s \o t)[i] = t[i - Len(s)]
      BY <2>3
    <3> QED
      BY <2>1, <3>1 DEF ToSet
  <2> QED
    BY <2>1, <2>2, <2>3
<1> QED
  BY <1>1, <1>2

LEMMA SetOfAppend == ASSUME NEW S, NEW s \in Seq(S), NEW e \in S
                     PROVE  ToSet(Append(s, e)) = ToSet(s) \cup {e}
<1>1. /\ DOMAIN Append(s, e) = DOMAIN s \cup {Len(s) + 1}
      /\ Append(s, e)[Len(s) + 1] = e
      /\ \A i \in DOMAIN s : Append(s, e)[i] = s[i]
  OBVIOUS
<1> QED
  BY <1>1 DEF ToSet

LEMMA SetOfParts ==
  ASSUME NEW S, NEW s \in Seq(S), NEW n \in 0 .. Len(s)
  PROVE  /\ SubSeq(s, 1, n) \in Seq(S) /\ SubSeq(s, n + 1, Len(s)) \in Seq(S)
         /\ ToSet(s) \subseteq ToSet(SubSeq(s, 1, n)) \cup ToSet(SubSeq(s, n + 1, Len(s)))
<1>1. SubSeq(s, 1, n) \in Seq(S) /\ SubSeq(s, n + 1, Len(s)) \in Seq(S)
  OBVIOUS
<1>2. ASSUME NEW b \in ToSet(s)
      PROVE  b \in ToSet(SubSeq(s, 1, n)) \cup ToSet(SubSeq(s, n + 1, Len(s)))
  <2>1. PICK i \in DOMAIN s : b = s[i]
    BY DEF ToSet
  <2>2. CASE i <= n
    <3>1. i \in DOMAIN SubSeq(s, 1, n) /\ SubSeq(s, 1, n)[i] = s[i]
      BY <2>2
    <3> QED
      BY <2>1, <3>1 DEF ToSet
  <2>3. CASE i > n
    <3>1. i - n \in DOMAIN SubSeq(s, n + 1, Len(s)) /\ SubSeq(s, n + 1, Len(s))[i - n] = s[i]
      BY <2>3
    <3> QED
      BY <2>1, <3>1 DEF ToSet
  <2> QED
    BY <2>1, <2>2, <2>3
<1> QED
  BY <1>1, <1>2
-----------------------------------------------------------------------------
LEMMA TypeInit == Init => TypeInv
  BY OutputAssumption DEF OutputAssumption, Init, TypeInv, TypeOK, NoBytes

LEMMA DrainedBytes == TypeOK => Drained \in Seq(Bytes)
  BY DEF TypeOK, Drained, Stream

\* What take_output_ex drains.
ExData(mask) ==
  LET of(s) == IF InMask(s, mask) THEN streams[s] ELSE <<>>
  IN  IF mask = 0 THEN out ELSE of("stdout") \o of("stderr") \o of("log")

LEMMA ExBytes == ASSUME TypeOK, NEW mask PROVE ExData(mask) \in Seq(Bytes)
<1>1. \A s \in Stream : (IF InMask(s, mask) THEN streams[s] ELSE <<>>) \in Seq(Bytes)
  BY DEF TypeOK
<1> QED
  BY <1>1 DEF ExData, Stream, TypeOK

LEMMA SetOfBytes == ASSUME NEW s \in Seq(Bytes) PROVE ToSet(s) \subseteq Bytes
  BY DEF ToSet

LEMMA TypeStep == TypeInv /\ [Next]_vars => TypeInv'
<1> SUFFICES ASSUME TypeInv, [Next]_vars PROVE TypeInv'
  OBVIOUS
<1> USE OutputAssumption DEF OutputAssumption, TypeInv
<1>1. ASSUME NEW s \in Stream, Write(s) PROVE TypeInv'
  <2> DEFINE b == [stream |-> s, at |-> Len(written) + 1]
  <2>1. b \in Bytes
    BY <1>1 DEF Write, Bytes, TypeOK
  <2>2. /\ out' = Append(out, b) /\ written' = Append(written, b)
        /\ streams' = [streams EXCEPT ![s] = Append(streams[s], b)]
    BY <1>1 DEF Write
  <2> HIDE DEF b
  <2>3. /\ DOMAIN streams' = Stream /\ streams'[s] = Append(streams[s], b)
        /\ \A u \in Stream \ {s} : streams'[u] = streams[u]
    BY <2>2 DEF TypeOK
  <2>4. Append(streams[s], b) \in Seq(Bytes)
    BY <2>1 DEF TypeOK
  <2> QED
    BY <1>1, <2>1, <2>2, <2>3, <2>4 DEF Write, TypeOK
<1>2. ASSUME NEW c \in Takers, PutBack(c) PROVE TypeInv'
  <2>1. out' \in Seq(Bytes)
    BY <1>2 DEF PutBack, TypeOK
  <2> QED
    BY <1>2, <2>1 DEF PutBack, TypeOK
<1>3. ASSUME NEW c \in Takers, NEW cap \in Caps, TakeOutput(c, cap) PROVE TypeInv'
  <2> DEFINE n == IF Len(Drained) <= cap THEN Len(Drained) ELSE cap
             left == IF cap = 0 THEN <<>> ELSE SubSeq(Drained, n + 1, Len(Drained))
  <2>1. Drained \in Seq(Bytes) /\ n \in 0 .. Len(Drained)
    BY DrainedBytes
  <2>2. SubSeq(Drained, 1, n) \in Seq(Bytes) /\ left \in Seq(Bytes)
    BY <2>1, SetOfParts
  <2>3. /\ got' = got \o SubSeq(Drained, 1, n) /\ rest' = [rest EXCEPT ![c] = left]
        /\ spilled' \in {spilled, spilled \cup ToSet(Drained)}
        /\ out' = <<>> /\ streams' = NoBytes /\ UNCHANGED <<open, written>>
        /\ callers' = callers \cup {c}
    BY <1>3 DEF TakeOutput
  <2>4. ToSet(Drained) \subseteq Bytes
    BY <2>1, SetOfBytes
  <2> HIDE DEF n, left
  <2> QED
    BY <2>2, <2>3, <2>4 DEF TypeOK, NoBytes
<1>4. ASSUME NEW mask \in Masks, NEW fits \in ExFits, TakeOutputEx(mask, fits) PROVE TypeInv'
  <2>1. /\ got' \in {got, got \o ExData(mask)}
        /\ spilled' \in {spilled, spilled \cup ToSet(ExData(mask))}
        /\ out' \in {<<>>, out} /\ UNCHANGED <<open, rest, written>>
        /\ streams' = [s \in Stream |-> IF InMask(s, mask) THEN <<>> ELSE streams[s]]
        /\ callers' \subseteq callers \cup {"combined", "streams"}
    BY <1>4 DEF TakeOutputEx, ExData
  <2>2. ExData(mask) \in Seq(Bytes) /\ ToSet(ExData(mask)) \subseteq Bytes
    BY ExBytes, SetOfBytes
  <2>3. got' \in Seq(Bytes) /\ out' \in Seq(Bytes)
    <3>1. got \in Seq(Bytes) /\ out \in Seq(Bytes) /\ <<>> \in Seq(Bytes)
      BY DEF TypeOK
    <3> HIDE DEF TypeInv
    <3>2. got \o ExData(mask) \in Seq(Bytes)
      BY <2>2, <3>1
    <3> QED
      BY <2>1, <3>1, <3>2
  <2> QED
    BY <2>1, <2>2, <2>3 DEF TypeOK
<1>5. CASE Close
  BY <1>5 DEF Close, TypeOK
<1>6. CASE UNCHANGED vars
  BY <1>6 DEF vars, TypeOK
<1> QED
  BY <1>1, <1>2, <1>3, <1>4, <1>5, <1>6 DEF Next

\* The sinks, the remainders and what was handed out hold bytes of the guest,
\* and of each no more than the guest has written.
THEOREM TypeCorrect == Spec => []TypeOK
<1>1. TypeInv => TypeOK
  BY DEF TypeInv
<1> QED
  BY <1>1, TypeInit, TypeStep, PTL DEF Spec
-----------------------------------------------------------------------------
LEMMA AccountedStep == TypeOK /\ AllAccounted /\ [Next]_vars => AllAccounted'
<1> SUFFICES ASSUME TypeOK, AllAccounted, [Next]_vars, open', NEW b \in ToSet(written')
             PROVE  Accounted(b)'
  BY DEF AllAccounted
<1>0. /\ out \in Seq(Bytes) /\ got \in Seq(Bytes) /\ written \in Seq(Bytes)
      /\ \A c \in Takers : rest[c] \in Seq(Bytes)
      /\ DOMAIN rest = Takers
  BY DEF TypeOK
<1>1. ASSUME NEW s \in Stream, Write(s) PROVE Accounted(b)'
  <2> DEFINE new == [stream |-> s, at |-> Len(written) + 1]
  <2>1. new \in Bytes
    BY <1>0, <1>1, OutputAssumption DEF OutputAssumption, Write, Bytes
  <2>2. /\ out' = Append(out, new) /\ written' = Append(written, new)
        /\ UNCHANGED <<open, rest, got, spilled>>
    BY <1>1 DEF Write
  <2> HIDE DEF new
  <2>3. /\ ToSet(out') = ToSet(out) \cup {new}
        /\ ToSet(written') = ToSet(written) \cup {new}
    BY <1>0, <2>1, <2>2, SetOfAppend
  <2>4. b = new \/ Accounted(b)
    BY <2>2, <2>3 DEF AllAccounted
  <2> QED
    BY <2>2, <2>3, <2>4 DEF Accounted
<1>2. CASE UNCHANGED <<open, written>>
  <2>0. Accounted(b)
    BY <1>2 DEF AllAccounted
  <2>1. ASSUME NEW c \in Takers, PutBack(c) PROVE Accounted(b)'
    <3>1. out' = rest[c] \o out /\ rest' = [rest EXCEPT ![c] = <<>>] /\ UNCHANGED <<got, spilled>>
      BY <1>2, <2>1 DEF PutBack
    <3>2. ToSet(out') = ToSet(rest[c]) \cup ToSet(out)
      BY <1>0, <3>1, SetOfConcat
    <3>3. \A u \in Takers \ {c} : rest'[u] = rest[u]
      BY <1>0, <3>1
    <3> QED
      BY <2>0, <3>1, <3>2, <3>3 DEF Accounted
  <2>2. ASSUME NEW c \in Takers, NEW cap \in Caps, TakeOutput(c, cap) PROVE Accounted(b)'
    <3> DEFINE n == IF Len(Drained) <= cap THEN Len(Drained) ELSE cap
               first == SubSeq(Drained, 1, n)
               left == SubSeq(Drained, n + 1, Len(Drained))
    <3>1. Drained \in Seq(Bytes) /\ n \in 0 .. Len(Drained)
      BY DrainedBytes, OutputAssumption DEF OutputAssumption
    <3>2. /\ first \in Seq(Bytes) /\ left \in Seq(Bytes)
          /\ ToSet(Drained) \subseteq ToSet(first) \cup ToSet(left)
      BY <3>1, SetOfParts
    <3>3. /\ rest[c] = <<>> /\ got' = got \o first
          /\ cap = 0 => spilled' = spilled \cup ToSet(Drained)
          /\ cap # 0 => spilled' = spilled
          /\ rest' = [rest EXCEPT ![c] = IF cap = 0 THEN <<>> ELSE left]
      BY <2>2 DEF TakeOutput
    <3>4. out # <<>> => Drained = out
      BY DEF Drained
    <3> HIDE DEF first, left, n
    <3>5. ToSet(got') = ToSet(got) \cup ToSet(first)
      BY <1>0, <3>2, <3>3, SetOfConcat
    <3>6. ToSet(out) \subseteq ToSet(Drained) /\ ToSet(rest[c]) = {}
      BY <1>0, <3>3, <3>4 DEF ToSet
    <3>7. ToSet(Drained) \subseteq ToSet(got') \cup spilled' \cup ToSet(rest'[c])
      BY <1>0, <3>2, <3>3, <3>5
    <3>8. \A u \in Takers \ {c} : rest'[u] = rest[u]
      BY <1>0, <3>3
    <3>9. spilled \subseteq spilled' /\ ToSet(got) \subseteq ToSet(got')
      BY <3>3, <3>5
    <3> QED
      BY <2>0, <3>6, <3>7, <3>8, <3>9 DEF Accounted
  <2>3. ASSUME NEW mask \in Masks, NEW fits \in ExFits, TakeOutputEx(mask, fits)
        PROVE  Accounted(b)'
    <3>1. /\ IF fits THEN got' = got \o ExData(mask) /\ spilled' = spilled
                     ELSE got' = got /\ spilled' = spilled \cup ToSet(ExData(mask))
          /\ rest' = rest
          /\ IF mask = 0 THEN out' = <<>> ELSE out' = out
      BY <2>3 DEF TakeOutputEx, ExData
    <3>2. ExData(mask) \in Seq(Bytes) /\ (mask = 0 => ExData(mask) = out)
      BY ExBytes DEF ExData
    <3>3. ToSet(got \o ExData(mask)) = ToSet(got) \cup ToSet(ExData(mask))
      BY <1>0, <3>2, SetOfConcat
    <3> QED
      BY <2>0, <3>1, <3>2, <3>3 DEF Accounted
  <2>4. CASE UNCHANGED <<out, got, spilled, rest>>
    BY <2>0, <2>4 DEF Accounted
  <2> QED
    <3>1. (\E s \in Stream : Write(s)) => Accounted(b)'
      BY <1>1
    <3> QED
      BY <2>1, <2>2, <2>3, <2>4, <3>1 DEF Next, Close, vars
<1> QED
  BY <1>1, <1>2 DEF Next, PutBack, TakeOutput, TakeOutputEx, Close, vars

\* Whoever takes the output, in whatever order and with whatever buffers: a byte
\* the guest has written is handed out, can still be taken, or was drained for a
\* caller that had no room for it.
THEOREM NothingLostCorrect == Spec => []NothingLost
<1>1. Init => AllAccounted
  BY DEF Init, AllAccounted, ToSet
<1>2. AllAccounted => NothingLost
  BY DEF AllAccounted, Accounted, NothingLost, Held
<1> QED
  BY <1>1, <1>2, AccountedStep, TypeCorrect, PTL DEF Spec
-----------------------------------------------------------------------------
\* All of s is older than all of t, among the streams S.
Older(s, t, S) ==
  \A a \in ToSet(s), b \in ToSet(t) : {a.stream, b.stream} \subseteq S => a.at < b.at

\* Every byte is one the guest has written, in the sink of its stream, and
\* what is counted as spilled is not still to be had.
Sound ==
  /\ \A i \in DOMAIN written : written[i].at = i
  /\ \A s \in Stream : \A b \in ToSet(streams[s]) : b.stream = s
  /\ spilled \cup ToSet(got) \cup ToSet(out) \subseteq ToSet(written)
  /\ \A s \in Stream : ToSet(streams[s]) \subseteq ToSet(written)
  /\ \A c \in Takers : ToSet(rest[c]) \subseteq ToSet(written)

\* Only who has drained has something to put back, and while only take_output
\* is called the streams hold nothing that out does not hold.
Emptied ==
  /\ \A c \in Takers : rest[c] # <<>> => c \in callers
  /\ callers \subseteq Takers /\ out = <<>> => streams = NoBytes
-----------------------------------------------------------------------------
LEMMA OrderOfParts ==
  ASSUME NEW s \in Seq(Bytes), NEW t \in Seq(Bytes), NEW S
  PROVE  InOrder(s \o t, S) <=> InOrder(s, S) /\ InOrder(t, S) /\ Older(s, t, S)
<1>1. /\ DOMAIN (s \o t) = 1 .. Len(s) + Len(t)
      /\ DOMAIN s = 1 .. Len(s) /\ DOMAIN t = 1 .. Len(t)
      /\ Len(s) \in Nat /\ Len(t) \in Nat
      /\ \A i \in 1 .. Len(s) : (s \o t)[i] = s[i]
      /\ \A i \in 1 .. Len(t) : (s \o t)[Len(s) + i] = t[i]
  BY ConcatProperties
<1> DEFINE u == s \o t
           m == Len(s)
           n == Len(t)
<1>2. /\ DOMAIN u = 1 .. m + n /\ m \in Nat /\ n \in Nat
      /\ \A i \in 1 .. m : u[i] = s[i]
      /\ \A i \in 1 .. n : u[m + i] = t[i]
      /\ DOMAIN s = 1 .. m /\ DOMAIN t = 1 .. n
  BY <1>1
<1> HIDE DEF u, m, n
<1>3. ASSUME InOrder(u, S) PROVE InOrder(s, S) /\ InOrder(t, S) /\ Older(s, t, S)
  <2>1. InOrder(s, S)
    BY <1>2, <1>3 DEF InOrder
  <2>2. ASSUME NEW i \in 1 .. n, NEW j \in 1 .. n, i < j,
               {t[i].stream, t[j].stream} \subseteq S
        PROVE  t[i].at < t[j].at
    <3>1. m + i \in DOMAIN u /\ m + j \in DOMAIN u /\ m + i < m + j
      BY <1>2, <2>2
    <3> QED
      BY <1>2, <1>3, <2>2, <3>1 DEF InOrder
  <2>3. ASSUME NEW i \in 1 .. m, NEW j \in 1 .. n,
               {s[i].stream, t[j].stream} \subseteq S
        PROVE  s[i].at < t[j].at
    <3>1. i \in DOMAIN u /\ m + j \in DOMAIN u /\ i < m + j
      BY <1>2
    <3> QED
      BY <1>2, <1>3, <2>3, <3>1 DEF InOrder
  <2>4. InOrder(t, S)
    BY <1>2, <2>2 DEF InOrder
  <2>5. Older(s, t, S)
    BY <1>2, <2>3 DEF Older, ToSet
  <2> QED
    BY <2>1, <2>4, <2>5
<1>4. ASSUME InOrder(s, S), InOrder(t, S), Older(s, t, S) PROVE InOrder(u, S)
  <2> SUFFICES ASSUME NEW i \in DOMAIN u, NEW j \in DOMAIN u, i < j,
                      {u[i].stream, u[j].stream} \subseteq S
               PROVE  u[i].at < u[j].at
    BY DEF InOrder
  <2>1. CASE j <= m
    BY <1>2, <1>4, <2>1 DEF InOrder
  <2>2. CASE i > m
    <3>1. i - m \in 1 .. n /\ j - m \in 1 .. n /\ i - m < j - m
      BY <1>2, <2>2
    <3>2. u[i] = t[i - m] /\ u[j] = t[j - m]
      BY <1>2, <3>1
    <3> QED
      BY <1>2, <1>4, <3>1, <3>2 DEF InOrder
  <2>3. CASE i <= m /\ j > m
    <3>1. i \in 1 .. m /\ j - m \in 1 .. n
      BY <1>2, <2>3
    <3>2. u[i] = s[i] /\ u[j] = t[j - m]
      BY <1>2, <3>1
    <3>3. s[i] \in ToSet(s) /\ t[j - m] \in ToSet(t)
      BY <1>2, <3>1 DEF ToSet
    <3> QED
      BY <1>4, <3>2, <3>3 DEF Older
  <2> QED
    BY <1>2, <2>1, <2>2, <2>3
<1> QED
  BY <1>3, <1>4 DEF u

\* Bytes in order are not on both sides of a cut.
LEMMA PartsApart ==
  ASSUME NEW s \in Seq(Bytes), NEW t \in Seq(Bytes), NEW S, Older(s, t, S),
         NEW b \in ToSet(s), b \in ToSet(t), b.stream \in S
  PROVE  FALSE
<1>1. b.at < b.at
  BY DEF Older
<1>2. b \in Bytes
  BY SetOfBytes
<1> QED
  BY <1>1, <1>2 DEF Bytes
-----------------------------------------------------------------------------
LEMMA SoundInit == Init => Sound /\ Emptied
  BY DEF Init, Sound, Emptied, NoBytes, ToSet

LEMMA SetOfPartsExactly ==
  ASSUME NEW s \in Seq(Bytes), NEW n \in 0 .. Len(s)
  PROVE  /\ SubSeq(s, 1, n) \o SubSeq(s, n + 1, Len(s)) = s
         /\ ToSet(SubSeq(s, 1, n)) \cup ToSet(SubSeq(s, n + 1, Len(s))) = ToSet(s)
<1> DEFINE a == SubSeq(s, 1, n)
           b == SubSeq(s, n + 1, Len(s))
<1>1. a \in Seq(Bytes) /\ b \in Seq(Bytes)
  BY SetOfParts
<1>2. a \o b = s
  <2>1. /\ Len(s) \in Nat /\ 1 \in 1 .. Len(s) + 1 /\ n \in 1 - 1 .. Len(s)
        /\ Len(s) \in n .. Len(s)
    OBVIOUS
  <2>2. a \o b = SubSeq(s, 1, Len(s))
    BY <2>1, ConcatAdjacentSubSeq
  <2> QED
    BY <2>2, SubSeqFull
<1> HIDE DEF a, b
<1>3. ToSet(a \o b) = ToSet(a) \cup ToSet(b)
  BY <1>1, SetOfConcat
<1> QED
  BY <1>2, <1>3 DEF a, b
-----------------------------------------------------------------------------
LEMMA SetOfThree ==
  ASSUME NEW a \in Seq(Bytes), NEW b \in Seq(Bytes), NEW c \in Seq(Bytes)
  PROVE  ToSet((a \o b) \o c) = ToSet(a) \cup ToSet(b) \cup ToSet(c)
<1> DEFINE ab == a \o b
<1>1. ab \in Seq(Bytes) /\ ToSet(ab) = ToSet(a) \cup ToSet(b)
  BY SetOfConcat
<1> HIDE DEF ab
<1>2. ToSet(ab \o c) = ToSet(ab) \cup ToSet(c)
  BY <1>1, SetOfConcat
<1> QED
  BY <1>1, <1>2 DEF ab

\* The sequences of a state, in one place.
LEMMA Sequences ==
  TypeOK => /\ out \in Seq(Bytes) /\ got \in Seq(Bytes) /\ written \in Seq(Bytes)
            /\ DOMAIN streams = Stream /\ \A s \in Stream : streams[s] \in Seq(Bytes)
            /\ DOMAIN rest = Takers /\ \A c \in Takers : rest[c] \in Seq(Bytes)
  BY DEF TypeOK

\* What take_output_ex drains of one stream.
OfMask(s, mask) == IF InMask(s, mask) THEN streams[s] ELSE <<>>

LEMMA ExParts ==
  ASSUME TypeOK, NEW mask, mask # 0
  PROVE  /\ ExData(mask) = (OfMask("stdout", mask) \o OfMask("stderr", mask)) \o OfMask("log", mask)
         /\ \A s \in Stream : OfMask(s, mask) \in Seq(Bytes)
         /\ ToSet(ExData(mask)) = UNION {ToSet(OfMask(s, mask)) : s \in Stream}
<1>1. \A s \in Stream : OfMask(s, mask) \in Seq(Bytes)
  BY DEF TypeOK, OfMask
<1>2. ExData(mask) = (OfMask("stdout", mask) \o OfMask("stderr", mask)) \o OfMask("log", mask)
  BY DEF ExData, OfMask
<1> DEFINE a == OfMask("stdout", mask)
           b == OfMask("stderr", mask)
           c == OfMask("log", mask)
<1>3. a \in Seq(Bytes) /\ b \in Seq(Bytes) /\ c \in Seq(Bytes)
  BY <1>1 DEF Stream
<1>4. UNION {ToSet(OfMask(s, mask)) : s \in Stream} = (ToSet(a) \cup ToSet(b)) \cup ToSet(c)
  BY DEF Stream
<1> HIDE DEF a, b, c
<1>5. ToSet((a \o b) \o c) = ToSet(a) \cup ToSet(b) \cup ToSet(c)
  BY <1>3, SetOfThree
<1> QED
  BY <1>1, <1>2, <1>4, <1>5 DEF a, b, c

LEMMA ExSound ==
  ASSUME TypeOK, Sound, NEW mask
  PROVE  /\ ToSet(ExData(mask)) \subseteq ToSet(written)
         /\ mask # 0 => \A s \in Stream :
              OfStream(ToSet(ExData(mask)), s) = ToSet(OfMask(s, mask))
<1>1. \A s \in Stream : ToSet(OfMask(s, mask)) \subseteq ToSet(written)
  BY DEF Sound, OfMask, ToSet
<1>2. \A s \in Stream : \A b \in ToSet(OfMask(s, mask)) : b.stream = s
  BY DEF Sound, OfMask, ToSet
<1>3. CASE mask = 0
  BY <1>3 DEF ExData, Sound
<1>4. CASE mask # 0
  <2>1. ToSet(ExData(mask)) = UNION {ToSet(OfMask(s, mask)) : s \in Stream}
    BY <1>4, ExParts
  <2> QED
    BY <1>1, <1>2, <2>1 DEF OfStream
<1> QED
  BY <1>3, <1>4

LEMMA DrainedSound == TypeOK /\ Sound => ToSet(Drained) \subseteq ToSet(written)
<1> SUFFICES ASSUME TypeOK, Sound PROVE ToSet(Drained) \subseteq ToSet(written)
  OBVIOUS
<1>1. CASE out # <<>>
  BY <1>1 DEF Drained, Sound
<1>2. CASE out = <<>>
  <2> DEFINE a == streams["stdout"]
             b == streams["stderr"]
             c == streams["log"]
  <2>1. a \in Seq(Bytes) /\ b \in Seq(Bytes) /\ c \in Seq(Bytes)
    BY Sequences DEF Stream
  <2>2. ToSet(a) \cup ToSet(b) \cup ToSet(c) \subseteq ToSet(written)
    BY DEF Sound, Stream
  <2>3. Drained = (a \o b) \o c
    BY <1>2 DEF Drained
  <2> HIDE DEF a, b, c
  <2>4. ToSet((a \o b) \o c) = ToSet(a) \cup ToSet(b) \cup ToSet(c)
    BY <2>1, SetOfThree
  <2> QED
    BY <2>2, <2>3, <2>4
<1> QED
  BY <1>1, <1>2

LEMMA SoundStep == TypeOK /\ Sound /\ [Next]_vars => Sound'
<1> SUFFICES ASSUME TypeOK, Sound, [Next]_vars PROVE Sound'
  OBVIOUS
<1>0. /\ out \in Seq(Bytes) /\ got \in Seq(Bytes) /\ written \in Seq(Bytes)
      /\ DOMAIN streams = Stream /\ \A s \in Stream : streams[s] \in Seq(Bytes)
      /\ DOMAIN rest = Takers /\ \A c \in Takers : rest[c] \in Seq(Bytes)
  BY Sequences
<1>1. ASSUME NEW s \in Stream, Write(s) PROVE Sound'
  <2> DEFINE b == [stream |-> s, at |-> Len(written) + 1]
  <2>1. b \in Bytes /\ b.stream = s /\ b.at = Len(written) + 1
    BY <1>0, <1>1, OutputAssumption DEF OutputAssumption, Write, Bytes
  <2>2. /\ out' = Append(out, b) /\ written' = Append(written, b)
        /\ streams' = [streams EXCEPT ![s] = Append(streams[s], b)]
        /\ UNCHANGED <<rest, got, spilled>>
    BY <1>1 DEF Write
  <2> HIDE DEF b
  <2>3. /\ ToSet(out') = ToSet(out) \cup {b}
        /\ ToSet(written') = ToSet(written) \cup {b}
        /\ ToSet(streams'[s]) = ToSet(streams[s]) \cup {b}
    BY <1>0, <2>1, <2>2, SetOfAppend
  <2>4. \A i \in DOMAIN written' : written'[i].at = i
    <3>1. \A i \in DOMAIN written' : i \in DOMAIN written \/ i = Len(written) + 1
      BY <1>0, <2>1, <2>2
    <3>2. \A i \in DOMAIN written : written'[i] = written[i]
      BY <1>0, <2>1, <2>2
    <3>3. written'[Len(written) + 1] = b
      BY <1>0, <2>1, <2>2
    <3> QED
      BY <2>1, <3>1, <3>2, <3>3 DEF Sound
  <2>5. \A u \in Stream \ {s} : streams'[u] = streams[u]
    BY <1>0, <2>2
  <2>6. \A u \in Stream : ToSet(streams'[u]) \subseteq ToSet(written')
                          /\ \A x \in ToSet(streams'[u]) : x.stream = u
    BY <2>1, <2>3, <2>5 DEF Sound
  <2> QED
    BY <2>2, <2>3, <2>4, <2>6 DEF Sound
<1>2. ASSUME NEW c \in Takers, PutBack(c) PROVE Sound'
  <2>1. /\ out' \in {out, rest[c] \o out} /\ rest' = [rest EXCEPT ![c] = <<>>]
        /\ UNCHANGED <<streams, written, got, spilled>>
    BY <1>2 DEF PutBack
  <2>2. ToSet(rest[c] \o out) = ToSet(rest[c]) \cup ToSet(out)
    BY <1>0, SetOfConcat
  <2>3. ToSet(out') \subseteq ToSet(written)
    BY <2>1, <2>2 DEF Sound
  <2>4. \A u \in Takers : ToSet(rest'[u]) \subseteq ToSet(written)
    <3>1. ToSet(rest'[c]) = {}
      BY <1>0, <2>1 DEF ToSet
    <3>2. \A u \in Takers \ {c} : rest'[u] = rest[u]
      BY <1>0, <2>1
    <3> QED
      BY <3>1, <3>2 DEF Sound
  <2> QED
    BY <2>1, <2>3, <2>4 DEF Sound
<1>3. ASSUME NEW c \in Takers, NEW cap \in Caps, TakeOutput(c, cap) PROVE Sound'
  <2> DEFINE n == IF Len(Drained) <= cap THEN Len(Drained) ELSE cap
             first == SubSeq(Drained, 1, n)
             left == SubSeq(Drained, n + 1, Len(Drained))
  <2>1. Drained \in Seq(Bytes) /\ n \in 0 .. Len(Drained)
    BY DrainedBytes, OutputAssumption DEF OutputAssumption
  <2>2. /\ first \in Seq(Bytes)
        /\ ToSet(first) \cup ToSet(left) = ToSet(Drained)
    BY <2>1, SetOfParts, SetOfPartsExactly
  <2>3. /\ got' = got \o first
        /\ rest' = [rest EXCEPT ![c] = IF cap = 0 THEN <<>> ELSE left]
        /\ spilled' \in {spilled, spilled \cup ToSet(Drained)}
        /\ out' = <<>> /\ streams' = NoBytes /\ written' = written
    BY <1>3 DEF TakeOutput
  <2> HIDE DEF n, first, left
  <2>4. ToSet(Drained) \subseteq ToSet(written)
    BY DrainedSound
  <2>5. ToSet(got') = ToSet(got) \cup ToSet(first)
    BY <1>0, <2>2, <2>3, SetOfConcat
  <2>6. ToSet(<<>>) = {}
    BY DEF ToSet
  <2>7. \A u \in Takers : ToSet(rest'[u]) \subseteq ToSet(written)
    BY <1>0, <2>2, <2>3, <2>4, <2>6 DEF Sound
  <2>8. \A s \in Stream : streams'[s] = <<>>
    BY <2>3 DEF NoBytes
  <2> QED
    BY <2>2, <2>3, <2>4, <2>5, <2>6, <2>7, <2>8 DEF Sound
<1>4. ASSUME NEW mask \in Masks, NEW fits \in ExFits, TakeOutputEx(mask, fits) PROVE Sound'
  <2>1. /\ got' \in {got, got \o ExData(mask)}
        /\ spilled' \in {spilled, spilled \cup ToSet(ExData(mask))}
        /\ out' \in {<<>>, out} /\ UNCHANGED <<rest, written>>
        /\ streams' = [s \in Stream |-> IF InMask(s, mask) THEN <<>> ELSE streams[s]]
    BY <1>4 DEF TakeOutputEx, ExData
  <2>2. ExData(mask) \in Seq(Bytes) /\ ToSet(ExData(mask)) \subseteq ToSet(written)
    BY ExBytes, ExSound
  <2>3. ToSet(got \o ExData(mask)) = ToSet(got) \cup ToSet(ExData(mask))
    BY <1>0, <2>2, SetOfConcat
  <2>4. ToSet(<<>>) = {}
    BY DEF ToSet
  <2>5. ToSet(got') \subseteq ToSet(written) /\ ToSet(out') \subseteq ToSet(written)
        /\ spilled' \subseteq ToSet(written)
    BY <2>1, <2>2, <2>3, <2>4 DEF Sound
  <2>6. \A s \in Stream : ToSet(streams'[s]) \subseteq ToSet(streams[s])
    BY <2>1, <2>4
  <2> QED
    BY <2>1, <2>5, <2>6 DEF Sound
<1>5. CASE UNCHANGED <<out, streams, rest, written, got, spilled>>
  BY <1>5 DEF Sound
<1> QED
  BY <1>1, <1>2, <1>3, <1>4, <1>5 DEF Next, Close, vars

LEMMA EmptiedStep == TypeOK /\ Emptied /\ [Next]_vars => Emptied'
<1> SUFFICES ASSUME TypeOK, Emptied, [Next]_vars PROVE Emptied'
  OBVIOUS
<1>0. /\ out \in Seq(Bytes) /\ DOMAIN rest = Takers /\ \A c \in Takers : rest[c] \in Seq(Bytes)
  BY Sequences
<1>1. ASSUME NEW s \in Stream, Write(s) PROVE Emptied'
  <2>1. out' # <<>> /\ UNCHANGED <<rest, callers>>
    BY <1>0, <1>1 DEF Write
  <2> QED
    BY <2>1 DEF Emptied
<1>2. ASSUME NEW c \in Takers, PutBack(c) PROVE Emptied'
  <2>1. /\ rest[c] # <<>> /\ rest' = [rest EXCEPT ![c] = <<>>]
        /\ out' \in {out, rest[c] \o out} /\ UNCHANGED <<streams, callers>>
    BY <1>2 DEF PutBack
  <2>2. out' = <<>> => out = <<>>
    <3>1. rest[c] \in Seq(Bytes) /\ out \in Seq(Bytes)
      BY <1>0
    <3>2. rest[c] \o out = <<>> => rest[c] = <<>>
      BY <3>1, ConcatEqualIffEmpty
    <3> QED
      BY <2>1, <3>2
  <2> QED
    BY <1>0, <2>1, <2>2 DEF Emptied
<1>3. ASSUME NEW c \in Takers, NEW cap \in Caps, TakeOutput(c, cap) PROVE Emptied'
  <2>1. /\ \A u \in Takers \ {c} : rest'[u] = rest[u]
        /\ callers' = callers \cup {c} /\ streams' = NoBytes
    BY <1>0, <1>3 DEF TakeOutput
  <2> QED
    BY <2>1 DEF Emptied
<1>4. ASSUME NEW mask \in Masks, NEW fits \in ExFits, TakeOutputEx(mask, fits) PROVE Emptied'
  <2>1. rest' = rest /\ callers \subseteq callers' /\ ~(callers' \subseteq Takers)
    BY <1>4, OutputAssumption DEF TakeOutputEx, OutputAssumption
  <2> QED
    BY <2>1 DEF Emptied
<1>5. CASE UNCHANGED <<out, streams, rest, callers>>
  BY <1>5 DEF Emptied
<1> QED
  BY <1>1, <1>2, <1>3, <1>4, <1>5 DEF Next, Close, vars
-----------------------------------------------------------------------------
\* The output of one caller: handed out, to be put back, and still to be taken.
Whole(c) == got \o rest[c] \o out

\* A new byte is younger than all before it.
LEMMA OrderOfNew ==
  ASSUME NEW s \in Seq(Bytes), NEW b \in Bytes, NEW S,
         InOrder(s, S), \A x \in ToSet(s) : x.at < b.at
  PROVE  InOrder(Append(s, b), S)
<1>1. \A i \in DOMAIN s : s[i] \in ToSet(s)
  BY DEF ToSet
<1> QED
  BY <1>1 DEF InOrder

LEMMA WrittenBefore ==
  ASSUME TypeOK, Sound, NEW x \in ToSet(written) PROVE x.at < Len(written) + 1
<1>1. PICK i \in DOMAIN written : x = written[i]
  BY DEF ToSet
<1> QED
  BY <1>1, Sequences DEF Sound

LEMMA AppendToWhole ==
  ASSUME NEW s \in Seq(Bytes), NEW t \in Seq(Bytes), NEW b \in Bytes
  PROVE  s \o Append(t, b) = Append(s \o t, b)
  OBVIOUS

LEMMA CombinedStep ==
  TypeInv /\ Sound /\ Emptied /\ CombinedInOrder /\ [Next]_vars => CombinedInOrder'
<1> SUFFICES ASSUME TypeInv, Sound, Emptied, CombinedInOrder, [Next]_vars,
                    open', NEW c \in Takers, callers' \subseteq {c}
             PROVE  (/\ InOrder(Whole(c), Stream)
                     /\ ToSet(Whole(c)) = ToSet(written) \ spilled)'
  BY DEF CombinedInOrder, Whole
<1>0. /\ out \in Seq(Bytes) /\ got \in Seq(Bytes) /\ written \in Seq(Bytes)
      /\ rest[c] \in Seq(Bytes) /\ DOMAIN rest = Takers
  BY Sequences DEF TypeInv
<1> DEFINE gr == got \o rest[c]
<1>a. gr \in Seq(Bytes) /\ Whole(c) = gr \o out
  BY <1>0 DEF Whole
<1>b. Whole(c) \in Seq(Bytes)
  <2> HIDE DEF gr
  <2> QED
    BY <1>0, <1>a
<1>c. ASSUME open, callers \subseteq {c}
      PROVE  InOrder(Whole(c), Stream) /\ ToSet(Whole(c)) = ToSet(written) \ spilled
  BY <1>c DEF CombinedInOrder, Whole
<1>1. ASSUME NEW s \in Stream, Write(s)
      PROVE  (InOrder(Whole(c), Stream) /\ ToSet(Whole(c)) = ToSet(written) \ spilled)'
  <2> DEFINE b == [stream |-> s, at |-> Len(written) + 1]
  <2>1. b \in Bytes /\ b.at = Len(written) + 1
    BY <1>0, <1>1, OutputAssumption DEF OutputAssumption, Write, Bytes
  <2>2. /\ out' = Append(out, b) /\ written' = Append(written, b)
        /\ UNCHANGED <<rest, got, spilled, callers>> /\ open
    BY <1>1 DEF Write
  <2> HIDE DEF b
  <2>3. Whole(c)' = Append(Whole(c), b)
    <3>1. Whole(c)' = gr \o Append(out, b)
      BY <2>2 DEF Whole
    <3> HIDE DEF gr
    <3> QED
      BY <1>0, <1>a, <2>1, <3>1, AppendToWhole
  <2>4. InOrder(Whole(c), Stream) /\ ToSet(Whole(c)) = ToSet(written) \ spilled
    BY <1>c, <2>2
  <2>5. \A x \in ToSet(written) : x.at < b.at
    BY <2>1, WrittenBefore DEF TypeInv
  <2>6. b \notin spilled
    BY <2>1, <2>5 DEF Sound, Bytes
  <2>7. /\ ToSet(Append(Whole(c), b)) = ToSet(Whole(c)) \cup {b}
        /\ ToSet(written') = ToSet(written) \cup {b}
    BY <1>0, <1>b, <2>1, <2>2, SetOfAppend
  <2>8. InOrder(Append(Whole(c), b), Stream)
    BY <1>b, <2>1, <2>4, <2>5, OrderOfNew
  <2> QED
    BY <2>2, <2>3, <2>4, <2>6, <2>7, <2>8
<1>2. ASSUME NEW d \in Takers, PutBack(d)
      PROVE  (InOrder(Whole(c), Stream) /\ ToSet(Whole(c)) = ToSet(written) \ spilled)'
  <2>1. d = c
    BY <1>2 DEF PutBack, Emptied
  <2>2. /\ out' = rest[c] \o out /\ rest'[c] = <<>>
        /\ UNCHANGED <<written, got, spilled, callers>> /\ open
    BY <1>0, <1>2, <2>1 DEF PutBack
  <2>3. Whole(c)' = Whole(c)
    <3>1. got \o <<>> = got
      BY <1>0
    <3>2. Whole(c)' = got \o (rest[c] \o out)
      BY <2>2, <3>1 DEF Whole
    <3> QED
      BY <1>0, <3>2, ConcatAssociative DEF Whole
  <2> QED
    BY <1>c, <2>2, <2>3
<1>3. ASSUME NEW d \in Takers, NEW cap \in Caps, TakeOutput(d, cap)
      PROVE  (InOrder(Whole(c), Stream) /\ ToSet(Whole(c)) = ToSet(written) \ spilled)'
  <2>1. d = c /\ callers \subseteq {c} /\ open
    BY <1>3 DEF TakeOutput
  <2>2. Drained = out
    <3>1. out = <<>> => streams = NoBytes
      BY <2>1 DEF Emptied
    <3>2. <<>> \o <<>> \o <<>> = <<>>
      OBVIOUS
    <3> QED
      BY <3>1, <3>2 DEF Drained, NoBytes, Stream
  <2> DEFINE n == IF Len(out) <= cap THEN Len(out) ELSE cap
             first == SubSeq(out, 1, n)
             left == SubSeq(out, n + 1, Len(out))
  <2>3. n \in 0 .. Len(out)
    BY <1>0, OutputAssumption DEF OutputAssumption
  <2>4. first \in Seq(Bytes) /\ left \in Seq(Bytes) /\ first \o left = out
    BY <1>0, <2>3, SetOfParts, SetOfPartsExactly
  <2>5. /\ rest[c] = <<>> /\ got' = got \o first
        /\ rest'[c] = (IF cap = 0 THEN <<>> ELSE left)
        /\ spilled' = (IF cap = 0 THEN spilled \cup ToSet(out) ELSE spilled)
        /\ out' = <<>> /\ written' = written
    BY <1>0, <1>3, <2>1, <2>2 DEF TakeOutput
  <2>6. cap = 0 => first = <<>>
    BY <1>0, <2>3
  <2>7. Whole(c) = got \o out
    BY <1>0, <2>5 DEF Whole
  <2>8. InOrder(got \o out, Stream) /\ ToSet(got \o out) = ToSet(written) \ spilled
    BY <1>c, <2>1, <2>7
  <2> HIDE DEF n, first, left
  <2>9. CASE cap = 0
    <3>1. Whole(c)' = got
      BY <1>0, <2>5, <2>6, <2>9 DEF Whole
    <3>2. InOrder(got, Stream) /\ Older(got, out, Stream)
      BY <1>0, <2>8, OrderOfParts
    <3>3. \A x \in ToSet(got) : x \notin ToSet(out)
      <4>1. \A x \in ToSet(got) : x.stream \in Stream
        BY <1>0, SetOfBytes DEF Bytes
      <4> QED
        BY <1>0, <3>2, <4>1, PartsApart
    <3>4. ToSet(got) = ToSet(written) \ (spilled \cup ToSet(out))
      <4>1. ToSet(got \o out) = ToSet(got) \cup ToSet(out)
        BY <1>0, SetOfConcat
      <4> QED
        BY <2>8, <3>3, <4>1
    <3> QED
      BY <2>5, <2>9, <3>1, <3>2, <3>4
  <2>10. CASE cap # 0
    <3>1. Whole(c)' = (got \o first) \o left
      <4>1. Whole(c)' = ((got \o first) \o left) \o <<>>
        BY <2>5, <2>10 DEF Whole
      <4> DEFINE gf == got \o first
      <4>2. gf \in Seq(Bytes)
        BY <1>0, <2>4
      <4> HIDE DEF gf
      <4>3. (gf \o left) \o <<>> = gf \o left
        BY <2>4, <4>2
      <4> QED
        BY <4>1, <4>3 DEF gf
    <3>2. (got \o first) \o left = got \o out
      <4>1. got \in Seq(Bytes) /\ first \in Seq(Bytes) /\ left \in Seq(Bytes)
        BY <1>0, <2>4
      <4>2. (got \o first) \o left = got \o (first \o left)
        BY <4>1, ConcatAssociative
      <4> QED
        BY <2>4, <4>2
    <3> QED
      BY <2>5, <2>8, <2>10, <3>1, <3>2
  <2> QED
    BY <2>9, <2>10
<1>4. ASSUME NEW mask \in Masks, NEW fits \in ExFits, TakeOutputEx(mask, fits) PROVE FALSE
  BY <1>4, OutputAssumption DEF TakeOutputEx, OutputAssumption
<1>5. CASE UNCHANGED <<open, out, rest, written, got, spilled, callers>>
  <2>1. Whole(c)' = Whole(c)
    BY <1>5 DEF Whole
  <2> QED
    BY <1>5, <1>c, <2>1
<1> QED
  BY <1>1, <1>2, <1>3, <1>4, <1>5 DEF Next, Close, vars
-----------------------------------------------------------------------------
\* The parts of one stream, in what a call with a mask drains.
LEMMA OrderOfThree ==
  ASSUME NEW a \in Seq(Bytes), NEW b \in Seq(Bytes), NEW c \in Seq(Bytes), NEW S,
         InOrder(a, S), InOrder(b, S), InOrder(c, S),
         Older(a, b, S), Older(a, c, S), Older(b, c, S)
  PROVE  InOrder((a \o b) \o c, S)
<1> DEFINE ab == a \o b
<1>1. ab \in Seq(Bytes) /\ ToSet(ab) = ToSet(a) \cup ToSet(b) /\ InOrder(ab, S)
  BY SetOfConcat, OrderOfParts
<1> HIDE DEF ab
<1>2. Older(ab, c, S)
  BY <1>1 DEF Older
<1>3. InOrder(ab \o c, S)
  BY <1>1, <1>2, OrderOfParts
<1> QED
  BY <1>3 DEF ab

LEMMA ExInOrder ==
  ASSUME TypeOK, Sound, NEW mask, mask # 0, NEW s \in Stream, InOrder(streams[s], {s})
  PROVE  InOrder(ExData(mask), {s})
<1>1. \A u \in Stream : OfMask(u, mask) \in Seq(Bytes)
  BY ExParts
<1>2. \A u \in Stream : \A x \in ToSet(OfMask(u, mask)) : x.stream = u
  BY DEF OfMask, Sound, ToSet
<1>3. ASSUME NEW u \in Stream PROVE InOrder(OfMask(u, mask), {s})
  <2>1. CASE u = s
    BY <2>1 DEF OfMask, InOrder
  <2>2. CASE u # s
    <3>1. \A i \in DOMAIN OfMask(u, mask) : OfMask(u, mask)[i].stream = u
      BY <1>2 DEF ToSet
    <3> QED
      BY <2>2, <3>1 DEF InOrder
  <2> QED
    BY <2>1, <2>2
<1>4. ASSUME NEW u \in Stream, NEW v \in Stream, u # v
      PROVE  Older(OfMask(u, mask), OfMask(v, mask), {s})
  BY <1>2, <1>4 DEF Older
<1> DEFINE a == OfMask("stdout", mask)
           b == OfMask("stderr", mask)
           c == OfMask("log", mask)
<1>5. /\ a \in Seq(Bytes) /\ b \in Seq(Bytes) /\ c \in Seq(Bytes)
      /\ InOrder(a, {s}) /\ InOrder(b, {s}) /\ InOrder(c, {s})
      /\ Older(a, b, {s}) /\ Older(a, c, {s}) /\ Older(b, c, {s})
  BY <1>1, <1>3, <1>4 DEF Stream
<1>6. ExData(mask) = (a \o b) \o c
  BY ExParts
<1> HIDE DEF a, b, c
<1> QED
  BY <1>5, <1>6, OrderOfThree

\* One stream, as a reader of streams sees it.
StreamInOrder(s) ==
  /\ InOrder(got \o streams[s], {s})
  /\ OfStream(ToSet(got), s) \cup ToSet(streams[s]) = OfStream(ToSet(written) \ spilled, s)

LEMMA StreamsStep ==
  TypeInv /\ Sound /\ StreamsInOrder /\ [Next]_vars => StreamsInOrder'
<1> SUFFICES ASSUME TypeInv, Sound, StreamsInOrder, [Next]_vars,
                    open', callers' \subseteq {"streams"}, NEW s \in Stream
             PROVE  StreamInOrder(s)'
  BY DEF StreamsInOrder, StreamInOrder
<1>0. /\ got \in Seq(Bytes) /\ written \in Seq(Bytes)
      /\ DOMAIN streams = Stream /\ streams[s] \in Seq(Bytes)
  BY Sequences DEF TypeInv
<1>a. open /\ callers \subseteq {"streams"} => StreamInOrder(s)
  BY DEF StreamsInOrder, StreamInOrder
<1>1. ASSUME NEW u \in Stream, Write(u) PROVE StreamInOrder(s)'
  <2> DEFINE b == [stream |-> u, at |-> Len(written) + 1]
  <2>1. b \in Bytes /\ b.at = Len(written) + 1 /\ b.stream = u
    BY <1>0, <1>1, OutputAssumption DEF OutputAssumption, Write, Bytes
  <2>2. /\ streams' = [streams EXCEPT ![u] = Append(streams[u], b)]
        /\ written' = Append(written, b)
        /\ UNCHANGED <<got, spilled, callers>> /\ open
    BY <1>1 DEF Write
  <2> HIDE DEF b
  <2>3. InOrder(got \o streams[s], {s})
        /\ OfStream(ToSet(got), s) \cup ToSet(streams[s]) = OfStream(ToSet(written) \ spilled, s)
    BY <1>a, <2>2 DEF StreamInOrder
  <2>4. \A x \in ToSet(written) : x.at < b.at
    BY <2>1, WrittenBefore DEF TypeInv
  <2>5. b \notin spilled
    BY <2>1, <2>4 DEF Sound, Bytes
  <2>6. ToSet(written') = ToSet(written) \cup {b}
    BY <1>0, <2>1, <2>2, SetOfAppend
  <2>7. CASE u # s
    <3>1. streams'[s] = streams[s]
      BY <1>0, <2>2, <2>7
    <3> QED
      BY <2>1, <2>2, <2>3, <2>6, <2>7, <3>1 DEF StreamInOrder, OfStream
  <2>8. CASE u = s
    <3>1. streams'[s] = Append(streams[s], b)
      BY <1>0, <2>2, <2>8
    <3>2. ToSet(streams'[s]) = ToSet(streams[s]) \cup {b}
      BY <1>0, <2>1, <3>1, SetOfAppend
    <3>3. got \o Append(streams[s], b) = Append(got \o streams[s], b)
      BY <1>0, <2>1, AppendToWhole
    <3>4. got \o streams[s] \in Seq(Bytes)
      BY <1>0
    <3>5. ToSet(got \o streams[s]) = ToSet(got) \cup ToSet(streams[s])
      BY <1>0, SetOfConcat
    <3>6. \A x \in ToSet(got \o streams[s]) : x.at < b.at
      BY <2>4, <3>5 DEF Sound
    <3>7. InOrder(Append(got \o streams[s], b), {s})
      BY <2>1, <2>3, <3>4, <3>6, OrderOfNew
    <3>8. InOrder(got' \o streams'[s], {s})
      BY <2>2, <3>1, <3>3, <3>7
    <3>9. OfStream(ToSet(written') \ spilled', s) = OfStream(ToSet(written) \ spilled, s) \cup {b}
      BY <2>1, <2>2, <2>5, <2>6, <2>8 DEF OfStream
    <3> QED
      BY <2>2, <2>3, <3>2, <3>8, <3>9 DEF StreamInOrder
  <2> QED
    BY <2>7, <2>8
<1>2. ASSUME NEW c \in Takers, NEW cap \in Caps, TakeOutput(c, cap) PROVE FALSE
  BY <1>2, OutputAssumption DEF TakeOutput, OutputAssumption
<1>3. ASSUME NEW mask \in Masks, NEW fits \in ExFits, TakeOutputEx(mask, fits)
      PROVE  StreamInOrder(s)'
  <2>1. mask # 0 /\ open /\ callers \subseteq {"streams"}
    BY <1>3 DEF TakeOutputEx
  <2> DEFINE d == ExData(mask)
             str == streams[s]
             kept == IF InMask(s, mask) THEN <<>> ELSE str
             part == IF InMask(s, mask) THEN str ELSE <<>>
  <2>2. /\ IF fits THEN got' = got \o d /\ spilled' = spilled
                   ELSE got' = got /\ spilled' = spilled \cup ToSet(d)
        /\ streams'[s] = kept /\ written' = written
    BY <1>3 DEF TakeOutputEx, ExData
  <2>3. /\ InOrder(got \o str, {s})
        /\ OfStream(ToSet(got), s) \cup ToSet(str) = OfStream(ToSet(written) \ spilled, s)
    BY <1>a, <2>1 DEF StreamInOrder
  <2>4. d \in Seq(Bytes) /\ OfStream(ToSet(d), s) = ToSet(part)
    BY <2>1, ExBytes, ExSound DEF TypeInv, OfMask
  <2>5. InOrder(got, {s}) /\ InOrder(str, {s}) /\ Older(got, str, {s})
    BY <1>0, <2>3, OrderOfParts
  <2>6. InOrder(d, {s})
    BY <2>1, <2>5, ExInOrder DEF TypeInv
  <2>7. /\ ToSet(part) \cup ToSet(kept) = ToSet(str)
        /\ part = <<>> \/ kept = <<>>
        /\ str \in Seq(Bytes) /\ kept \in Seq(Bytes)
    BY <1>0 DEF ToSet
  <2>8. \A x \in ToSet(str) : x.stream = s
    BY DEF Sound
  <2>9. \A x \in ToSet(d) : x.stream = s => x \in ToSet(str)
    BY <2>4, <2>7 DEF OfStream
  <2> HIDE DEF d, str, kept, part
  <2>10. CASE fits
    <3>1. got' = got \o d /\ spilled' = spilled /\ ToSet(got') = ToSet(got) \cup ToSet(d)
      <4>1. got \in Seq(Bytes) /\ d \in Seq(Bytes)
        BY <1>0, <2>4
      <4>2. ToSet(got \o d) = ToSet(got) \cup ToSet(d)
        BY <4>1, SetOfConcat
      <4> QED
        BY <2>2, <2>10, <4>2
    <3>2. OfStream(ToSet(got'), s) \cup ToSet(kept) = OfStream(ToSet(got), s) \cup ToSet(str)
      BY <2>4, <2>7, <3>1 DEF OfStream
    <3>3. Older(got, d, {s})
      BY <2>5, <2>9 DEF Older
    <3>4. InOrder(got \o d, {s})
      BY <1>0, <2>4, <2>5, <2>6, <3>3, OrderOfParts
    <3>5. got \o d \in Seq(Bytes)
      BY <1>0, <2>4
    <3>6. InOrder(kept, {s}) /\ Older(got \o d, kept, {s})
      <4>1. CASE kept = <<>>
        BY <4>1 DEF InOrder, Older, ToSet
      <4>2. CASE kept # <<>>
        <5>1. kept = str /\ ToSet(part) = {}
          BY <2>7, <4>2 DEF kept, part, ToSet
        <5>2. \A x \in ToSet(d) : x.stream # s
          BY <2>4, <5>1 DEF OfStream
        <5> QED
          BY <2>5, <3>1, <5>1, <5>2 DEF Older
      <4> QED
        BY <4>1, <4>2
    <3>7. InOrder((got \o d) \o kept, {s})
      BY <2>7, <3>4, <3>5, <3>6, OrderOfParts
    <3> QED
      BY <2>2, <2>3, <3>1, <3>2, <3>7 DEF StreamInOrder
  <2>11. CASE ~fits
    <3>1. got' = got /\ spilled' = spilled \cup ToSet(d)
      BY <2>2, <2>11
    <3>2. InOrder(kept, {s}) /\ Older(got, kept, {s})
      BY <2>5 DEF kept, InOrder, Older, ToSet
    <3>3. InOrder(got \o kept, {s})
      BY <1>0, <2>5, <2>7, <3>2, OrderOfParts
    <3>4. \A x \in ToSet(got) : x \notin ToSet(str)
      <4>1. \A x \in ToSet(str) : x.stream \in {s}
        BY <2>8
      <4> QED
        BY <1>0, <2>5, <2>7, <4>1, PartsApart
    <3>5. \A x \in ToSet(kept) : x \notin ToSet(part)
      BY <2>7 DEF ToSet
    <3>6. OfStream(ToSet(written) \ (spilled \cup ToSet(d)), s)
            = OfStream(ToSet(written) \ spilled, s) \ ToSet(part)
      BY <2>4 DEF OfStream
    <3> QED
      <4>1. InOrder(got' \o streams'[s], {s})
        BY <2>2, <3>1, <3>3
      <4>2. OfStream(ToSet(got), s) \subseteq ToSet(got)
        BY DEF OfStream
      <4>3. OfStream(ToSet(got), s) \cup ToSet(kept)
              = OfStream(ToSet(written) \ (spilled \cup ToSet(d)), s)
        BY <2>3, <2>7, <3>4, <3>5, <3>6, <4>2
      <4> QED
        BY <2>2, <3>1, <4>1, <4>3 DEF StreamInOrder
  <2> QED
    BY <2>10, <2>11
<1>4. CASE UNCHANGED <<open, streams, written, got, spilled, callers>>
  BY <1>4, <1>a DEF StreamInOrder
<1> QED
  BY <1>1, <1>2, <1>3, <1>4 DEF Next, PutBack, Close, vars
-----------------------------------------------------------------------------
LEMMA SoundEver == Spec => [](TypeInv /\ Sound /\ Emptied)
<1>1. TypeInv => TypeOK
  BY DEF TypeInv
<1> QED
  BY <1>1, TypeInit, TypeStep, SoundInit, SoundStep, EmptiedStep, PTL DEF Spec

\* A single caller of take_output, whatever its buffers: every byte once, in the
\* order the guest wrote them, but those drained by a call without a buffer.
THEOREM CombinedInOrderCorrect == Spec => []CombinedInOrder
<1>1. Init => CombinedInOrder
  BY DEF Init, CombinedInOrder, InOrder, ToSet
<1> QED
  BY <1>1, CombinedStep, SoundEver, PTL DEF Spec

\* A reader of the streams, whatever its masks: every byte of a stream once and in
\* order, but those drained by a call whose buffer was too small.
THEOREM StreamsInOrderCorrect == Spec => []StreamsInOrder
<1>1. Init => StreamsInOrder
  BY DEF Init, StreamsInOrder, InOrder, ToSet, OfStream, NoBytes
<1> QED
  BY <1>1, StreamsStep, SoundEver, PTL DEF Spec
=============================================================================
