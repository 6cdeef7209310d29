---------------------------- MODULE NotebookProofs ----------------------------
(***************************************************************************)
(* TLAPS proofs about Notebook and FreezePolicy, for every value of their  *)
(* constants.  The invariant adds to NoRepeat where the work in the frame  *)
(* comes from: the frame is older than the terminal while a tick waits,    *)
(* but whatever it shows is in the terminal still, because only a switch   *)
(* wipes the terminal and that takes the frame again.                      *)
(***************************************************************************)
EXTENDS Notebook, WellFoundedInduction, SequenceTheorems, TLAPS

-----------------------------------------------------------------------------
(* What the crop keeps.                                                      *)

LEMMA GreatestOf ==
  ASSUME NEW n \in Nat, NEW S \in SUBSET (1 .. n), S # {}
  PROVE  Max(S) \in S /\ Max(S) \in 1 .. n /\ \A y \in S : y <= Max(S)
<1> DEFINE Q == {n - y : y \in S}
           less == OpToRel(<, Nat)
<1>1. \A x, y \in Nat : x < y => <<x, y>> \in less
  BY DEF OpToRel
<1>2. IsWellFoundedOn(less, Nat)
  BY NatLessThanWellFounded
<1>3. Q \subseteq Nat /\ Q # {}
  <2>1. \A y \in S : n - y \in Nat
    OBVIOUS
  <2>2. PICK y \in S : TRUE
    OBVIOUS
  <2>3. n - y \in Q
    OBVIOUS
  <2> QED
    BY <2>1, <2>3
<1> HIDE DEF less
<1>4. PICK a \in Q : \A b \in Q : ~ (<<b, a>> \in less)
  BY <1>2, <1>3, WFMin
<1>5. PICK m \in S : a = n - m
  OBVIOUS
<1>6. \A y \in S : m >= y
  <2> SUFFICES ASSUME NEW y \in S, ~(m >= y) PROVE FALSE
    OBVIOUS
  <2>1. n - y \in Q /\ n - y \in Nat /\ a \in Nat /\ n - y < a
    BY <1>5
  <2> QED
    BY <1>1, <1>4, <2>1
<1>7. Max(S) \in S /\ \A y \in S : Max(S) >= y
  BY <1>6 DEF Max
<1> QED
  BY <1>7

\* The rows that are kept are the first ones of the frame, none of them made up.
LEMMA UsedInFrame ==
  ASSUME NEW f \in Seq(Row)
  PROVE  /\ UsedRows(f) \in 0 .. Len(f)
         /\ UsedRowsForFreeze(f) \in 0 .. UsedRows(f)
<1> DEFINE inked == {y \in DOMAIN f : \E x \in DOMAIN f[y] : f[y][x] # ""}
           stops == {y \in 1 .. UsedRows(f) : y = 1 \/ ~RowIsBarePrompt(f[y])}
<1>1. inked \in SUBSET (1 .. Len(f)) /\ Len(f) \in Nat
  <2>1. inked \in SUBSET DOMAIN f
    OBVIOUS
  <2>2. DOMAIN f = 1 .. Len(f) /\ Len(f) \in Nat
    OBVIOUS
  <2> HIDE DEF inked
  <2> QED
    BY <2>1, <2>2
<1>2. inked # {} => Max(inked) \in 1 .. Len(f)
  <2> HIDE DEF inked
  <2> QED
    BY <1>1, GreatestOf
<1>3. UsedRows(f) \in 0 .. Len(f)
  <2>1. UsedRows(f) = IF inked = {} THEN 0 ELSE Max(inked)
    BY DEF UsedRows
  <2> HIDE DEF inked
  <2> QED
    BY <1>1, <1>2, <2>1
<1>4. UsedRows(f) \in Nat /\ stops \in SUBSET (1 .. UsedRows(f))
  BY <1>3
<1>5. UsedRowsForFreeze(f) = IF stops = {} THEN 0 ELSE Max(stops)
  BY DEF UsedRowsForFreeze
<1> HIDE DEF stops
<1>6. stops # {} => Max(stops) \in 1 .. UsedRows(f)
  BY <1>4, GreatestOf
<1> QED
  BY <1>3, <1>4, <1>5, <1>6

LEMMA ApplyType ==
  ASSUME NEW f \in Seq(Row)
  PROVE  /\ Apply(f) \in Seq(Row)
         /\ \A y \in DOMAIN Apply(f) : y \in DOMAIN f /\ Apply(f)[y] = f[y]
         /\ \A y \in 1 .. UsedRowsForFreeze(f) : y \in DOMAIN Apply(f)
<1>1. UsedRowsForFreeze(f) \in 0 .. Len(f)
  BY UsedInFrame
<1> QED
  BY <1>1 DEF Apply

\* A row of work counts as a row with ink that is no bare prompt.
LEMMA WorkIsNoPrompt ==
  ASSUME NEW w \in Works, NEW row \in WorkRows(w)
  PROVE  ~RowIsBarePrompt(row) /\ \E x \in DOMAIN row : row[x] # ""
<1>1. w \notin White /\ w \notin PromptGlyph /\ w # ""
  BY NotebookAssumption DEF NotebookAssumption, White
<1>2. PICK a, b : row = <<a, b>> /\ (a = w \/ b = w)
  <2>1. row = <<w, "">> \/ row = <<"$", w>>
    BY Zenon DEF WorkRows
  <2> QED
    BY <2>1, Zenon
<1>3. DOMAIN row = 1 .. 2 /\ row[1] = a /\ row[2] = b
  BY <1>2
<1>4. PICK x \in 1 .. 2 : row[x] = w
  BY <1>2, <1>3
<1>5. x \in RowText(row)
  <2> DEFINE shown == {y \in DOMAIN row : row[y] \notin White}
  <2>1. x \in shown /\ x \in DOMAIN row /\ row[x] # ""
    BY <1>1, <1>3, <1>4
  <2>2. x <= x
    OBVIOUS
  <2>3. \E c, d \in shown : c <= x /\ x <= d
    BY <2>1, <2>2
  <2> QED
    BY <2>1, <2>3 DEF RowText
<1> QED
  BY <1>1, <1>3, <1>4, <1>5 DEF RowIsBarePrompt

\* The crop loses no work and adds none.
LEMMA CropKeepsWork ==
  ASSUME NEW f \in Seq(Row), NEW w \in Works
  PROVE  Shows(Apply(f), w) <=> Shows(f, w)
<1>1. Shows(Apply(f), w) => Shows(f, w)
  BY ApplyType DEF Shows
<1>2. ASSUME Shows(f, w) PROVE Shows(Apply(f), w)
  <2> DEFINE inked == {y \in DOMAIN f : \E x \in DOMAIN f[y] : f[y][x] # ""}
             stops == {y \in 1 .. UsedRows(f) : y = 1 \/ ~RowIsBarePrompt(f[y])}
  <2>1. PICK y \in DOMAIN f : f[y] \in WorkRows(w)
    BY <1>2 DEF Shows
  <2>2. y \in inked /\ ~RowIsBarePrompt(f[y])
    BY <2>1, WorkIsNoPrompt
  <2>3. inked \in SUBSET (1 .. Len(f)) /\ Len(f) \in Nat
    <3>1. inked \in SUBSET DOMAIN f
      OBVIOUS
    <3>2. DOMAIN f = 1 .. Len(f) /\ Len(f) \in Nat
      OBVIOUS
    <3> HIDE DEF inked
    <3> QED
      BY <3>1, <3>2
  <2>4. UsedRows(f) = IF inked = {} THEN 0 ELSE Max(inked)
    BY DEF UsedRows
  <2>5. UsedRows(f) \in Nat /\ y \in 1 .. UsedRows(f)
    <3> HIDE DEF inked
    <3>1. y <= Max(inked) /\ Max(inked) \in 1 .. Len(f) /\ y \in 1 .. Len(f)
      BY <2>2, <2>3, GreatestOf
    <3> QED
      BY <2>2, <2>4, <3>1
  <2>6. y \in stops /\ stops \in SUBSET (1 .. UsedRows(f))
    BY <2>2, <2>5
  <2>7. UsedRowsForFreeze(f) = IF stops = {} THEN 0 ELSE Max(stops)
    BY DEF UsedRowsForFreeze
  <2> HIDE DEF inked, stops
  <2>8. y <= Max(stops) /\ Max(stops) \in 1 .. UsedRows(f)
    BY <2>5, <2>6, GreatestOf
  <2>9. y \in 1 .. UsedRowsForFreeze(f)
    BY <2>5, <2>6, <2>7, <2>8
  <2> QED
    BY <2>1, <2>9, ApplyType DEF Shows
<1> QED
  BY <1>1, <1>2

\* The grid shows rows of the terminal.
LEMMA ViewIsOfLines ==
  ASSUME NEW ls \in Seq(Row), NEW up \in Nat
  PROVE  /\ View(ls, up) \in Seq(Row)
         /\ \A w \in Works : Shows(View(ls, up), w) => Shows(ls, w)
<1> DEFINE first == IF Len(ls) - up > Rows THEN Len(ls) - up - Rows + 1 ELSE 1
           end   == IF first + Rows - 1 <= Len(ls) THEN first + Rows - 1 ELSE Len(ls)
<1>1. Rows \in Nat /\ Rows > 0 /\ Len(ls) \in Nat
  BY NotebookAssumption DEF NotebookAssumption
<1>2. first \in Nat /\ end \in Nat /\ first >= 1 /\ end <= Len(ls)
  BY <1>1
<1>3. View(ls, up) = SubSeq(ls, first, end)
  BY DEF View
<1> HIDE DEF first, end
<1>4. /\ SubSeq(ls, first, end) \in Seq(Row)
      /\ \A y \in DOMAIN SubSeq(ls, first, end) :
           /\ first + y - 1 \in DOMAIN ls
           /\ SubSeq(ls, first, end)[y] = ls[first + y - 1]
  BY <1>2
<1> QED
  BY <1>3, <1>4 DEF Shows

LEMMA PromptsAreNoWork ==
  ASSUME NEW w \in Works
  PROVE  ~Shows(<<>>, w) /\ ~Shows(<<Prompt>>, w) /\ Blank \notin WorkRows(w)
         /\ Prompt \notin WorkRows(w)
         /\ \A v \in Works : v # w => WorkRows(v) \cap WorkRows(w) = {}
<1>1. /\ w # "" /\ w # " " /\ w # "$"
      /\ \A v \in Works : v # "" /\ v # "$"
  BY NotebookAssumption DEF NotebookAssumption, White, PromptGlyph
<1>0. \A a, b, c, d : <<a, b>> = <<c, d>> => a = c /\ b = d
  OBVIOUS
<1>2. Blank \notin WorkRows(w) /\ Prompt \notin WorkRows(w)
  BY <1>0, <1>1, Zenon DEF Blank, Prompt, WorkRows
<1>3. \A v \in Works : v # w => WorkRows(v) \cap WorkRows(w) = {}
  <2> SUFFICES ASSUME NEW v \in Works, v # w, NEW row \in WorkRows(v), row \in WorkRows(w)
               PROVE  FALSE
    OBVIOUS
  <2>1. row = <<v, "">> \/ row = <<"$", v>>
    BY Zenon DEF WorkRows
  <2>2. row = <<w, "">> \/ row = <<"$", w>>
    BY Zenon DEF WorkRows
  <2> QED
    BY <1>0, <1>1, <2>1, <2>2, Zenon
<1>4. ~Shows(<<>>, w) /\ ~Shows(<<Prompt>>, w)
  BY <1>2 DEF Shows
<1> QED
  BY <1>2, <1>3, <1>4
-----------------------------------------------------------------------------
(* The inductive invariant.                                                  *)

\* What the frame shows is in the terminal, also while the frame is the older.
FrameOfLines == \A w \in Works : Shows(frame, w) => Shows(lines, w)

TimelineInv ==
  /\ seq \in 0 .. MaxSeq
  /\ timeline \in Seq(TermCell \cup ChatCell)
  /\ \A i \in DOMAIN timeline : timeline[i].id <= seq

NotebookInv ==
  /\ lines \in Seq(Row) /\ frame \in Seq(Row) /\ scroll \in 0 .. MaxLines
  /\ tick \in {"idle", "written"} /\ at_prompt \in BOOLEAN
  /\ mode \in {"terminal", "naturalLanguage"}
  /\ TimelineInv
  /\ FrameOfLines
  /\ \A w \in Works : Frozen(w) => ~Shows(lines, w)

LEMMA NotebookInit == Init => NotebookInv
<1> SUFFICES ASSUME Init PROVE NotebookInv
  OBVIOUS
<1>1. at_prompt \in BOOLEAN /\ tick \in {"idle", "written"} /\ mode \in {"terminal", "naturalLanguage"}
  BY Zenon DEF Init
<1>2. lines = <<>> /\ frame = <<>> /\ timeline = <<>> /\ seq = 0 /\ scroll = 0
  BY DEF Init
<1>3. \A w \in Works : ~Frozen(w) /\ ~Shows(frame, w)
  BY <1>2 DEF Frozen, Shows
<1> QED
  BY <1>1, <1>2, <1>3, NotebookAssumption
     DEF NotebookAssumption, NotebookInv, TimelineInv, FrameOfLines

\* A row is added to the end of the terminal.
LEMMA ShowsAppended ==
  ASSUME NEW ls \in Seq(Row), NEW row \in Row, NEW w \in Works
  PROVE  /\ Append(ls, row) \in Seq(Row)
         /\ Shows(Append(ls, row), w) <=> Shows(ls, w) \/ row \in WorkRows(w)
<1>1. /\ Append(ls, row) \in Seq(Row) /\ Len(ls) \in Nat
      /\ DOMAIN Append(ls, row) = 1 .. Len(ls) + 1 /\ DOMAIN ls = 1 .. Len(ls)
      /\ Append(ls, row)[Len(ls) + 1] = row
      /\ \A y \in 1 .. Len(ls) : Append(ls, row)[y] = ls[y]
  OBVIOUS
<1> DEFINE n == Len(ls)
           more == Append(ls, row)
<1> HIDE DEF n, more
<1>2. n + 1 \in 1 .. n + 1 /\ \A y \in 1 .. n + 1 : y \in 1 .. n \/ y = n + 1
  BY <1>1 DEF n
<1>3. \A y \in 1 .. n : y \in 1 .. n + 1
  BY <1>1 DEF n
<1> QED
  BY <1>1, <1>2, <1>3 DEF Shows, n, more

LEMMA NotebookWrite ==
  ASSUME NotebookInv, NEW row \in Row, NEW prompt \in BOOLEAN, TickWrite(row, prompt),
         \A w \in Works : row \in WorkRows(w) => ~Printed(w)
  PROVE  NotebookInv'
<1>1. /\ lines' = Append(lines, row) /\ at_prompt' = prompt /\ tick' = "written"
      /\ UNCHANGED <<scroll, frame, mode, timeline, seq>>
  BY DEF TickWrite
<1>2. lines' \in Seq(Row)
  BY <1>1 DEF NotebookInv
<1>3. \A w \in Works : Shows(lines', w) <=> Shows(lines, w) \/ row \in WorkRows(w)
  BY <1>1, ShowsAppended DEF NotebookInv
<1>4. FrameOfLines'
  BY <1>1, <1>3 DEF NotebookInv, FrameOfLines
<1>5. \A w \in Works : Frozen(w)' => ~Shows(lines', w)
  BY <1>1, <1>3 DEF NotebookInv, Frozen, Printed
<1>6. TimelineInv'
  BY <1>1 DEF NotebookInv, TimelineInv
<1> QED
  BY <1>1, <1>2, <1>4, <1>5, <1>6 DEF NotebookInv

LEMMA NotebookFrame ==
  ASSUME NotebookInv, NEW up \in 0 .. MaxLines, frame' = View(lines, up), scroll' = up,
         tick' \in {"idle", "written"}, UNCHANGED <<lines, at_prompt, mode, timeline, seq>>
  PROVE  NotebookInv'
<1>1. up \in Nat
  OBVIOUS
<1>2. frame' \in Seq(Row) /\ \A w \in Works : Shows(frame', w) => Shows(lines', w)
  BY <1>1, ViewIsOfLines DEF NotebookInv
<1>3. TimelineInv' /\ FrameOfLines' /\ \A w \in Works : Frozen(w)' => ~Shows(lines', w)
  BY <1>2 DEF NotebookInv, TimelineInv, FrameOfLines, Frozen
<1> QED
  BY <1>2, <1>3 DEF NotebookInv

\* What the new surface shows, and the frame of it: no work at all.
LEMMA NewSurface ==
  ASSUME BeginNewTerminalSurface
  PROVE  /\ lines' \in Seq(Row) /\ frame' \in Seq(Row) /\ scroll' = 0
         /\ \A w \in Works : ~Shows(lines', w) /\ ~Shows(frame', w)
<1>1. lines' \in {<<Prompt>>, <<>>} /\ scroll' = 0 /\ frame' = View(lines', 0)
  BY DEF BeginNewTerminalSurface
<1>2. Prompt \in Row
  BY DEF Row
<1>3. lines' \in Seq(Row)
  <2>1. <<Prompt>> \in Seq(Row) /\ <<>> \in Seq(Row)
    BY <1>2
  <2> QED
    BY <1>1, <2>1
<1>4. \A w \in Works : ~Shows(lines', w)
  BY <1>1, PromptsAreNoWork
<1>5. \A ls \in Seq(Row) :
        View(ls, 0) \in Seq(Row) /\ \A w \in Works : Shows(View(ls, 0), w) => Shows(ls, w)
  BY ViewIsOfLines
<1> QED
  BY <1>1, <1>3, <1>4, <1>5

\* A cell at the end of the timeline, with a number above the others.
LEMMA TimelineAppended ==
  ASSUME TimelineInv, NEW cell \in TermCell \cup ChatCell,
         seq' \in 0 .. MaxSeq, seq <= seq', cell.id <= seq',
         timeline' = Append(timeline, cell)
  PROVE  /\ TimelineInv'
         /\ \A w \in Works :
              Frozen(w)' <=> Frozen(w) \/ (cell.kind = "term" /\ Shows(cell.frame, w))
<1> DEFINE n == Len(timeline)
<1>1. n \in Nat /\ timeline \in Seq(TermCell \cup ChatCell) /\ DOMAIN timeline = 1 .. n
  BY DEF TimelineInv
<1>2. /\ timeline' \in Seq(TermCell \cup ChatCell)
      /\ DOMAIN timeline' = 1 .. n + 1
      /\ timeline'[n + 1] = cell
      /\ \A i \in 1 .. n : timeline'[i] = timeline[i]
  BY <1>1
<1> HIDE DEF n
<1>3. \A i \in 1 .. n + 1 : i \in 1 .. n \/ i = n + 1
  BY <1>1
<1>4. n + 1 \in 1 .. n + 1 /\ \A i \in 1 .. n : i \in 1 .. n + 1
  BY <1>1
<1>5. \A w \in Works :
        Frozen(w)' <=> Frozen(w) \/ (cell.kind = "term" /\ Shows(cell.frame, w))
  BY <1>1, <1>2, <1>3, <1>4 DEF Frozen
<1>6. \A i \in 1 .. n : timeline[i].id \in Nat /\ timeline[i].id <= seq
  BY <1>1 DEF TimelineInv, TermCell, ChatCell
<1>7. \A i \in 1 .. n + 1 : timeline'[i].id <= seq'
  <2> SUFFICES ASSUME NEW i \in 1 .. n + 1 PROVE timeline'[i].id <= seq'
    OBVIOUS
  <2>1. \A a, b, c \in Int : a <= b /\ b <= c => a <= c
    OBVIOUS
  <2>2. seq \in Int /\ seq' \in Int /\ seq <= seq'
    BY DEF TimelineInv
  <2>3. CASE i \in 1 .. n
    <3>1. timeline'[i] = timeline[i]
      BY <1>2, <2>3
    <3>2. timeline[i].id \in Nat /\ timeline[i].id <= seq
      BY <1>6, <2>3
    <3>3. timeline'[i].id \in Int /\ timeline'[i].id <= seq
      BY <3>1, <3>2
    <3> QED
      BY <2>1, <2>2, <3>3
  <2>4. CASE i = n + 1
    BY <1>2, <2>4
  <2> QED
    BY <1>3, <2>3, <2>4
<1> QED
  BY <1>2, <1>5, <1>7 DEF TimelineInv

LEMMA NotebookAsk == ASSUME NotebookInv, EnterAsk PROVE NotebookInv'
<1>1. /\ mode' = "naturalLanguage" /\ UNCHANGED <<tick, at_prompt>>
  BY DEF EnterAsk
<1>2. CASE ~IsWorthFreezing(frame)
  <2>1. UNCHANGED <<seq, timeline, lines, scroll, frame>>
    BY <1>2 DEF EnterAsk
  <2> QED
    BY <1>1, <2>1 DEF NotebookInv, TimelineInv, FrameOfLines, Frozen
<1>3. CASE IsWorthFreezing(frame)
  <2> DEFINE cell == [kind |-> "term", id |-> seq', frame |-> Apply(frame)]
  <2>1. /\ seq < MaxSeq /\ seq' = seq + 1 /\ BeginNewTerminalSurface
        /\ timeline' = Append(timeline, cell)
    BY <1>3 DEF EnterAsk
  <2>2. seq \in 0 .. MaxSeq /\ MaxSeq \in Nat /\ TimelineInv
    BY NotebookAssumption DEF NotebookAssumption, NotebookInv, TimelineInv
  <2>3. seq' \in 1 .. MaxSeq /\ seq <= seq' /\ seq' \in 0 .. MaxSeq /\ seq' <= seq'
    BY <2>1, <2>2
  <2>4. Apply(frame) \in Seq(Row)
    BY ApplyType DEF NotebookInv
  <2>5. cell \in TermCell /\ cell.id = seq'
    BY <2>3, <2>4 DEF TermCell
  <2> HIDE DEF cell
  <2>6. TimelineInv'
    BY <2>1, <2>2, <2>3, <2>5, TimelineAppended
  <2>7. /\ lines' \in Seq(Row) /\ frame' \in Seq(Row) /\ scroll' = 0
        /\ \A w \in Works : ~Shows(lines', w) /\ ~Shows(frame', w)
    BY <2>1, NewSurface
  <2>8. scroll' \in 0 .. MaxLines
    BY <2>7, NotebookAssumption DEF NotebookAssumption
  <2> QED
    BY <1>1, <2>6, <2>7, <2>8 DEF NotebookInv, FrameOfLines
<1> QED
  BY <1>2, <1>3

LEMMA NotebookSubmit == ASSUME NotebookInv, SubmitUserMessage PROVE NotebookInv'
<1> DEFINE msg   == [kind |-> "msg", id |-> seq + 1]
           agent == [kind |-> "agent", id |-> seq + 2]
           n     == Len(timeline)
<1>1. /\ seq + 2 <= MaxSeq /\ seq' = seq + 2 /\ timeline' = timeline \o <<msg, agent>>
      /\ UNCHANGED <<lines, scroll, frame, tick, at_prompt, mode>>
  BY DEF SubmitUserMessage
<1>2. /\ seq \in 0 .. MaxSeq /\ MaxSeq \in Nat /\ timeline \in Seq(TermCell \cup ChatCell)
      /\ \A i \in DOMAIN timeline : timeline[i].id <= seq
  BY NotebookAssumption DEF NotebookAssumption, NotebookInv, TimelineInv
<1>3. /\ msg \in ChatCell /\ msg.kind = "msg" /\ msg.id = seq + 1
      /\ agent \in ChatCell /\ agent.kind = "agent" /\ agent.id = seq + 2
      /\ seq' \in 0 .. MaxSeq
  BY <1>1, <1>2 DEF ChatCell
<1> HIDE DEF msg, agent
<1>4. n \in Nat /\ DOMAIN timeline = 1 .. n
  BY <1>2
<1>5. /\ timeline' \in Seq(TermCell \cup ChatCell) /\ DOMAIN timeline' = 1 .. n + 2
      /\ timeline'[n + 1] = msg /\ timeline'[n + 2] = agent
      /\ \A i \in 1 .. n : timeline'[i] = timeline[i]
  BY <1>1, <1>2, <1>3
<1> HIDE DEF n
<1>6. \A i \in 1 .. n + 2 : i \in 1 .. n \/ i = n + 1 \/ i = n + 2
  BY <1>4
<1>7. \A i \in 1 .. n : timeline[i].id \in Nat /\ timeline[i].id <= seq
  BY <1>2, <1>4 DEF TermCell, ChatCell
<1>8. TimelineInv'
  <2>1. \A a, b, c \in Int : a <= b /\ b <= c => a <= c
    OBVIOUS
  <2>2. seq \in Int /\ seq' \in Int /\ seq <= seq' /\ seq + 1 <= seq' /\ seq + 2 <= seq'
    BY <1>1, <1>2
  <2>3. ASSUME NEW i \in 1 .. n + 2 PROVE timeline'[i].id <= seq'
    <3>1. CASE i \in 1 .. n
      <4>1. timeline'[i].id \in Int /\ timeline'[i].id <= seq
        BY <1>5, <1>7, <3>1
      <4> QED
        BY <2>1, <2>2, <4>1
    <3>2. CASE i = n + 1 \/ i = n + 2
      <4>1. timeline'[i].id = seq + 1 \/ timeline'[i].id = seq + 2
        BY <1>3, <1>5, <3>2
      <4> QED
        BY <2>2, <4>1
    <3> QED
      BY <1>6, <3>1, <3>2
  <2> QED
    BY <1>3, <1>5, <2>3 DEF TimelineInv
<1>9. \A w \in Works : Frozen(w)' => Frozen(w)
  <2> SUFFICES ASSUME NEW w \in Works, NEW i \in DOMAIN timeline',
                      timeline'[i].kind = "term", Shows(timeline'[i].frame, w)
               PROVE  Frozen(w)
    BY DEF Frozen
  <2>1. i \in 1 .. n /\ timeline'[i] = timeline[i]
    BY <1>3, <1>5, <1>6
  <2> QED
    BY <1>4, <2>1 DEF Frozen
<1> QED
  BY <1>1, <1>8, <1>9 DEF NotebookInv, FrameOfLines

LEMMA NotebookStep == NotebookInv /\ [Next]_vars => NotebookInv'
<1> SUFFICES ASSUME NotebookInv, [Next]_vars PROVE NotebookInv'
  OBVIOUS
<1>1. CASE \E w \in Works : ~Printed(w) /\ \E row \in WorkRows(w) : TickWrite(row, FALSE)
  <2>0. PICK w \in Works : ~Printed(w) /\ \E row \in WorkRows(w) : TickWrite(row, FALSE)
    BY <1>1
  <2>1. PICK row \in WorkRows(w) : TickWrite(row, FALSE)
    BY <2>0
  <2>2. row \in Row
    BY DEF Row
  <2>3. \A v \in Works : row \in WorkRows(v) => v = w
    BY PromptsAreNoWork
  <2> QED
    BY <2>0, <2>1, <2>2, <2>3, NotebookWrite
<1>2. CASE \E prompt \in BOOLEAN : TickWrite(Blank, prompt)
  BY <1>2, PromptsAreNoWork, NotebookWrite DEF Row
<1>3. CASE TickWrite(Prompt, TRUE)
  BY <1>3, PromptsAreNoWork, NotebookWrite DEF Row
<1>4. CASE TickSnapshot
  BY <1>4, NotebookFrame DEF TickSnapshot, NotebookInv
<1>5. CASE \E up \in 0 .. MaxLines : OnScroll(up)
  BY <1>5, NotebookFrame DEF OnScroll, NotebookInv
<1>6. CASE EnterAsk
  BY <1>6, NotebookAsk
<1>7. CASE EnterTerminal
  BY <1>7 DEF EnterTerminal, NotebookInv, TimelineInv, FrameOfLines, Frozen
<1>8. CASE SubmitUserMessage
  BY <1>8, NotebookSubmit
<1>9. CASE UNCHANGED vars
  BY <1>9 DEF vars, NotebookInv, TimelineInv, FrameOfLines, Frozen
<1> QED
  BY <1>1, <1>2, <1>3, <1>4, <1>5, <1>6, <1>7, <1>8, <1>9 DEF Next

\* The terminal, its frame and the numbered history, for any works and bounds.
THEOREM TypeCorrect == Spec => []TypeOK
<1>1. NotebookInv => TypeOK
  <2> SUFFICES ASSUME NotebookInv PROVE TypeOK
    OBVIOUS
  <2>1. \A i \in DOMAIN timeline : timeline[i] \in TermCell \cup ChatCell
    BY DEF NotebookInv, TimelineInv
  <2> QED
    BY <2>1 DEF NotebookInv, TimelineInv, TypeOK
<1> QED
  BY <1>1, NotebookInit, NotebookStep, PTL DEF Spec

\* Frozen work is not live any more, wherever the awaits of a tick let the user
\* switch, and however many pieces of work and rows there are.
THEOREM NoRepeatCorrect == Spec => []NoRepeat
<1>1. NotebookInv => NoRepeat
  BY DEF NotebookInv, FrameOfLines, NoRepeat
<1> QED
  BY <1>1, NotebookInit, NotebookStep, PTL DEF Spec

\* A piece of work that is on the screen survives each step: a switch to ask mode
\* puts it into the history, since the crop drops nothing but prompts, and no
\* other step takes it from the terminal or from the history.
THEOREM SeenIsKeptCorrect == Spec => SeenIsKept
<1> DEFINE Kept == \A w \in Works : Shows(frame, w) => Shows(lines', w) \/ Frozen(w)'
<1>1. NotebookInv /\ [Next]_vars => [Kept]_vars
  <2> SUFFICES ASSUME NotebookInv, Next, NEW w \in Works, Shows(frame, w)
               PROVE  Shows(lines', w) \/ Frozen(w)'
    OBVIOUS
  <2>1. Shows(lines, w) /\ TimelineInv /\ frame \in Seq(Row)
    BY DEF NotebookInv, FrameOfLines
  <2>2. ASSUME NEW row \in Row, NEW prompt \in BOOLEAN, TickWrite(row, prompt)
        PROVE  Shows(lines', w)
    <3>1. lines' = Append(lines, row) /\ lines \in Seq(Row)
      BY <2>2 DEF TickWrite, NotebookInv
    <3> QED
      BY <2>1, <3>1, ShowsAppended
  <2>3. Blank \in Row /\ Prompt \in Row /\ \A v \in Works : WorkRows(v) \subseteq Row
    BY DEF Row
  <2>4. CASE EnterAsk
    <3>1. CASE IsWorthFreezing(frame)
      <4> DEFINE cell == [kind |-> "term", id |-> seq', frame |-> Apply(frame)]
      <4>1. /\ seq < MaxSeq /\ seq' = seq + 1 /\ timeline' = Append(timeline, cell)
        BY <2>4, <3>1 DEF EnterAsk
      <4>2. seq \in 0 .. MaxSeq /\ MaxSeq \in Nat
        BY <2>1, NotebookAssumption DEF NotebookAssumption, TimelineInv
      <4>3. seq' \in 1 .. MaxSeq /\ seq <= seq' /\ seq' \in 0 .. MaxSeq /\ seq' <= seq'
        BY <4>1, <4>2
      <4>4. cell \in TermCell /\ cell.id = seq' /\ cell.kind = "term" /\ cell.frame = Apply(frame)
        BY <2>1, <4>3, ApplyType DEF TermCell
      <4> HIDE DEF cell
      <4>5. Shows(cell.frame, w)
        BY <2>1, <4>4, CropKeepsWork
      <4> QED
        BY <2>1, <4>1, <4>3, <4>4, <4>5, TimelineAppended
    <3>2. CASE ~IsWorthFreezing(frame)
      BY <2>1, <2>4, <3>2 DEF EnterAsk
    <3> QED
      BY <3>1, <3>2
  <2>5. CASE TickSnapshot \/ (\E up \in 0 .. MaxLines : OnScroll(up)) \/ EnterTerminal
             \/ SubmitUserMessage
    BY <2>1, <2>5 DEF TickSnapshot, OnScroll, EnterTerminal, SubmitUserMessage
  <2> QED
    BY <2>2, <2>3, <2>4, <2>5 DEF Next
<1> QED
  BY <1>1, NotebookInit, NotebookStep, PTL DEF Spec, SeenIsKept
===============================================================================
