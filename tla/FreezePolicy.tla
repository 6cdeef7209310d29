----------------------------- MODULE FreezePolicy -----------------------------
(***************************************************************************)
(* lib/notebook/freeze_policy.dart: what of a terminal frame becomes a     *)
(* cell of the history.  A frame is the sequence of its rows, a row the    *)
(* sequence of the texts of its cells; "" is a blank cell.  Rows are       *)
(* numbered from 1 where the code numbers them from 0.                     *)
(***************************************************************************)
EXTENDS Integers, SequencesExt

\* Cell texts that count as white space, and the glyphs of a bare prompt.  The
\* code has a fifth glyph, U+276F, which is treated as ">" is.
White == {"", " "}
PromptGlyph == {"$", "#", "%", ">"}

HasInk(frame) ==
  \E y \in DOMAIN frame : \E x \in DOMAIN frame[y] : frame[y][x] # ""

\* rowText, trimmed: the cells with a text, from the first to the last that shows.
RowText(row) ==
  LET shown == {x \in DOMAIN row : row[x] \notin White}
  IN  {x \in DOMAIN row : row[x] # "" /\ \E a, b \in shown : a <= x /\ x <= b}

\* Mutant of RowIsBarePrompt: a row that begins with a prompt counts as one.
RowBeginsWithPrompt(row) ==
  LET t == RowText(row)
  IN  t = {} \/ row[Min(t)] \in PromptGlyph

\* Blank, or one to three prompt glyphs and nothing else.
RowIsBarePrompt(row) ==
  LET t == RowText(row)
  IN  Cardinality(t) <= 3 /\ \A x \in t : row[x] \in PromptGlyph

\* One more than the index of the last row with a cell that is not blank.
UsedRows(frame) ==
  LET inked == {y \in DOMAIN frame : \E x \in DOMAIN frame[y] : frame[y][x] # ""}
  IN  IF inked = {} THEN 0 ELSE Max(inked)

\* The loop that drops bare prompts from the end; it stops at one row.
UsedRowsForFreeze(frame) ==
  LET stops == {y \in 1 .. UsedRows(frame) : y = 1 \/ ~RowIsBarePrompt(frame[y])}
  IN  IF stops = {} THEN 0 ELSE Max(stops)

IsWorthFreezing(frame) ==
  /\ HasInk(frame)
  /\ \E y \in 1 .. UsedRowsForFreeze(frame) :
       RowText(frame[y]) # {} /\ ~RowIsBarePrompt(frame[y])

\* The rows that are kept; the cursor, which is dropped, is not modelled.
Apply(frame) ==
  IF UsedRowsForFreeze(frame) = 0 THEN frame
  ELSE SubSeq(frame, 1, UsedRowsForFreeze(frame))
=============================================================================
