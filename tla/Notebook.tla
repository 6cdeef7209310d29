------------------------------- MODULE Notebook -------------------------------
(***************************************************************************)
(* The notebook: lib/notebook/controller.dart with lib/main.dart, which    *)
(* freezes the live terminal into the history and has the session wipe it, *)
(* and the part of lib/session/product_session.dart that keeps the frame.  *)
(*                                                                         *)
(* The terminal is written by a tick; the frame that is painted and frozen *)
(* is a copy, taken by the same tick after awaits (a reply to the guest,   *)
(* the clipboard) during which the user may switch modes.  A row has two   *)
(* cells: a prompt or not, and a piece of work or not.                     *)
(***************************************************************************)
EXTENDS FreezePolicy

CONSTANTS
  Works,     \* the rows of work the guest prints, each at most once
  Rows,      \* height of the live grid
  MaxLines,  \* bound: rows in the terminal, its scrollback included
  MaxSeq     \* bound: numbers given to history cells

ASSUME NotebookAssumption ==
  /\ Works \cap (White \cup PromptGlyph) = {}
  /\ Rows \in Nat \ {0} /\ MaxLines \in Nat /\ MaxSeq \in Nat

VARIABLES
  lines,      \* the terminal: scrollback and screen
  scroll,     \* rows the viewport is scrolled up
  frame,      \* _frame of the session
  tick,       \* "idle", or "written": between vt.writeGuest and vt.snapshot
  at_prompt,  \* _atPrompt
  mode,       \* InputMode
  timeline,   \* the history cells
  seq         \* _seq

vars == <<lines, scroll, frame, tick, at_prompt, mode, timeline, seq>>
-----------------------------------------------------------------------------
Blank  == <<"", "">>
Prompt == <<"$", " ">>

\* A piece of work is printed by the guest, or typed after its prompt.
WorkRows(w) == {<<w, "">>, <<"$", w>>}
Row == {Blank, Prompt} \cup UNION {WorkRows(w) : w \in Works}

Shows(rows, w) == \E y \in DOMAIN rows : rows[y] \in WorkRows(w)

TermCell == [kind : {"term"}, id : 1 .. MaxSeq, frame : Seq(Row)]
ChatCell == [kind : {"msg", "agent"}, id : 1 .. MaxSeq]

TypeOK ==
  /\ lines \in Seq(Row) /\ frame \in Seq(Row)
  /\ scroll \in 0 .. MaxLines
  /\ tick \in {"idle", "written"}
  /\ at_prompt \in BOOLEAN
  /\ mode \in {"terminal", "naturalLanguage"}
  /\ \A i \in DOMAIN timeline :
       /\ timeline[i] \in TermCell \/ timeline[i] \in ChatCell
       /\ timeline[i].id <= seq
  /\ seq \in 0 .. MaxSeq

Init ==
  /\ lines = <<>> /\ scroll = 0 /\ frame = <<>>
  /\ tick = "idle" /\ at_prompt = FALSE
  /\ mode = "terminal"
  /\ timeline = <<>> /\ seq = 0

\* The rows of the grid: the last ones, or older ones if scrolled up.
View(ls, up) ==
  LET last  == Len(ls) - up
      first == IF last > Rows THEN last - Rows + 1 ELSE 1
  IN  SubSeq(ls, first, IF first + Rows - 1 <= Len(ls) THEN first + Rows - 1 ELSE Len(ls))
-----------------------------------------------------------------------------
\* A frozen frame of the history shows this piece of work.
Frozen(w) ==
  \E i \in DOMAIN timeline : timeline[i].kind = "term" /\ Shows(timeline[i].frame, w)

Printed(w) == Shows(lines, w) \/ Frozen(w)

\* _tickOnce up to vt.writeGuest: a row of output, after the status was read.
TickWrite(row, prompt) ==
  /\ tick = "idle"
  /\ Len(lines) < MaxLines
  /\ at_prompt' = prompt
  /\ lines' = Append(lines, row)
  /\ tick' = "written"
  /\ UNCHANGED <<scroll, frame, mode, timeline, seq>>

\* _tickOnce from vt.snapshot on.
TickSnapshot ==
  /\ tick = "written"
  /\ frame' = View(lines, scroll)
  /\ tick' = "idle"
  /\ UNCHANGED <<lines, scroll, at_prompt, mode, timeline, seq>>

\* onScroll: the frame is taken again, at the place scrolled to.
OnScroll(up) ==
  /\ up # scroll /\ Len(lines) - up >= Rows
  /\ scroll' = up
  /\ frame' = View(lines, up)
  /\ UNCHANGED <<lines, tick, at_prompt, mode, timeline, seq>>

\* Mutant of BeginNewTerminalSurface: wipes nothing, only goes to the bottom.
SurfaceKeepLines ==
  /\ lines' = lines
  /\ scroll' = 0
  /\ frame' = View(lines', 0)

\* beginNewTerminalSurface: wipe screen and scrollback, reattach the prompt.
BeginNewTerminalSurface ==
  /\ lines' = IF at_prompt THEN <<Prompt>> ELSE <<>>
  /\ scroll' = 0
  /\ frame' = View(lines', 0)

(***************************************************************************)
(* _enterAsk of main.dart: controller.enterAsk with the session's frame,   *)
(* and a new surface if that has been frozen.                              *)
(***************************************************************************)
EnterAsk ==
  /\ mode = "terminal"
  /\ mode' = "naturalLanguage"
  /\ IF IsWorthFreezing(frame)
     THEN /\ seq < MaxSeq
          /\ seq' = seq + 1
          /\ timeline' = Append(timeline,
                           [kind |-> "term", id |-> seq', frame |-> Apply(frame)])
          /\ BeginNewTerminalSurface
     ELSE UNCHANGED <<seq, timeline, lines, scroll, frame>>
  /\ UNCHANGED <<tick, at_prompt>>

EnterTerminal ==
  /\ mode = "naturalLanguage"
  /\ mode' = "terminal"
  /\ UNCHANGED <<lines, scroll, frame, tick, at_prompt, timeline, seq>>

\* Mutant of SubmitUserMessage: the second number is not counted.
SubmitCountOne ==
  /\ mode = "naturalLanguage"
  /\ seq + 2 <= MaxSeq
  /\ seq' = seq + 1
  /\ timeline' = timeline \o <<[kind |-> "msg", id |-> seq + 1],
                               [kind |-> "agent", id |-> seq + 2]>>
  /\ UNCHANGED <<lines, scroll, frame, tick, at_prompt, mode>>

\* submitUserMessage of a text that is not blank.
SubmitUserMessage ==
  /\ mode = "naturalLanguage"
  /\ seq + 2 <= MaxSeq
  /\ seq' = seq + 2
  /\ timeline' = timeline \o <<[kind |-> "msg", id |-> seq + 1],
                               [kind |-> "agent", id |-> seq + 2]>>
  /\ UNCHANGED <<lines, scroll, frame, tick, at_prompt, mode>>

Next ==
  \/ \E w \in Works : ~Printed(w) /\ \E row \in WorkRows(w) : TickWrite(row, FALSE)
  \/ \E prompt \in BOOLEAN : TickWrite(Blank, prompt)
  \/ TickWrite(Prompt, TRUE)
  \/ TickSnapshot
  \/ \E up \in 0 .. MaxLines : OnScroll(up)
  \/ EnterAsk \/ EnterTerminal \/ SubmitUserMessage

Spec == Init /\ [][Next]_vars
-----------------------------------------------------------------------------
(* Properties. *)

\* What has been frozen is not live any more, in the terminal or in the frame
\* of a tick that was under way (docs/notebook-components.md:221, "no repeat").
NoRepeat ==
  \A w \in Works : Frozen(w) => ~Shows(lines, w) /\ ~Shows(frame, w)

\* The crop drops prompts only: work that is on the screen is in the history
\* after a switch, or still in the terminal (freeze_policy.dart:48, 73).
SeenIsKept ==
  [][\A w \in Works : Shows(frame, w) => Shows(lines', w) \/ Frozen(w)']_vars

\* The same of work that a tick has written since that frame was taken, or that
\* is scrolled out of it (docs/notebook-components.md:220).
WorkIsKept ==
  [][\A w \in Works : Shows(lines, w) => Shows(lines', w) \/ Frozen(w)']_vars
=============================================================================
