----------------------------- MODULE TerminalFeed -----------------------------
(***************************************************************************)
(* What becomes of the guest's output on the host's screen: the part of    *)
(* lib/session/product_session.dart from take_output to the frame, with    *)
(* the terminal it writes to (lib/vt/terminal.dart) and the projection of  *)
(* the terminal into frames (lib/vt/render.dart).                          *)
(*                                                                         *)
(* A character is its token and its position in the output (0 for what the *)
(* host writes).  Tokens: those of the boot banners, "n" a newline, "u1"   *)
(* and "u2" the two bytes of one character, "?" the replacement for half a *)
(* character, "q" a query the terminal answers through WRITE_PTY, "c" a    *)
(* clipboard write, any other one that shows.  libghostty-vt is external:  *)
(* a terminal is its rows, and flags the rows of the viewport that change. *)
(***************************************************************************)
EXTENDS Integers, SequencesExt

CONSTANTS
  Tokens,      \* what the guest may print
  Heads,       \* the four banner heads, as sequences of tokens
  MinPrefix,   \* tokens that make six characters (product_session.dart:415)
  ReadyTicks,  \* ticks until the shell counts as ready; 100 in the code
  Heights,     \* heights of the grid
  MaxChunk,    \* bound: tokens in one take_output
  MaxOut,      \* bound: tokens the guest prints
  MaxAnswers   \* bound: answers of the terminal, resize reports included

ASSUME FeedAssumption ==
  /\ "?" \notin Tokens
  /\ Heads \subseteq Seq(Tokens)
  /\ {MinPrefix, ReadyTicks, MaxChunk, MaxOut, MaxAnswers} \subseteq Nat
  /\ Heights \subseteq Nat \ {0}

VARIABLES
  printed,    \* tokens the guest has printed and the session has taken
  carry,      \* _bootLineCarry
  ready,      \* _shellReady
  ticks,      \* _readyTicks
  at_prompt,  \* _atPrompt
  tick,       \* where _tickOnce is
  screen,     \* the rows of the terminal, scrollback and all
  top,        \* first row of the viewport if it is scrolled up, else 0
  selected,   \* the row the selection is in, or 0
  rows,       \* height of the grid
  dirty,      \* the render state's dirty kind
  row_dirty,  \* the rows whose dirty flag is set
  frame,      \* _frame
  pty_out,    \* _ptyOut: the answers queued, by number
  chrome,     \* _chrome: how many clipboard writes are queued
  answers,    \* the answers the terminal has given
  sent,       \* the answers the guest has got
  failed,     \* the answers whose send_input failed
  shown,      \* the positions written to the terminal so far
  dropped     \* the characters dropped as boot noise

text     == <<printed, carry, ready, ticks, at_prompt, shown, dropped>>
effects  == <<pty_out, chrome, answers, sent, failed>>
terminal == <<screen, top, selected, rows>>
render   == <<dirty, row_dirty, frame>>
vars == <<text, effects, terminal, render, tick>>
-----------------------------------------------------------------------------
Char(tok, pos) == [tok |-> tok, pos |-> pos]
Chars == [tok : Tokens \cup {"?", "$"}, pos : 0 .. MaxOut]
Toks(s) == [i \in DOMAIN s |-> s[i].tok]

(***************************************************************************)
(* A tick waits for take_output ("idle": that wait and the timer's are one *)
(* here), for send_input of the answers it has taken ("pty"), or for the   *)
(* clipboard ("clip", with the writes that are left).  At "paint" it does  *)
(* not wait: the snapshot follows.                                         *)
(***************************************************************************)
At(at) == [at |-> at, taken |-> <<>>, clips |-> 0]

TypeOK ==
  /\ printed \in 0 .. MaxOut
  /\ carry \in Seq(Chars) /\ shown \in Seq(1 .. MaxOut) /\ dropped \subseteq Chars
  /\ ready \in BOOLEAN /\ at_prompt \in BOOLEAN /\ ticks \in 0 .. ReadyTicks
  /\ tick.at \in {"idle", "pty", "clip", "paint"}
  /\ tick.taken \in Seq(1 .. answers) /\ tick.clips \in Nat
  /\ screen \in Seq(Seq(Chars)) /\ screen # <<>>
  /\ top \in 0 .. Len(screen) /\ selected \in Nat
  /\ rows \in Heights
  /\ dirty \in {"clean", "partial", "full"}
  /\ row_dirty \subseteq 1 .. rows
  /\ (dirty = "clean" => row_dirty = {})
  /\ pty_out \in Seq(1 .. answers) /\ chrome \in Nat
  /\ answers \in Nat /\ sent \in Seq(1 .. answers) /\ failed \subseteq 1 .. answers
-----------------------------------------------------------------------------
(* The terminal and its frames. *)

\* The first row of the active area, the last rows of the screen.
ActiveTop(scr, height) == Max({1, Len(scr) - height + 1})

\* The viewport: the active area unless it is scrolled up.
ViewOf(scr, first, height, sel) ==
  LET start == IF first = 0 THEN ActiveTop(scr, height) ELSE first
  IN  [y \in 1 .. height |->
         LET l == start + y - 1
         IN  [row |-> IF l <= Len(scr) THEN scr[l] ELSE <<>>,
              selected |-> l = sel]]

View == ViewOf(screen, top, rows, selected)

\* What a change of the terminal does to the flags: rows that look different
\* are flagged, a new height or place of the viewport flags everything.
FlagsAfter(view) == row_dirty \cup {y \in 1 .. rows : view[y] # View[y]}

KindAfter(view, moved) ==
  IF moved \/ dirty = "full" THEN "full"
  ELSE IF FlagsAfter(view) = {} THEN "clean" ELSE "partial"

\* Mutant of ProjectRenderState: a clean state gives the old frame back,
\* whatever its size is.
ProjectAnySize(previous, view, kind, flags) ==
  CASE kind = "clean" -> previous
    [] kind = "partial" /\ DOMAIN previous = DOMAIN view ->
         [y \in DOMAIN view |-> IF y \in flags THEN view[y] ELSE previous[y]]
    [] OTHER -> view

\* projectRenderState: clean gives the previous frame back, partial merges the
\* flagged rows into it, both only if it has the size of the grid.
ProjectRenderState(previous, view, kind, flags) ==
  CASE kind = "clean" /\ DOMAIN previous = DOMAIN view -> previous
    [] kind = "partial" /\ DOMAIN previous = DOMAIN view ->
         [y \in DOMAIN view |-> IF y \in flags THEN view[y] ELSE previous[y]]
    [] OTHER -> view

\* Mutant of Snapshot: the flags of the rows are kept, as on the early return.
SnapshotKeepRows(previous, view, kind, flags) ==
  /\ frame' = ProjectRenderState(previous, view, kind, flags)
  /\ dirty' = "clean" /\ row_dirty' = flags

\* vt.snapshot(previous): the frame, with the flags cleared.
Snapshot(previous, view, kind, flags) ==
  /\ frame' = ProjectRenderState(previous, view, kind, flags)
  /\ dirty' = "clean" /\ row_dirty' = {}

\* A character that shows goes to the end of the last row.
Show(scr, ch) == [scr EXCEPT ![Len(scr)] = Append(@, ch)]

\* vt.write: newlines, which are normalised to CR LF, start a row; queries and
\* clipboard writes call back and show nothing.
Write(scr, chars) ==
  LET after[i \in 0 .. Len(chars)] ==
        IF i = 0 THEN scr
        ELSE CASE chars[i].tok = "n" -> Append(after[i - 1], <<>>)
               [] chars[i].tok \in {"q", "c"} -> after[i - 1]
               [] OTHER -> Show(after[i - 1], chars[i])
  IN  after[Len(chars)]

Count(chars, tok) == Cardinality({i \in DOMAIN chars : chars[i].tok = tok})
Numbers(from, n) == [i \in 1 .. n |-> from + i]
-----------------------------------------------------------------------------
(* The boot filter. *)

\* utf8.decode of one chunk: half a character is replaced.
Decode(chunk) ==
  [i \in DOMAIN chunk |->
     LET t == chunk[i].tok
     IN  IF \/ t = "u1" /\ (i = Len(chunk) \/ chunk[i + 1].tok # "u2")
            \/ t = "u2" /\ (i = 1 \/ chunk[i - 1].tok # "u1")
         THEN Char("?", chunk[i].pos) ELSE chunk[i]]

IsBootNoiseLine(line) == \E h \in Heads : IsPrefix(h, Toks(line))

IsIncompleteBootPrefix(partial) ==
  /\ Len(partial) >= MinPrefix
  /\ \E h \in Heads : IsPrefix(Toks(partial), h)

\* The part of s that is complete lines, and the rest.
LastNewline(s) == Max({0} \cup {i \in DOMAIN s : s[i].tok = "n"})
LineAt(s, i) ==
  LET first == 1 + Max({0} \cup {j \in 1 .. i - 1 : s[j].tok = "n"})
      last  == Min({j \in i .. Len(s) : s[j].tok = "n"})
  IN  SubSeq(s, first, last)
Partial(s) == SubSeq(s, LastNewline(s) + 1, Len(s))

Noise(s) == {s[i] : i \in {j \in 1 .. LastNewline(s) : IsBootNoiseLine(LineAt(s, j))}}

\* The characters of s that are not gone, in their order.
Without(s, gone) ==
  LET kept[i \in 0 .. Len(s)] ==
        IF i = 0 THEN <<>>
        ELSE IF s[i] \in gone THEN kept[i - 1] ELSE Append(kept[i - 1], s[i])
  IN  kept[Len(s)]

\* Mutant of StripBootNoise: what was held is put after the new chunk.
StripCarryLast(chunk) ==
  LET s    == Decode(chunk) \o carry
      held == IF IsIncompleteBootPrefix(Partial(s)) THEN Partial(s) ELSE <<>>
  IN  [out |-> Without(s, Noise(s) \cup ToSet(held)),
       noise |-> Noise(s), held |-> held]

\* _stripBootNoise: what is painted, dropped and held of the text.
StripBootNoise(chunk) ==
  LET s    == carry \o Decode(chunk)
      held == IF IsIncompleteBootPrefix(Partial(s)) THEN Partial(s) ELSE <<>>
  IN  [out |-> Without(s, Noise(s) \cup ToSet(held)),
       noise |-> Noise(s), held |-> held]

\* _flushBootCarry: only a text that cannot be a banner is painted.
FlushBootCarry(held) ==
  IF IsBootNoiseLine(held) \/ IsIncompleteBootPrefix(held) THEN <<>> ELSE held
-----------------------------------------------------------------------------
Init ==
  /\ printed = 0 /\ carry = <<>> /\ ready = FALSE /\ ticks = 0 /\ at_prompt = FALSE
  /\ shown = <<>> /\ dropped = {}
  /\ pty_out = <<>> /\ chrome = 0 /\ answers = 0 /\ sent = <<>> /\ failed = {}
  /\ screen = <<<<>>>> /\ top = 0 /\ selected = 0 /\ rows \in Heights
  /\ dirty = "clean" /\ row_dirty = {} /\ frame = View
  /\ tick = At("idle")

\* The handlers run while the tick waits, or there is none.
Waits == tick.at \in {"idle", "pty", "clip"}

\* What the terminal looks like now, and the flags that go with it.
Look(view) ==
  /\ dirty' = KindAfter(view, FALSE)
  /\ row_dirty' = FlagsAfter(view)
  /\ UNCHANGED frame

\* Mutant of TakePtyOutput: the answers are handed out and kept.
TakePtyOutputKeep(queue) == pty_out' = queue

\* takePtyOutput: the queue is handed out and cleared.
TakePtyOutput(queue) == pty_out' = <<>>

\* takeChromeEvents: the loop waits once for each clipboard write.
TakeChrome(queued) ==
  /\ chrome' = 0
  /\ tick' = IF queued > 0 THEN [At("clip") EXCEPT !.clips = queued] ELSE At("paint")

\* _tickOnce after status(), an await before take_output.
TickStatus(prompt) ==
  /\ tick.at = "idle"
  /\ at_prompt' = prompt
  /\ UNCHANGED <<printed, carry, ready, ticks, shown, dropped, effects, terminal, render, tick>>

(***************************************************************************)
(* _tickOnce after take_output: filter, write, count, flush the filter     *)
(* when the shell becomes ready, and send what the terminal answered.      *)
(***************************************************************************)
TickOutput(toks) ==
  LET chunk   == [i \in DOMAIN toks |-> Char(toks[i], printed + i)]
      f       == StripBootNoise(chunk)
      becomes == ~ready /\ (at_prompt \/ ticks + 1 >= ReadyTicks)
      flushed == IF becomes THEN FlushBootCarry(f.held) ELSE <<>>
      painted == f.out \o flushed
      taken   == pty_out \o Numbers(answers, Count(painted, "q"))
      queued  == chrome + Count(painted, "c")
  IN  /\ tick.at = "idle"
      /\ printed + Len(toks) <= MaxOut
      /\ answers + Count(painted, "q") <= MaxAnswers
      /\ printed' = printed + Len(toks)
      /\ ready' = (ready \/ becomes)
      /\ ticks' = IF ticks < ReadyTicks THEN ticks + 1 ELSE ticks
      /\ carry' = IF becomes THEN <<>> ELSE f.held
      /\ dropped' = dropped \cup f.noise
                      \cup (IF becomes THEN ToSet(f.held) \ ToSet(flushed) ELSE {})
      /\ shown' = shown \o [i \in DOMAIN painted |-> painted[i].pos]
      /\ screen' = Write(screen, painted)
      /\ Look(ViewOf(screen', top, rows, selected))
      /\ answers' = answers + Count(painted, "q")
      /\ TakePtyOutput(taken)
      /\ IF taken # <<>>
         THEN tick' = [At("pty") EXCEPT !.taken = taken] /\ chrome' = queued
         ELSE TakeChrome(queued)
      /\ UNCHANGED <<at_prompt, top, selected, rows, sent, failed>>

\* The answers have reached the guest, or the call has failed: they are gone.
TickPty(ok) ==
  /\ tick.at = "pty"
  /\ sent' = IF ok THEN sent \o tick.taken ELSE sent
  /\ failed' = IF ok THEN failed ELSE failed \cup ToSet(tick.taken)
  /\ TakeChrome(chrome)
  /\ UNCHANGED <<text, terminal, render, pty_out, answers>>

TickClip ==
  /\ tick.at = "clip"
  /\ tick' = IF tick.clips > 1 THEN [tick EXCEPT !.clips = @ - 1] ELSE At("paint")
  /\ UNCHANGED <<text, effects, terminal, render>>

TickPaint ==
  /\ tick.at = "paint"
  /\ Snapshot(frame, View, dirty, row_dirty)
  /\ tick' = At("idle")
  /\ UNCHANGED <<text, effects, terminal>>

\* onScroll: the one snapshot that is taken without the previous frame.
OnScroll(first) ==
  /\ Waits
  /\ first = 0 \/ first + rows <= Len(screen)
  /\ top' = first
  /\ LET view == ViewOf(screen, first, rows, selected)
     IN  Snapshot(<<>>, view, KindAfter(view, first # top), FlagsAfter(view))
  /\ UNCHANGED <<text, effects, screen, selected, rows, tick>>

\* resize: the terminal may report it to the guest.
Resize(height, reports) ==
  /\ Waits
  /\ reports => answers < MaxAnswers
  /\ rows' = height
  /\ top' = IF top + height > Len(screen) THEN 0 ELSE top
  /\ Snapshot(frame, ViewOf(screen, top', height, selected),
              IF height = rows THEN dirty ELSE "full", row_dirty)
  /\ answers' = IF reports THEN answers + 1 ELSE answers
  /\ pty_out' = IF reports THEN Append(pty_out, answers') ELSE pty_out
  /\ UNCHANGED <<text, screen, selected, chrome, sent, failed, tick>>

\* onPointer, a drag that selects row y.  The row is looked up in the active
\* area (selection.dart:126), also when the viewport is scrolled up.
OnPointer(y) ==
  /\ Waits
  /\ selected' = ActiveTop(screen, rows) + y - 1
  /\ LET view == ViewOf(screen, top, rows, selected')
     IN  Snapshot(frame, view, KindAfter(view, FALSE), FlagsAfter(view))
  /\ UNCHANGED <<text, effects, screen, top, rows, tick>>

\* beginNewTerminalSurface: the filter and the guest are left alone.
BeginNewTerminalSurface ==
  /\ Waits
  /\ screen' = <<IF at_prompt THEN <<Char("$", 0)>> ELSE <<>>>>
  /\ top' = 0 /\ selected' = 0
  /\ LET view == ViewOf(screen', 0, rows, 0)
     IN  Snapshot(frame, view, KindAfter(view, top # 0), FlagsAfter(view))
  /\ UNCHANGED <<text, effects, rows, tick>>

Next ==
  \/ \E prompt \in BOOLEAN : TickStatus(prompt)
  \/ \E toks \in BoundedSeq(Tokens, MaxChunk) : TickOutput(toks)
  \/ \E ok \in BOOLEAN : TickPty(ok)
  \/ TickClip \/ TickPaint
  \/ \E first \in 0 .. Len(screen) : OnScroll(first)
  \/ \E height \in Heights, reports \in BOOLEAN : Resize(height, reports)
  \/ \E y \in 1 .. rows : OnPointer(y)
  \/ BeginNewTerminalSurface

Spec == Init /\ [][Next]_vars
-----------------------------------------------------------------------------
(* Properties. *)

Increasing(s) == \A i, j \in DOMAIN s : i < j => s[i] < s[j]

\* A row whose flag is clear is in the frame as it is in the terminal, whoever
\* took the last frame and whatever was written while a tick waited
\* (render.dart:22-27, docs of the dirty policy).
FrameUpToDate ==
  dirty # "full" =>
    /\ DOMAIN frame = 1 .. rows
    /\ \A y \in (1 .. rows) \ row_dirty : frame[y] = View[y]

\* Whatever way the output is cut into chunks, each character is written once
\* and in order, held back, or dropped (product_session.dart:428-452).
PaintedInOrder ==
  /\ Increasing(shown \o [i \in DOMAIN carry |-> carry[i].pos])
  /\ ToSet(shown) \cup {ch.pos : ch \in ToSet(carry) \cup dropped} = 1 .. printed
  /\ ToSet(shown) \cap {ch.pos : ch \in dropped} = {}

\* Each answer of the terminal goes to the guest once, in the order given, unless
\* its send_input failed (terminal.dart:23-27, product_session.dart:266).
AnswersSentOnce ==
  /\ Increasing(sent \o tick.taken \o pty_out)
  /\ ToSet(sent \o tick.taken \o pty_out) = (1 .. answers) \ failed

\* Once the shell is ready, all it prints is shown: "Strip memcontainers boot
\* diary only - keep `$` and real shell I/O" (product_session.dart:236).
ShellOutputKept == [][ready => dropped' = dropped]_vars
=============================================================================
