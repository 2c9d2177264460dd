----------------------------- MODULE ButeEditor -----------------------------
(***************************************************************************)
(* The editing commands of bute (bearos_bute/src/bute.c): how the cursor,  *)
(* the selection and the part of the text on the screen follow the text.   *)
(* struct BUTE caches where the cursor's line begins (linepos), its number *)
(* (line), where the first line on the screen begins (toppos) and its      *)
(* number (topline), and every command keeps them up to date by hand.      *)
(*                                                                         *)
(* `ed` is the document of ButeUndo with those fields added.  Commands are *)
(* operators from an editor to an editor, in the order of the source; what *)
(* C leaves undefined (a position outside the text given to replace, or    *)
(* read) sets `undefined`, and nothing happens after that.                 *)
(***************************************************************************)
EXTENDS ButeUndoList, FiniteSetsExt, TLC

CONSTANTS
  NL, TAB, SPACE,   \* characters: '\n', '\t', ' '
  Alnum,            \* the characters isalnum() holds of
  Negative,         \* the characters that are negative as a char of the build
  Typed,            \* the characters the user types
  Searches,         \* the texts the user searches for
  Lines, Cols,      \* env->lines and env->cols, the size of the screen
  TabSize,          \* TABSIZE
  NoIndent,         \* env->noindent
  Files,            \* the texts the files edited may hold
  MaxText,          \* bound: the longest text explored
  MaxRecs,          \* bound: the longest undo list explored
  Sessions          \* bounds: the kinds of session explored.  Each names the
                    \* `commands` used, by their function, and whether the undo
                    \* list is kept (`recording`): without undo and redo, the
                    \* only ones to read it, it need not be

ASSUME EditorAssumption ==
  /\ {NL, TAB, SPACE} \cup Alnum \cup Negative \cup Typed \subseteq Char
  /\ NL \notin Negative /\ SPACE \notin Negative
  /\ Files \subseteq Seq(Char) /\ MaxText \in Nat /\ \A t \in Files : Len(t) <= MaxText
  /\ Searches \subseteq Seq(Char)
  /\ Lines \in Nat \ {0} /\ Cols \in Nat \ {0} /\ TabSize \in Nat \ {0}
  /\ NoIndent \in BOOLEAN
  /\ \A s \in Sessions : {"undo", "redo"} \cap s.commands # {} => s.recording

VARIABLES ed, clip,    \* clip: env->clipboard
          session      \* which of the Sessions this one is

edVars == <<ed, clip, session>>

\* F applied n times.
Iterate(F(_), e, n) ==
  LET it[k \in 0 .. n] == IF k = 0 THEN e ELSE F(it[k - 1]) IN it[n]

-----------------------------------------------------------------------------
(* Lines of a text t.  Positions count from 0.                             *)

Newlines(t) == {p \in 0 .. Len(t) - 1 : t[p + 1] = NL}

\* Where get_char first answers a newline or something negative from p on.
\* (What it reads before the text, where no valid p is, is taken for neither.)
StopFrom(t, p) ==
  Min({q \in Max({p, 0}) .. Len(t) - 1 : t[q + 1] \in Negative \cup {NL}} \cup {Max({p, Len(t)})})

LineLength(t, p) == StopFrom(t, p) - p

LineStart(t, p) ==
  LET before == {q \in Newlines(t) : q < p}
  IN  IF before = {} THEN 0 ELSE Max(before) + 1

NextLine(t, p) ==
  LET q == StopFrom(t, p)
  IN  IF q \in Newlines(t) THEN q + 1 ELSE -1

PrevLine(t, p) ==
  LET before == {q \in Newlines(t) : q < p}
  IN  IF p = 0 THEN -1
      ELSE LineStart(t, IF before = {} THEN 0 ELSE Max(before))

\* The screen column of the col-th character of a line.
Column(t, linepos, col) ==
  LET c[k \in 0 .. col] ==
        IF k = 0 THEN 0
        ELSE IF linepos + k > Len(t) THEN c[k - 1]
        ELSE IF t[linepos + k] = TAB THEN (c[k - 1] \div TabSize + 1) * TabSize
        ELSE c[k - 1] + 1
  IN  c[col]

\* How many lines begin after p, up to q.
LinesBetween(t, p, q) == Cardinality({n \in Newlines(t) : p <= n /\ n < q})

-----------------------------------------------------------------------------
(* The screen follows the cursor.                                          *)

Pos(e) == e.linepos + e.col

\* Mutant of ScrollDown: the screen is taken to have one line more.
ScrollDownLate(e) ==
  IF e.line > e.topline + Lines
  THEN [e EXCEPT !.toppos = NextLine(e.text, @), !.topline = @ + 1]
  ELSE e

\* The cursor's line became the line below; scroll if it left the screen.
ScrollDown(e) ==
  IF e.line >= e.topline + Lines
  THEN [e EXCEPT !.toppos = NextLine(e.text, @), !.topline = @ + 1]
  ELSE e

\* The cursor's line is above the screen: it becomes the first.
ScrollUp(e) ==
  IF e.line < e.topline
  THEN [e EXCEPT !.toppos = e.linepos, !.topline = e.line]
  ELSE e

\* pos is ahead and no line follows the cursor's: moveto goes no further.
Blocked(e, pos) == pos > Pos(e) /\ NextLine(e.text, e.linepos) = -1

\* One iteration of the loop of moveto; where it stops it changes nothing.
MoveStep(e, pos) ==
  LET next == NextLine(e.text, e.linepos)
      above == [e EXCEPT !.col = 0, !.linepos = PrevLine(e.text, @), !.line = @ - 1]
  IN  CASE Blocked(e, pos) -> e
        [] pos >= e.linepos /\ pos <= Pos(e) ->
             [e EXCEPT !.col = pos - e.linepos]
        [] pos < e.linepos ->
             IF above.topline > above.line
             THEN [above EXCEPT !.toppos = above.linepos, !.topline = @ - 1]
             ELSE above
        [] pos > Pos(e) /\ next # -1 /\ pos < next ->
             [e EXCEPT !.col = pos - e.linepos]
        [] OTHER ->
             ScrollDown([e EXCEPT !.col = 0, !.linepos = next, !.line = @ + 1])

\* moveto's centering: the cursor's line in the middle of the screen.
Center(e) ==
  LET tl == IF e.line > Lines \div 2 THEN e.line - Lines \div 2 ELSE 0
      step(f) == IF f.topline > tl
                 THEN [f EXCEPT !.toppos = PrevLine(f.text, @), !.topline = @ - 1]
                 ELSE IF f.topline < tl
                 THEN [f EXCEPT !.toppos = NextLine(f.text, @), !.topline = @ + 1]
                 ELSE f
  IN  Iterate(step, e, Len(e.text))

\* A cursor that has to move forward to a place inside the last line is left at
\* the end of that line.
Stopped(e, pos) ==
  IF Blocked(e, pos) THEN [e EXCEPT !.col = LineLength(e.text, e.linepos)] ELSE e

Moveto(e, pos, center) ==
  LET step(f) == MoveStep(f, pos)
      m == Stopped(Iterate(step, e, Len(e.text) + 2), pos)
  IN  IF center /\ m.topline # e.topline THEN Center(m) ELSE m

\* Mutant of AdjustLayout: the clipped column is the one remembered.
AdjustLayoutForgets(e) ==
  LET ll == LineLength(e.text, e.linepos)
      col == IF e.lastcol > ll THEN ll ELSE e.lastcol
  IN  [e EXCEPT !.col = col, !.lastcol = col]

\* adjust_layout: keep the column of the last sideways move, as far as the
\* line goes, and scroll sideways, four columns at a time, to show it.
AdjustLayout(e) ==
  LET ll == LineLength(e.text, e.linepos)
      col == IF e.lastcol > ll THEN ll ELSE e.lastcol
      c == Column(e.text, e.linepos, col)
      back == Max({0, e.margin - 4 * ((e.margin - c + 3) \div 4)})
      m == IF c < e.margin THEN back ELSE e.margin
  IN  [e EXCEPT !.col = col,
                !.margin = IF c - m >= Cols
                           THEN m + 4 * ((c - m - Cols) \div 4 + 1) ELSE m]

-----------------------------------------------------------------------------
(* Selection.  What is selected lies between the anchor and the cursor.    *)

HasSelection(e) == e.anchor # -1 /\ e.anchor # Pos(e)
SelStart(e) == IF Pos(e) < e.anchor THEN Pos(e) ELSE e.anchor
SelEnd(e) == IF Pos(e) < e.anchor THEN e.anchor ELSE Pos(e)
Selected(e) == SubSeq(e.text, SelStart(e) + 1, SelEnd(e))

Undefined(e) == [e EXCEPT !.undefined = TRUE]

\* A selection that reaches beyond the text: what is read there is garbage.
Stray(e) == HasSelection(e) /\ SelEnd(e) > Len(e.text)

UpdateSelection(e, select) ==
  [e EXCEPT !.anchor = IF ~select THEN -1 ELSE IF @ = -1 THEN Pos(e) ELSE @]

\* replace: outside the text it moves the gap out of the buffer.
ReplaceEd(e, pos, len, buf) ==
  IF pos < 0 \/ pos + len > Len(e.text) THEN Undefined(e)
  ELSE IF session.recording THEN ReplaceIn(e, pos, len, buf)
  ELSE ReplaceText(e, pos, len, buf)

InsertAt(e, buf) == ReplaceEd(e, Pos(e), 0, buf)

\* Mutant of EraseSelection: the cursor stays where it was.
EraseSelectionInPlace(e) ==
  IF ~HasSelection(e) THEN e
  ELSE [ReplaceEd(e, SelStart(e), SelEnd(e) - SelStart(e), <<>>) EXCEPT !.anchor = -1]

EraseSelection(e) ==
  IF ~HasSelection(e) THEN e
  ELSE [ReplaceEd(Moveto(e, SelStart(e), FALSE), SelStart(e), SelEnd(e) - SelStart(e), <<>>)
          EXCEPT !.anchor = -1]

SelectAll(e) == Moveto([e EXCEPT !.anchor = 0], Len(e.text), FALSE)

-----------------------------------------------------------------------------
(* Commands that move the cursor.                                          *)

Sideways(e, col) == AdjustLayout([e EXCEPT !.col = col, !.lastcol = col])

LineAbove(e) ==
  [e EXCEPT !.linepos = PrevLine(e.text, @), !.line = @ - 1]
LineBelow(e) ==
  ScrollDown([e EXCEPT !.linepos = NextLine(e.text, @), !.line = @ + 1])

AtFirstLine(e) == PrevLine(e.text, e.linepos) < 0
AtLastLine(e) == NextLine(e.text, e.linepos) < 0

Up(e, select) ==
  LET u == UpdateSelection(e, select)
  IN  IF AtFirstLine(u) THEN u ELSE AdjustLayout(ScrollUp(LineAbove(u)))

Down(e, select) ==
  LET u == UpdateSelection(e, select)
  IN  IF AtLastLine(u) THEN u ELSE AdjustLayout(LineBelow(u))

Left(e, select) ==
  LET u == UpdateSelection(e, select)
      above == LineAbove(u)
  IN  IF u.col > 0 THEN Sideways(u, u.col - 1)
      ELSE IF AtFirstLine(u) THEN u
      ELSE Sideways(ScrollUp(above), LineLength(u.text, above.linepos))

Right(e, select) ==
  LET u == UpdateSelection(e, select)
  IN  IF u.col < LineLength(u.text, u.linepos) THEN Sideways(u, u.col + 1)
      ELSE IF AtLastLine(u) THEN u
      ELSE Sideways(LineBelow(u), 0)

\* (Behind the text get_char answers -1.)
IsAlnum(t, p) == p < Len(t) /\ t[p + 1] \in Alnum

\* The start of the word before p.
WordBefore(t, p) ==
  Max({0} \cup {q \in 1 .. p - 1 : IsAlnum(t, q) /\ ~IsAlnum(t, q - 1)})

\* The end of the word after p.
WordAfter(t, p) ==
  Min({Max({p, Len(t)})} \cup {q \in p + 1 .. Len(t) - 1 : IsAlnum(t, q - 1) /\ ~IsAlnum(t, q)})

\* wordleft and wordright walk the lines as they pass them, and scroll once,
\* when they have arrived.  (wordright waits to pass the next line, and one that
\* the cursor is behind already it does not pass.)
WordLeft(e, select) ==
  LET u == UpdateSelection(e, select)
      p == WordBefore(u.text, Pos(u))
      start == IF p < u.linepos THEN LineStart(u.text, p) ELSE u.linepos
  IN  Sideways(ScrollUp([u EXCEPT !.linepos = start,
                                  !.line = @ - LinesBetween(u.text, start, u.linepos)]),
               p - start)

WordRight(e, select) ==
  LET u == UpdateSelection(e, select)
      p == WordAfter(u.text, Pos(u))
      step(f) == LET next == NextLine(f.text, f.linepos)
                 IN  IF next <= Pos(u) \/ next > p THEN f
                     ELSE [f EXCEPT !.linepos = next, !.line = @ + 1]
      r == Iterate(step, u, Len(u.text))
  IN  Sideways(ScrollDown(r), p - r.linepos)

Home(e, select) == Sideways(UpdateSelection(e, select), 0)

End(e, select) ==
  Sideways(UpdateSelection(e, select), LineLength(e.text, e.linepos))

Top(e, select) ==
  [UpdateSelection(e, select) EXCEPT
     !.toppos = 0, !.topline = 0, !.margin = 0,
     !.linepos = 0, !.line = 0, !.col = 0, !.lastcol = 0]

Bottom(e, select) ==
  LET step(f) == IF AtLastLine(f) THEN f ELSE LineBelow(f)
      b == Iterate(step, UpdateSelection(e, select), Len(e.text))
  IN  Sideways(b, LineLength(b.text, b.linepos))

\* (A loop that meets the first line returns at once, with the column as it is.)
PageUp(e, select) ==
  LET u == UpdateSelection(e, select)
      step(f) == IF AtFirstLine(f) THEN f
                 ELSE IF f.topline > 0
                 THEN [LineAbove(f) EXCEPT !.toppos = PrevLine(f.text, @), !.topline = @ - 1]
                 ELSE LineAbove(f)
      paged == Iterate(step, u, Lines)
  IN  IF u.line < Lines
      THEN AdjustLayout([u EXCEPT !.linepos = 0, !.toppos = 0, !.line = 0, !.topline = 0])
      ELSE IF LinesBetween(u.text, 0, u.linepos) < Lines THEN paged
      ELSE AdjustLayout(paged)

PageDown(e, select) ==
  LET step(f) == IF AtLastLine(f) THEN f
                 ELSE [f EXCEPT !.linepos = NextLine(f.text, @), !.line = @ + 1,
                                !.toppos = NextLine(f.text, @), !.topline = @ + 1]
  IN  AdjustLayout(Iterate(step, UpdateSelection(e, select), Lines))
-----------------------------------------------------------------------------
(* Commands that edit.                                                     *)

InsertChar(e, ch) ==
  LET i == InsertAt(EraseSelection(e), <<ch>>)
  IN  Sideways(i, i.col + 1)

\* newline, and the blanks the line it ends begins with, one insert each.
Newline(e) ==
  LET i == InsertAt(EraseSelection(e), <<NL>>)
      n == [i EXCEPT !.col = 0, !.line = @ + 1, !.linepos = NextLine(i.text, @)]
      blanks == {k \in 0 .. Len(i.text) - i.linepos :
                   \A q \in 1 .. k : i.text[i.linepos + q] \in {SPACE, TAB}}
      copied(f) == [InsertAt(f, <<f.text[i.linepos + f.col + 1]>>) EXCEPT !.col = @ + 1]
      b == IF NoIndent THEN n ELSE Iterate(copied, n, Max(blanks))
  IN  IF i.undefined THEN i ELSE AdjustLayout(ScrollDown([b EXCEPT !.lastcol = b.col]))

Backspace(e) ==
  LET p == Pos(e) - 1
      joined == ReplaceEd(e, p, 1, <<>>)
      start == LineStart(joined.text, p)
      b == IF e.col > 0 THEN [joined EXCEPT !.col = @ - 1]
           ELSE ScrollUp([joined EXCEPT !.line = @ - 1, !.linepos = start,
                                        !.col = p - start])
  IN  IF HasSelection(e) THEN EraseSelection(e)
      ELSE IF p < 0 THEN e
      ELSE Sideways(b, b.col)

Del(e) ==
  IF HasSelection(e) THEN EraseSelection(e)
  ELSE IF Pos(e) >= Len(e.text) \/ e.text[Pos(e) + 1] \in Negative THEN e
  ELSE ReplaceEd(e, Pos(e), 1, <<>>)

INDENT == <<SPACE, SPACE>>
Width == Len(INDENT)

\* Whether run lies at p in the text t.
Holds(t, p, run) ==
  p + Len(run) <= Len(t) /\ SubSeq(t, p + 1, p + Len(run)) = run

\* Where the cursor is after the selection became `by` characters longer: the
\* end of the selection moves, be it the cursor or the anchor.
Grown(e, by) ==
  LET pos == IF e.anchor < Pos(e) THEN Pos(e) + by ELSE Pos(e)
      start == LineStart(e.text, pos)
  IN  AdjustLayout([e EXCEPT !.anchor = IF e.anchor < Pos(e) THEN @ ELSE @ + by,
                             !.linepos = start, !.col = pos - start,
                             !.lastcol = pos - start])

\* Mutant of SelectedLines: the first line is not counted.
LinesBegunInSelection(e) == {p \in SelStart(e) + 1 .. SelEnd(e) - 1 : e.text[p] = NL}

\* The lines of the selection: where one begins in it, its start included.
SelectedLines(e) ==
  {p \in SelStart(e) .. SelEnd(e) - 1 : p = SelStart(e) \/ e.text[p] = NL}

\* The selected text with INDENT put in at the lines that begin before p.
Indented(e, p) ==
  LET at[q \in SelStart(e) .. p] ==
        IF q = SelStart(e) THEN <<>>
        ELSE at[q - 1] \o (IF q - 1 \in SelectedLines(e) THEN INDENT ELSE <<>>)
                       \o <<e.text[q]>>
  IN  at[p]

\* The top line moves by the indentation of the selected lines above it.
Indent(e) ==
  LET lines == SelectedLines(e)
      toplines == IF e.toppos \in SelStart(e) .. SelEnd(e) - 1
                  THEN Cardinality({p \in lines : p < e.toppos}) ELSE 0
      r == ReplaceEd(e, SelStart(e), SelEnd(e) - SelStart(e), Indented(e, SelEnd(e)))
  IN  IF ~HasSelection(e) THEN InsertChar(e, TAB)
      ELSE IF Stray(e) THEN Undefined(e)
      ELSE Grown([r EXCEPT !.toppos = @ + Width * toplines], Width * Cardinality(lines))

\* One iteration of the loop of unindent.
UnindentStep(e, s) ==
  IF s.i >= SelEnd(e) THEN s
  ELSE IF s.newline /\ Holds(e.text, s.i, INDENT)
  THEN [s EXCEPT !.newline = FALSE, !.i = @ + Width, !.shrinkage = @ + Width,
                 !.topofs = IF s.i + Width < e.toppos THEN @ - Width ELSE @]
  ELSE LET ch == e.text[s.i + 1]
       IN  [s EXCEPT !.newline = ch = NL, !.i = @ + 1, !.buffer = Append(@, ch)]

\* An indentation may begin in the selection and end behind it.  The cursor
\* then moves before the selection, or before the text, which line_start
\* does not survive.
Unindent(e) ==
  LET step(s) == UnindentStep(e, s)
      u == Iterate(step, [i |-> SelStart(e), newline |-> TRUE, buffer |-> <<>>,
                          shrinkage |-> 0, topofs |-> 0], Len(e.text))
      r == ReplaceEd(e, SelStart(e), SelEnd(e) - SelStart(e), u.buffer)
  IN  IF Stray(e) THEN Undefined(e)
      ELSE IF ~HasSelection(e) \/ u.shrinkage = 0 THEN e
      ELSE IF e.anchor < Pos(e) /\ Pos(e) < u.shrinkage THEN Undefined(e)
      ELSE Grown([r EXCEPT !.toppos = @ + u.topofs], -u.shrinkage)

\* Mutant of Paste: the cursor stops before the last character.
PasteShort(e, c) ==
  LET p == InsertAt(EraseSelection(e), c)
  IN  Moveto(p, Pos(p) + Len(c) - 1, FALSE)

Paste(e, c) ==
  LET p == InsertAt(EraseSelection(e), c)
  IN  Moveto(p, Pos(p) + Len(c), FALSE)

\* Mutant of UndoEd: the cursor moves after the text has changed.
UndoEdLate(e) ==
  LET u == Moveto(UndoIn(e), e.recs[e.at].pos, FALSE)
  IN  [u EXCEPT !.anchor = -1, !.lastcol = u.col]

\* undo moves the cursor first: one that was left at the end of the last line may
\* be behind the text when the text has changed.
UndoEd(e) ==
  LET u == UndoIn(Moveto(e, e.recs[e.at].pos, FALSE))
  IN  [u EXCEPT !.anchor = -1, !.lastcol = u.col]

\* redo puts the text back first and moves the cursor, by the old lines, then.
RedoEd(e) ==
  LET r == RedoIn(e)
      m == Moveto(r, r.recs[r.at].pos, FALSE)
  IN  IF r.undefined THEN r ELSE [m EXCEPT !.anchor = -1, !.lastcol = m.col]

\* find_text: strstr from the cursor on.
Found(e, search) ==
  {p \in Pos(e) .. Len(e.text) : Holds(e.text, p, search)}

\* Mutant of FindText: the selection begins at the old cursor.
FindTextFromCursor(e, search) ==
  IF search = <<>> \/ Found(e, search) = {} THEN e
  ELSE LET p == Min(Found(e, search))
       IN  Moveto([e EXCEPT !.anchor = Pos(e)], p + Len(search), TRUE)

\* (From behind the text strstr reads what there is no telling.)
FindText(e, search) ==
  IF Pos(e) > Len(e.text) /\ search # <<>> THEN Undefined(e)
  ELSE IF search = <<>> \/ Found(e, search) = {} THEN e
  ELSE LET p == Min(Found(e, search))
       IN  Moveto([e EXCEPT !.anchor = p], p + Len(search), TRUE)

GotoLine(e, lineno) ==
  LET down(p) == IF p < 0 THEN p ELSE NextLine(e.text, p)
      p == IF lineno > 0 THEN Iterate(down, 0, lineno - 1) ELSE -1
      g == [e EXCEPT !.anchor = -1]
  IN  IF p < 0 THEN g ELSE Moveto(g, p, TRUE)

-----------------------------------------------------------------------------
(* The specification: one key after the other (the loop of edit).          *)

\* NewDoc(t), with the cursor at its start.
NewEd(t) ==
  [text |-> t, recs |-> <<>>, at |-> 0, head |-> "null", dirty |-> FALSE,
   undefined |-> FALSE, linepos |-> 0, line |-> 0, col |-> 0, lastcol |-> 0,
   anchor |-> -1, toppos |-> 0, topline |-> 0, margin |-> 0]

Init ==
  /\ clip = <<>> /\ session \in Sessions
  /\ \E t \in Files : ed = NewEd(t)

\* The command of that name takes the editor to e.  A top of the screen that
\* has been lost (-1) would be read from next.  (The bound on the line number
\* is for redo, which loses count of it.)
Command(name, e) ==
  /\ name \in session.commands /\ UNCHANGED session
  /\ ~ed.undefined
  /\ Len(e.text) <= MaxText /\ Len(e.recs) <= MaxRecs
  /\ e.line \in -1 .. MaxText + 1
  /\ ed' = IF e.toppos < 0 THEN Undefined(e) ELSE e

Move(name, Cmd(_, _)) ==
  UNCHANGED clip /\ \E select \in BOOLEAN : Command(name, Cmd(ed, select))

Do(name, e) == UNCHANGED clip /\ Command(name, e)

\* copy_selection; cut_selection erases what it copied.
Copy(name, e) ==
  /\ Command(name, IF Stray(ed) THEN Undefined(ed) ELSE e)
  /\ clip' = IF HasSelection(ed) /\ ~Stray(ed) THEN Selected(ed) ELSE clip

Next ==
  \/ Move("up", Up)
  \/ Move("down", Down)
  \/ Move("left", Left)
  \/ Move("right", Right)
  \/ Move("wordleft", WordLeft)
  \/ Move("wordright", WordRight)
  \/ Move("home", Home)
  \/ Move("end", End)
  \/ Move("top", Top)
  \/ Move("bottom", Bottom)
  \/ Move("pageup", PageUp)
  \/ Move("pagedown", PageDown)
  \/ \E ch \in Typed : Do("insert_char", InsertChar(ed, ch))
  \/ Do("newline", Newline(ed))
  \/ Do("backspace", Backspace(ed))
  \/ Do("del", Del(ed))
  \/ Do("indent", Indent(ed))
  \/ Do("unindent", Unindent(ed))
  \/ Do("select_all", SelectAll(ed))
  \/ Copy("copy", ed)
  \/ Copy("cut", EraseSelection(ed))
  \/ Do("paste", Paste(ed, clip))
  \/ ed.at # 0 /\ Do("undo", UndoEd(ed))
  \/ CanRedo(ed) /\ Do("redo", RedoEd(ed))
  \/ \E search \in Searches : Do("find_text", FindText(ed, search))
  \/ \E lineno \in 0 .. MaxText + 2 : Do("goto_line", GotoLine(ed, lineno))

Spec == Init /\ [][Next]_edVars

-----------------------------------------------------------------------------
(* Properties.                                                             *)

\* The fields have their types; the cursor's line begins in the text.
EdOK ==
  /\ clip \in Seq(Char)
  /\ ~ed.undefined =>
       /\ ed.text \in Seq(Char) /\ Len(ed.text) <= MaxText
       /\ ed.linepos \in 0 .. Len(ed.text) /\ ed.col \in Nat /\ ed.lastcol \in Nat
       /\ ed.anchor \in Nat \cup {-1} /\ ed.margin \in Nat

\* The cached line of the cursor is the cursor's line: every command ends with
\* linepos at the start of a line and line its number.
CursorOK ==
  ~ed.undefined =>
    /\ ed.linepos = LineStart(ed.text, ed.linepos)
    /\ ed.line = LinesBetween(ed.text, 0, ed.linepos)

\* The cached top of the screen is a line of the text, and the cursor's line
\* is on the screen.
ViewOK ==
  ~ed.undefined =>
    /\ ed.toppos \in 0 .. Len(ed.text)
    /\ ed.toppos = LineStart(ed.text, ed.toppos)
    /\ ed.topline = LinesBetween(ed.text, 0, ed.toppos)
    /\ ed.topline <= ed.line /\ ed.line < ed.topline + Lines

\* The commands that lose count of lines: on a small screen wordright scrolls by
\* one line only, redo moves the cursor over a text that has changed already,
\* and an indentation changes lines above the cursor's.
Miscounting == {"wordright", "redo", "indent", "unindent"}

\* undo may also leave the cursor behind its line, or behind the text: moveto
\* puts it at the end of the last line, which the undo then makes shorter.
Overshooting == Miscounting \cup {"undo"}

\* What the editor keeps of lines instead of counting them is what counting
\* them would give, through every other command (undo included) in any order,
\* and the cursor is in its line unless undo is one of them.
LinesAreCounted ==
  /\ EdOK
  /\ session.commands \cap Miscounting = {} => CursorOK /\ ViewOK
  /\ session.commands \cap Overshooting = {} /\ ~ed.undefined =>
       ed.col <= LineLength(ed.text, ed.linepos)

\* Where a cursor at `from` is after it was told to move to pos: there, unless
\* that is ahead of it and inside the last line, of which it goes to the end.
Landing(t, from, pos) ==
  IF pos > from /\ pos > LineStart(t, pos) /\ NextLine(t, pos) = -1 THEN Len(t) ELSE pos

\* Cutting a selection and pasting it at once gives the text back, with the
\* cursor at the end of what was selected, or of the last line if that is there.
CutThenPaste ==
  ~ed.undefined /\ HasSelection(ed) /\ ~Stray(ed) =>
    LET p == Paste(EraseSelection(ed), Selected(ed))
    IN  p.text = ed.text /\ Pos(p) = Landing(ed.text, SelStart(ed), SelEnd(ed))

\* Unindenting what was just indented gives the text, the selection and the
\* cursor back.
IndentThenUnindent ==
  ~ed.undefined /\ HasSelection(ed) /\ ~Stray(ed) =>
    LET u == Unindent(Indent(ed))
    IN  u.text = ed.text /\ Pos(u) = Pos(ed) /\ u.anchor = ed.anchor

\* find_text selects from the start of a match at or after the cursor to its
\* end, or to the end of the last line if the match ends there.
FoundIsSelected ==
  ~ed.undefined /\ session.commands \cap Miscounting = {} => \A search \in Searches :
    search # <<>> /\ Found(ed, search) # {} =>
      LET f == FindText(ed, search)
      IN  /\ f.anchor >= Pos(ed) /\ Holds(f.text, f.anchor, search)
          /\ Pos(f) = Landing(ed.text, Pos(ed), f.anchor + Len(search))

\* Moving down a line and up again returns to the same character, through
\* lines shorter than the column, unless the cursor was moved without it.
DownThenUp ==
  ~ed.undefined /\ session.commands \cap Miscounting = {} /\ ~AtLastLine(ed)
  /\ ed.col = Min({ed.lastcol, LineLength(ed.text, ed.linepos)})
    => LET u == Up(Down(ed, FALSE), FALSE)
       IN  Pos(u) = Pos(ed) /\ u.line = ed.line

-----------------------------------------------------------------------------
(* What a comment of the source says, and the code does not always do.      *)

\* get_selection, "Get the start and end positions of the selection": they
\* are positions of the text.
SelectionInText == ~ed.undefined => ~Stray(ed)

\* moveto, "Set the editing point to the specified character location in the
\* buffer": find_text leaves the cursor at the end of the match.
MatchIsSelected ==
  ~ed.undefined /\ session.commands \cap Miscounting = {} => \A search \in Searches :
    search # <<>> /\ Found(ed, search) # {} =>
      LET f == FindText(ed, search) IN Pos(f) = f.anchor + Len(search)
=============================================================================
