---------------------------- MODULE FrotzStreams ----------------------------
(***************************************************************************)
(* The screen of Frotz and what is printed, on its way to it.  First the   *)
(* image of the dumb interface (doutput.c): a cell for each place, a mark  *)
(* on those that changed since the player last saw the screen, and which   *)
(* rows are printed when he is to see it again.  On it the windows of the  *)
(* Z-machine (screen.c): the cursor of each, new lines, scrolling and the  *)
(* pause after a screenful, and words that are wrapped or clipped.  A font *)
(* is one unit high and wide, as the dumb interface has it.  Then the line *)
(* buffer (buffer.c), the selection of streams (stream.c), tables in       *)
(* memory (redirect.c), the transcript (files.c), and lines that are read. *)
(*                                                                         *)
(* The operators take the state of the output, a record `o`, to the next.  *)
(* Ghosts: o.gone, the rows that left window 0; o.lost, whether one left   *)
(* that the player had not seen; o.said and o.scriptSaid, what was printed *)
(* for the screen and for the transcript; o.told, for each table that was  *)
(* opened, where, in which form and what was printed into it.              *)
(***************************************************************************)
EXTENDS Integers, Sequences, SequencesExt, FiniteSetsExt, Functions

CONSTANTS Rows, Cols,     \* screen_rows and screen_cols
          Compression     \* compression_mode: "none", "spans" or "max"
ASSUME ScreenAssumption == Rows \in 2 .. 255 /\ Cols \in Nat \ {0} /\ Compression \in {"none", "spans", "max"}

ZC_INDENT == 9
ZC_GAP == 11
ZC_RETURN == 13
Space == 32
\* ZC_NEW_STYLE and the style that follows it, as one symbol; fonts are all alike
ZC_NEW_STYLE(style) == 1000 + style
ZC_NEW_FONT == 2000
IsCode(c) == c >= 1000
Width(s) == Len(SelectSeq(s, LAMBDA c : ~IsCode(c)))

Cells == 0 .. Rows * Cols - 1
Place(row, col) == row * Cols + col
RowOf(p) == p \div Cols
IsBlank(cell) == cell[1] = Space
Area(top, left, bottom, right) == {p \in Cells : RowOf(p) + 1 \in top .. bottom /\ (p % Cols) + 1 \in left .. right}

\* The colours of a cell are set in formats that cannot be selected: what is left
\* in them (o.junk) decides whether a cell that is written again counts as changed.
\* o.again: a change the player has not seen lost its mark that way.
Marked(o, p, cell) == o.cells[p] # cell \/ o.junk
DumbSetCell(o, p, cell) ==
  [o EXCEPT !.cells[p] = cell, !.changed[p] = Marked(o, p, cell),
            !.again = @ \/ (o.changed[p] /\ ~Marked(o, p, cell) /\ ~IsBlank(cell))]

Advanced(o) ==
  CASE o.col + 1 # Cols -> [o EXCEPT !.col = @ + 1]
    [] o.col + 1 = Cols /\ o.row # Rows - 1 -> [o EXCEPT !.row = @ + 1, !.col = 0]
    [] OTHER -> o
DumbDisplayChar(o, c) == Advanced(DumbSetCell(o, Place(o.row, o.col), <<c, o.style>>))
Shape(c) == CASE c = ZC_GAP -> <<Space, Space>> [] c = ZC_INDENT -> <<Space, Space, Space>> [] OTHER -> <<c>>
OsDisplayChar(o, c) == FoldLeft(DumbDisplayChar, o, SelectSeq(Shape(c), LAMBDA x : x >= Space))
OsSetTextStyle(o, style) == [o EXCEPT !.style = style]
Coded(o, c) == IF c = ZC_NEW_FONT THEN o ELSE OsSetTextStyle(o, c - 1000)
OsDisplayString(o, s) == FoldLeft(LAMBDA a, c : IF IsCode(c) THEN Coded(a, c) ELSE OsDisplayChar(a, c), o, s)

OsEraseArea(o, top, left, bottom, right) ==
  LET blank == <<Space, o.style>>
      Erased == Area(top, left, bottom, right)
  IN [o EXCEPT !.cells = [p \in Cells |-> IF p \in Erased THEN blank ELSE @[p]],
               !.changed = [p \in Cells |-> IF p \in Erased THEN Marked(o, p, blank) ELSE @[p]]]

\* dumb_copy_cell takes the mark along; so does what the player saw of a row.
Copied(o, P, from(_)) == [o EXCEPT !.cells = [p \in Cells |-> IF p \in P THEN @[from(p)] ELSE @[p]],
                                   !.changed = [p \in Cells |-> IF p \in P THEN @[from(p)] ELSE @[p]],
                                   !.glass = [p \in Cells |-> IF p \in P THEN @[from(p)] ELSE @[p]]]
OsScrollArea(o, top, left, bottom, right, units) ==
  CASE units > 0 -> OsEraseArea(Copied(o, Area(top, left, bottom - units, right), LAMBDA p : p + units * Cols),
                                bottom - units + 1, left, bottom, right)
    [] units < 0 -> OsEraseArea(Copied(o, Area(top - units, left, bottom, right), LAMBDA p : p + units * Cols),
                                top, left, top - units - 1, right)
    [] OTHER -> o

OsSetCursor(o, row, col) == [o EXCEPT !.row = IF row - 1 >= Rows THEN Rows - 1 ELSE row - 1, !.col = col - 1]

\* The rows dumb_show_screen prints: all that changed, a row alone between two of
\* them, and not the last when nothing but the prompt is to come after the cursor.
ChangedRows(o) == {r \in 0 .. Rows - 1 : \E c \in 0 .. Cols - 1 : o.changed[Place(r, c)] /\ ~IsBlank(o.cells[Place(r, c)])}
LastRow(o, last, showCursor) ==
  IF showCursor /\ o.row = last /\ \A c \in o.col .. Cols - 1 : IsBlank(o.cells[Place(last, c)]) THEN last - 1 ELSE last
RowsTo(o, rows, last, showCursor) ==
  {r \in rows : r <= last}
  \cup {r \in Min(rows) .. last : Compression = "spans" /\ r - 1 \in rows /\ r + 1 \in rows}
  \cup {r \in {last + 1} : Compression = "spans" /\ showCursor /\ o.row = r + 1}
ShownRows(o, rows, showCursor) == IF rows = {} THEN {} ELSE RowsTo(o, rows, LastRow(o, Max(rows), showCursor), showCursor)
Printed(o, rows) == [o EXCEPT !.glass = [p \in Cells |-> IF RowOf(p) \in rows THEN o.cells[p] ELSE @[p]]]
MarkAllUnchanged(o) == [o EXCEPT !.changed = [p \in Cells |-> FALSE]]
DumbShowScreenShort(o, showCursor) == \* the last row left out wherever the cursor is in it
  IF ChangedRows(o) = {} THEN o
  ELSE MarkAllUnchanged(Printed(o, {r \in ChangedRows(o) : r < Max(ChangedRows(o)) \/ o.row # r}))
DumbShowScreen(o, showCursor) ==
  IF Compression # "none" /\ ChangedRows(o) = {} THEN o
  ELSE MarkAllUnchanged(Printed(o, IF Compression = "none" THEN 0 .. Rows - 1 ELSE ShownRows(o, ChangedRows(o), showCursor)))
DumbShowPrompt(o, showCursor) ==
  IF showCursor THEN [o EXCEPT !.glass = [p \in Cells |-> IF RowOf(p) = o.row /\ p % Cols < o.col THEN o.cells[p] ELSE @[p]]] ELSE o
DumbDumpScreen(o) == Printed(o, 0 .. Rows - 1)

\* What the player types is on the glass as he types it.
DumbDisplayUserInput(o, s) ==
  LET p0 == Place(o.row, o.col)
      Typed(f) == [p \in Cells |-> IF p \in p0 .. p0 + Len(s) - 1 THEN <<s[p - p0 + 1], 0>> ELSE f[p]]
  IN [o EXCEPT !.cells = Typed(@), !.glass = Typed(@), !.col = @ + Len(s)]

-----------------------------------------------------------------------------
\* Whatever is on the screen the player has seen as it is, or is marked to be
\* shown (dumb_set_cell, dumb_copy_cell, dumb_show_screen), unless it was drawn
\* a second time before it was shown.
SeenOrMarked(o) == o.again \/ \A p \in Cells : IsBlank(o.cells[p]) \/ o.changed[p] \/ o.glass[p] = o.cells[p]

-----------------------------------------------------------------------------
(* Windows.                                                                *)

CONSTANTS Windows,        \* of the 8 windows, those that are used
          ContextLines,   \* f_setup.context_lines
          MinPromptSpace  \* columns an input line must have
ASSUME WindowsAssumption == {0, 1} \subseteq Windows /\ Windows \subseteq 0 .. 7 /\ {ContextLines, MinPromptSpace} \subseteq Nat

Win(o) == o.wp[o.cwin]
UpdateCursor(o) == [OsSetCursor(o, Win(o).ypos + Win(o).y - 1, Win(o).xpos + Win(o).x - 1) EXCEPT !.odd = FALSE]
ResetCursor(o, win) ==
  LET lines == IF o.version <= 4 /\ win = 0 THEN o.wp[0].ysize - 1 ELSE 0
      a == [o EXCEPT !.wp[win].y = lines + 1, !.wp[win].x = o.wp[win].left + 1]
  IN IF win = o.cwin THEN UpdateCursor(a) ELSE a
SetMorePrompts(o, flag) == [o EXCEPT !.more = flag, !.wp[o.cwin].lines = IF flag /\ ~o.more THEN 0 ELSE @]
UnitsLeft(o) == Win(o).xsize - Win(o).right - Win(o).x + 1
GetMaxWidth(o, win) == IF o.version = 6 THEN o.wp[win].xsize - o.wp[win].left - o.wp[win].right ELSE 65535
\* The interrupt routine itself is left out: it is counted.
Countdown(o) == IF Win(o).nl = 0 THEN o
                ELSE [o EXCEPT !.wp[o.cwin].nl = @ - 1, !.interrupts = @ + (IF Win(o).nl = 1 THEN 1 ELSE 0)]

OsMorePrompt(o) == DumbShowScreen(o, FALSE)
RowText(o, r) == [c \in 1 .. Cols |-> o.cells[Place(r, c - 1)][1]]
Leaves(o) == \* the first row of window 0 is about to leave it
  LET r == o.wp[0].ypos - 1
  IN IF o.cwin # 0 THEN o
     ELSE [o EXCEPT !.gone = Append(@, RowText(o, r)),
                    !.lost = @ \/ (o.more /\ \E c \in 0 .. Cols - 1 : o.changed[Place(r, c)] /\ ~IsBlank(o.cells[Place(r, c)]))]
ScrollOrDown(o) ==
  LET w == Win(o)
  IN CASE w.y + 1 <= w.ysize -> [o EXCEPT !.wp[o.cwin].y = @ + 1]
       [] w.y + 1 > w.ysize /\ o.scrolling ->
            OsScrollArea(Leaves(o), w.ypos, w.xpos, w.ypos + w.ysize - 1, w.xpos + w.xsize - 1, 1)
       [] OTHER -> [o EXCEPT !.wp[o.cwin].y = 1]
MorePromptLate(o) == \* a screenful too late
  LET w == Win(o)
  IN IF ~o.scrolling \/ w.lines = -999 THEN o
     ELSE IF w.lines + 1 < w.ysize THEN [o EXCEPT !.wp[o.cwin].lines = @ + 1]
     ELSE [(IF o.more THEN OsMorePrompt(o) ELSE o) EXCEPT !.wp[o.cwin].lines = ContextLines]
MorePrompt(o) ==
  LET w == Win(o)
      above == w.y - 1
      below == w.ysize - w.y + 1
  IN IF ~o.scrolling \/ w.lines = -999 THEN o
     ELSE IF w.lines + 1 < above + below - 1 THEN [o EXCEPT !.wp[o.cwin].lines = @ + 1]
     ELSE [(IF o.more THEN OsMorePrompt(o) ELSE o) EXCEPT !.wp[o.cwin].lines = ContextLines]
AtMargin(o) == [o EXCEPT !.redraw = @ \/ o.inwin = o.cwin, !.wp[o.cwin].x = Win(o).left + 1]
ScreenNewLine(o) == IF o.discarding THEN o ELSE MorePrompt(UpdateCursor(ScrollOrDown(AtMargin(Countdown(o)))))

Cut == 0                  \* in what was said, where a row may end in mid-word
\* Ghosts: what else comes to window 0 than what is printed.
SaidToo(o, s) == [o EXCEPT !.said = IF o.cwin = 0 THEN @ \o s ELSE @]
NewLineSaid(o) == SaidToo(ScreenNewLine(o), <<ZC_RETURN>>)

AtLeft(o) == Win(o).x = Win(o).left + 1
\* o.odd: the cursor of the window is not where the screen has it
Odd(s) == \E i \in DOMAIN s : s[i] \in {ZC_INDENT, ZC_GAP, ZC_RETURN}
ShowChar(o, c) == [OsDisplayChar(o, c) EXCEPT !.wp[o.cwin].x = @ + 1, !.odd = @ \/ Odd(<<c>>)]
ScreenChar(o, c) ==
  CASE o.discarding -> o
    [] ~o.discarding /\ (UnitsLeft(o) >= 1 \/ o.wrapping) ->
         ShowChar(IF UnitsLeft(o) >= 1 THEN o ELSE ScreenNewLine(o), IF c = ZC_INDENT /\ ~AtLeft(o) THEN Space ELSE c)
    [] OTHER -> [o EXCEPT !.wp[o.cwin].x = Win(o).xsize - Win(o).right, !.odd = TRUE, !.clipped = TRUE]

Clipped(o, s) == FoldLeft(LAMBDA a, c : IF IsCode(c) THEN Coded(a, c) ELSE ScreenChar(a, c), o, s)
Show(o, s) == [OsDisplayString(o, s) EXCEPT !.wp[o.cwin].x = @ + Width(s), !.odd = @ \/ Odd(s)]
Raw(s) == FoldLeft(LAMBDA a, c : IF IsCode(c) THEN a \o <<c, 0>> ELSE Append(a, c), <<>>, s)   \* a code has a second character
ShowWordBroken(o, s) == Show(o, s)   \* the end of the line not looked at
Unspaced(s) == IF s[1] \in {Space, ZC_INDENT, ZC_GAP} THEN Tail(s) ELSE s
ShowFits(o, s, fits) ==
  Show(IF fits \/ Raw(s)[Width(s)] = Space THEN o ELSE ScreenNewLine(o), IF fits THEN s ELSE Unspaced(s))
ShowWord(o, s) ==
  CASE s = <<>> -> o
    [] s # <<>> /\ UnitsLeft(o) < Width(s) /\ ~o.wrapping -> Clipped(o, s)
    [] OTHER -> ShowFits(o, s, UnitsLeft(o) >= Width(s))
Indented(o, s, first) == ShowWord(IF first THEN ScreenChar(o, s[1]) ELSE o, IF first THEN Tail(s) ELSE s)
ScreenWord(o, s) == IF o.discarding THEN o ELSE Indented(o, s, s[1] = ZC_INDENT /\ ~AtLeft(o))

\* Input shown once more, before it goes on (the key is -1)
ScreenWriteInput(o, buf) == Show(IF UnitsLeft(o) < Len(buf) THEN NewLineSaid(o) ELSE o, buf)
NoLines(o) == [o EXCEPT !.wp = [w \in Windows |-> [o.wp[w] EXCEPT !.lines = 0]]]
OsReadLine(o, typed) == DumbDisplayUserInput(DumbShowPrompt(DumbShowScreen(o, TRUE), TRUE), typed)
\* The line typed is <<key, text>>; buf is what is there of it already.
InputSpace(o, buf) == IF o.cwin = 0 /\ UnitsLeft(o) + Len(buf) < MinPromptSpace THEN NewLineSaid(o) ELSE o
InputShown(o, buf, continued) == IF continued /\ o.redraw THEN SaidToo(ScreenWriteInput(o, buf), buf) ELSE o
InputStarts(o) == [o EXCEPT !.inwin = o.cwin, !.redraw = FALSE]
LineTyped(o, text) == SaidToo([OsReadLine(o, text) EXCEPT !.wp[o.cwin].x = @ + Len(text)], <<Cut>> \o text \o <<Cut>>)
KeyEnds(o, key) == IF key = 0 THEN o ELSE NoLines(o)
InputEnds(o, key) == IF key = ZC_RETURN THEN NewLineSaid(o) ELSE o
InputRead(o, buf, line) ==
  IF Win(o).x <= Len(buf) THEN [o EXCEPT !.fatal = TRUE] ELSE InputEnds(KeyEnds(LineTyped(o, line[2]), line[1]), line[1])
ConsoleReadInput(o, buf, line, continued) == InputRead(InputStarts(InputShown(InputSpace(o, buf), buf, continued)), buf, line)
ConsoleReadKey(o, key) == KeyEnds(DumbShowPrompt(DumbShowScreen(o, o.cursor), o.cursor), key)

\* update_attributes: what printing does in the window that is current
UpdateAttributes(o) ==
  [o EXCEPT !.wrapping = "wrap" \in Win(o).attr, !.scrolling = "scroll" \in Win(o).attr,
            !.scripting = "script" \in Win(o).attr, !.buffering = "buffer" \in Win(o).attr]

-----------------------------------------------------------------------------
(* The output streams.                                                     *)

CONSTANTS TextBufferSize, \* TEXT_BUFFER_SIZE
          MaxNesting,     \* MAX_NESTING
          ScriptCols      \* f_setup.script_cols
ASSUME StreamsAssumption == {TextBufferSize, MaxNesting} \subseteq Nat \ {0} /\ ScriptCols \in Nat

ToMemory(o) == o.memOn /\ ~o.message
ToScript(o) == o.scriptOn /\ o.scripting

\* redirect.c: tables with a size in front, in one line or in lines of a width
Top(o) == o.redirect[Len(o.redirect)]
SizeAt(o, table) == o.mem[table] * 256 + o.mem[table + 1]
StoreW(o, addr, v) == [o EXCEPT !.mem[addr] = v \div 256, !.mem[addr + 1] = v % 256]
OnTop(o, red) == [o EXCEPT !.redirect[Len(o.redirect)] = red]
MemoryOpen(o, table, xsize, buffering) ==
  LET wide == CASE ~buffering -> 65535
                [] buffering /\ xsize >= 0 -> GetMaxWidth(o, xsize)
                [] OTHER -> -xsize
  IN IF Len(o.redirect) < MaxNesting
     THEN [StoreW(o, table, 0) EXCEPT
             !.redirect = Append(@, [table |-> table, xsize |-> wide, width |-> 0, total |-> 0]), !.memOn = TRUE,
             !.told = Append(SelectSeq(@, LAMBDA t : t.table # table),
                             [table |-> table, xsize |-> wide, text |-> <<>>, open |-> TRUE, depth |-> Len(o.redirect) + 1])]
     ELSE [o EXCEPT !.fatal = TRUE]
LineEnded(o, red, size) ==
  IF red.xsize # 65535
  THEN StoreW(OnTop(o, [red EXCEPT !.table = @ + 2 + size]), red.table + 2 + size, 0)
  ELSE OnTop(StoreW([o EXCEPT !.mem[red.table + 2 + size] = 13], red.table, size + 1), red)
MemoryNewLine(o) == LineEnded(o, [Top(o) EXCEPT !.total = @ + Top(o).width, !.width = 0], SizeAt(o, Top(o).table))
Plain(s) == SelectSeq(s, LAMBDA c : ~IsCode(c))
\* A code goes to memory as two bytes; a font never waits while a table is open.
Zscii(s) == FoldLeft(LAMBDA a, c : IF IsCode(c) THEN a \o <<1, c - 1000>> ELSE Append(a, c), <<>>, s)
Written(o, at, text) == [o EXCEPT !.mem = [p \in DOMAIN @ |-> IF p \in at .. at + Len(text) - 1 THEN text[p - at + 1] ELSE @[p]]]
MemoryText(o, text) ==
  StoreW(Written(o, Top(o).table + 2 + SizeAt(o, Top(o).table), text), Top(o).table, SizeAt(o, Top(o).table) + Len(text))
Counted(o, text) == IF o.version = 6 THEN OnTop(o, [Top(o) EXCEPT !.width = @ + Width(text)]) ELSE o
MemoryPut(o, text) == MemoryText(Counted(o, text), Zscii(text))
MemoryFits(o, s, over) == MemoryPut(IF over THEN MemoryNewLine(o) ELSE o, IF over THEN Unspaced(s) ELSE s)
MemoryWordWide(o, s) == MemoryText(o, Zscii(s))   \* the width never counted
MemoryWord(o, s) == MemoryFits(o, s, o.version = 6 /\ Top(o).xsize # 65535 /\ Top(o).width + Width(s) > Top(o).xsize)
MemoryCloseAll(o) == \* every table closed with the first
  [o EXCEPT !.memOn = FALSE, !.redirect = Front(@), !.told = [i \in DOMAIN @ |-> [@[i] EXCEPT !.open = @ /\ o.told[i].depth # Len(o.redirect)]]]
LastLineEnded(o) == IF Top(o).xsize # 65535 THEN MemoryNewLine(o) ELSE o
WidthKept(o) == IF o.version = 6 THEN [o EXCEPT !.lineWidth = IF Top(o).xsize # 65535 THEN Top(o).total ELSE Top(o).width] ELSE o
MemoryClose(o) ==
  IF o.redirect = <<>> THEN o
  ELSE [WidthKept(LastLineEnded(o)) EXCEPT
          !.memOn = @ /\ Len(o.redirect) # 1, !.redirect = Front(@),
          !.told = [i \in DOMAIN @ |-> [@[i] EXCEPT !.open = @ /\ o.told[i].depth # Len(o.redirect)]]]

\* files.c: the transcript; a write is taken to succeed
ScriptNewLine(o) == [o EXCEPT !.script = Append(@, ZC_RETURN), !.swidth = 0]
ScriptChar(o, c) ==
  LET s == IF c = ZC_INDENT /\ o.swidth # 0 THEN <<Space>> ELSE Shape(c)
  IN [o EXCEPT !.script = @ \o s, !.swidth = @ + Len(s)]
ScriptText(o, s) == FoldLeft(LAMBDA a, c : IF IsCode(c) THEN a ELSE ScriptChar(a, c), o, s)
ScriptWidth(s) == FoldLeft(LAMBDA n, c : CASE IsCode(c) -> n [] c = ZC_GAP -> n + 3 [] c = ZC_INDENT -> n + 2 [] OTHER -> n + 1, 0, s)
TooLong(o, n) == ScriptCols # 0 /\ o.swidth + n > ScriptCols
ScriptFits(o, s, over) == ScriptText(IF over THEN ScriptNewLine(o) ELSE o, IF over /\ s # <<>> THEN Unspaced(s) ELSE s)
ScriptRest(o, s) == ScriptFits(o, s, TooLong(o, ScriptWidth(s)))
ScriptIndented(o, s, first) == ScriptRest(IF first THEN ScriptChar(o, s[1]) ELSE o, IF first THEN Tail(s) ELSE s)
ScriptWord(o, s) == ScriptIndented(o, s, s[1] = ZC_INDENT /\ o.swidth # 0)
ScriptEraseInputNot(o, buf) == o   \* what was preloaded written again
ScriptEraseInput(o, buf) == [o EXCEPT !.script = SubSeq(@, 1, Len(@) - Len(buf)), !.swidth = @ - Len(buf)]
ScriptInputEnds(o, key) == IF key = ZC_RETURN THEN ScriptNewLine(o) ELSE o
ScriptWriteInput(o, buf, key) == ScriptInputEnds(ScriptText(IF TooLong(o, Len(buf)) THEN ScriptNewLine(o) ELSE o, buf), key)

\* stream.c
\* What the screen does leaves ToScript as it is.
ScriptedChar(o, c) == IF ToScript(o) THEN ScriptChar(o, c) ELSE o
ScriptedWord(o, s) == IF ToScript(o) THEN ScriptWord(o, s) ELSE o
ScriptedNewLine(o) == IF ToScript(o) THEN ScriptNewLine(o) ELSE o
StreamChar(o, c) == ScriptedChar(IF o.screenOn THEN ScreenChar(o, c) ELSE o, c)
StreamWord(o, s) == IF ToMemory(o) THEN MemoryWord(o, s) ELSE ScriptedWord(IF o.screenOn THEN ScreenWord(o, s) ELSE o, s)
StreamNewLine(o) == IF ToMemory(o) THEN MemoryNewLine(o) ELSE ScriptedNewLine(IF o.screenOn THEN ScreenNewLine(o) ELSE o)

\* buffer.c: a word waits until the next one begins.  The lock that keeps
\* flush_buffer from itself matters to interrupt routines only.
FlushBuffer(o) == IF o.buf = <<>> THEN o ELSE [StreamWord(o, o.buf) EXCEPT !.buf = <<>>, !.prev = 0]

\* Emptied before a word is complete
CutOff(o) == IF o.buf = <<>> \/ ToMemory(o) THEN o
             ELSE [SaidToo(o, <<Cut>>) EXCEPT !.scriptSaid = IF ToScript(o) THEN Append(@, Cut) ELSE @]
FlushNow(o) == FlushBuffer(CutOff(o))
Telling(o) == ~o.message /\ \E i \in DOMAIN o.told : o.told[i].open
Said(o, c) ==
  IF IsCode(c) THEN o
  ELSE IF Telling(o)
  THEN [o EXCEPT !.told = [i \in DOMAIN @ |-> IF @[i].open /\ @[i].depth = Len(o.redirect) THEN [@[i] EXCEPT !.text = Append(@, c)] ELSE @[i]]]
  ELSE [o EXCEPT !.said = IF o.screenOn /\ o.cwin = 0 THEN Append(@, c) ELSE @,
                 !.scriptSaid = IF ToScript(o) THEN Append(@, c) ELSE @]
NewLine(o) == StreamNewLine(FlushBuffer(o))
Buffered(o, c) == [o EXCEPT !.prev = c, !.buf = Append(@, c), !.fatal = @ \/ Len(o.buf) + 1 = TextBufferSize]
StartsWord(o, c) == c \in {Space, ZC_INDENT, ZC_GAP} \/ (o.prev = 45 /\ c # 45)
Taken(o, c) ==
  CASE c = ZC_RETURN -> StreamNewLine(o)
    [] c = 0 -> o
    [] OTHER -> Buffered(o, c)
PrintChar(o, c) ==
  IF o.message \/ o.memOn \/ o.buffering
  THEN Taken(IF c = ZC_RETURN \/ (c # 0 /\ StartsWord(o, c)) THEN FlushBuffer(o) ELSE o, c)
  ELSE StreamChar(o, c)
\* print_string and decode_text turn the end of a line into new_line; what
\* z_print_char prints is not looked at.
PrintString(o, s) == FoldLeft(LAMBDA a, c : IF c = ZC_RETURN THEN NewLine(Said(a, c)) ELSE PrintChar(Said(a, c), c), o, s)
ZPrintChar(o, c) == PrintChar(Said(o, c), c)

\* What is printed in a debugging message goes to screen and transcript.
Quiet(o) == [o EXCEPT !.said = IF o.cwin = 0 THEN Append(@, ZC_RETURN) ELSE @, !.scriptSaid = IF ToScript(o) THEN Append(@, ZC_RETURN) ELSE @]
ScreenMssgOn(o) ==
  IF o.cwin # 0 THEN [o EXCEPT !.discarding = TRUE]
  ELSE ScreenChar(IF AtLeft(o) THEN OsSetTextStyle(o, 0) ELSE ScreenNewLine(OsSetTextStyle(o, 0)), ZC_INDENT)
ScriptMssgOn(o) == IF ToScript(o) THEN ScriptChar(IF o.swidth # 0 THEN ScriptNewLine(o) ELSE o, ZC_INDENT) ELSE o
MssgOn(o) == Quiet([ScriptMssgOn(IF o.screenOn THEN ScreenMssgOn(o) ELSE o) EXCEPT !.message = TRUE])
StreamMssgOn(o) == MssgOn(FlushNow(o))

\* refresh_text_style: the style is printed like a character where text is
\* buffered; outside version 6 all windows have that of window 0, but only it
\* may have a font that is not fixed, as long as the game does not want it fixed
\* by a flag of its header.
FIXED_WIDTH_STYLE == 8
StyleOf(o) ==
  IF o.version = 6 THEN Win(o).style
  ELSE o.wp[0].style + (IF (o.cwin # 0 \/ o.fixed) /\ o.wp[0].style < FIXED_WIDTH_STYLE THEN FIXED_WIDTH_STYLE ELSE 0)
RefreshTextStyle(o) ==
  IF ~o.memOn /\ o.screenOn /\ o.buffering THEN PrintChar(o, ZC_NEW_STYLE(StyleOf(o))) ELSE OsSetTextStyle(o, StyleOf(o))
ScreenMssgOff(o) == IF o.cwin = 0 THEN RefreshTextStyle(ScreenNewLine(o)) ELSE [o EXCEPT !.discarding = FALSE]
MssgOff(o) == [Quiet(ScriptedNewLine(IF o.screenOn THEN ScreenMssgOff(o) ELSE o)) EXCEPT !.message = FALSE]
StreamMssgOff(o) == MssgOff(FlushNow(o))
Message(o, s) == StreamMssgOff(PrintString(StreamMssgOn(o), s))

\* z_output_stream; a transcript that cannot be opened says so.
ScriptOpen(o, there) == IF there THEN [o EXCEPT !.scriptOn = TRUE, !.swidth = 0] ELSE PrintString(o, <<67, ZC_RETURN>>)
Selected(o, n) ==
  CASE n = 1 -> [o EXCEPT !.screenOn = TRUE]
    [] n = -1 -> [o EXCEPT !.screenOn = FALSE]
    [] n = 2 /\ ~o.scriptOn -> ScriptOpen(o, TRUE)
    [] n = -2 -> [o EXCEPT !.scriptOn = FALSE]
    [] n = -3 -> MemoryClose(o)
    [] OTHER -> o
ZOutputStream(o, n) == Selected(FlushNow(o), n)
\* storeb of the flags in the header: the transcript and the fixed font, without
\* a flush of the buffer.
FlagsStored(o, script, fixed) ==
  RefreshTextStyle(IF script = o.scriptOn THEN [o EXCEPT !.fixed = fixed] ELSE Selected([o EXCEPT !.fixed = fixed], IF script THEN 2 ELSE -2))
ZOutputStream3(o, table, xsize, buffering) == MemoryOpen(FlushNow(o), table, xsize, buffering)

\* What happens while a line is read: l.key is what ends it, 0 when time is up;
\* then, or on a hot key, l.says is printed, and l.stop says whether input ends.
Interrupt(o, l) ==
  IF l.key # 0 /\ o.cwin # 0 THEN o
  ELSE PrintString(o, IF l.key = 0 THEN l.says ELSE <<ZC_RETURN>> \o l.says \o <<ZC_RETURN>>)
\* Nothing flushes what the routine printed before more is read: it comes after.
Late(o) == [o EXCEPT !.torn = @ \/ o.buf # <<>>]
Interrupted(o, l) == IF l.stop THEN Interrupt(o, l) ELSE Late(Interrupt(o, l))
TurnEnds(o, r, l, ends) ==
  [then |-> IF ends THEN o ELSE Interrupted(o, l), line |-> r.line \o l.text, key |-> l.key, continued |-> TRUE, done |-> ends \/ l.stop]
InputTaken(o, r, l) == TurnEnds(o, r, l, l.key = ZC_RETURN \/ o.fatal)
ReadOn(r, l) == \* one turn of the loop of stream_read_input
  IF r.done THEN r ELSE InputTaken(ConsoleReadInput(r.then, r.line, <<l.key, l.text>>, r.continued), r, l)
Preloaded(o, init, script, said) ==
  IF script THEN [ScriptEraseInput(o, init) EXCEPT !.scriptSaid = SubSeq(said, 1, Len(said) - Len(init)) \o <<Cut>>] ELSE o
InputScripted(r, script) ==
  IF r.then.fatal \/ (r.key # 0 /\ r.key # ZC_RETURN) \/ ~script THEN r.then
  ELSE [ScriptWriteInput(r.then, r.line, r.key) EXCEPT
          !.scriptSaid = @ \o r.line \o <<IF r.key = ZC_RETURN THEN ZC_RETURN ELSE Cut>>]
ReadFrom(o, init, lines) ==
  FoldLeft(ReadOn, [then |-> o, line |-> init, key |-> 0, continued |-> FALSE, done |-> FALSE], lines)
ReadScripted(o, init, lines, script) ==
  InputScripted(ReadFrom(Preloaded(FlushNow(o), init, script, o.scriptSaid), init, lines), script)
StreamReadInput(o, init, lines, noScripting) == ReadScripted(o, init, lines, ToScript(o) /\ ~noScripting)
KeyTaken(o, l) == [then |-> IF l.key = 0 THEN PrintString(o, l.says) ELSE o, done |-> l.key # 0 \/ l.stop]
KeyOn(r, l) == IF r.done THEN r ELSE KeyTaken(ConsoleReadKey(r.then, l.key), l)
StreamReadKey(o, keys) == FoldLeft(KeyOn, [then |-> FlushNow(o), done |-> FALSE], keys).then
=============================================================================
