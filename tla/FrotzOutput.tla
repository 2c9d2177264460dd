----------------------------- MODULE FrotzOutput -----------------------------
(***************************************************************************)
(* The operations on windows (screen.c): selecting, splitting, moving and  *)
(* erasing them, the cursor, colours, styles and margins, the status line. *)
(* They are one step each; what they do to text that still waits in the    *)
(* line buffer is part of them.  Then a game that prints, as a sequence of *)
(* operations on the output of Frotz, and what a player, a transcript and  *)
(* the game itself can count on.                                           *)
(***************************************************************************)
EXTENDS FrotzStreams, Bitwise

CONSTANTS DefaultColours, \* default_foreground and default_background
          Transparent,    \* TRANSPARENT_FLAG of the header
          Amiga           \* amiga_screen_model()
PeekColour == 2
TrueColour == 0           \* os_from_true_colour knows none
TRANSPARENT_COLOUR == 15

OsSetColour(o, colour) == [o EXCEPT !.colour = colour, !.faded = FALSE]
WinArg(o, w) == IF w = -3 THEN o.cwin ELSE w

AtHome(o) == IF o.version # 6 /\ o.cwin # 0 THEN [o EXCEPT !.wp[o.cwin].y = 1, !.wp[o.cwin].x = 1] ELSE o
Current(o, win) == UpdateAttributes([FlushNow(o) EXCEPT !.cwin = win])
Coloured(o) == IF o.version = 6 THEN OsSetColour(o, Win(o).colour) ELSE o
Styled(o) == IF o.version = 6 THEN OsSetTextStyle(o, Win(o).style) ELSE RefreshTextStyle(o)
SetWindowPlain(o, win) == UpdateCursor(AtHome(Coloured(Current(o, win))))   \* the style left as it was
SetWindowLate(o, win) == RefreshTextStyle(UpdateAttributes(FlushNow(UpdateCursor(AtHome([o EXCEPT !.cwin = win])))))   \* what waits is shown there
SetWindow(o, win) == UpdateCursor(AtHome(Styled(Coloured(Current(o, win)))))

\* A window's own colours while something is done to it in version 6
InColours(o, win) == IF o.version = 6 /\ win # o.cwin /\ ~Amiga THEN OsSetColour(o, o.wp[win].colour) ELSE o
ColoursBackNever(o, win) == o
ColoursBack(o, win) == IF o.version = 6 /\ win # o.cwin /\ ~Amiga THEN OsSetColour(o, Win(o).colour) ELSE o
\* Ghosts: what was in a window that is erased need not be seen any more.
Waiting(o) == IF o.cwin = 0 /\ o.screenOn THEN SelectSeq(o.buf, LAMBDA c : ~IsCode(c)) ELSE <<>>
Forgotten(o, win) == IF win = 0 THEN [o EXCEPT !.said = Waiting(o), !.gone = <<>>] ELSE o
Emptied(o, w) == OsEraseArea(o, w.ypos, w.xpos, w.ypos + w.ysize - 1, w.xpos + w.xsize - 1)
EraseWindow(o, win) ==
  [ResetCursor(Forgotten(ColoursBack(Emptied(InColours(o, win), o.wp[win]), win), win), win) EXCEPT !.wp[win].lines = 0]

\* The cursors stay where they are on the screen while the windows move.
Upper(o, height, stat) ==
  [o EXCEPT !.wp[1].y = @ + o.wp[1].ypos - 1 - stat, !.wp[1].ypos = 1 + stat, !.wp[1].ysize = height]
Lower(o, height, stat) ==
  [o EXCEPT !.wp[0].y = @ + o.wp[0].ypos - 1 - stat - height, !.wp[0].ypos = 1 + stat + height, !.wp[0].ysize = Rows - stat - height]
UpperCursor(o) == IF o.wp[1].y > o.wp[1].ysize THEN ResetCursor(o, 1) ELSE o
LowerCursor(o) == IF o.wp[0].y < 1 THEN ResetCursor(o, 0) ELSE o
UpperErased(o, height) == IF o.version = 3 /\ height # 0 THEN EraseWindow(o, 1) ELSE o
SplitFrom(o, height, stat) == UpperErased(LowerCursor(Lower(UpperCursor(Upper(o, height, stat)), height, stat)), height)
SplitWindowKeeps(o, height) == \* the cursors not moved along
  LET stat == IF o.version <= 3 THEN 1 ELSE 0
  IN [FlushNow(o) EXCEPT !.wp[1].ypos = 1 + stat, !.wp[1].ysize = height, !.wp[0].ypos = 1 + stat + height,
                            !.wp[0].ysize = Rows - stat - height, !.torn = TRUE]
SplitWindow(o, height) == [SplitFrom(FlushNow(o), height, IF o.version <= 3 THEN 1 ELSE 0) EXCEPT !.torn = TRUE]
Unsplit(o) == [ResetCursor(SetWindow(SplitWindow(o, 0), 0), 0) EXCEPT !.torn = Waiting(o) # <<>>]
Wiped(o, n) == IF n = -1 THEN Unsplit(o) ELSE o
EraseScreen(o, n) == NoLines(Wiped(Forgotten(OsEraseArea(o, 1, 1, Rows, Cols), 0), n))
\* z_erase_window does not flush the buffer first.
ZEraseWindow(o, n) == IF n \in {-1, -2} THEN EraseScreen(o, n) ELSE EraseWindow(o, WinArg(o, n))

\* restart_screen, for a screen that is blank
NewWindow(w, version) ==
  [ypos |-> 1, xpos |-> 1, ysize |-> 0, xsize |-> IF w \in {0, 1} \/ (w = 7 /\ version <= 3) THEN Cols ELSE 0, y |-> 1, x |-> 1,
   left |-> 0, right |-> 0, nl |-> 0, style |-> 0, colour |-> DefaultColours, lines |-> 0, font |-> 1,
   attr |-> IF w = 0 THEN {"wrap", "scroll", "script", "buffer"} ELSE {"buffer"}]
RestartScreen(o) ==
  EraseScreen([OsSetTextStyle(OsSetColour(o, DefaultColours), 0) EXCEPT
                 !.cursor = TRUE, !.cwin = 0, !.wp = [w \in Windows |-> NewWindow(w, o.version)]], -1)

ZBufferModeLate(o, on) == \* what waits stays in the buffer
  IF o.version = 6 THEN o ELSE UpdateAttributes([o EXCEPT !.wp[0].attr = IF on THEN @ \cup {"buffer"} ELSE @ \ {"buffer"}])
ZBufferMode(o, on) ==
  IF o.version = 6 THEN o
  ELSE UpdateAttributes([FlushNow(o) EXCEPT !.wp[0].attr = IF on THEN @ \cup {"buffer"} ELSE @ \ {"buffer"}])
RowErased(o, y, x, units) == OsEraseArea(o, y, x, y, x + units - 1)
LineErased(o, n) ==
  RowErased(o, Win(o).ypos + Win(o).y - 1, Win(o).xpos + Win(o).x - 1, IF n = 1 \/ n - 1 > UnitsLeft(o) THEN UnitsLeft(o) ELSE n - 1)
ZEraseLine(o, n) == LineErased(FlushNow(o), n)
ZGetCursorEarly(o) == [o EXCEPT !.cursorTold = <<Win(o).y, Win(o).x>>]   \* the buffer not flushed
CursorTold(o) == [o EXCEPT !.cursorTold = <<Win(o).y, Win(o).x>>]
ZGetCursor(o) == CursorTold(FlushNow(o))
CursorOf(o, win) == IF win = o.cwin THEN UpdateCursor(o) ELSE o
ZMoveWindow(o, win, y, x) == CursorOf([FlushNow(o) EXCEPT !.wp[win].ypos = y, !.wp[win].xpos = x], win)
TableBelow(o, x) ==
  IF o.version # 6 /\ o.cwin = 0 THEN NewLine(Quiet(o))
  ELSE UpdateCursor([FlushNow(o) EXCEPT !.wp[o.cwin].y = @ + 1, !.wp[o.cwin].x = x])
TableFrom(o, rows, x) ==
  FoldLeft(LAMBDA a, i : FoldLeft(ZPrintChar, IF i = 1 THEN a ELSE TableBelow(a, x), rows[i]), o, [i \in DOMAIN rows |-> i])
TableAt(o, rows) == TableFrom(o, rows, Win(o).x)
ZPrintTable(o, rows) == TableAt(FlushNow(o), rows)
ZPutWindProp(o, win, prop, value) == [FlushNow(o) EXCEPT !.wp[win] = [@ EXCEPT ![prop] = value]]
PropTold(o, win, prop) == [o EXCEPT !.prop = o.wp[win][prop]]
ZGetWindProp(o, win, prop) == PropTold(FlushNow(o), win, prop)
Scrolled(o, win, w, units) ==
  ColoursBack(OsScrollArea(InColours(o, win), w.ypos, w.xpos, w.ypos + w.ysize - 1, w.xpos + w.xsize - 1, units), win)
ScrolledIn(o, win, units) == Scrolled(o, win, o.wp[win], units)
ZScrollWindow(o, win, units) == ScrolledIn(FlushNow(o), win, units)

\* Colours: -1 that at the cursor, 0 what it was, 1 the default
PickedColour(n, was, default, keeps) ==
  LET a == IF n = -1 THEN PeekColour ELSE n
      b == IF a = 0 THEN was ELSE a
      c == IF b = 1 THEN default ELSE b
  IN IF c = TRANSPARENT_COLOUR /\ keeps THEN was ELSE c
Recoloured(colour, old, new) == \* of the other windows, when window 0 changes
  <<IF colour[1] < 16 THEN (IF colour[1] = old[1] THEN new[1] ELSE new[2]) ELSE colour[1],
    IF colour[2] < 16 THEN (IF colour[2] = old[1] THEN new[1] ELSE new[2]) ELSE colour[2]>>
ColourSet(o, win, colour, spread) ==
  LET a == [o EXCEPT !.wp = [w \in Windows |-> IF w = win THEN [@[w] EXCEPT !.colour = colour]
                                                ELSE IF spread THEN [@[w] EXCEPT !.colour = Recoloured(@, o.wp[0].colour, colour)] ELSE @[w]]]
  IN IF win = o.cwin \/ o.version # 6 THEN OsSetColour(a, colour) ELSE [a EXCEPT !.faded = @ \/ spread]
ColourFrom(o, fg, bg, win, was) ==
  ColourSet(FlushNow(o), win, <<PickedColour(fg, was[1], DefaultColours[1], TRUE), PickedColour(bg, was[2], DefaultColours[2], ~Transparent)>>,
            o.version = 6 /\ ~Amiga /\ win = 0)
ColourOf(o, fg, bg, win) == ColourFrom(o, fg, bg, win, o.wp[win].colour)
ZSetColour(o, fg, bg, w) == ColourOf(o, fg, bg, IF o.version = 6 THEN WinArg(o, w) ELSE 0)
PickedTrueColour(n, was, default, transparent) ==
  CASE n = -1 -> default [] n = -2 -> was [] n = -3 -> PeekColour
    [] n = -4 -> (IF transparent THEN TRANSPARENT_COLOUR ELSE was) [] OTHER -> TrueColour
ZSetTrueColour(o, fg, bg, w) ==
  LET win == IF o.version = 6 THEN WinArg(o, w) ELSE 0
      was == o.wp[win].colour
  IN ColourSet(FlushNow(o), win,
               <<PickedTrueColour(fg, was[1], DefaultColours[1], FALSE), PickedTrueColour(bg, was[2], DefaultColours[2], Transparent)>>, FALSE)

\* Of fonts the dumb interface has one; a code in the text changes nothing on it.
FontTold(o, font, win) == [o EXCEPT !.prop = IF font \in {0, 1} THEN o.wp[win].font ELSE 0]
FontSent(o, font) == IF font = 1 /\ ~o.memOn /\ o.screenOn /\ o.buffering THEN PrintChar(o, ZC_NEW_FONT) ELSE o
ZSetFont(o, font) == FontSent(FontTold(o, font, IF o.version = 6 THEN o.cwin ELSE 0), font)
InMargins(b, x) == x > b.left /\ x <= b.xsize - b.right
CursorPut(o, y, x, win) == CursorOf([o EXCEPT !.wp[win].y = y, !.wp[win].x = IF InMargins(o.wp[win], x) THEN x ELSE o.wp[win].left + 1], win)
CursorSet(o, y, x, win) ==
  CASE y < 0 -> [o EXCEPT !.cursor = IF y = -2 THEN TRUE ELSE IF y = -1 THEN FALSE ELSE @]
    [] y >= 0 /\ o.version # 6 /\ o.cwin = 0 -> o
    [] OTHER -> CursorPut(o, IF y = 0 THEN o.wp[win].y ELSE y, IF x = 0 THEN o.wp[win].x ELSE x, win)
ZSetCursor(o, y, x, w) == CursorSet(FlushNow(o), y, x, IF o.version = 6 THEN WinArg(o, w) ELSE 1)
CursorWithin(o, win) == IF InMargins(o.wp[win], o.wp[win].x) THEN o ELSE CursorOf([o EXCEPT !.wp[win].x = o.wp[win].left + 1], win)
MarginsSet(o, left, right, win) == CursorWithin([o EXCEPT !.wp[win].left = left, !.wp[win].right = right], win)
ZSetMargins(o, left, right, w) == MarginsSet(FlushNow(o), left, right, WinArg(o, w))
ZSetTextStyle(o, style) ==
  LET win == IF o.version = 6 THEN o.cwin ELSE 0
  IN RefreshTextStyle([o EXCEPT !.wp[win].style = IF style = 0 THEN 0 ELSE @ | style])
ZWindowSizeKeeps(o, win, height, width) == [FlushNow(o) EXCEPT !.wp[win].ysize = height, !.wp[win].xsize = width]   \* the cursor left where it is
Outside(b) == b.y > b.ysize \/ b.x > b.xsize
CursorBack(o, win) == IF Outside(o.wp[win]) THEN ResetCursor(o, win) ELSE o
ZWindowSize(o, win, height, width) == CursorBack([FlushNow(o) EXCEPT !.wp[win].ysize = height, !.wp[win].xsize = width], win)
Attributed(o, win) == IF win = o.cwin THEN UpdateAttributes(o) ELSE o
ZWindowStyle(o, win, flags, how) ==
  Attributed([FlushNow(o) EXCEPT !.wp[win].attr = CASE how = 0 -> flags
                                                    [] how = 1 -> @ \cup flags
                                                    [] how = 2 -> @ \ flags
                                                    [] how = 3 -> (@ \ flags) \cup (flags \ @)
                                                    [] OTHER -> @], win)

\* The status line of versions 1 to 3, in window 7; a screen of less than 55
\* columns has the brief form.
REVERSE_STYLE == 1
Spaces(o, n) == FoldLeft(ScreenChar, o, [i \in 1 .. n |-> Space])
Padding(o, column) == Spaces(o, IF UnitsLeft(o) > column THEN UnitsLeft(o) - column ELSE 0)
PadStatusLine(o, column) == Padding(FlushNow(o), column)
Digits(n) == IF n >= 10 THEN <<48 + n \div 10, 48 + (n % 10)>> ELSE <<48 + n>>
Hour12Plain(h) == IF h > 12 THEN h - 12 ELSE h   \* midnight forgotten
Hour12(h) == LET a == IF h = 0 THEN 24 ELSE h IN IF a > 12 THEN a - 12 ELSE a
Clock(hours, minutes) ==
  (IF Hour12(hours) < 10 THEN <<Space>> ELSE <<>>) \o Digits(Hour12(hours)) \o <<58>> \o (IF minutes < 10 THEN <<48>> ELSE <<>>)
  \o Digits(minutes) \o <<Space, IF hours >= 12 THEN 112 ELSE 97, 109>>
\* A text and where it ends: each part of the line in turn
StatusPart(o, part) == PadStatusLine(PrintString(o, part.text), part.column)
StatusParts(name, time, g1, g2) ==
  <<[text |-> <<Space>> \o name, column |-> 15]>>
  \o IF time THEN <<[text |-> <<84, 105, 109, 101, 58, 32>> \o Clock(g1, g2), column |-> 0]>>
     ELSE <<[text |-> <<83, 58, 32>> \o Digits(g1), column |-> 8], [text |-> <<77, 58, 32>> \o Digits(g2), column |-> 0]>>
StatusLine(o, name, time, g1, g2) ==
  FoldLeft(StatusPart, PrintChar(SetWindow(o, 7), ZC_NEW_STYLE(REVERSE_STYLE + FIXED_WIDTH_STYLE)), StatusParts(name, time, g1, g2))
ZShowStatus(o, name, time, g1, g2) == IF o.version >= 4 THEN o ELSE SetWindow(StatusLine(o, name, time, g1, g2), 0)
ResetWindow(o) == NewLine(Quiet(SetWindow(o, 0)))

-----------------------------------------------------------------------------
(* A game that prints.                                                     *)

CONSTANTS Texts,          \* strings that are printed, by part
          Inits, Lines,   \* what is preloaded and how a line is read
          Versions,       \* of the story, by part
          Tables,         \* addresses of tables in memory
          Widths,         \* arguments of streams of a width
          Names,          \* of the place, for the status line
          MemSize, MaxSteps
Parts == DOMAIN Versions
ASSUME OutputAssumption == \A p \in Parts :
  /\ Texts[p] \cup Inits[p] \subseteq Seq(Nat) /\ Versions[p] \subseteq 1 .. 8 /\ MaxSteps[p] \in Nat
  /\ \A l \in Lines[p] : \A i \in DOMAIN l : l[i].key \in Nat /\ l[i].text \o l[i].says \in Seq(Nat) /\ l[i].stop \in BOOLEAN

VARIABLES out, part, did  \* the output, which operations are tried, the last of them and its arguments

outVars == <<out, part, did>>

NewOutput(v) ==
  RestartScreen(
    [version |-> v, wp |-> <<>>, cwin |-> 0, wrapping |-> TRUE, scrolling |-> TRUE, scripting |-> TRUE, buffering |-> TRUE,
     cells |-> [p \in Cells |-> <<Space, 0>>], changed |-> [p \in Cells |-> FALSE], glass |-> [p \in Cells |-> <<Space, 0>>],
     row |-> 0, col |-> 0, style |-> 0, colour |-> DefaultColours, junk |-> TRUE,
     discarding |-> FALSE, redraw |-> FALSE, inwin |-> 0, more |-> TRUE, cursor |-> TRUE, interrupts |-> 0,
     screenOn |-> TRUE, scriptOn |-> FALSE, memOn |-> FALSE, message |-> FALSE, fixed |-> FALSE, buf |-> <<>>, prev |-> 0,
     redirect |-> <<>>, mem |-> [a \in 0 .. MemSize - 1 |-> 0], lineWidth |-> 0, script |-> <<>>, swidth |-> 0,
     prop |-> 0, cursorTold |-> <<>>, fatal |-> FALSE, steps |-> 0,
     said |-> <<>>, scriptSaid |-> <<>>, told |-> <<>>, gone |-> <<>>,
     lost |-> FALSE, again |-> FALSE, odd |-> FALSE, clipped |-> FALSE, torn |-> FALSE, faded |-> FALSE])
OutInit == /\ part \in Parts /\ did = <<"start">>
           /\ \E v \in Versions[part] : out = NewOutput(v)

\* The output before an operation: j is what is left in the colours of new cells.
Before(j) == [out EXCEPT !.junk = j, !.cursorTold = <<>>, !.clipped = FALSE, !.steps = @ + 1]
Junk == IF part = "print" THEN BOOLEAN ELSE {TRUE}
DoesThe(call, parts) == part \in parts /\ UNCHANGED part /\ did' = call /\ ~out.fatal /\ out.steps < MaxSteps[part]
Does(name, parts) == DoesThe(<<name>>, parts)
V6 == out.version = 6
Wins == IF V6 THEN {w \in Windows : w < 7} ELSE {0, 1}

\* Printing and streams
PrintText == Does("print", Parts) /\ \E s \in Texts[part], j \in Junk : out' = PrintString(Before(j), s)
PrintOne == Does("print", {"loose"}) /\ \E c \in {97, 45, ZC_RETURN, ZC_GAP} : out' = ZPrintChar(Before(TRUE), c)
Tell == Does("message", {"print", "tables"}) /\ out' = Message(Before(TRUE), <<109, Space, 109>>)
Stream == /\ Does("stream", {"print", "loose", "tables"})
          /\ \E n \in {1, -1, 2, -2, -3} : (n # -3 <=> part # "tables") /\ out' = ZOutputStream(Before(TRUE), n)
NoScript == Does("stream", {"loose"}) /\ ~out.scriptOn /\ out' = ScriptOpen(FlushNow(Before(TRUE)), FALSE)
Redirect == /\ Does("stream", {"tables"})
            /\ \E t \in Tables :
                 /\ \A i \in DOMAIN out.told : out.told[i].table = t => ~out.told[i].open
                 /\ \/ out' = ZOutputStream3(Before(TRUE), t, 0, FALSE)
                    \/ V6 /\ \E x \in Widths : out' = ZOutputStream3(Before(TRUE), t, x, TRUE)

\* Reading: what is preloaded has been printed.
Read == /\ Does("read", {"print", "status"})
        /\ \E i \in Inits[part], l \in Lines[part], n \in Names, j \in Junk :
             out' = StreamReadInput(ZShowStatus(PrintString(Before(j), i), n, FALSE, 5, 12), i, l, V6)
ReadKey == Does("read", {"print"}) /\ \E l \in Lines[part] : out' = StreamReadKey(Before(TRUE), [k \in DOMAIN l |-> [l[k] EXCEPT !.text = <<>>]])
Look == Does("look", {"print"}) /\ out' = DumbDumpScreen(Before(TRUE))
Replay == Does("more", {"print"}) /\ out' = SetMorePrompts(Before(TRUE), ~out.more)

\* Windows
Select == Does("window", {"windows", "v6"}) /\ \E w \in Wins : out' = SetWindow(Before(TRUE), w)
Split == Does("split", {"windows", "status"}) /\ \E h \in 0 .. 2 : out' = SplitWindow(Before(TRUE), h)
Erase == \E n \in {-1, -2, 0, 1} : DoesThe(<<"erase", n>>, {"print", "windows", "v6"}) /\ (part = "print" => n # 1)
                                  /\ out' = ZEraseWindow(Before(TRUE), n)
PutCursor == Does("cursor", {"windows", "v6"}) /\ \E y \in {0, 1, 2, -1, -2}, x \in {0, 1, Cols - 2, Cols + 1}, w \in {-3, 1} :
               /\ (w = 1 => V6) /\ (y <= 0 => x = 1) /\ (y > 0 => out.wp[IF V6 THEN WinArg(out, w) ELSE 1].ysize >= y)
               /\ out' = ZSetCursor(Before(TRUE), y, x, w)
AskCursor == Does("where", {"windows", "v6"}) /\ out' = ZGetCursor(Before(TRUE))
EraseLine == Does("line", {"windows"}) /\ \E n \in {1, 3} : out' = ZEraseLine(Before(TRUE), n)
Table == Does("table", {"windows"}) /\ (out.cwin = 0 \/ (Win(out).y < Win(out).ysize /\ Win(out).x <= Cols - 1))
         /\ out' = ZPrintTable(Before(TRUE), <<<<120, 121>>, <<122, 120>>>>)
BufferMode == Does("buffer", {"loose", "v6"}) /\ \E on \in BOOLEAN : out' = ZBufferMode(Before(TRUE), on)
Style == Does("style", {"print", "loose", "windows"}) /\ \E s \in {0, 1, 4} : out' = ZSetTextStyle(Before(TRUE), s)
Flags == Does("flags", {"loose", "windows"}) /\ \E s, f \in BOOLEAN : out' = FlagsStored(Before(TRUE), s, f)
Font == Does("font", {"loose"}) /\ \E f \in {0, 1, 3} : out' = ZSetFont(Before(TRUE), f)
Reset == Does("reset", {"windows"}) /\ out' = ResetWindow(Before(TRUE))
Status == \E n \in Names, time \in BOOLEAN, g \in {<<0, 5>>, <<5, 12>>, <<23, 59>>} :
            DoesThe(<<"status", n, time, g>>, {"status"}) /\ out' = ZShowStatus(Before(TRUE), n, time, g[1], g[2])

\* Version 6
Move == Does("move", {"v6"}) /\ \E w \in Wins, y \in {1, 2} : out' = ZMoveWindow(Before(TRUE), w, y, 2)
Size == Does("size", {"v6"}) /\ \E w \in Wins, z \in {<<2, 9>>, <<1, 7>>} : out' = ZWindowSize(Before(TRUE), w, z[1], z[2])
Attributes == Does("attr", {"v6"}) /\ \E how \in 0 .. 3 : out' = ZWindowStyle(Before(TRUE), 1, {"wrap", "scroll"}, how)
Margins == Does("margins", {"v6"}) /\ \E m \in {<<1, 1>>, <<2, 0>>}, w \in {-3, 1} : out' = ZSetMargins(Before(TRUE), m[1], m[2], w)
SetProp == Does("prop", {"v6"}) /\ \E pv \in {<<"nl", 2>>, <<"lines", -999>>} : out' = ZPutWindProp(Before(TRUE), 1, pv[1], pv[2])
AskProp == Does("prop", {"v6"}) /\ \E p \in {"x", "lines"} : out' = ZGetWindProp(Before(TRUE), out.cwin, p)
ScrollBy == Does("scroll", {"v6"}) /\ \E u \in {1, -1} : out.wp[1].ysize > 1 /\ out' = ZScrollWindow(Before(TRUE), 1, u)
Colour == Does("colour", {"v6", "loose"}) /\ \E c \in {<<3, 4>>, <<-1, 0>>, <<1, 15>>}, w \in {0, -3} : out' = ZSetColour(Before(TRUE), c[1], c[2], w)
TrueColours == Does("colour", {"v6", "loose"}) /\ \E c \in {<<-1, -2>>, <<-3, -4>>, <<77, -2>>}, w \in {1, -3} :
                 out' = ZSetTrueColour(Before(TRUE), c[1], c[2], w)

OutNext == \/ PrintText \/ PrintOne \/ Tell \/ Stream \/ NoScript \/ Redirect
           \/ Read \/ ReadKey \/ Look \/ Replay
           \/ Select \/ Split \/ Erase \/ PutCursor \/ AskCursor \/ EraseLine \/ Table \/ BufferMode \/ Style \/ Flags \/ Font \/ Reset \/ Status
           \/ Move \/ Size \/ Attributes \/ Margins \/ SetProp \/ AskProp \/ ScrollBy \/ Colour \/ TrueColours
OutSpec == OutInit /\ [][OutNext]_outVars
-----------------------------------------------------------------------------
(* Properties *)

Blank(c) == c \in {0, Space, ZC_INDENT, ZC_GAP, ZC_RETURN}
Letters(s) == SelectSeq(s, LAMBDA c : ~Blank(c))
\* Its letters, each with what follows: a blank, a place where the text may be cut
\* (after a hyphen, or where the buffer was emptied before a word was complete) or not.
Followed(a, c) ==
  CASE Blank(c) /\ (a = <<>> \/ Last(a).then = "blank") -> a
    [] Blank(c) /\ a # <<>> /\ Last(a).then # "blank" -> [a EXCEPT ![Len(a)].then = IF c = Cut THEN "cut" ELSE "blank"]
    [] OTHER -> Append(IF a # <<>> /\ Last(a) = [letter |-> 45, then |-> "no"] /\ c # 45 THEN [a EXCEPT ![Len(a)].then = "cut"] ELSE a,
                       [letter |-> c, then |-> "no"])
Spaced(s) == FoldLeft(Followed, <<>>, s)
ReadsAs(shown, said) ==
  LET a == Spaced(shown)
      b == Spaced(said)
  IN /\ Len(a) = Len(b) /\ \A i \in DOMAIN a : a[i].letter = b[i].letter
     /\ \A i \in 1 .. Len(a) - 1 : (b[i].then = "blank" => a[i].then = "blank") /\ (a[i].then = "blank" => b[i].then # "no")
\* What is read off rows is cut at their ends.
Trimmed(r) == SubSeq(r, 1, Max({0} \cup {i \in DOMAIN r : ~Blank(r[i])}))
Lined(rows) == FoldLeft(LAMBDA a, r : a \o Trimmed(r) \o <<Space>>, <<>>, rows)
LowerRows == [i \in 1 .. out.wp[0].ysize |-> RowText(out, out.wp[0].ypos + i - 2)]
ReadOff == out.gone \o LowerRows

\* What was printed for the lower window can be read there, or was, before it
\* scrolled away: no word is missing, none is shown twice or broken between two
\* rows, though words wait in a buffer while streams, messages, styles and input
\* come and go (buffer.c, screen_word, stream.c).
WordsOnScreen == (part = "print" /\ ~out.torn /\ ~out.fatal) => ReadsAs(Lined(ReadOff) \o Waiting(out), out.said)
\* Where text is not buffered at times, words may be broken, but no letter is lost
\* (after a gap, which is shown wider than it is counted, one may be).
LettersOnScreen == (part = "loose" /\ ~out.torn /\ \A i \in DOMAIN out.said : out.said[i] # ZC_GAP) =>
  Letters(Lined(ReadOff) \o Waiting(out)) = Letters(out.said)
\* No row leaves the window before the player has seen it (screen_new_line).
SeenBeforeGone == part = "print" => ~out.lost
\* The transcript holds the words that were printed while it was on, and what the
\* player typed once, in lines that fit (script_word, stream_read_input).
ScriptLines == FoldLeft(LAMBDA a, c : IF c = ZC_RETURN THEN Append(a, <<>>) ELSE Append(Front(a), Append(Last(a), c)), <<<<>>>>, out.script)
TranscriptIsText == (part \in {"print", "tables"} /\ ~out.torn /\ ~out.fatal) =>
  /\ ReadsAs(out.script \o (IF ToScript(out) /\ ~ToMemory(out) /\ out.buf # <<>> THEN <<Space>> \o Plain(out.buf) ELSE <<>>), out.scriptSaid)
  /\ \A i \in DOMAIN ScriptLines : Len(ScriptLines[i]) <= ScriptCols

\* A table holds what was printed while it was the last one opened, and nothing
\* else, however tables are nested (redirect.c).
Bytes(addr, n) == [i \in 1 .. n |-> out.mem[addr + i - 1]]
Stored(t) == Bytes(t.table + 2, SizeAt(out, t.table))
Rest(t) == IF t.open /\ t.depth = Len(out.redirect) /\ ToMemory(out) THEN Plain(out.buf) ELSE <<>>
TablesHoldText == \A i \in DOMAIN out.told : LET t == out.told[i] IN t.xsize = 65535 => Stored(t) \o Rest(t) = t.text
\* The lines of a table with a width, up to the empty one that ends it
LinesAt(addr) ==
  LET next[a \in 0 .. MemSize - 1] == IF SizeAt(out, a) = 0 THEN <<>> ELSE <<Bytes(a + 2, SizeAt(out, a))>> \o next[a + 2 + SizeAt(out, a)]
  IN next[addr]
LinesFit == \A i \in DOMAIN out.told :
  LET t == out.told[i]
      lines == LinesAt(t.table)
  IN (t.xsize # 65535 /\ ~t.open /\ SelectSeq(t.text, LAMBDA c : c = ZC_RETURN) = <<>>) =>
       ReadsAs(Lined(lines), t.text) /\ \A k \in DOMAIN lines : Len(lines[k]) <= t.xsize

\* See SeenOrMarked: nothing stays on the screen that the player is never shown.
NothingUnshown == SeenOrMarked(out)
\* Whoever moves a window or its cursor tells the screen, so that text goes where
\* the window says (update_cursor in screen.c).
CursorsAgree == (~out.odd /\ Win(out).x <= Win(out).xsize - Win(out).right) =>
  out.row = Win(out).ypos + Win(out).y - 2 /\ out.col = Win(out).xpos + Win(out).x - 2
\* However windows grow, shrink and move, a cursor stays in its own.
CursorsInside == \A w \in {0, 1} : LET b == out.wp[w] IN
  (b.ysize >= 1 /\ ~out.odd) => b.y \in 1 .. b.ysize /\ b.x \in 1 .. b.xsize + 1
\* What get_cursor tells is where the next letter is shown, and not one that waits
\* (z_get_cursor).
CursorIsTold ==
  (out.cursorTold # <<>> /\ ~out.odd /\ UnitsLeft(out) >= 1) =>
    FlushBuffer(PrintChar(out, 97)).cells[Place(Win(out).ypos + out.cursorTold[1] - 2, Win(out).xpos + out.cursorTold[2] - 2)][1] = 97
\* Text is shown in the window it was printed in, even when it waits while another
\* one is selected (set_window).
Differs(p) == out.cells[p] # out'.cells[p]
OfWindow(w) == Area(w.ypos, w.xpos, w.ypos + w.ysize - 1, w.xpos + w.xsize - 1)
PrintsInWindow == [][(did'[1] \in {"print", "window", "where"} /\ part \in {"windows", "v6"} /\ Win(out).ysize > 0
                       /\ Win(out).xpos + Win(out).xsize - 1 <= Cols /\ ~out.odd /\ ~out'.clipped) => \A p \in Cells : Differs(p) => p \in OfWindow(Win(out))]_outVars
\* The screen has the colours of the window that is current whatever was erased
\* or scrolled meanwhile in the colours of another (z_set_colour, erase_window).
ColoursFollow == (~out.faded) => out.colour = out.wp[IF V6 THEN out.cwin ELSE 0].colour
\* What is printed next has the style of its window, though a style is sent through
\* the buffer at times and set at once at others (refresh_text_style).
StylesFollow == ~(ToMemory(out) \/ out.message) => FlushBuffer(out).style = StyleOf(out)

\* The status line is whole (z_show_status): the place, the score or the time by a
\* clock of twelve hours, each at its column, and it is all there is in the row.
Padded(s, n) == s \o [i \in 1 .. (IF n > Len(s) THEN n - Len(s) ELSE 0) |-> Space]
Time(h, mi) == LET t == ((h + 11) % 12) + 1
               IN Padded(<<84, 105, 109, 101, 58>>, IF t < 10 THEN 7 ELSE 6) \o Digits(t) \o <<58, 48 + mi \div 10, 48 + (mi % 10), Space,
                         IF h >= 12 THEN 112 ELSE 97, 109>>
StatusShould(name, time, g) ==
  LET place == Padded(<<Space>> \o name, Cols - 15)
  IN Padded(place \o (IF time THEN Time(g[1], g[2]) ELSE Padded(<<83, 58, Space>> \o Digits(g[1]), 7) \o <<77, 58, Space>> \o Digits(g[2])), Cols)
StatusIsWhole == (did[1] = "status" /\ ~out.clipped) => RowText(out, 0) = StatusShould(did[2], did[3], did[4])

\* A screen that was erased is blank (z_erase_window).
ErasedIsBlank == (did = <<"erase", -1>> \/ did = <<"erase", -2>>) => \A p \in Cells : IsBlank(out.cells[p])
-----------------------------------------------------------------------------
(* What the runs check of the properties above, by whom they concern.      *)

\* The player can read what was printed, whole and in order, where it was printed,
\* or could before it left.
TextIsShown == WordsOnScreen /\ LettersOnScreen /\ StatusIsWhole
\* Nothing leaves the screen, or stays on it, without the player being shown it.
NothingUnseen == SeenBeforeGone /\ NothingUnshown
\* The other streams hold what was printed for them.
StreamsHoldText == TranscriptIsText /\ TablesHoldText /\ LinesFit
\* The screen, the windows and what the game is told agree on where the next
\* letter goes and how it looks.
LooksAgree == CursorsAgree /\ CursorsInside /\ CursorIsTold /\ ColoursFollow /\ StylesFollow
=============================================================================
