----------------------------- MODULE ButeBuffer -----------------------------
(***************************************************************************)
(* The gap buffer of bute (bearos_bute/src/bute.c): one allocation that    *)
(* holds the text in two parts with a gap between them,                    *)
(*                                                                         *)
(*    start          gap            rest           end                     *)
(*      | text before | free memory  | text after   |                      *)
(*                                                                         *)
(* The pointers are offsets from `start`, so `start` itself is 0 and the   *)
(* field `mem` is the allocation, a function on 0 .. end-1.  Memory that   *)
(* malloc or realloc returned and nobody has written holds Junk, which is  *)
(* no character: reading it as text would be seen.                         *)
(***************************************************************************)
EXTENDS Integers, Sequences

CONSTANTS Char,        \* the characters a text is made of
          Junk,        \* the content of memory nobody has written
          Nul,         \* the terminator close_gap stores
          MinText,     \* MINTEXTBUFFER, the room kept in a new gap
          Bufs,        \* the runs of text the callers insert
          Files,       \* the texts a file on disk may hold
          MaxText      \* bound: the longest text explored

ASSUME BufsAssumption == Bufs \subseteq Seq(Char)
ASSUME FilesAssumption == Files \subseteq Seq(Char)
ASSUME MinTextAssumption == MinText \in Nat \ {0}
ASSUME MaxTextAssumption == MaxText \in Nat
ASSUME JunkAssumption == Junk \notin Char /\ Nul \notin Char

VARIABLE ed     \* the fields start (as mem), gap, rest, end of struct BUTE

-----------------------------------------------------------------------------
(* Reading the buffer.                                                     *)

\* The four fields of a buffer.
Buf(mem, gap, rest, end) == [mem |-> mem, gap |-> gap, rest |-> rest, end |-> end]

TextLength(b) == b.gap + (b.end - b.rest)

TextPtr(b, pos) == IF pos >= b.gap THEN pos + (b.rest - b.gap) ELSE pos

\* The text the buffer stands for.
Text(b) == [i \in 1 .. TextLength(b) |-> b.mem[TextPtr(b, i - 1)]]

\* Mutant of WalkPtr: the pointer does not step over the gap.
WalkPtrStraight(b, pos) == [k \in Nat |-> TextPtr(b, pos) + k]

\* The offset the loops of compare and copy look at after k steps from pos:
\* the pointer jumps from the gap to the rest when it reaches the gap.
WalkPtr(b, pos) ==
  LET at[k \in Nat] ==
        IF k = 0 THEN TextPtr(b, pos)
        ELSE LET p == at[k - 1] + 1 IN IF p = b.gap THEN b.rest ELSE p
  IN  at

\* copy: at most len characters from pos, stopping at the end of the buffer.
Copy(b, pos, len) ==
  LET at == WalkPtr(b, pos)
      room == {k \in 0 .. len : \A j \in 0 .. k - 1 : at[j] # b.end}
      n == CHOOSE k \in room : \A j \in room : j <= k
  IN  [i \in 1 .. n |-> b.mem[at[i - 1]]]

\* compare: whether the text at pos starts with buf.
Compare(b, buf, pos) ==
  LET at == WalkPtr(b, pos)
  IN  \A k \in 1 .. Len(buf) :
        (\A j \in 1 .. k - 1 : at[j - 1] # b.end /\ b.mem[at[j - 1]] = buf[j])
        => /\ at[k - 1] # b.end
           /\ b.mem[at[k - 1]] = buf[k]

-----------------------------------------------------------------------------
(* Changing the buffer.                                                    *)

\* memmove within memory m: the bytes lo .. hi-1 take what lay `by` before them
Moved(m, lo, hi, by) ==
  [i \in DOMAIN m |-> IF lo <= i /\ i < hi THEN m[i - by] ELSE m[i]]

\* Mutant of SlideGap: the text is always taken from behind the gap.
SlideGapForward(b, pos) ==
  LET gapsize == b.rest - b.gap
      p == TextPtr(b, pos)
  IN  IF p = b.rest THEN b
      ELSE Buf(Moved(b.mem, b.gap, p - gapsize, -gapsize), pos, pos + gapsize, b.end)

\* move_gap, when the gap is large enough: slide the text in between.
SlideGap(b, pos) ==
  LET gapsize == b.rest - b.gap
      p == TextPtr(b, pos)
  IN  IF p = b.rest THEN b
      ELSE Buf(IF p < b.gap
               THEN Moved(b.mem, p + gapsize, b.rest, gapsize)
               ELSE Moved(b.mem, b.gap, p - gapsize, -gapsize),
               pos, pos + gapsize, b.end)

\* Mutant of GrowGap: the new gap is always MINTEXTBUFFER larger than the
\* old one, whatever was asked for.
GrowGapByMinText(b, pos, minsize) ==
  LET size == b.rest - b.gap + MinText
      newsize == b.end + MinText
  IN  Buf([i \in 0 .. newsize - 1 |->
             IF i < pos THEN b.mem[TextPtr(b, i)]
             ELSE IF i < pos + size THEN Junk
             ELSE b.mem[TextPtr(b, i - size)]],
          pos, pos + size, newsize)

\* move_gap, when it is not: copy the text into a larger allocation with the
\* gap at pos.
GrowGap(b, pos, minsize) ==
  LET gapsize == b.rest - b.gap
      size == IF gapsize + MinText > minsize THEN gapsize + MinText ELSE minsize
      newsize == b.end - gapsize + size
  IN  Buf([i \in 0 .. newsize - 1 |->
             IF i < pos THEN b.mem[TextPtr(b, i)]
             ELSE IF i < pos + size THEN Junk
             ELSE b.mem[TextPtr(b, i - size)]],
          pos, pos + size, newsize)

MoveGap(b, pos, minsize) ==
  IF minsize <= b.rest - b.gap THEN SlideGap(b, pos) ELSE GrowGap(b, pos, minsize)

\* Mutant of CloseGap: no room is asked for the terminator.
CloseGapNoRoom(b) ==
  LET len == TextLength(b)
      m == MoveGap(b, len, 0)
  IN  [m EXCEPT !.mem = [i \in DOMAIN m.mem |-> IF i = len THEN Nul ELSE m.mem[i]]]

\* close_gap: the text in one piece, terminated by a Nul, for strstr.
CloseGap(b) ==
  LET len == TextLength(b)
      m == MoveGap(b, len, 1)
  IN  Buf([m.mem EXCEPT ![len] = Nul], m.gap, m.rest, m.end)

\* replace, without its undo record (see ButeUndo).
ReplaceIn(b, pos, len, buf) ==
  IF buf = <<>> /\ pos <= b.gap /\ pos + len >= b.gap
  THEN Buf(b.mem, pos, b.rest + (len - (b.gap - pos)), b.end)
  ELSE LET m == MoveGap(b, pos + len, Len(buf) - len)
       IN  Buf([i \in DOMAIN m.mem |->
                  IF i \in pos .. pos + Len(buf) - 1
                  THEN buf[i - pos + 1] ELSE m.mem[i]],
               pos + Len(buf), m.rest, m.end)

\* new_file: an empty text in MINTEXTBUFFER bytes.
NewFile == Buf([i \in 0 .. MinText - 1 |-> Junk], 0, MinText, MinText)

\* load_file: the text of the file, then a gap of MINTEXTBUFFER bytes.
LoadFile(file) ==
  LET size == Len(file) + MinText
  IN  Buf([i \in 0 .. size - 1 |-> IF i < Len(file) THEN file[i + 1] ELSE Junk],
          Len(file), size, size)

-----------------------------------------------------------------------------
(* The specification: an editor is made for a new or an existing file, and *)
(* then its text is edited and searched.  The callers' contract, that the  *)
(* run replaced lies inside the text, is what ButeEditor checks of them.   *)

Init == ed = NewFile \/ \E file \in Files : ed = LoadFile(file)

Replace(pos, len, buf) ==
  /\ pos + len <= TextLength(ed)
  /\ TextLength(ed) - len + Len(buf) <= MaxText
  /\ ed' = ReplaceIn(ed, pos, len, buf)

Search == ed' = CloseGap(ed)

Next ==
  \/ \E pos \in 0 .. TextLength(ed), len \in 0 .. TextLength(ed), buf \in Bufs :
       Replace(pos, len, buf)
  \/ Search

Spec == Init /\ [][Next]_ed

-----------------------------------------------------------------------------
(* Properties.                                                             *)

\* The pointers of struct BUTE delimit two runs of text inside the
\* allocation, and every byte outside the gap is a character: what save_file
\* writes and the screen shows never comes from free memory.
WellFormed(b) ==
  /\ b \in [mem : [0 .. b.end - 1 -> Char \union {Junk, Nul}],
            gap : Nat, rest : Nat, end : Nat]
  /\ b.gap <= b.rest /\ b.rest <= b.end
  /\ \A i \in 0 .. b.end - 1 : i < b.gap \/ i >= b.rest => b.mem[i] \in Char

BufferOK == WellFormed(ed)

\* The pointer walks of copy and compare, which step over the gap by an
\* equality test, see the text: from every position, of every length, across
\* every place of the gap.
ReadsSeeText ==
  \A pos \in 0 .. TextLength(ed), len \in 0 .. TextLength(ed) + 1 :
    LET n == IF pos + len > TextLength(ed) THEN TextLength(ed) - pos ELSE len
    IN  /\ Copy(ed, pos, len) = SubSeq(Text(ed), pos + 1, pos + n)
        /\ \A buf \in Bufs :
             Compare(ed, buf, pos) <=>
               /\ pos + Len(buf) <= TextLength(ed)
               /\ SubSeq(Text(ed), pos + 1, pos + Len(buf)) = buf

\* Editing the gap buffer edits the text it stands for, and searching it
\* leaves the text alone: move_gap, close_gap and the two ways through
\* replace lose, duplicate and reorder nothing.
T == INSTANCE ButeText WITH text <- Text(ed)
RefinesText == T!Spec

\* find_text hands ed->start to strstr: after close_gap the text lies in one
\* piece from start on and ends in a Nul that is inside the allocation.
SearchSeesText ==
  [][Search => /\ ed'.gap = TextLength(ed)
               /\ ed'.gap < ed'.end
               /\ ed'.mem[TextLength(ed)] = Nul
               /\ ed'.rest = ed'.end
               /\ \A i \in 1 .. TextLength(ed) : ed'.mem[i - 1] = Text(ed)[i]]_ed
=============================================================================
