-------------------------- MODULE ButeBufferProofs --------------------------
(***************************************************************************)
(* The gap buffer is well formed whatever is typed into it, and it         *)
(* implements the abstract text: for every character set, every allocation *)
(* step MINTEXTBUFFER and every bound on the text.                         *)
(***************************************************************************)
EXTENDS ButeBuffer, SequenceTheorems, SetInduction, TLAPS

-----------------------------------------------------------------------------
(* Facts about a well-formed buffer.                                       *)

\* A position of the text points at a character, outside the gap.
LEMMA TextPtrInText ==
  ASSUME NEW b, WellFormed(b), NEW i \in 0 .. TextLength(b) - 1
  PROVE  /\ TextLength(b) \in Nat
         /\ TextPtr(b, i) \in 0 .. b.end - 1
         /\ TextPtr(b, i) < b.gap \/ TextPtr(b, i) >= b.rest
         /\ b.mem[TextPtr(b, i)] \in Char
  BY SMTT(30) DEF WellFormed, TextLength, TextPtr

\* The text of a well-formed buffer is a sequence of characters.
LEMMA TextIsText ==
  ASSUME NEW b, WellFormed(b)
  PROVE  /\ TextLength(b) \in Nat
         /\ Text(b) \in Seq(Char)
         /\ Len(Text(b)) = TextLength(b)
         /\ \A i \in 1 .. TextLength(b) : Text(b)[i] = b.mem[TextPtr(b, i - 1)]
<1>1. TextLength(b) \in Nat
  BY DEF WellFormed, TextLength
<1>2. \A i \in 1 .. TextLength(b) : b.mem[TextPtr(b, i - 1)] \in Char
  BY <1>1, TextPtrInText
<1>3. QED
  BY <1>1, <1>2 DEF Text

-----------------------------------------------------------------------------
(* move_gap puts the gap where it is asked to, makes it as large as it is  *)
(* asked to, and moves no character relative to the text.                  *)

\* Two buffers that read the same, whatever memory lies between.
SameText(b, m) ==
  /\ TextLength(m) = TextLength(b)
  /\ \A i \in 0 .. TextLength(b) - 1 : m.mem[TextPtr(m, i)] = b.mem[TextPtr(b, i)]

\* A well-formed buffer, taken apart: naming its fields keeps the provers'
\* arithmetic free of records.
LEMMA Parts ==
  ASSUME NEW b, WellFormed(b)
  PROVE  /\ b = [mem |-> b.mem, gap |-> b.gap, rest |-> b.rest, end |-> b.end]
         /\ b.gap \in Nat /\ b.rest \in Nat /\ b.end \in Nat
         /\ b.gap <= b.rest /\ b.rest <= b.end
         /\ b.mem \in [0 .. b.end - 1 -> Char \union {Junk, Nul}]
         /\ \A i \in 0 .. b.end - 1 : i < b.gap \/ i >= b.rest => b.mem[i] \in Char
         /\ TextLength(b) = b.gap + (b.end - b.rest)
  BY DEF WellFormed, TextLength

\* Sliding the gap keeps its size and the text.
LEMMA SlideGapKeepsText ==
  ASSUME NEW mem, NEW gap \in Nat, NEW rest \in Nat, NEW end \in Nat, NEW pos \in Nat,
         NEW b, b = [mem |-> mem, gap |-> gap, rest |-> rest, end |-> end],
         WellFormed(b), pos <= TextLength(b)
  PROVE  LET m == SlideGap(b, pos)
         IN  /\ WellFormed(m) /\ SameText(b, m)
             /\ m.gap = pos /\ m.rest - m.gap = b.rest - b.gap
<1> DEFINE m == SlideGap(b, pos)
<1>1. PICK gs : gs = rest - gap
  OBVIOUS
<1>2. PICK S : S = Char \union {Junk, Nul}
  OBVIOUS
<1>3. /\ gap <= rest /\ rest <= end /\ pos <= gap + (end - rest) /\ gs \in Nat
      /\ mem \in [0 .. end - 1 -> S]
      /\ \A i \in 0 .. end - 1 : i < gap \/ i >= rest => mem[i] \in Char
      /\ b.mem = mem /\ b.gap = gap /\ b.rest = rest /\ b.end = end
  BY <1>1, <1>2, Parts
<1>4. TextPtr(b, pos) = IF pos >= gap THEN pos + gs ELSE pos
  BY <1>1, <1>3 DEF TextPtr
<1>5. CASE pos = gap
  <2>1. m = b
    BY <1>1, <1>3, <1>4, <1>5 DEF SlideGap
  <2>2. QED
    BY <1>3, <1>5, <2>1 DEF SameText
<1>6. ASSUME NEW new, NEW lo \in Nat, NEW hi \in Nat, NEW by \in Int,
             \/ pos < gap /\ lo = pos + gs /\ hi = rest /\ by = gs
             \/ pos > gap /\ lo = gap /\ hi = pos /\ by = -gs,
             new = Moved(mem, lo, hi, by),
             m = [mem |-> new, gap |-> pos, rest |-> pos + gs, end |-> end]
      PROVE  /\ WellFormed(m) /\ SameText(b, m)
             /\ m.gap = pos /\ m.rest - m.gap = b.rest - b.gap
  <2> HIDE DEF m
  <2>c. /\ pos < gap => lo = pos + gs /\ hi = rest /\ by = gs
        /\ pos >= gap => pos > gap /\ lo = gap /\ hi = pos /\ by = -gs
        /\ rest = gap + gs
    BY <1>1, <1>6
  <2>d. m.mem = new /\ m.gap = pos /\ m.rest = pos + gs /\ m.end = end
    BY <1>6
  <2>e. m \in [mem : [0 .. end - 1 -> S] \union {new}, gap : Nat, rest : Nat, end : Nat]
    BY <1>3, <1>6
  <2>1. hi <= end /\ by <= lo /\ hi - by <= end
    BY <1>1, <1>3, <1>6
  <2>2. /\ \A i \in 0 .. end - 1 : lo <= i /\ i < hi => new[i] = mem[i - by]
        /\ \A i \in 0 .. end - 1 : ~(lo <= i /\ i < hi) => new[i] = mem[i]
        /\ new = [i \in 0 .. end - 1 |-> new[i]]
    BY <1>3, <1>6 DEF Moved
  <2>a. \A i \in 0 .. end - 1 : lo <= i /\ i < hi => i - by \in 0 .. end - 1
    BY <1>3, <1>6, <2>1
  <2>b. \A i \in 0 .. end - 1 : new[i] \in S
    BY <1>3, <2>2, <2>a
  <2>3. \A i \in 0 .. end - 1 : i < pos \/ i >= pos + gs => new[i] \in Char
    <3> SUFFICES ASSUME NEW i \in 0 .. end - 1, i < pos \/ i >= pos + gs
                 PROVE  new[i] \in Char
      OBVIOUS
    <3>1. CASE lo <= i /\ i < hi
      <4>1. i - by \in 0 .. end - 1 /\ (i - by < gap \/ i - by >= rest)
        BY <1>1, <1>3, <1>6, <3>1
      <4>2. QED
        BY <1>3, <2>2, <3>1, <4>1
    <3>2. CASE ~(lo <= i /\ i < hi)
      <4>1. i < gap \/ i >= rest
        BY <1>1, <1>3, <1>6, <3>2
      <4>2. QED
        BY <1>3, <2>2, <3>2, <4>1
    <3>3. QED
      BY <3>1, <3>2
  <2>4. WellFormed(m)
    <3>1. new \in [0 .. end - 1 -> S]
      BY <2>2, <2>b
    <3>2. m \in [mem : [0 .. m.end - 1 -> S], gap : Nat, rest : Nat, end : Nat]
      BY <2>d, <2>e, <3>1
    <3>3. m.gap <= m.rest /\ m.rest <= m.end
      BY <1>3, <2>c, <2>d
    <3>4. QED
      BY <1>2, <2>3, <2>d, <3>2, <3>3 DEF WellFormed
  <2>5. TextLength(m) = TextLength(b) /\ TextLength(b) = gap + (end - rest)
    BY <1>1, <1>3, <1>6 DEF TextLength
  <2>6. ASSUME NEW i \in 0 .. TextLength(b) - 1
        PROVE  m.mem[TextPtr(m, i)] = b.mem[TextPtr(b, i)]
    <3>1. /\ m.mem = new /\ b.mem = mem
          /\ i \in 0 .. end - 1 /\ i + gs \in 0 .. end - 1
          /\ i \in Nat /\ gs \in Nat
      BY <1>1, <1>3, <2>5, <2>c, <2>d
    <3>a. /\ i >= pos => TextPtr(m, i) = i + gs
          /\ i < pos => TextPtr(m, i) = i
          /\ i >= gap => TextPtr(b, i) = i + gs
          /\ i < gap => TextPtr(b, i) = i
      BY <1>3, <2>c, <2>d, <3>1 DEF TextPtr
    <3>2. CASE i < pos /\ i < gap
      <4>1. TextPtr(m, i) = i /\ TextPtr(b, i) = i /\ ~(lo <= i /\ i < hi)
        BY <2>c, <3>1, <3>a, <3>2
      <4>2. QED
        BY <2>2, <3>1, <4>1
    <3>3. CASE i < pos /\ i >= gap
      <4>1. /\ TextPtr(m, i) = i /\ TextPtr(b, i) = i + gs
            /\ lo <= i /\ i < hi /\ i - by = i + gs
        BY <2>c, <3>1, <3>a, <3>3
      <4>2. QED
        BY <2>2, <3>1, <4>1
    <3>4. CASE i >= pos /\ i < gap
      <4>1. PICK j \in 0 .. end - 1 : j = i + gs
        BY <3>1
      <4>2. /\ TextPtr(m, i) = j /\ TextPtr(b, i) = i
            /\ lo <= j /\ j < hi /\ j - by = i
        BY <2>c, <3>1, <3>a, <3>4, <4>1
      <4>3. QED
        BY <2>2, <3>1, <4>2, SMTT(30)
    <3>5. CASE i >= pos /\ i >= gap
      <4>1. PICK j \in 0 .. end - 1 : j = i + gs
        BY <3>1
      <4>2. TextPtr(m, i) = j /\ TextPtr(b, i) = j /\ ~(lo <= j /\ j < hi)
        BY <2>c, <3>1, <3>a, <3>5, <4>1
      <4>3. QED
        BY <2>2, <3>1, <4>2
    <3>6. QED
      BY <1>3, <2>5, <3>2, <3>3, <3>4, <3>5
  <2>7. QED
    BY <1>1, <1>3, <1>6, <2>4, <2>5, <2>6 DEF SameText
<1>7. CASE pos < gap
  <2>1. m = [mem |-> Moved(mem, pos + gs, rest, gs), gap |-> pos,
             rest |-> pos + gs, end |-> end]
    <3>1. TextPtr(b, pos) = pos /\ pos # rest
      BY <1>1, <1>3, <1>4, <1>7
    <3>2. m = Buf(Moved(mem, pos + gs, rest, gs), pos, pos + gs, end)
      BY <1>1, <1>3, <1>7, <3>1 DEF SlideGap
    <3>3. QED
      BY <3>2 DEF Buf
  <2>2. QED
    BY <1>1, <1>3, <1>6, <1>7, <2>1
<1>8. CASE pos > gap
  <2>1. m = [mem |-> Moved(mem, gap, pos, -gs), gap |-> pos,
             rest |-> pos + gs, end |-> end]
    <3>1. /\ TextPtr(b, pos) = pos + gs /\ pos + gs # rest /\ ~(pos + gs < gap)
          /\ pos + gs - gs = pos
      BY <1>1, <1>3, <1>4, <1>8
    <3>2. m = Buf(Moved(mem, gap, pos, -gs), pos, pos + gs, end)
      BY <1>1, <1>3, <1>8, <3>1 DEF SlideGap
    <3>3. QED
      BY <3>2 DEF Buf
  <2>2. QED
    BY <1>1, <1>3, <1>6, <1>8, <2>1
<1>9. QED
  BY <1>5, <1>7, <1>8

\* Growing the gap keeps the text and gives at least the room asked for.
LEMMA GrowGapKeepsText ==
  ASSUME NEW b, WellFormed(b), NEW pos \in 0 .. TextLength(b), NEW minsize \in Int,
         minsize > b.rest - b.gap
  PROVE  LET m == GrowGap(b, pos, minsize)
         IN  /\ WellFormed(m) /\ SameText(b, m)
             /\ m.gap = pos /\ m.rest - m.gap >= minsize
<1> DEFINE m == GrowGap(b, pos, minsize)
           gs == b.rest - b.gap
           size == IF gs + MinText > minsize THEN gs + MinText ELSE minsize
           newsize == b.end - gs + size
<1>a. /\ b.gap \in Nat /\ b.rest \in Nat /\ b.end \in Nat /\ gs \in Nat
      /\ b.gap <= b.rest /\ b.rest <= b.end /\ pos \in Nat
      /\ pos <= b.gap + (b.end - b.rest)
      /\ TextLength(b) = b.end - gs
  BY DEF WellFormed, TextLength
<1>b. size \in Nat /\ size >= minsize /\ newsize \in Nat /\ pos + size <= newsize
  BY <1>a, MinTextAssumption
<1>1. /\ m.gap = pos /\ m.rest = pos + size /\ m.end = newsize
      /\ m.mem = [i \in 0 .. newsize - 1 |->
                    IF i < pos THEN b.mem[TextPtr(b, i)]
                    ELSE IF i < pos + size THEN Junk
                    ELSE b.mem[TextPtr(b, i - size)]]
      /\ m = [mem |-> m.mem, gap |-> m.gap, rest |-> m.rest, end |-> m.end]
  BY DEF GrowGap, Buf
<1> HIDE DEF m, size, newsize
<1>2. TextLength(m) = TextLength(b)
  BY <1>1, <1>a, <1>b DEF TextLength, newsize, gs
<1>3. \A i \in 0 .. newsize - 1 :
        m.mem[i] = IF i < pos THEN b.mem[TextPtr(b, i)]
                   ELSE IF i < pos + size THEN Junk
                   ELSE b.mem[TextPtr(b, i - size)]
  BY <1>1
<1>4. newsize = TextLength(b) + size
  BY <1>a, <1>b DEF newsize
<1>5. \A i \in 0 .. newsize - 1 : m.mem[i] \in Char \/ (i >= pos /\ i < pos + size /\ m.mem[i] = Junk)
  <2> SUFFICES ASSUME NEW i \in 0 .. newsize - 1
               PROVE  m.mem[i] \in Char \/ (i >= pos /\ i < pos + size /\ m.mem[i] = Junk)
    OBVIOUS
  <2>1. CASE i < pos
    <3>1. i \in 0 .. TextLength(b) - 1
      BY <2>1, <1>a, <1>4
    <3>2. QED
      BY <2>1, <3>1, <1>3, TextPtrInText
  <2>2. CASE i >= pos /\ i < pos + size
    BY <2>2, <1>3, <1>a, <1>b
  <2>3. CASE i >= pos + size
    <3>1. i - size \in 0 .. TextLength(b) - 1
      BY <2>3, <1>a, <1>b, <1>4
    <3>2. m.mem[i] = b.mem[TextPtr(b, i - size)]
      BY <2>3, <1>3, <1>a, <1>b
    <3>3. QED
      BY <3>1, <3>2, TextPtrInText
  <2>4. QED
    BY <2>1, <2>2, <2>3, <1>a, <1>b
<1>6. WellFormed(m)
  <2>1. m.mem \in [0 .. m.end - 1 -> Char \union {Junk, Nul}]
    BY <1>1, <1>5
  <2>2. m \in [mem : [0 .. m.end - 1 -> Char \union {Junk, Nul}],
             gap : Nat, rest : Nat, end : Nat]
    <3>1. m.gap \in Nat /\ m.rest \in Nat /\ m.end \in Nat
      BY <1>1, <1>a, <1>b
    <3>2. QED
      BY <1>1, <2>1, <3>1
  <2>3. m.gap <= m.rest /\ m.rest <= m.end
    BY <1>1, <1>b
  <2>4. \A i \in 0 .. m.end - 1 : i < m.gap \/ i >= m.rest => m.mem[i] \in Char
    BY <1>1, <1>5, <1>a, <1>b
  <2>5. QED
    BY <2>2, <2>3, <2>4 DEF WellFormed
<1>7. \A i \in 0 .. TextLength(b) - 1 : m.mem[TextPtr(m, i)] = b.mem[TextPtr(b, i)]
  <2> SUFFICES ASSUME NEW i \in 0 .. TextLength(b) - 1
               PROVE  m.mem[TextPtr(m, i)] = b.mem[TextPtr(b, i)]
    OBVIOUS
  <2>1. CASE i < pos
    <3>1. TextPtr(m, i) = i /\ i \in 0 .. newsize - 1
      BY <2>1, <1>1, <1>a, <1>b, <1>4, SMTT(30) DEF TextPtr
    <3>2. QED
      BY <2>1, <3>1, <1>3
  <2>2. CASE i >= pos
    <3>a. i \in Nat /\ m.rest - m.gap = size
      BY <1>1, <1>a, <1>b
    <3>b. TextPtr(m, i) = i + (m.rest - m.gap)
      BY <2>2, <1>1 DEF TextPtr
    <3>1. TextPtr(m, i) = i + size /\ i + size \in 0 .. newsize - 1
      BY <3>a, <3>b, <1>a, <1>b, <1>4
    <3>2. ~(i + size < pos) /\ ~(i + size < pos + size) /\ (i + size) - size = i
      BY <2>2, <1>a, <1>b
    <3>3. QED
      BY <3>1, <3>2, <1>3
  <2>3. QED
    BY <2>1, <2>2, <1>a
<1>8. SameText(b, m)
  BY <1>2, <1>7 DEF SameText
<1>9. m.gap = pos /\ m.rest - m.gap >= minsize
  BY <1>1, <1>a, <1>b
<1>10. QED
  BY <1>6, <1>8, <1>9 DEF m

\* move_gap, whichever way it goes.
LEMMA MoveGapKeepsText ==
  ASSUME NEW b, WellFormed(b), NEW pos \in 0 .. TextLength(b), NEW minsize \in Int
  PROVE  LET m == MoveGap(b, pos, minsize)
         IN  /\ WellFormed(m) /\ SameText(b, m)
             /\ m.gap = pos /\ m.rest - m.gap >= minsize
<1>1. /\ pos \in Nat /\ pos <= TextLength(b)
      /\ b.gap \in Nat /\ b.rest \in Nat /\ b.end \in Nat
      /\ b = [mem |-> b.mem, gap |-> b.gap, rest |-> b.rest, end |-> b.end]
  BY Parts
<1>2. CASE minsize <= b.rest - b.gap
  <2>1. MoveGap(b, pos, minsize) = SlideGap(b, pos)
    BY <1>2 DEF MoveGap
  <2>2. /\ WellFormed(SlideGap(b, pos)) /\ SameText(b, SlideGap(b, pos))
        /\ SlideGap(b, pos).gap = pos
        /\ SlideGap(b, pos).rest - SlideGap(b, pos).gap = b.rest - b.gap
    BY <1>1, SlideGapKeepsText
  <2>3. QED
    BY <1>1, <1>2, <2>1, <2>2
<1>3. CASE minsize > b.rest - b.gap
  <2>1. MoveGap(b, pos, minsize) = GrowGap(b, pos, minsize)
    BY <1>1, <1>3 DEF MoveGap
  <2>2. QED
    BY <1>3, <2>1, GrowGapKeepsText
<1>4. QED
  BY <1>1, <1>2, <1>3

-----------------------------------------------------------------------------
(* replace and close_gap on a well-formed buffer.                          *)

\* Two buffers with the same characters in the same places hold the same text.
LEMMA SameTextIsSame ==
  ASSUME NEW b, NEW m, WellFormed(b), WellFormed(m), SameText(b, m)
  PROVE  Text(m) = Text(b)
<1>1. TextLength(b) \in Nat
  BY TextIsText
<1>2. \A i \in 1 .. TextLength(b) : m.mem[TextPtr(m, i - 1)] = b.mem[TextPtr(b, i - 1)]
  BY <1>1 DEF SameText
<1>3. QED
  BY <1>1, <1>2 DEF Text, SameText

\* The text of a buffer, run by run: what lies before the gap, and after it.
LEMMA TextByRuns ==
  ASSUME NEW b, WellFormed(b)
  PROVE  /\ Len(Text(b)) = b.gap + (b.end - b.rest)
         /\ \A i \in 1 .. b.gap : Text(b)[i] = b.mem[i - 1]
         /\ \A i \in 1 .. b.end - b.rest : Text(b)[b.gap + i] = b.mem[b.rest + i - 1]
<1>1. /\ b.gap \in Nat /\ b.rest \in Nat /\ b.end \in Nat
      /\ b.gap <= b.rest /\ b.rest <= b.end
      /\ TextLength(b) = b.gap + (b.end - b.rest)
      /\ TextLength(b) \in Nat
      /\ Len(Text(b)) = TextLength(b)
      /\ \A i \in 1 .. TextLength(b) : Text(b)[i] = b.mem[TextPtr(b, i - 1)]
  BY Parts, TextIsText
<1>2. ASSUME NEW i \in 1 .. b.gap
      PROVE  Text(b)[i] = b.mem[i - 1]
  <2>1. i \in 1 .. TextLength(b) /\ TextPtr(b, i - 1) = i - 1
    BY <1>1 DEF TextPtr
  <2>2. QED
    BY <1>1, <2>1
<1>3. ASSUME NEW i \in 1 .. b.end - b.rest
      PROVE  Text(b)[b.gap + i] = b.mem[b.rest + i - 1]
  <2>1. PICK j \in 1 .. TextLength(b) : j = b.gap + i
    BY <1>1
  <2>2. TextPtr(b, j - 1) = b.rest + i - 1
    BY <1>1, <2>1 DEF TextPtr
  <2>3. QED
    BY <1>1, <2>1, <2>2
<1>4. QED
  BY <1>1, <1>2, <1>3

\* The memory agrees with text u: up to character n from its start, and behind
\* it from offset r on.
Holds(new, r, u, n) ==
  /\ \A i \in 1 .. n : u[i] = new[i - 1]
  /\ \A i \in 1 .. Len(u) - n : u[n + i] = new[r + i - 1]

\* The same, for a buffer whose four fields have names.
LEMMA TextByNamedRuns ==
  ASSUME NEW b, WellFormed(b), NEW mem, NEW gap, NEW rest, NEW end,
         b = Buf(mem, gap, rest, end)
  PROVE  /\ Len(Text(b)) = gap + (end - rest)
         /\ Holds(mem, rest, Text(b), gap)
<1>1. b.mem = mem /\ b.gap = gap /\ b.rest = rest /\ b.end = end
  BY DEF Buf
<1>2. gap \in Nat /\ rest \in Nat /\ end \in Nat /\ (gap + (end - rest)) - gap = end - rest
  BY <1>1, Parts
<1>3. /\ Len(Text(b)) = gap + (end - rest)
      /\ \A i \in 1 .. gap : Text(b)[i] = mem[i - 1]
      /\ \A i \in 1 .. end - rest : Text(b)[gap + i] = mem[rest + i - 1]
  BY <1>1, TextByRuns
<1>4. QED
  BY <1>2, <1>3 DEF Holds

\* s is t with the run of len characters at pos replaced by buf, character by
\* character.
SpliceOK(s, t, pos, len, buf) ==
  /\ s \in Seq(Char)
  /\ Len(s) = Len(t) - len + Len(buf)
  /\ \A i \in 1 .. Len(t) - len + Len(buf) :
       /\ i <= pos => s[i] = t[i]
       /\ pos < i /\ i <= pos + Len(buf) => s[i] = buf[i - pos]
       /\ pos + Len(buf) < i => s[i] = t[i - Len(buf) + len]

\* That is what the abstract replacement does.
LEMMA SpliceAt ==
  ASSUME NEW t \in Seq(Char), NEW buf \in Seq(Char), NEW pos \in Nat, NEW len \in Nat,
         pos + len <= Len(t)
  PROVE  SpliceOK(T!Splice(t, pos, len, buf), t, pos, len, buf)
<1>1. PICK l : l = SubSeq(t, 1, pos)
  OBVIOUS
<1>2. PICK r : r = SubSeq(t, pos + len + 1, Len(t))
  OBVIOUS
<1>3. PICK s : s = T!Splice(t, pos, len, buf)
  OBVIOUS
<1>4. /\ l \in Seq(Char) /\ Len(l) = pos
      /\ \A i \in 1 .. pos : l[i] = t[i]
  BY <1>1
<1>5. /\ r \in Seq(Char) /\ Len(r) = Len(t) - (pos + len)
      /\ \A i \in 1 .. Len(t) - (pos + len) : r[i] = t[i + pos + len]
  BY <1>2
<1>6. s = l \o buf \o r
  BY <1>1, <1>2, <1>3 DEF T!Splice
<1>7. PICK lb : lb = l \o buf
  OBVIOUS
<1>8. /\ lb \in Seq(Char) /\ Len(lb) = pos + Len(buf)
      /\ \A i \in 1 .. pos + Len(buf) :
           /\ i <= pos => lb[i] = l[i]
           /\ i > pos => lb[i] = buf[i - pos]
  <2>1. /\ lb \in Seq(Char) /\ Len(lb) = Len(l) + Len(buf)
        /\ \A i \in 1 .. Len(l) + Len(buf) :
             lb[i] = IF i <= Len(l) THEN l[i] ELSE buf[i - Len(l)]
    BY <1>4, <1>7, ConcatProperties
  <2>2. QED
    BY <1>4, <2>1
<1>9. /\ s \in Seq(Char) /\ Len(s) = pos + Len(buf) + (Len(t) - (pos + len))
      /\ \A i \in 1 .. pos + Len(buf) + (Len(t) - (pos + len)) :
           /\ i <= pos + Len(buf) => s[i] = lb[i]
           /\ i > pos + Len(buf) => s[i] = r[i - (pos + Len(buf))]
  BY <1>5, <1>6, <1>7, <1>8, SMTT(30)
<1>10. Len(s) = Len(t) - len + Len(buf)
  BY <1>9
<1>11. ASSUME NEW i \in 1 .. Len(t) - len + Len(buf)
       PROVE  /\ i <= pos => s[i] = t[i]
              /\ pos < i /\ i <= pos + Len(buf) => s[i] = buf[i - pos]
              /\ pos + Len(buf) < i => s[i] = t[i - Len(buf) + len]
  <2>1. ASSUME i <= pos
        PROVE  s[i] = t[i]
    <3>1. /\ i \in 1 .. pos /\ i \in 1 .. pos + Len(buf)
          /\ i \in 1 .. pos + Len(buf) + (Len(t) - (pos + len))
          /\ i <= pos + Len(buf)
      BY <2>1
    <3>2. s[i] = lb[i]
      BY <1>9, <3>1
    <3>3. lb[i] = l[i]
      BY <1>8, <2>1, <3>1
    <3>4. l[i] = t[i]
      BY <1>4, <3>1
    <3>5. QED
      BY <3>2, <3>3, <3>4
  <2>2. ASSUME pos < i, i <= pos + Len(buf)
        PROVE  s[i] = buf[i - pos]
    <3>1. /\ i \in 1 .. pos + Len(buf) /\ i > pos
          /\ i \in 1 .. pos + Len(buf) + (Len(t) - (pos + len))
      BY <2>2
    <3>2. s[i] = lb[i]
      BY <1>9, <2>2, <3>1
    <3>3. lb[i] = buf[i - pos]
      BY <1>8, <3>1
    <3>4. QED
      BY <3>2, <3>3
  <2>3. ASSUME pos + Len(buf) < i
        PROVE  s[i] = t[i - Len(buf) + len]
    <3>a. Len(t) \in Nat /\ Len(buf) \in Nat /\ i \in Int
      OBVIOUS
    <3>1. PICK j \in 1 .. Len(t) - (pos + len) : j = i - (pos + Len(buf))
      <4>1. i - (pos + Len(buf)) \in 1 .. Len(t) - (pos + len)
        BY <2>3, <3>a
      <4>2. QED
        BY <4>1
    <3>b. i \in 1 .. pos + Len(buf) + (Len(t) - (pos + len)) /\ i > pos + Len(buf)
      BY <2>3, <3>a
    <3>c. s[i] = r[i - (pos + Len(buf))]
      BY <1>9, <3>b
    <3>2. s[i] = r[j] /\ r[j] = t[j + pos + len]
      BY <1>5, <3>c, <3>1
    <3>3. j + pos + len = i - Len(buf) + len
      BY <3>1
    <3>4. QED
      BY <3>2, <3>3
  <2>4. QED
    BY <2>1, <2>2, <2>3
<1>12. QED
  BY <1>3, <1>9, <1>10, <1>11 DEF SpliceOK

\* The memory still has the characters of t outside the run of len characters
\* at pos, and has buf in the place of that run.
HoldsSplice(new, r, t, pos, len, buf) ==
  /\ \A i \in 1 .. pos : t[i] = new[i - 1]
  /\ \A i \in 1 .. Len(buf) : buf[i] = new[pos + i - 1]
  /\ \A i \in 1 .. Len(t) - (pos + len) : t[pos + len + i] = new[r + i - 1]

\* All there is to know to see that text u is a splice of t: both lie in the
\* memory, u up to pos + n and from r on, t with its run cut out.
Spliced(new, r, t, u, pos, len, buf, n, k) ==
  /\ t \in Seq(Char) /\ u \in Seq(Char)
  /\ Len(t) = pos + len + k /\ Len(buf) = n /\ Len(u) = pos + n + k
  /\ HoldsSplice(new, r, t, pos, len, buf)
  /\ Holds(new, r, u, pos + n)

\* A text that holds what a splice makes is that splice.
LEMMA SpliceByRunsOfNats ==
  ASSUME NEW t \in Seq(Char), NEW buf \in Seq(Char), NEW u \in Seq(Char),
         NEW pos \in Nat, NEW len \in Nat, NEW n \in Nat, NEW k \in Nat,
         NEW new, NEW r \in Nat,
         Len(t) = pos + len + k, Len(buf) = n, Len(u) = pos + n + k,
         HoldsSplice(new, r, t, pos, len, buf), Holds(new, r, u, pos + n)
  PROVE  u = T!Splice(t, pos, len, buf)
<1>1. PICK s : s = T!Splice(t, pos, len, buf)
  OBVIOUS
<1>2. pos + len <= Len(t)
  OBVIOUS
<1>3. SpliceOK(s, t, pos, len, buf)
  BY <1>1, <1>2, SpliceAt
<1>4. s \in Seq(Char) /\ Len(s) = Len(t) - len + Len(buf)
  BY <1>3 DEF SpliceOK
<1>5. \A i \in 1 .. Len(t) - len + Len(buf) :
        /\ i <= pos => s[i] = t[i]
        /\ pos < i /\ i <= pos + Len(buf) => s[i] = buf[i - pos]
        /\ pos + Len(buf) < i => s[i] = t[i - Len(buf) + len]
  BY <1>3 DEF SpliceOK
<1>6. Len(s) = Len(u) /\ Len(t) - len + Len(buf) = Len(u) /\ Len(u) = pos + n + k
  BY <1>4
<1>7. /\ \A i \in 1 .. pos : t[i] = new[i - 1]
      /\ \A i \in 1 .. n : buf[i] = new[pos + i - 1]
      /\ \A i \in 1 .. k : t[pos + len + i] = new[r + i - 1]
      /\ \A i \in 1 .. pos + n : u[i] = new[i - 1]
      /\ \A i \in 1 .. k : u[pos + n + i] = new[r + i - 1]
  <2>1. Len(t) - (pos + len) = k /\ Len(u) - (pos + n) = k
    OBVIOUS
  <2>2. QED
    BY <2>1 DEF Holds, HoldsSplice
<1>8. ASSUME NEW i \in 1 .. Len(u)
      PROVE  u[i] = s[i]
  <2>a. i \in 1 .. Len(t) - len + Len(buf) /\ i \in Int /\ i <= pos + n + k
    BY <1>6
  <2>1. CASE i <= pos
    <3>1. u[i] = new[i - 1] /\ t[i] = new[i - 1]
      BY <1>7, <2>1, <2>a
    <3>2. s[i] = t[i]
      BY <1>5, <2>1, <2>a
    <3>3. QED
      BY <3>1, <3>2
  <2>2. CASE pos < i /\ i <= pos + n
    <3>1. PICK j \in 1 .. n : j = i - pos
      BY <2>2, <2>a
    <3>a. pos + j - 1 = i - 1
      BY <2>a, <3>1
    <3>2. buf[j] = new[pos + j - 1]
      BY <1>7, <3>1
    <3>3. u[i] = new[i - 1]
      BY <1>7, <2>2, <2>a
    <3>4. s[i] = buf[j]
      BY <1>5, <2>2, <2>a, <3>1
    <3>5. QED
      BY <3>a, <3>2, <3>3, <3>4
  <2>3. CASE pos + n < i
    <3>1. PICK j \in 1 .. k : j = i - (pos + n)
      BY <2>3, <2>a
    <3>2. pos + n + j = i /\ pos + len + j = i - Len(buf) + len
      BY <2>a, <3>1
    <3>3. u[pos + n + j] = new[r + j - 1] /\ t[pos + len + j] = new[r + j - 1]
      BY <1>7, <3>1
    <3>4. s[i] = t[i - Len(buf) + len]
      BY <1>5, <2>3, <2>a
    <3>5. QED
      BY <3>2, <3>3, <3>4
  <2>4. QED
    BY <2>1, <2>2, <2>3, <2>a
<1>9. QED
  BY <1>1, <1>4, <1>6, <1>8, SeqEqual

\* A memory that has the splice of t in two runs holds the splice of t.
LEMMA SpliceByRuns ==
  ASSUME NEW t, NEW buf \in Seq(Char), NEW u,
         NEW pos \in Nat, NEW len \in Nat, NEW n \in Nat, NEW k \in Nat,
         NEW new, NEW r \in Nat, Spliced(new, r, t, u, pos, len, buf, n, k)
  PROVE  u = T!Splice(t, pos, len, buf)
  BY SpliceByRunsOfNats DEF Spliced

\* The hypotheses of EraseAtGap and CopyIntoGap under one name each, so that
\* the provers instantiate them in one go.
Erased(mem, gap, rest, end, pos, len, r, k, b, m, buf) ==
  /\ gap \in Nat /\ rest \in Nat /\ end \in Nat
  /\ pos \in Nat /\ len \in Nat /\ r \in Nat /\ k \in Nat
  /\ b = Buf(mem, gap, rest, end) /\ WellFormed(b) /\ m = Buf(mem, pos, r, end)
  /\ buf \in Seq(Char) /\ Len(buf) = 0
  /\ pos <= gap /\ gap <= pos + len /\ r + gap = rest + len + pos /\ r + k = end

\* A buffer and the one in which memcpy has put a text of n characters at pos.
Copied(mem, rest, end, pos, len, n, k, g, buf, new, m) ==
  /\ rest \in Nat /\ end \in Nat /\ pos \in Nat /\ len \in Nat /\ n \in Nat /\ k \in Nat
  /\ g = Buf(mem, pos + len, rest, end) /\ WellFormed(g)
  /\ buf \in Seq(Char) /\ Len(buf) = n
  /\ pos + n <= rest /\ rest + k = end
  /\ new = [i \in DOMAIN mem |-> IF i \in pos .. pos + n - 1
                                 THEN buf[i - pos + 1] ELSE mem[i]]
  /\ m = Buf(new, pos + n, rest, end)

\* replace at the edge of the gap: nothing moves, the gap takes the run.
LEMMA EraseAtGap ==
  ASSUME NEW mem, NEW gap, NEW rest, NEW end, NEW pos, NEW len, NEW r, NEW k,
         NEW b, NEW m, NEW buf, Erased(mem, gap, rest, end, pos, len, r, k, b, m, buf)
  PROVE  /\ WellFormed(m)
         /\ Text(m) = T!Splice(Text(b), pos, len, buf)
<1> SUFFICES
      ASSUME gap \in Nat, rest \in Nat, end \in Nat, pos \in Nat, len \in Nat,
             r \in Nat, k \in Nat, b = Buf(mem, gap, rest, end), WellFormed(b),
             m = Buf(mem, pos, r, end), buf \in Seq(Char), Len(buf) = 0,
             pos <= gap, gap <= pos + len, r + gap = rest + len + pos, r + k = end
      PROVE  /\ WellFormed(m)
             /\ Text(m) = T!Splice(Text(b), pos, len, buf)
  BY DEF Erased
<1>1. /\ b.mem = mem /\ b.gap = gap /\ b.rest = rest /\ b.end = end
      /\ m.mem = mem /\ m.gap = pos /\ m.rest = r /\ m.end = end
  BY DEF Buf
<1>2. /\ gap <= rest /\ rest <= end
      /\ mem \in [0 .. end - 1 -> Char \union {Junk, Nul}]
      /\ \A i \in 0 .. end - 1 : i < gap \/ i >= rest => mem[i] \in Char
  BY <1>1, Parts, SMTT(30)
<1>3. pos <= r /\ rest <= r /\ r <= end
  BY <1>2
<1>4. WellFormed(m)
  <2>1. m \in [mem : [0 .. end - 1 -> Char \union {Junk, Nul}],
               gap : Nat, rest : Nat, end : Nat]
    BY <1>2 DEF Buf
  <2>2. \A i \in 0 .. end - 1 : i < pos \/ i >= r => mem[i] \in Char
    BY <1>2, <1>3
  <2>3. QED
    BY <1>1, <1>3, <2>1, <2>2 DEF WellFormed
<1>5. PICK t, u : t = Text(b) /\ u = Text(m)
  OBVIOUS
<1>6. /\ t \in Seq(Char) /\ Len(t) = gap + (end - rest)
      /\ u \in Seq(Char) /\ Len(u) = pos + (end - r)
  BY <1>1, <1>4, <1>5, TextIsText, TextByRuns
<1>7. /\ \A i \in 1 .. gap : t[i] = mem[i - 1]
      /\ \A i \in 1 .. end - rest : t[gap + i] = mem[rest + i - 1]
  <2>1. Holds(mem, rest, t, gap) /\ Len(t) - gap = end - rest
    BY <1>5, <1>6, TextByNamedRuns
  <2>2. QED
    BY <2>1 DEF Holds
<1>8. Holds(mem, r, u, pos)
  BY <1>4, <1>5, TextByNamedRuns
<1>a. PICK n \in Nat : n = Len(buf) /\ n = 0
  OBVIOUS
<1>9. /\ Len(t) = pos + len + k /\ Len(u) = pos + n + k
      /\ Len(t) - (pos + len) = k /\ Len(u) - (pos + n) = k /\ end - r = k
      /\ pos + n = pos
  BY <1>6, <1>a
<1>10. HoldsSplice(mem, r, t, pos, len, buf)
  <2>1. \A i \in 1 .. pos : t[i] = mem[i - 1]
    BY <1>7
  <2>2. ASSUME NEW i \in 1 .. k
        PROVE  t[pos + len + i] = mem[r + i - 1]
    <3>1. PICK j \in 1 .. end - rest : j = pos + len + i - gap
      <4>1. pos + len + i - gap \in 1 .. end - rest
        BY <1>2, <1>3
      <4>2. QED
        BY <4>1
    <3>2. gap + j = pos + len + i /\ rest + j - 1 = r + i - 1
      BY <3>1
    <3>3. t[gap + j] = mem[rest + j - 1]
      BY <1>7, <3>1
    <3>4. QED
      BY <3>2, <3>3
  <2>3. QED
    BY <1>9, <2>1, <2>2 DEF HoldsSplice
<1>11. Holds(mem, r, u, pos + n)
  BY <1>8, <1>9
<1>b. Spliced(mem, r, t, u, pos, len, buf, n, k)
  BY <1>6, <1>a, <1>9, <1>10, <1>11 DEF Spliced
<1>12. u = T!Splice(t, pos, len, buf)
  BY <1>a, <1>b, SpliceByRuns
<1>13. QED
  BY <1>4, <1>5, <1>12

\* replace through the gap: the gap is moved to the end of the run, and buf is
\* copied over the run and into the gap.
LEMMA CopyIntoGap ==
  ASSUME NEW mem, NEW rest, NEW end, NEW pos, NEW len, NEW n, NEW k,
         NEW g, NEW buf, NEW new, NEW m,
         Copied(mem, rest, end, pos, len, n, k, g, buf, new, m)
  PROVE  /\ WellFormed(m)
         /\ Text(m) = T!Splice(Text(g), pos, len, buf)
<1> SUFFICES
      ASSUME rest \in Nat, end \in Nat, pos \in Nat, len \in Nat, n \in Nat, k \in Nat,
             g = Buf(mem, pos + len, rest, end), WellFormed(g),
             buf \in Seq(Char), Len(buf) = n, pos + n <= rest, rest + k = end,
             new = [i \in DOMAIN mem |-> IF i \in pos .. pos + n - 1
                                         THEN buf[i - pos + 1] ELSE mem[i]],
             m = Buf(new, pos + n, rest, end)
      PROVE  /\ WellFormed(m)
             /\ Text(m) = T!Splice(Text(g), pos, len, buf)
  BY DEF Copied
<1>1. /\ g.mem = mem /\ g.gap = pos + len /\ g.rest = rest /\ g.end = end
      /\ m.mem = new /\ m.gap = pos + n /\ m.rest = rest /\ m.end = end
  BY DEF Buf
<1>2. /\ pos + len <= rest /\ rest <= end
      /\ mem \in [0 .. end - 1 -> Char \union {Junk, Nul}]
      /\ \A i \in 0 .. end - 1 : i < pos + len \/ i >= rest => mem[i] \in Char
  BY <1>1, Parts, SMTT(30)
<1>3. /\ DOMAIN mem = 0 .. end - 1
      /\ \A i \in 0 .. end - 1 :
           /\ pos <= i /\ i < pos + n => new[i] = buf[i - pos + 1]
           /\ ~(pos <= i /\ i < pos + n) => new[i] = mem[i]
      /\ new = [i \in 0 .. end - 1 |-> new[i]]
  BY <1>2
<1>4. \A i \in 1 .. n : buf[i] \in Char
  OBVIOUS
<1>5. \A i \in 0 .. end - 1 : pos <= i /\ i < pos + n => new[i] \in Char
  <2> SUFFICES ASSUME NEW i \in 0 .. end - 1, pos <= i, i < pos + n
               PROVE  new[i] \in Char
    OBVIOUS
  <2>1. PICK j \in 1 .. n : j = i - pos + 1
    OBVIOUS
  <2>2. QED
    BY <1>3, <1>4, <2>1
<1>6. WellFormed(m)
  <2>1. new \in [0 .. end - 1 -> Char \union {Junk, Nul}]
    BY <1>2, <1>3, <1>5
  <2>2. m \in [mem : [0 .. end - 1 -> Char \union {Junk, Nul}],
               gap : Nat, rest : Nat, end : Nat]
    BY <2>1 DEF Buf
  <2>3. \A i \in 0 .. end - 1 : i < pos + n \/ i >= rest => new[i] \in Char
    BY <1>2, <1>3, <1>5
  <2>4. m \in [mem : [0 .. m.end - 1 -> Char \union {Junk, Nul}],
               gap : Nat, rest : Nat, end : Nat]
    BY <1>1, <2>2, Zenon
  <2>5. m.gap <= m.rest /\ m.rest <= m.end
    BY <1>1, <1>2
  <2>6. \A i \in 0 .. m.end - 1 : i < m.gap \/ i >= m.rest => m.mem[i] \in Char
    BY <1>1, <2>3, Zenon
  <2>7. QED
    BY <2>4, <2>5, <2>6, Zenon DEF WellFormed
<1>7. PICK t, u : t = Text(g) /\ u = Text(m)
  OBVIOUS
<1>8. /\ t \in Seq(Char) /\ Len(t) = pos + len + (end - rest)
      /\ u \in Seq(Char) /\ Len(u) = pos + n + (end - rest)
  <2>1. t \in Seq(Char) /\ u \in Seq(Char)
    BY <1>6, <1>7, TextIsText
  <2>2. Len(t) = pos + len + (end - rest)
    BY <1>7, TextByNamedRuns
  <2>3. Len(u) = pos + n + (end - rest)
    <3>1. Len(Text(m)) = pos + n + (end - rest)
      BY <1>6, TextByNamedRuns
    <3>2. QED
      BY <1>7, <3>1
  <2>4. QED
    BY <2>1, <2>2, <2>3
<1>9. /\ Len(t) = pos + len + k /\ Len(u) = pos + n + k
      /\ Len(t) - (pos + len) = k
  BY <1>8, SMTT(30)
<1>10. Holds(mem, rest, t, pos + len) /\ Holds(new, rest, u, pos + n)
  BY <1>6, <1>7, TextByNamedRuns
<1>11. HoldsSplice(new, rest, t, pos, len, buf)
  <2>1. ASSUME NEW i \in 1 .. pos
        PROVE  t[i] = new[i - 1]
    <3>1. i \in 1 .. pos + len /\ i - 1 \in 0 .. end - 1 /\ ~(pos <= i - 1)
      BY <1>2
    <3>2. t[i] = mem[i - 1]
      BY <1>10, <3>1 DEF Holds
    <3>3. QED
      BY <1>3, <3>1, <3>2
  <2>2. ASSUME NEW i \in 1 .. n
        PROVE  buf[i] = new[pos + i - 1]
    <3>1. PICK j \in 0 .. end - 1 : j = pos + i - 1
      BY <1>2
    <3>2. pos <= j /\ j < pos + n /\ j - pos + 1 = i
      BY <3>1, SMTT(30)
    <3>3. QED
      BY <1>3, <3>1, <3>2
  <2>3. ASSUME NEW i \in 1 .. k
        PROVE  t[pos + len + i] = new[rest + i - 1]
    <3>1. PICK j \in 0 .. end - 1 : j = rest + i - 1
      BY <1>2
    <3>2. ~(j < pos + n)
      BY <3>1, SMTT(30)
    <3>3. t[pos + len + i] = mem[rest + i - 1]
      BY <1>9, <1>10 DEF Holds
    <3>4. QED
      BY <1>3, <3>1, <3>2, <3>3
  <2>4. QED
    BY <1>9, <2>1, <2>2, <2>3 DEF HoldsSplice
<1>12. u = T!Splice(t, pos, len, buf)
  <2>1. Spliced(new, rest, t, u, pos, len, buf, n, k)
    BY <1>8, <1>9, <1>10, <1>11 DEF Spliced
  <2>2. QED
    BY <2>1, SpliceByRuns
<1>13. QED
  BY <1>6, <1>7, <1>12

\* replace is the abstract replacement, on every buffer and for every run the
\* text has.
LEMMA ReplaceInReplaces ==
  ASSUME NEW b, WellFormed(b), NEW pos \in Nat, NEW len \in Nat,
         NEW buf \in Seq(Char), pos + len <= TextLength(b)
  PROVE  /\ WellFormed(ReplaceIn(b, pos, len, buf))
         /\ Text(ReplaceIn(b, pos, len, buf)) = T!Splice(Text(b), pos, len, buf)
<1>1. PICK mem, gap, rest, end :
        /\ b = Buf(mem, gap, rest, end)
        /\ b.mem = mem /\ b.gap = gap /\ b.rest = rest /\ b.end = end
        /\ gap \in Nat /\ rest \in Nat /\ end \in Nat /\ gap <= rest /\ rest <= end
        /\ pos + len <= gap + (end - rest)
  BY Parts DEF Buf
<1>2. PICK n : n = Len(buf) /\ n \in Nat
  OBVIOUS
<1>3. CASE buf = <<>> /\ pos <= gap /\ pos + len >= gap
  <2>1. PICK r : r = rest + (len - (gap - pos))
    OBVIOUS
  <2>2. PICK k : k = end - r
    OBVIOUS
  <2>3. /\ r \in Nat /\ k \in Nat /\ Len(buf) = 0 /\ gap <= pos + len
        /\ r + gap = rest + len + pos /\ r + k = end
    BY <1>1, <1>3, <2>1, <2>2
  <2>4. ReplaceIn(b, pos, len, buf) = Buf(mem, pos, r, end)
    BY <1>1, <1>3, <2>1 DEF ReplaceIn
  <2>5. QED
    <3>1. Erased(mem, gap, rest, end, pos, len, r, k, b, Buf(mem, pos, r, end), buf)
      BY <1>1, <1>3, <2>3 DEF Erased
    <3>2. QED
      BY <2>4, <3>1, EraseAtGap
<1>4. CASE ~(buf = <<>> /\ pos <= gap /\ pos + len >= gap)
  <2>1. PICK g : g = MoveGap(b, pos + len, Len(buf) - len)
    OBVIOUS
  <2>2. /\ WellFormed(g) /\ SameText(b, g) /\ g.gap = pos + len
        /\ g.rest - g.gap >= Len(buf) - len
    <3>1. pos + len \in 0 .. TextLength(b) /\ Len(buf) - len \in Int
      BY <1>2, TextIsText
    <3>2. QED
      BY <2>1, <3>1, MoveGapKeepsText
  <2>3. Text(g) = Text(b)
    BY <2>2, SameTextIsSame
  <2>4. PICK gmem, grest, gend :
          /\ gmem = g.mem /\ grest = g.rest /\ gend = g.end
          /\ g = Buf(gmem, pos + len, grest, gend)
          /\ grest \in Nat /\ gend \in Nat /\ grest <= gend
    BY <2>2, Parts DEF Buf
  <2>5. PICK k : k = gend - grest
    OBVIOUS
  <2>6. pos + n <= grest /\ k \in Nat /\ grest + k = gend
    <3>1. grest - (pos + len) >= n - len
      BY <1>2, <2>2, <2>4
    <3>2. QED
      <4>1. n \in Nat /\ grest \in Nat /\ gend \in Nat /\ grest <= gend
        BY <1>2, <2>4
      <4>2. QED
        BY <2>5, <3>1, <4>1
  <2>7. PICK new : new = [i \in DOMAIN gmem |-> IF i \in pos .. pos + n - 1
                                                THEN buf[i - pos + 1] ELSE gmem[i]]
    OBVIOUS
  <2>8. ReplaceIn(b, pos, len, buf) = Buf(new, pos + n, grest, gend)
    BY <1>1, <1>2, <1>4, <2>1, <2>4, <2>7 DEF ReplaceIn
  <2>9. QED
    <3>1. Copied(gmem, grest, gend, pos, len, n, k, g, buf, new, Buf(new, pos + n, grest, gend))
      BY <1>2, <2>2, <2>4, <2>6, <2>7 DEF Copied
    <3>2. QED
      BY <2>3, <2>8, <3>1, CopyIntoGap
<1>5. QED
  BY <1>3, <1>4

\* close_gap leaves the text alone, and ends it with a Nul inside the
\* allocation.
LEMMA CloseGapKeepsText ==
  ASSUME NEW b, WellFormed(b)
  PROVE  /\ WellFormed(CloseGap(b))
         /\ Text(CloseGap(b)) = Text(b)
<1>1. PICK len : len = TextLength(b) /\ len \in Nat
  BY TextIsText
<1>2. PICK g : g = MoveGap(b, len, 1)
  OBVIOUS
<1>3. /\ WellFormed(g) /\ SameText(b, g) /\ g.gap = len /\ g.rest - g.gap >= 1
  BY <1>1, <1>2, MoveGapKeepsText
<1>4. PICK mem, rest, end :
        /\ mem = g.mem /\ rest = g.rest /\ end = g.end
        /\ rest \in Nat /\ end \in Nat /\ len < rest /\ rest <= end
        /\ mem \in [0 .. end - 1 -> Char \union {Junk, Nul}]
        /\ \A i \in 0 .. end - 1 : i < len \/ i >= rest => mem[i] \in Char
        /\ TextLength(g) = len + (end - rest)
  BY <1>1, <1>3, Parts, SMTT(30)
<1>5. PICK m : m = Buf([mem EXCEPT ![len] = Nul], len, rest, end)
  OBVIOUS
<1>6. CloseGap(b) = m
  BY <1>1, <1>2, <1>3, <1>4, <1>5 DEF CloseGap
<1>7. PICK new : new = [mem EXCEPT ![len] = Nul]
  OBVIOUS
<1>8. /\ new \in [0 .. end - 1 -> Char \union {Junk, Nul}]
      /\ \A i \in 0 .. end - 1 : i # len => new[i] = mem[i]
  BY <1>1, <1>4, <1>7
<1>9. m.mem = new /\ m.gap = len /\ m.rest = rest /\ m.end = end
  BY <1>5, <1>7 DEF Buf
<1>10. WellFormed(m)
  <2>1. m \in [mem : [0 .. end - 1 -> Char \union {Junk, Nul}],
               gap : Nat, rest : Nat, end : Nat]
    BY <1>1, <1>4, <1>5, <1>7, <1>8 DEF Buf
  <2>2. \A i \in 0 .. end - 1 : i < len \/ i >= rest => new[i] \in Char
    BY <1>1, <1>4, <1>8, SMTT(30)
  <2>3. QED
    BY <1>1, <1>4, <1>9, <2>1, <2>2 DEF WellFormed
<1>11. SameText(g, m)
  <2>1. TextLength(m) = TextLength(g)
    BY <1>3, <1>4, <1>9 DEF TextLength
  <2>2. ASSUME NEW i \in 0 .. TextLength(g) - 1
        PROVE  m.mem[TextPtr(m, i)] = g.mem[TextPtr(g, i)]
    <3>1. TextPtr(m, i) = TextPtr(g, i)
      BY <1>3, <1>4, <1>9 DEF TextPtr
    <3>2. TextPtr(g, i) \in 0 .. end - 1 /\ TextPtr(g, i) # len
      <4>1. /\ TextPtr(g, i) \in 0 .. g.end - 1
            /\ TextPtr(g, i) < g.gap \/ TextPtr(g, i) >= g.rest
        BY <1>3, TextPtrInText
      <4>2. QED
        BY <1>1, <1>3, <1>4, <4>1
    <3>3. QED
      BY <1>4, <1>8, <1>9, <3>1, <3>2
  <2>3. QED
    BY <2>1, <2>2 DEF SameText
<1>12. QED
  BY <1>3, <1>6, <1>10, <1>11, SameTextIsSame

\* The two ways an editor begins.
LEMMA NewFileOK ==
  /\ WellFormed(NewFile)
  /\ Text(NewFile) \in Seq(Char)
<1>1. WellFormed(NewFile)
  BY MinTextAssumption DEF WellFormed, NewFile, Buf
<1>2. QED
  BY <1>1, TextIsText

\* A loaded file is a well-formed buffer with room for a gap.
LEMMA LoadFileOK ==
  ASSUME NEW file \in Files
  PROVE  WellFormed(LoadFile(file))
<1>1. /\ file \in Seq(Char) /\ Len(file) \in Nat
      /\ \A i \in 1 .. Len(file) : file[i] \in Char
  BY FilesAssumption
<1>2. PICK size : size = Len(file) + MinText /\ size \in Nat /\ Len(file) <= size
  BY <1>1, MinTextAssumption
<1>3. PICK new : new = [i \in 0 .. size - 1 |-> IF i < Len(file) THEN file[i + 1] ELSE Junk]
  OBVIOUS
<1>4. \A i \in 0 .. size - 1 : IF i < Len(file) THEN new[i] \in Char ELSE new[i] = Junk
  BY <1>1, <1>3
<1>5. new \in [0 .. size - 1 -> Char \union {Junk, Nul}]
  BY <1>3, <1>4
<1>6. LoadFile(file) = [mem |-> new, gap |-> Len(file), rest |-> size, end |-> size]
  BY <1>2, <1>3 DEF LoadFile, Buf
<1>7. QED
  BY <1>1, <1>2, <1>4, <1>5, <1>6 DEF WellFormed

-----------------------------------------------------------------------------
(* The theorems.                                                           *)

\* What one step does, in the terms of the abstract text.
LEMMA StepReplaces ==
  ASSUME BufferOK, Next
  PROVE  BufferOK' /\ (T!Next \/ UNCHANGED Text(ed))
<1>1. ASSUME NEW pos \in 0 .. TextLength(ed), NEW len \in 0 .. TextLength(ed),
             NEW buf \in Bufs, Replace(pos, len, buf)
      PROVE  BufferOK' /\ T!Next
  <2>1. buf \in Seq(Char) /\ pos \in Nat /\ len \in Nat /\ pos + len <= TextLength(ed)
    BY <1>1, BufsAssumption DEF Replace
  <2>2. /\ WellFormed(ed') /\ Text(ed)' = T!Splice(Text(ed), pos, len, buf)
        /\ TextLength(ed) - len + Len(buf) <= MaxText
    BY <1>1, <2>1, ReplaceInReplaces DEF BufferOK, Replace
  <2>3. Len(Text(ed)) = TextLength(ed)
    BY TextIsText DEF BufferOK
  <2>4. T!Replace(pos, len, buf)
    BY <2>1, <2>2, <2>3 DEF T!Replace
  <2>5. QED
    BY <1>1, <2>2, <2>3, <2>4 DEF T!Next, BufferOK
<1>2. CASE Search
  BY <1>2, CloseGapKeepsText DEF Search, BufferOK
<1>3. QED
  BY <1>1, <1>2 DEF Next

\* The buffer of an editor is well formed whatever is done to it: the text
\* read from it never comes from the gap.
THEOREM BufferOKInvariant == Spec => []BufferOK
<1>1. Init => BufferOK
  BY NewFileOK, LoadFileOK DEF Init, BufferOK
<1>2. BufferOK /\ [Next]_ed => BufferOK'
  BY StepReplaces DEF BufferOK
<1>3. QED
  BY <1>1, <1>2, PTL DEF Spec

\* The gap buffer implements the abstract text: every replacement edits the
\* text as asked, moving or closing the gap is invisible.
THEOREM ImplementsText == Spec => RefinesText
<1>1. Init => T!Init
  BY NewFileOK, LoadFileOK, TextIsText DEF Init, T!Init
<1>2. BufferOK /\ [Next]_ed => [T!Next]_(Text(ed))
  BY StepReplaces
<1>3. QED
  BY <1>1, <1>2, BufferOKInvariant, PTL DEF Spec, RefinesText, T!Spec

\* Searching hands strstr the whole text in one piece with a terminator that
\* was allocated: the action property of the specification.
THEOREM SearchSeesWholeText == Spec => SearchSeesText
<1> DEFINE Seen == /\ ed'.gap = TextLength(ed)
                   /\ ed'.gap < ed'.end
                   /\ ed'.mem[TextLength(ed)] = Nul
                   /\ ed'.rest = ed'.end
                   /\ \A i \in 1 .. TextLength(ed) : ed'.mem[i - 1] = Text(ed)[i]
<1>1. ASSUME BufferOK, Search
      PROVE  Seen
  <2>1. PICK m : m = ed' /\ m = CloseGap(ed) /\ WellFormed(ed) /\ WellFormed(m)
    BY <1>1, CloseGapKeepsText DEF Search, BufferOK
  <2>2. PICK len : len = TextLength(ed) /\ len \in Nat
    BY <2>1, TextIsText
  <2>3. PICK g : g = MoveGap(ed, len, 1)
    OBVIOUS
  <2>4. /\ WellFormed(g) /\ SameText(ed, g) /\ g.gap = len /\ g.rest - g.gap >= 1
    BY <2>1, <2>2, <2>3, MoveGapKeepsText
  <2>5. m = Buf([g.mem EXCEPT ![len] = Nul], g.gap, g.rest, g.end)
    BY <2>1, <2>2, <2>3 DEF CloseGap
  <2>6. /\ m.mem = [g.mem EXCEPT ![len] = Nul]
        /\ m.gap = len /\ m.rest = g.rest /\ m.end = g.end
    BY <2>4, <2>5 DEF Buf
  <2>7. /\ g.rest \in Nat /\ g.end \in Nat /\ len < g.rest /\ g.rest <= g.end
        /\ DOMAIN g.mem = 0 .. g.end - 1
        /\ TextLength(g) = len + (g.end - g.rest) /\ TextLength(g) = len
    BY <2>2, <2>4, Parts DEF SameText
  <2>8. m.mem[len] = Nul
    BY <2>2, <2>6, <2>7
  <2>9. Text(m) = Text(ed)
    BY <2>1, CloseGapKeepsText
  <2>10. ASSUME NEW i \in 1 .. len
         PROVE  m.mem[i - 1] = Text(ed)[i]
    <3>1. i \in 1 .. m.gap
      BY <2>6
    <3>2. Text(m)[i] = m.mem[i - 1]
      BY <2>1, <3>1, TextByRuns
    <3>3. QED
      BY <2>9, <3>2
  <2>11. m.gap < m.end /\ m.rest = m.end
    BY <2>2, <2>6, <2>7
  <2>12. QED
    BY <2>1, <2>2, <2>6, <2>8, <2>10, <2>11
<1>2. BufferOK => [Search => Seen]_ed
  BY <1>1
<1>3. QED
  BY <1>2, BufferOKInvariant, PTL DEF SearchSeesText

-----------------------------------------------------------------------------
(* Reading.                                                                *)

\* The pointer that steps over the gap is, after k steps, where the character
\* k further on is.
LEMMA WalkIsText ==
  ASSUME NEW b, WellFormed(b), NEW pos \in Nat
  PROVE  \A k \in Nat : WalkPtr(b, pos)[k] = TextPtr(b, pos + k)
<1> DEFINE Step(f, k) == IF k = 0 THEN TextPtr(b, pos)
                         ELSE LET p == f[k - 1] + 1 IN IF p = b.gap THEN b.rest ELSE p
           at == CHOOSE f : f = [k \in Nat |-> Step(f, k)]
           w == [k \in Nat |-> TextPtr(b, pos + k)]
<1>1. b.gap \in Nat /\ b.rest \in Nat /\ b.gap <= b.rest
  BY Parts
<1>2. \A i \in Nat : LET p == TextPtr(b, i) + 1
                     IN  TextPtr(b, i + 1) = IF p = b.gap THEN b.rest ELSE p
  BY <1>1 DEF TextPtr
<1>3. w = [k \in Nat |-> Step(w, k)]
  <2>1. ASSUME NEW k \in Nat PROVE TextPtr(b, pos + k) = Step(w, k)
    <3>1. CASE k = 0
      BY <3>1
    <3>2. CASE k # 0
      <4>1. pos + (k - 1) \in Nat /\ (pos + (k - 1)) + 1 = pos + k /\ k - 1 \in Nat
        BY <3>2
      <4>2. w[k - 1] = TextPtr(b, pos + (k - 1))
        BY <4>1
      <4> HIDE DEF w
      <4> QED BY <1>2, <3>2, <4>1, <4>2
    <3> QED BY <3>1, <3>2
  <2> HIDE DEF Step
  <2> QED BY <2>1
<1>4. at = [k \in Nat |-> Step(at, k)]
  <2> HIDE DEF w, Step
  <2> QED BY <1>3
<1>5. WalkPtr(b, pos) = at
  BY DEF WalkPtr
<1> HIDE DEF at
<1>6. \A k \in Nat : at[k] = Step(at, k)
  <2> HIDE DEF Step
  <2> QED BY <1>4
<1> DEFINE S == {k \in Nat : at[k] = TextPtr(b, pos + k)}
<1>7. 0 \in S
  BY <1>6
<1>8. ASSUME NEW k \in Nat, k \in S PROVE k + 1 \in S
  <2>1. at[k + 1] = LET p == at[k] + 1 IN IF p = b.gap THEN b.rest ELSE p
    BY <1>6
  <2> QED BY <1>2, <1>8, <2>1
<1>9. Nat \subseteq S
  <2> HIDE DEF S
  <2> QED BY <1>7, <1>8, NatSetInduction
<1> QED BY <1>5, <1>9

\* The end of the allocation is reached at the end of the text, and not before.
LEMMA EndIsEnd ==
  ASSUME NEW b, WellFormed(b), NEW i \in 0 .. TextLength(b)
  PROVE  TextPtr(b, i) = b.end <=> i = TextLength(b)
  BY Parts DEF TextPtr

\* copy gives the text from pos on, as much of it as there is.
LEMMA CopyIsSubSeq ==
  ASSUME NEW b, WellFormed(b), NEW pos \in 0 .. TextLength(b), NEW len \in Nat
  PROVE  LET n == IF pos + len > TextLength(b) THEN TextLength(b) - pos ELSE len
         IN  Copy(b, pos, len) = SubSeq(Text(b), pos + 1, pos + n)
<1> DEFINE L == TextLength(b)
           n == IF pos + len > L THEN L - pos ELSE len
           at == WalkPtr(b, pos)
           room == {k \in 0 .. len : \A j \in 0 .. k - 1 : at[j] # b.end}
           most == CHOOSE k \in room : \A j \in room : j <= k
<1>1. L \in Nat
  BY TextIsText
<1> HIDE DEF L
<1>2. n \in Nat /\ n <= len /\ pos + n <= L /\ (n = len \/ pos + n = L)
  BY <1>1 DEF L
<1> HIDE DEF n
<1>3. \A j \in Nat : at[j] = TextPtr(b, pos + j)
  BY WalkIsText
<1> HIDE DEF at
<1>4. \A j \in 0 .. L - pos : at[j] = b.end <=> j = L - pos
  <2> SUFFICES ASSUME NEW j \in 0 .. L - pos PROVE at[j] = b.end <=> j = L - pos
    OBVIOUS
  <2>1. j \in Nat /\ pos + j \in 0 .. L /\ (pos + j = L <=> j = L - pos)
    BY <1>1 DEF L
  <2> QED BY <1>3, <2>1, EndIsEnd DEF L
<1>5. n \in room
  BY <1>1, <1>2, <1>4 DEF L
<1>6. \A k \in room : k <= n
  <2> SUFFICES ASSUME NEW k \in room, n < k PROVE FALSE
    BY <1>2
  <2>1. n = L - pos /\ n \in 0 .. k - 1 /\ n \in 0 .. L - pos
    BY <1>1, <1>2 DEF L
  <2> QED BY <1>4, <2>1
<1>7. most = n
  <2> HIDE DEF room
  <2>1. \E k \in room : \A j \in room : j <= k
    BY <1>5, <1>6
  <2>2. most \in room /\ \A j \in room : j <= most
    BY <2>1
  <2>3. most <= n /\ n <= most
    BY <1>5, <1>6, <2>2
  <2>4. most \in Nat
    BY <2>2 DEF room
  <2> QED BY <1>2, <2>3, <2>4
<1>8. Copy(b, pos, len) = [i \in 1 .. n |-> b.mem[at[i - 1]]]
  BY <1>7 DEF Copy, at
<1>9. \A i \in 1 .. n : b.mem[at[i - 1]] = Text(b)[pos + i]
  <2> SUFFICES ASSUME NEW i \in 1 .. n PROVE b.mem[at[i - 1]] = Text(b)[pos + i]
    OBVIOUS
  <2>1. i - 1 \in Nat /\ pos + i \in 1 .. L /\ (pos + i) - 1 = pos + (i - 1)
    BY <1>1, <1>2 DEF L
  <2>2. Text(b)[pos + i] = b.mem[TextPtr(b, (pos + i) - 1)]
    BY <2>1, TextIsText DEF L
  <2>3. at[i - 1] = TextPtr(b, pos + (i - 1))
    BY <1>3, <2>1
  <2> QED BY <2>1, <2>2, <2>3
<1>10. SubSeq(Text(b), pos + 1, pos + n) = [i \in 1 .. n |-> Text(b)[pos + i]]
  <2>1. Text(b) \in Seq(Char) /\ Len(Text(b)) = L
    BY TextIsText DEF L
  <2>2. SubSeq(Text(b), pos + 1, pos + n) = [i \in 1 .. (1 + (pos + n) - (pos + 1)) |-> Text(b)[i + (pos + 1) - 1]]
    BY <1>1, <1>2, <2>1
  <2>3. 1 + (pos + n) - (pos + 1) = n /\ \A i \in 1 .. n : i + (pos + 1) - 1 = pos + i
    BY <1>2
  <2> QED BY <2>2, <2>3
<1>11. Copy(b, pos, len) = SubSeq(Text(b), pos + 1, pos + n)
  BY <1>8, <1>9, <1>10
<1> QED BY <1>11 DEF n, L

\* compare says whether the text at pos starts with buf.
LEMMA CompareIsEquality ==
  ASSUME NEW b, WellFormed(b), NEW pos \in 0 .. TextLength(b), NEW buf \in Seq(Char)
  PROVE  Compare(b, buf, pos) <=>
           /\ pos + Len(buf) <= TextLength(b)
           /\ SubSeq(Text(b), pos + 1, pos + Len(buf)) = buf
<1> DEFINE L == TextLength(b)
           n == Len(buf)
           at == WalkPtr(b, pos)
           Same(k) == at[k - 1] # b.end /\ b.mem[at[k - 1]] = buf[k]
<1>1. L \in Nat /\ n \in Nat /\ pos \in Nat /\ pos <= L
  BY TextIsText
<1>2. Compare(b, buf, pos) <=> \A k \in 1 .. n : (\A j \in 1 .. k - 1 : Same(j)) => Same(k)
  BY DEF Compare
<1>3. \A j \in Nat : at[j] = TextPtr(b, pos + j)
  BY WalkIsText
<1> HIDE DEF at
<1>4. \A k \in 1 .. n : pos + k <= L + 1 =>
        (Same(k) <=> pos + k <= L /\ Text(b)[pos + k] = buf[k])
  <2> SUFFICES ASSUME NEW k \in 1 .. n, pos + k <= L + 1
               PROVE  Same(k) <=> pos + k <= L /\ Text(b)[pos + k] = buf[k]
    OBVIOUS
  <2>1. /\ k - 1 \in Nat /\ pos + (k - 1) \in 0 .. L
        /\ (pos + (k - 1) = L <=> ~(pos + k <= L))
    BY <1>1
  <2>2. at[k - 1] = b.end <=> ~(pos + k <= L)
    BY <1>3, <2>1, EndIsEnd
  <2>3. pos + k <= L => b.mem[at[k - 1]] = Text(b)[pos + k]
    <3>1. (pos + k) - 1 = pos + (k - 1)
      BY <1>1
    <3>2. pos + k <= L => pos + k \in 1 .. L
      BY <1>1
    <3> QED BY <1>3, <2>1, <3>1, <3>2, TextIsText
  <2> QED BY <2>2, <2>3
<1>5. /\ pos + n <= L
         => (SubSeq(Text(b), pos + 1, pos + n) = buf
               <=> \A k \in 1 .. n : Text(b)[pos + k] = buf[k])
  <2> SUFFICES ASSUME pos + n <= L
               PROVE  SubSeq(Text(b), pos + 1, pos + n) = buf
                        <=> \A k \in 1 .. n : Text(b)[pos + k] = buf[k]
    OBVIOUS
  <2>1. Text(b) \in Seq(Char) /\ Len(Text(b)) = L
    BY TextIsText
  <2>2. SubSeq(Text(b), pos + 1, pos + n) = [i \in 1 .. (1 + (pos + n) - (pos + 1)) |-> Text(b)[i + (pos + 1) - 1]]
    BY <1>1, <2>1
  <2>3. 1 + (pos + n) - (pos + 1) = n /\ \A i \in 1 .. n : i + (pos + 1) - 1 = pos + i
    BY <1>1
  <2>4. SubSeq(Text(b), pos + 1, pos + n) = [i \in 1 .. n |-> Text(b)[pos + i]]
    BY <2>2, <2>3
  <2>5. buf = [i \in 1 .. n |-> buf[i]]
    OBVIOUS
  <2> QED BY <2>4, <2>5
<1> HIDE DEF Same, L, n
<1>6. ASSUME \A k \in 1 .. n : (\A j \in 1 .. k - 1 : Same(j)) => Same(k)
      PROVE  pos + n <= L /\ \A k \in 1 .. n : Text(b)[pos + k] = buf[k]
  <2> DEFINE S == {k \in Nat : k <= n => \A j \in 1 .. k : pos + j <= L /\ Same(j)}
  <2>1. 0 \in S
    OBVIOUS
  <2>2. ASSUME NEW k \in Nat, k \in S PROVE k + 1 \in S
    <3>1. SUFFICES ASSUME k + 1 <= n PROVE \A j \in 1 .. k + 1 : pos + j <= L /\ Same(j)
      OBVIOUS
    <3>2. \A j \in 1 .. k : pos + j <= L /\ Same(j)
      BY <1>1, <2>2, <3>1
    <3>3. k + 1 \in 1 .. n /\ (k + 1) - 1 = k
      BY <1>1, <3>1
    <3>4. Same(k + 1)
      BY <1>6, <3>2, <3>3
    <3>5. pos + (k + 1) <= L + 1
      BY <1>1, <3>2
    <3>6. pos + (k + 1) <= L
      BY <1>4, <3>3, <3>4, <3>5
    <3> QED BY <3>2, <3>4, <3>6
  <2>3. n \in S
    <3> HIDE DEF S
    <3> QED BY <1>1, <2>1, <2>2, NatSetInduction
  <2>4. \A j \in 1 .. n : pos + j <= L /\ Same(j)
    BY <2>3, <1>1
  <2>5. pos + n <= L
    BY <1>1, <2>4
  <2>6. \A k \in 1 .. n : pos + k <= L + 1
    BY <1>1, <2>5
  <2> QED BY <1>4, <2>4, <2>5, <2>6
<1>7. ASSUME pos + n <= L, \A k \in 1 .. n : Text(b)[pos + k] = buf[k]
      PROVE  \A k \in 1 .. n : Same(k)
  <2>1. \A k \in 1 .. n : pos + k <= L + 1 /\ pos + k <= L
    BY <1>1, <1>7
  <2> QED BY <1>4, <1>7, <2>1
<1>8. (\A k \in 1 .. n : (\A j \in 1 .. k - 1 : Same(j)) => Same(k))
        <=> pos + n <= L /\ SubSeq(Text(b), pos + 1, pos + n) = buf
  BY <1>5, <1>6, <1>7
<1> QED BY <1>2, <1>8 DEF L, n

\* copy and compare read the text that the buffer stands for, wherever the gap
\* is.
THEOREM ReadsSeeTextInvariant == Spec => []ReadsSeeText
<1>1. BufferOK => ReadsSeeText
  <2> SUFFICES ASSUME BufferOK, NEW pos \in 0 .. TextLength(ed), NEW len \in 0 .. TextLength(ed) + 1
               PROVE  LET n == IF pos + len > TextLength(ed) THEN TextLength(ed) - pos ELSE len
                      IN  /\ Copy(ed, pos, len) = SubSeq(Text(ed), pos + 1, pos + n)
                          /\ \A buf \in Bufs :
                               Compare(ed, buf, pos) <=>
                                 /\ pos + Len(buf) <= TextLength(ed)
                                 /\ SubSeq(Text(ed), pos + 1, pos + Len(buf)) = buf
    BY DEF ReadsSeeText
  <2>1. WellFormed(ed) /\ len \in Nat
    BY TextIsText DEF BufferOK
  <2>2. \A buf \in Bufs : buf \in Seq(Char)
    BY BufsAssumption
  <2> QED BY <2>1, <2>2, CopyIsSubSeq, CompareIsEquality
<1>2. QED
  BY <1>1, BufferOKInvariant, PTL
=============================================================================
