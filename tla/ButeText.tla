------------------------------ MODULE ButeText ------------------------------
(***************************************************************************)
(* What the gap buffer of bute promises its callers: the editor holds a    *)
(* text, a sequence of characters, and the only thing that ever happens to *)
(* it is that a run of it is replaced by another run.  Moving and closing  *)
(* the gap, which the callers also ask for, are invisible here.            *)
(***************************************************************************)
EXTENDS Integers, Sequences

CONSTANTS Char,      \* the characters a text is made of
          Bufs,      \* the runs of text a caller may insert
          MaxText    \* bound: the longest text explored

VARIABLE text

\* `t` with the `len` characters from position `pos` (counted from 0, as in
\* the source) replaced by `buf`.
Splice(t, pos, len, buf) ==
  SubSeq(t, 1, pos) \o buf \o SubSeq(t, pos + len + 1, Len(t))

TypeOK == text \in Seq(Char)

Init == text \in Seq(Char)

Replace(pos, len, buf) ==
  /\ pos + len <= Len(text)
  /\ Len(text) - len + Len(buf) <= MaxText
  /\ text' = Splice(text, pos, len, buf)

Next == \E pos \in 0..Len(text), len \in 0..Len(text), buf \in Bufs :
          Replace(pos, len, buf)

Spec == Init /\ [][Next]_text
=============================================================================
