----------------------------- MODULE ButeProofs -----------------------------
(***************************************************************************)
(* Two parts of bute.                                                      *)
(*                                                                         *)
(* Undo and redo (ButeUndo), for every set of characters, of files and of  *)
(* texts inserted: the list always describes a chain of texts, one for     *)
(* every step, and what the commands do is what ButeHistory promises of    *)
(* that chain.  The chain is the strengthening both theorems need: the     *)
(* properties speak of the text being edited only, and the text an undo    *)
(* brings back is the neighbour in the chain.                              *)
(*                                                                         *)
(* The editors (ButeEnv), for every set of files, every limit on the       *)
(* number of editors and every command line: next and prev are one ring of *)
(* them (which is said with an order of the editors, as the property       *)
(* itself says it with walks), no text is lost unasked, and opening makes  *)
(* no second editor of a file.                                             *)
(***************************************************************************)
EXTENDS ButeUndo, ButeEnv, SequenceTheorems, FiniteSetTheorems, SetInduction, TLAPS

-----------------------------------------------------------------------------
(* Splicing, as concatenation.                                             *)

\* The text `mid` between two others.
Between(l, mid, r) == l \o mid \o r

\* Replacing the middle one of three runs.
LEMMA SpliceBetween ==
  ASSUME NEW a \in Seq(Char), NEW e \in Seq(Char), NEW c \in Seq(Char),
         NEW i \in Seq(Char)
  PROVE  Texts!Splice(Between(a, e, c), Len(a), Len(e), i) = Between(a, i, c)
<1>1. PICK t : t = a \o e \o c
  OBVIOUS
<1>2. PICK ae : ae = a \o e
  OBVIOUS
<1>3. /\ ae \in Seq(Char) /\ Len(ae) = Len(a) + Len(e) /\ Len(a) \in Nat
      /\ Len(e) \in Nat /\ Len(c) \in Nat
      /\ \A k \in 1 .. Len(a) : ae[k] = a[k]
  <2>1. Len(a) \in Nat /\ Len(e) \in Nat
    OBVIOUS
  <2>2. \A k \in 1 .. Len(a) + Len(e) : ae[k] = IF k <= Len(a) THEN a[k] ELSE e[k - Len(a)]
    BY <1>2, ConcatProperties
  <2>3. ASSUME NEW k \in 1 .. Len(a) PROVE ae[k] = a[k]
    <3>1. k \in 1 .. Len(a) + Len(e) /\ k <= Len(a)
      BY <2>1
    <3> QED BY <2>2, <3>1
  <2> QED BY <1>2, <2>1, <2>3, ConcatProperties
<1>4. /\ t \in Seq(Char) /\ Len(t) = Len(ae) + Len(c)
      /\ \A k \in 1 .. Len(ae) : t[k] = ae[k]
      /\ \A k \in 1 .. Len(c) : t[Len(ae) + k] = c[k]
  <2>1. /\ t \in Seq(Char) /\ Len(t) = Len(ae) + Len(c)
        /\ \A k \in 1 .. Len(ae) + Len(c) :
              t[k] = IF k <= Len(ae) THEN ae[k] ELSE c[k - Len(ae)]
    BY <1>1, <1>2, <1>3, ConcatProperties
  <2>2. ASSUME NEW k \in 1 .. Len(c) PROVE t[Len(ae) + k] = c[k]
    <3>1. PICK j : j = Len(ae) + k
      OBVIOUS
    <3>2. j \in 1 .. Len(ae) + Len(c) /\ ~(j <= Len(ae)) /\ j - Len(ae) = k
      BY <1>3, <3>1
    <3> QED BY <2>1, <3>1, <3>2
  <2>3. ASSUME NEW k \in 1 .. Len(ae) PROVE t[k] = ae[k]
    <3>1. k \in 1 .. Len(ae) + Len(c) /\ k <= Len(ae)
      BY <1>3
    <3> QED BY <2>1, <3>1
  <2> QED BY <2>1, <2>2, <2>3
<1>5. SubSeq(t, 1, Len(a)) = a
  <2>1. /\ SubSeq(t, 1, Len(a)) \in Seq(Char) /\ Len(SubSeq(t, 1, Len(a))) = Len(a)
        /\ \A k \in 1 .. Len(a) : SubSeq(t, 1, Len(a))[k] = t[k]
    BY <1>3, <1>4
  <2>2. \A k \in 1 .. Len(a) : t[k] = a[k]
    BY <1>3, <1>4
  <2> QED BY <2>1, <2>2, SeqEqual
<1>6. SubSeq(t, Len(a) + Len(e) + 1, Len(t)) = c
  <2>1. PICK r : r = SubSeq(t, Len(a) + Len(e) + 1, Len(t))
    OBVIOUS
  <2>2. r \in Seq(Char) /\ Len(r) = Len(c)
    BY <1>3, <1>4, <2>1
  <2>3. ASSUME NEW k \in 1 .. Len(c) PROVE r[k] = t[Len(ae) + k]
    <3>1. r[k] = t[(Len(a) + Len(e) + 1) + k - 1]
      BY <1>3, <1>4, <2>1
    <3>2. (Len(a) + Len(e) + 1) + k - 1 = Len(ae) + k
      BY <1>3
    <3> QED BY <3>1, <3>2
  <2> QED BY <1>4, <2>1, <2>2, <2>3, SeqEqual
<1>7. Texts!Splice(t, Len(a), Len(e), i)
        = SubSeq(t, 1, Len(a)) \o i \o SubSeq(t, Len(a) + Len(e) + 1, Len(t))
  BY DEF Texts!Splice
<1> QED BY <1>1, <1>5, <1>6, <1>7 DEF Between

\* Every run of a text cuts it in three.
LEMMA CutInThree ==
  ASSUME NEW t \in Seq(Char), NEW pos \in Nat, NEW len \in Nat, pos + len <= Len(t)
  PROVE  LET a == SubSeq(t, 1, pos)
             e == SubSeq(t, pos + 1, pos + len)
             c == SubSeq(t, pos + len + 1, Len(t))
         IN  /\ a \in Seq(Char) /\ e \in Seq(Char) /\ c \in Seq(Char)
             /\ Len(a) = pos /\ Len(e) = len
             /\ t = Between(a, e, c)
<1>1. Len(t) \in Nat
  OBVIOUS
<1>2. /\ SubSeq(t, 1, pos) \in Seq(Char) /\ Len(SubSeq(t, 1, pos)) = pos
  BY <1>1
<1>3. /\ SubSeq(t, pos + 1, pos + len) \in Seq(Char)
      /\ Len(SubSeq(t, pos + 1, pos + len)) = len
  BY <1>1
<1>4. SubSeq(t, pos + len + 1, Len(t)) \in Seq(Char)
  BY <1>1
<1>5. SubSeq(t, 1, pos) \o SubSeq(t, pos + 1, pos + len) = SubSeq(t, 1, pos + len)
  <2>1. /\ 1 \in 1 .. Len(t) + 1
        /\ pos \in 1 - 1 .. Len(t)
        /\ pos + len \in pos .. Len(t)
    BY <1>1
  <2> QED BY <2>1, ConcatAdjacentSubSeq, Zenon
<1>6. SubSeq(t, 1, pos + len) \o SubSeq(t, (pos + len) + 1, Len(t)) = SubSeq(t, 1, Len(t))
  <2>1. /\ 1 \in 1 .. Len(t) + 1
        /\ pos + len \in 1 - 1 .. Len(t)
        /\ Len(t) \in pos + len .. Len(t)
    BY <1>1
  <2> QED BY <2>1, ConcatAdjacentSubSeq, Zenon
<1>7. SubSeq(t, 1, Len(t)) = t
  BY SubSeqFull
<1> QED BY <1>2, <1>3, <1>4, <1>5, <1>6, <1>7 DEF Between

-----------------------------------------------------------------------------
(* What a record says: the text before and after it agree around the       *)
(* place where the one has what was erased and the other what was          *)
(* inserted.                                                               *)

\* A record leads from one text to the next: it erases what is there.
Follows(r, s, t) ==
  /\ r \in Recs
  /\ \E a, c \in Seq(Char) :
       /\ Len(a) = r.pos
       /\ s = Between(a, r.erased, c)
       /\ t = Between(a, r.inserted, c)

\* A record can be undone and redone.
LEMMA FollowsBothWays ==
  ASSUME NEW r, NEW s, NEW t, Follows(r, s, t)
  PROVE  /\ s \in Seq(Char) /\ t \in Seq(Char)
         /\ s = Texts!Splice(t, r.pos, Len(r.inserted), r.erased)
         /\ t = Texts!Splice(s, r.pos, Len(r.erased), r.inserted)
         /\ r.pos \in Nat /\ r.erased \in Seq(Char) /\ r.inserted \in Seq(Char)
         /\ r.pos + Len(r.inserted) <= Len(t)
         /\ r.pos + Len(r.erased) <= Len(s)
<1>1. PICK a \in Seq(Char), c \in Seq(Char) :
        /\ Len(a) = r.pos
        /\ s = Between(a, r.erased, c)
        /\ t = Between(a, r.inserted, c)
  BY DEF Follows
<1>2. r.pos \in Nat /\ r.erased \in Seq(Char) /\ r.inserted \in Seq(Char)
  BY DEF Follows, Recs
<1>3. /\ s = Texts!Splice(t, r.pos, Len(r.inserted), r.erased)
      /\ t = Texts!Splice(s, r.pos, Len(r.erased), r.inserted)
  BY <1>1, <1>2, SpliceBetween
<1>4. ASSUME NEW e \in Seq(Char)
      PROVE  Between(a, e, c) \in Seq(Char) /\ Len(a) + Len(e) <= Len(Between(a, e, c))
  <2>1. a \o e \in Seq(Char) /\ Len(a \o e) = Len(a) + Len(e)
    BY ConcatProperties
  <2>2. a \o e \o c \in Seq(Char) /\ Len(a \o e \o c) = Len(a \o e) + Len(c)
    BY <2>1, ConcatProperties
  <2>3. Len(a) \in Nat /\ Len(e) \in Nat /\ Len(c) \in Nat
    OBVIOUS
  <2> QED BY <2>1, <2>2, <2>3 DEF Between
<1> QED BY <1>1, <1>2, <1>3, <1>4

\* The record replace makes says what it did.
LEMMA EditFollows ==
  ASSUME NEW t \in Seq(Char), NEW pos \in Nat, NEW len \in Nat, pos + len <= Len(t),
         NEW buf \in Seq(Char)
  PROVE  Follows([pos |-> pos, inserted |-> buf, erased |-> SubSeq(t, pos + 1, pos + len)],
                 t, Texts!Splice(t, pos, len, buf))
<1> DEFINE a == SubSeq(t, 1, pos)
           e == SubSeq(t, pos + 1, pos + len)
           c == SubSeq(t, pos + len + 1, Len(t))
           r == [pos |-> pos, inserted |-> buf, erased |-> e]
<1>1. /\ a \in Seq(Char) /\ e \in Seq(Char) /\ c \in Seq(Char)
      /\ Len(a) = pos /\ Len(e) = len
      /\ t = Between(a, e, c)
  BY CutInThree
<1> HIDE DEF a, e, c
<1>2. Texts!Splice(t, pos, len, buf) = Between(a, buf, c)
  BY <1>1, SpliceBetween
<1>3. r \in Recs
  BY <1>1 DEF Recs
<1>4. r.pos = Len(a) /\ r.erased = e /\ r.inserted = buf
  BY <1>1
<1> HIDE DEF r
<1>5. Follows(r, t, Texts!Splice(t, pos, len, buf))
  BY <1>1, <1>2, <1>3, <1>4 DEF Follows
<1> QED BY <1>5 DEF r, e

\* A run at either side of the middle may count as part of it.
LEMMA BetweenShifts ==
  ASSUME NEW a \in Seq(Char), NEW e \in Seq(Char), NEW c \in Seq(Char),
         NEW x \in Seq(Char)
  PROVE  /\ Between(a \o x, e, c) = Between(a, x \o e, c)
         /\ Between(a, e, x \o c) = Between(a, e \o x, c)
         /\ a \o x \in Seq(Char) /\ x \o e \in Seq(Char)
         /\ e \o x \in Seq(Char) /\ x \o c \in Seq(Char)
         /\ Len(a \o x) = Len(a) + Len(x)
<1>1. /\ a \o x \in Seq(Char) /\ x \o e \in Seq(Char)
      /\ e \o x \in Seq(Char) /\ x \o c \in Seq(Char) /\ a \o e \in Seq(Char)
      /\ Len(a \o x) = Len(a) + Len(x)
  BY ConcatProperties
<1>2. (a \o x) \o e = a \o (x \o e)
  BY ConcatAssociative
<1>3. (a \o e) \o (x \o c) = ((a \o e) \o x) \o c
  <2>1. PICK ae \in Seq(Char) : ae = a \o e
    BY <1>1
  <2>2. (ae \o x) \o c = ae \o (x \o c)
    BY ConcatAssociative
  <2> QED BY <2>1, <2>2
<1>4. (a \o e) \o x = a \o (e \o x)
  BY ConcatAssociative
<1> QED BY <1>1, <1>2, <1>3, <1>4 DEF Between

\* Merging an edit into the record of the edit before: the record then says
\* what the two did together.  Only single characters are merged.
LEMMA MergeFollows ==
  ASSUME NEW d, NEW r, NEW s, NEW pos \in Nat, NEW len \in Nat, NEW buf \in Seq(Char),
         Follows(r, s, d.text), pos + len <= Len(d.text),
         NEW m \in Merged(d, pos, len, buf, r)
  PROVE  /\ Follows(m, s, Texts!Splice(d.text, pos, len, buf))
         /\ len + Len(buf) = 1
<1> DEFINE t == d.text
<1>1. PICK a \in Seq(Char), c \in Seq(Char) :
        /\ Len(a) = r.pos
        /\ s = Between(a, r.erased, c)
        /\ t = Between(a, r.inserted, c)
  BY DEF Follows
<1>2. /\ r.pos \in Nat /\ r.erased \in Seq(Char) /\ r.inserted \in Seq(Char)
      /\ r = [pos |-> r.pos, erased |-> r.erased, inserted |-> r.inserted]
      /\ t \in Seq(Char) /\ <<>> \in Seq(Char)
  <2>1. r \in Recs
    BY DEF Follows
  <2>2. t \in Seq(Char)
    BY FollowsBothWays, Zenon
  <2> QED BY <2>1, <2>2 DEF Recs
<1> HIDE DEF t
<1>n. PICK nil \in Seq(Char) : nil = <<>> /\ Len(nil) = 0
  BY <1>2
<1>3. ASSUME len = 0, Len(buf) = 1, r.erased = <<>>, pos = r.pos + Len(r.inserted),
             m = [r EXCEPT !.inserted = r.inserted \o buf]
      PROVE  /\ Follows(m, s, Texts!Splice(t, pos, len, buf))
             /\ len + Len(buf) = 1
  <2> DEFINE i == r.inserted
  <2>1. m = [pos |-> r.pos, erased |-> <<>>, inserted |-> i \o buf]
    BY <1>2, <1>3
  <2>2. t = Between(a \o i, <<>>, c)
    <3>1. Between(a \o i, nil, c) = Between(a, i \o nil, c)
      BY <1>2, BetweenShifts
    <3>2. i \o nil = i
      BY <1>2, <1>n, ConcatEmptySeq
    <3> QED BY <1>1, <1>n, <3>1, <3>2
  <2>3. a \o i \in Seq(Char) /\ Len(a \o i) = pos /\ i \o buf \in Seq(Char)
    <3>1. a \o i \in Seq(Char) /\ Len(a \o i) = Len(a) + Len(i) /\ i \o buf \in Seq(Char)
      BY <1>2, ConcatProperties
    <3> QED BY <1>1, <1>3, <3>1
  <2>4. Texts!Splice(t, pos, 0, buf) = Between(a \o i, buf, c)
    <3>1. PICK l \in Seq(Char) : l = a \o i
      BY <2>3
    <3>2. Texts!Splice(Between(l, nil, c), Len(l), Len(nil), buf) = Between(l, buf, c)
      BY SpliceBetween
    <3> QED BY <1>n, <2>2, <2>3, <3>1, <3>2
  <2>5. Between(a \o i, buf, c) = Between(a, i \o buf, c)
    BY <1>2, BetweenShifts
  <2>6. m \in Recs
    BY <1>2, <2>1, <2>3 DEF Recs
  <2>7. m.pos = r.pos /\ m.erased = <<>> /\ m.inserted = i \o buf
    BY <2>1
  <2>8. s = Between(a, <<>>, c)
    BY <1>1, <1>3
  <2> HIDE DEF i
  <2>9. \E l, q \in Seq(Char) : /\ Len(l) = m.pos
                                /\ s = Between(l, m.erased, q)
                                /\ Texts!Splice(t, pos, 0, buf) = Between(l, m.inserted, q)
    <3>1. /\ Len(a) = m.pos
          /\ s = Between(a, m.erased, c)
          /\ Texts!Splice(t, pos, 0, buf) = Between(a, m.inserted, c)
      BY <1>1, <2>4, <2>5, <2>7, <2>8
    <3> QED BY <3>1
  <2> QED BY <1>3, <2>6, <2>9 DEF Follows
<1>4. CASE len = 0 /\ Len(buf) = 1 /\ r.erased = <<>> /\ pos = r.pos + Len(r.inserted)
  <2>1. m = [r EXCEPT !.inserted = r.inserted \o buf]
    BY <1>4 DEF Merged
  <2> QED BY <1>3, <1>4, <2>1 DEF t
<1>5. CASE ~(len = 0 /\ Len(buf) = 1 /\ r.erased = <<>> /\ pos = r.pos + Len(r.inserted))
  <2> DEFINE x == t[pos + 1]
             e == r.erased
  <2>1. /\ len = 1 /\ buf = <<>> /\ r.inserted = <<>>
        /\ \/ pos = r.pos /\ m = [r EXCEPT !.erased = Append(e, x)]
           \/ pos = r.pos - 1 /\ m = [r EXCEPT !.pos = pos, !.erased = <<x>> \o e]
    BY <1>5 DEF Merged, t
  <2>2. t = a \o c /\ Len(t) = Len(a) + Len(c)
    <3>1. a \o <<>> = a
      BY ConcatEmptySeq, Zenon
    <3>2. t = a \o c
      BY <1>1, <2>1, <3>1 DEF Between
    <3>3. Len(a \o c) = Len(a) + Len(c)
      BY ConcatProperties, Zenon
    <3> QED BY <3>2, <3>3
  <2>3. \A k \in 1 .. Len(a) + Len(c) : t[k] = IF k <= Len(a) THEN a[k] ELSE c[k - Len(a)]
    BY <2>2, ConcatProperties
  <2>4. pos + 1 <= Len(t) /\ Len(a) \in Nat /\ Len(c) \in Nat
    BY <2>1 DEF t
  <2>5. x \in Char
    BY <1>2, <2>4
  <2>6. <<x>> \in Seq(Char) /\ Len(<<x>>) = 1
    BY <2>5
  <2>o. PICK one \in Seq(Char) : one = <<x>> /\ Len(one) = 1
    BY <2>6
  <2> HIDE DEF x, e
  <2>e. e \in Seq(Char)
    BY <1>2 DEF e
  <2>7. CASE pos = r.pos
    <3>1. m = [pos |-> r.pos, erased |-> e \o <<x>>, inserted |-> <<>>]
      <4>1. m = [r EXCEPT !.erased = Append(e, x)]
        BY <1>2, <2>1, <2>7
      <4>2. Append(e, x) = e \o <<x>>
        BY <1>2, <2>5, AppendIsConcat
      <4> QED BY <1>2, <2>1, <4>1, <4>2
    <3>2. PICK c2 \in Seq(Char) : c = <<x>> \o c2
      <4>1. Len(c) >= 1 /\ x = c[1]
        <5>1. Len(a) = pos
          BY <1>1, <2>7
        <5>2. /\ pos + 1 \in 1 .. Len(a) + Len(c) /\ ~(pos + 1 <= Len(a))
              /\ (pos + 1) - Len(a) = 1 /\ Len(c) >= 1
          BY <2>2, <2>4, <5>1
        <5> QED BY <2>3, <5>2 DEF x
      <4>2. 1 \in 1 .. Len(c) /\ Len(c) \in 1 .. Len(c)
        BY <2>4, <4>1
      <4>3. SubSeq(c, 1, Len(c)) = <<c[1]>> \o SubSeq(c, 1 + 1, Len(c))
        BY <4>2, SubSeqRecursiveFirst
      <4>4. SubSeq(c, 1 + 1, Len(c)) \in Seq(Char)
        BY <2>4
      <4>5. SubSeq(c, 1, Len(c)) = c
        BY SubSeqFull
      <4> QED BY <4>1, <4>3, <4>4, <4>5
    <3>3. /\ Between(a, e, one \o c2) = Between(a, e \o one, c2)
          /\ Between(a, nil, one \o c2) = Between(a, nil \o one, c2)
          /\ e \o one \in Seq(Char) /\ nil \o one = one
      <4>1. Between(a, e, one \o c2) = Between(a, e \o one, c2) /\ e \o one \in Seq(Char)
        BY <2>e, BetweenShifts
      <4>2. Between(a, nil, one \o c2) = Between(a, nil \o one, c2)
        BY BetweenShifts
      <4>3. nil \o one = one
        BY <1>n, ConcatEmptySeq
      <4> QED BY <4>1, <4>2, <4>3
    <3>4. t = Between(a, one, c2) /\ s = Between(a, e \o one, c2)
      BY <1>1, <1>n, <2>1, <2>o, <3>2, <3>3 DEF e
    <3>5. Texts!Splice(t, pos, 1, <<>>) = Between(a, <<>>, c2)
      <4>1. Texts!Splice(Between(a, one, c2), Len(a), Len(one), nil) = Between(a, nil, c2)
        BY SpliceBetween
      <4> QED BY <1>1, <1>n, <2>7, <2>o, <3>4, <4>1
    <3>6. m \in Recs
      BY <1>2, <2>o, <3>1, <3>3 DEF Recs
    <3>7. /\ Len(a) = m.pos
          /\ s = Between(a, m.erased, c2)
          /\ Texts!Splice(t, pos, 1, <<>>) = Between(a, m.inserted, c2)
      BY <1>1, <2>o, <3>1, <3>4, <3>5
    <3>8. Follows(m, s, Texts!Splice(t, pos, 1, <<>>))
      BY <3>6, <3>7 DEF Follows
    <3> QED BY <2>1, <3>8 DEF t
  <2>8. CASE pos = r.pos - 1
    <3>1. m = [pos |-> pos, erased |-> <<x>> \o e, inserted |-> <<>>]
      <4>1. m = [r EXCEPT !.pos = pos, !.erased = <<x>> \o e]
        BY <1>2, <2>1, <2>8
      <4> QED BY <1>2, <2>1, <4>1
    <3>2. PICK a2 \in Seq(Char) : a = a2 \o <<x>> /\ Len(a2) = pos
      <4>1. Len(a) = pos + 1 /\ x = a[Len(a)]
        <5>1. Len(a) = pos + 1
          BY <1>1, <1>2, <2>8
        <5>2. pos + 1 \in 1 .. Len(a) + Len(c) /\ pos + 1 <= Len(a)
          BY <2>4, <5>1
        <5> QED BY <2>3, <5>1, <5>2 DEF x
      <4>2. a = SubSeq(a, 1, pos) \o <<a[Len(a)]>>
        <5>1. 1 \in 1 .. Len(a) /\ Len(a) \in 1 .. Len(a) /\ Len(a) - 1 = pos
          BY <2>4, <4>1
        <5>2. SubSeq(a, 1, Len(a)) = SubSeq(a, 1, Len(a) - 1) \o <<a[Len(a)]>>
          BY <5>1, SubSeqRecursiveSecond
        <5> QED BY <5>1, <5>2, SubSeqFull
      <4>3. SubSeq(a, 1, pos) \in Seq(Char) /\ Len(SubSeq(a, 1, pos)) = pos
        BY <2>4, <4>1
      <4> QED BY <4>1, <4>2, <4>3
    <3>3. /\ Between(a2 \o one, e, c) = Between(a2, one \o e, c)
          /\ Between(a2 \o one, nil, c) = Between(a2, one \o nil, c)
          /\ one \o e \in Seq(Char) /\ one \o nil = one
      <4>1. Between(a2 \o one, e, c) = Between(a2, one \o e, c) /\ one \o e \in Seq(Char)
        BY <2>e, BetweenShifts
      <4>2. Between(a2 \o one, nil, c) = Between(a2, one \o nil, c)
        BY BetweenShifts
      <4>3. one \o nil = one
        BY <1>n, ConcatEmptySeq
      <4> QED BY <4>1, <4>2, <4>3
    <3>4. t = Between(a2, one, c) /\ s = Between(a2, one \o e, c)
      BY <1>1, <1>n, <2>1, <2>o, <3>2, <3>3 DEF e
    <3>5. Texts!Splice(t, pos, 1, <<>>) = Between(a2, <<>>, c)
      <4>1. Texts!Splice(Between(a2, one, c), Len(a2), Len(one), nil) = Between(a2, nil, c)
        BY SpliceBetween
      <4> QED BY <1>n, <2>o, <3>2, <3>4, <4>1
    <3>6. m \in Recs
      BY <1>2, <2>o, <3>1, <3>3 DEF Recs
    <3>7. /\ Len(a2) = m.pos
          /\ s = Between(a2, m.erased, c)
          /\ Texts!Splice(t, pos, 1, <<>>) = Between(a2, m.inserted, c)
      BY <2>o, <3>1, <3>2, <3>4, <3>5
    <3>8. Follows(m, s, Texts!Splice(t, pos, 1, <<>>))
      BY <3>6, <3>7 DEF Follows
    <3> QED BY <2>1, <3>8 DEF t
  <2> QED BY <2>1, <2>7, <2>8
<1> QED BY <1>4, <1>5

-----------------------------------------------------------------------------
(* The chain of texts a list describes.                                    *)

\* The fields of a document.
IsDoc(d) ==
  /\ d \in [text : Seq(Char), recs : Seq(Recs), at : Nat,
            head : {"null", "first", "freed"}, dirty : BOOLEAN, undefined : BOOLEAN]
  /\ d.at <= Len(d.recs)

\* h are the texts before, between and after the records of d.
Chain(d, h) ==
  /\ h \in [0 .. Len(d.recs) -> Seq(Char)]
  /\ h[d.at] = d.text
  /\ \A i \in 1 .. Len(d.recs) : Follows(d.recs[i], h[i - 1], h[i])

\* A function is the text before the newest record in effect and those before
\* it, or the text after it and those behind.
IsBack(d, w) ==
  w = [i \in 0 .. d.at |->
        IF i = d.at THEN d.text
        ELSE LET r == d.recs[i + 1]
             IN  Texts!Splice(w[i + 1], r.pos, Len(r.inserted), r.erased)]
\* The texts that redoing makes, up to the last record.
IsForth(d, w) ==
  w = [i \in d.at .. Len(d.recs) |->
        IF i = d.at THEN d.text
        ELSE LET r == d.recs[i]
             IN  Texts!Splice(w[i - 1], r.pos, Len(r.erased), r.inserted)]

\* Going back from the text gives the chain.
LEMMA BackIsChain ==
  ASSUME NEW d, IsDoc(d), NEW h, Chain(d, h), NEW w, IsBack(d, w),
         NEW k \in 0 .. d.at
  PROVE  w[k] = h[k]
<1>1. d.at \in Nat /\ Len(d.recs) \in Nat /\ d.at <= Len(d.recs)
  BY DEF IsDoc
<1>2. ASSUME NEW i \in 0 .. d.at
      PROVE  w[i] = IF i = d.at THEN d.text
                    ELSE Texts!Splice(w[i + 1], d.recs[i + 1].pos,
                                      Len(d.recs[i + 1].inserted), d.recs[i + 1].erased)
  BY DEF IsBack
<1>3. ASSUME NEW i \in 0 .. d.at - 1
      PROVE  h[i] = Texts!Splice(h[i + 1], d.recs[i + 1].pos,
                                 Len(d.recs[i + 1].inserted), d.recs[i + 1].erased)
  <2>1. i + 1 \in 1 .. Len(d.recs) /\ (i + 1) - 1 = i
    BY <1>1
  <2>2. Follows(d.recs[i + 1], h[i], h[i + 1])
    BY <2>1 DEF Chain
  <2> QED BY <2>2, FollowsBothWays
<1> DEFINE S == {n \in Nat : n <= d.at => w[d.at - n] = h[d.at - n]}
<1>4. 0 \in S
  <2>1. d.at - 0 = d.at /\ d.at \in 0 .. d.at
    BY <1>1
  <2>2. w[d.at] = h[d.at]
    BY <1>2, <2>1 DEF Chain
  <2> QED BY <2>1, <2>2
<1>5. ASSUME NEW n \in Nat, n \in S PROVE n + 1 \in S
  <2> SUFFICES ASSUME n + 1 <= d.at PROVE w[d.at - (n + 1)] = h[d.at - (n + 1)]
    OBVIOUS
  <2>1. PICK i \in 0 .. d.at - 1 : i = d.at - (n + 1)
    BY <1>1
  <2>2. i + 1 = d.at - n /\ i \in 0 .. d.at /\ i # d.at /\ n <= d.at
    BY <1>1, <2>1
  <2>3. w[i + 1] = h[i + 1]
    BY <1>5, <2>2
  <2>4. w[i] = Texts!Splice(w[i + 1], d.recs[i + 1].pos,
                            Len(d.recs[i + 1].inserted), d.recs[i + 1].erased)
    BY <1>2, <2>2
  <2> QED BY <1>3, <2>1, <2>3, <2>4
<1>6. Nat \subseteq S
  <2> HIDE DEF S
  <2> QED BY <1>4, <1>5, NatSetInduction
<1>7. d.at - k \in Nat /\ d.at - k <= d.at /\ d.at - (d.at - k) = k
  BY <1>1
<1> QED BY <1>6, <1>7

\* Going forth from the text gives the chain.
LEMMA ForthIsChain ==
  ASSUME NEW d, IsDoc(d), NEW h, Chain(d, h), NEW w, IsForth(d, w),
         NEW k \in d.at .. Len(d.recs)
  PROVE  w[k] = h[k]
<1>1. d.at \in Nat /\ Len(d.recs) \in Nat /\ d.at <= Len(d.recs)
  BY DEF IsDoc
<1>2. ASSUME NEW i \in d.at .. Len(d.recs)
      PROVE  w[i] = IF i = d.at THEN d.text
                    ELSE Texts!Splice(w[i - 1], d.recs[i].pos,
                                      Len(d.recs[i].erased), d.recs[i].inserted)
  BY DEF IsForth
<1>3. ASSUME NEW i \in d.at + 1 .. Len(d.recs)
      PROVE  h[i] = Texts!Splice(h[i - 1], d.recs[i].pos,
                                 Len(d.recs[i].erased), d.recs[i].inserted)
  <2>1. i \in 1 .. Len(d.recs)
    BY <1>1
  <2>2. Follows(d.recs[i], h[i - 1], h[i])
    BY <2>1 DEF Chain
  <2> QED BY <2>2, FollowsBothWays
<1> DEFINE S == {n \in Nat : d.at + n <= Len(d.recs) => w[d.at + n] = h[d.at + n]}
<1>4. 0 \in S
  <2>1. d.at + 0 = d.at /\ d.at \in d.at .. Len(d.recs)
    BY <1>1
  <2>2. w[d.at] = h[d.at]
    BY <1>2, <2>1 DEF Chain
  <2> QED BY <2>1, <2>2
<1>5. ASSUME NEW n \in Nat, n \in S PROVE n + 1 \in S
  <2> SUFFICES ASSUME d.at + (n + 1) <= Len(d.recs)
               PROVE  w[d.at + (n + 1)] = h[d.at + (n + 1)]
    OBVIOUS
  <2>1. PICK i \in d.at + 1 .. Len(d.recs) : i = d.at + (n + 1)
    BY <1>1
  <2>2. i - 1 = d.at + n /\ i \in d.at .. Len(d.recs) /\ i # d.at /\ d.at + n <= Len(d.recs)
    BY <1>1, <2>1
  <2>3. w[i - 1] = h[i - 1]
    BY <1>5, <2>2
  <2>4. w[i] = Texts!Splice(w[i - 1], d.recs[i].pos,
                            Len(d.recs[i].erased), d.recs[i].inserted)
    BY <1>2, <2>2
  <2> QED BY <1>3, <2>1, <2>3, <2>4
<1>6. Nat \subseteq S
  <2> HIDE DEF S
  <2> QED BY <1>4, <1>5, NatSetInduction
<1>7. k - d.at \in Nat /\ d.at + (k - d.at) = k /\ k <= Len(d.recs)
  BY <1>1
<1> QED BY <1>6, <1>7

\* The texts of the specification are those of the chain.
LEMMA TextAtIsChain ==
  ASSUME NEW d, IsDoc(d), NEW h, Chain(d, h), NEW k \in 0 .. Len(d.recs)
  PROVE  TextAt(d, k) = h[k]
<1>1. d.at \in Nat /\ Len(d.recs) \in Nat /\ d.at <= Len(d.recs)
  BY DEF IsDoc
<1>2. ASSUME NEW i \in 1 .. Len(d.recs)
      PROVE  /\ h[i - 1] = Texts!Splice(h[i], d.recs[i].pos,
                                        Len(d.recs[i].inserted), d.recs[i].erased)
             /\ h[i] = Texts!Splice(h[i - 1], d.recs[i].pos,
                                    Len(d.recs[i].erased), d.recs[i].inserted)
  <2>1. Follows(d.recs[i], h[i - 1], h[i])
    BY DEF Chain
  <2> QED BY <2>1, FollowsBothWays
<1>3. h[d.at] = d.text
  BY DEF Chain
<1> DEFINE StepB(f, i) == IF i = d.at THEN d.text
                          ELSE LET r == d.recs[i + 1]
                               IN  Texts!Splice(f[i + 1], r.pos, Len(r.inserted), r.erased)
           StepF(f, i) == IF i = d.at THEN d.text
                          ELSE LET r == d.recs[i]
                               IN  Texts!Splice(f[i - 1], r.pos, Len(r.erased), r.inserted)
           back == CHOOSE f : f = [i \in 0 .. d.at |-> StepB(f, i)]
           forth == CHOOSE f : f = [i \in d.at .. Len(d.recs) |-> StepF(f, i)]
           hb == [i \in 0 .. d.at |-> h[i]]
           hf == [i \in d.at .. Len(d.recs) |-> h[i]]
<1>4. TextAt(d, k) = IF k <= d.at THEN back[k] ELSE forth[k]
  BY DEF TextAt
<1>5. IsBack(d, back)
  <2>1. ASSUME NEW i \in 0 .. d.at PROVE h[i] = StepB(hb, i)
    <3>1. CASE i = d.at
      BY <1>3, <3>1
    <3>2. CASE i # d.at
      <4>1. i + 1 \in 1 .. Len(d.recs) /\ i + 1 \in 0 .. d.at /\ (i + 1) - 1 = i
        BY <1>1, <3>2
      <4>2. hb[i + 1] = h[i + 1]
        BY <4>1
      <4> HIDE DEF hb
      <4> QED BY <1>2, <3>2, <4>1, <4>2
    <3> QED BY <3>1, <3>2
  <2>2. hb = [i \in 0 .. d.at |-> StepB(hb, i)]
    <3> HIDE DEF StepB
    <3> QED BY <2>1
  <2>3. back = [i \in 0 .. d.at |-> StepB(back, i)]
    <3> HIDE DEF StepB, hb
    <3> QED BY <2>2
  <2> HIDE DEF back
  <2> QED BY <2>3 DEF IsBack
<1>6. IsForth(d, forth)
  <2>1. ASSUME NEW i \in d.at .. Len(d.recs) PROVE h[i] = StepF(hf, i)
    <3>1. CASE i = d.at
      BY <1>3, <3>1
    <3>2. CASE i # d.at
      <4>1. i \in 1 .. Len(d.recs) /\ i - 1 \in d.at .. Len(d.recs)
        BY <1>1, <3>2
      <4>2. hf[i - 1] = h[i - 1]
        BY <4>1
      <4> HIDE DEF hf
      <4> QED BY <1>2, <3>2, <4>1, <4>2
    <3> QED BY <3>1, <3>2
  <2>2. hf = [i \in d.at .. Len(d.recs) |-> StepF(hf, i)]
    <3> HIDE DEF StepF
    <3> QED BY <2>1
  <2>3. forth = [i \in d.at .. Len(d.recs) |-> StepF(forth, i)]
    <3> HIDE DEF StepF, hf
    <3> QED BY <2>2
  <2> HIDE DEF forth
  <2> QED BY <2>3 DEF IsForth
<1> HIDE DEF back, forth
<1>7. CASE k <= d.at
  <2>1. k \in 0 .. d.at
    BY <1>1, <1>7
  <2> QED BY <1>4, <1>5, <1>7, <2>1, BackIsChain
<1>8. CASE ~(k <= d.at)
  <2>1. k \in d.at .. Len(d.recs)
    BY <1>1, <1>8
  <2> QED BY <1>4, <1>6, <1>8, <2>1, ForthIsChain
<1> QED BY <1>7, <1>8

-----------------------------------------------------------------------------
(* What the commands do to the chain.                                      *)

\* The chain up to the n-th text, which is t.
Until(h, n, t) == [i \in 0 .. n |-> IF i = n THEN t ELSE h[i]]

\* A document with the records up to the n-th and its text in that place.
LEMMA ChainUntil ==
  ASSUME NEW d, IsDoc(d), NEW h, Chain(d, h), NEW n \in Nat, NEW t \in Seq(Char),
         NEW e, Len(e.recs) = n, e.at = n, e.text = t, n <= Len(d.recs) + 1,
         \A i \in 1 .. n - 1 : e.recs[i] = d.recs[i],
         n >= 1 => Follows(e.recs[n], h[n - 1], t)
  PROVE  Chain(e, Until(h, n, t))
<1> DEFINE g == Until(h, n, t)
<1>1. Len(d.recs) \in Nat
  BY DEF IsDoc
<1>2. \A i \in 0 .. n : g[i] = IF i = n THEN t ELSE h[i]
  BY DEF Until
<1>3. \A i \in 0 .. n - 1 : h[i] \in Seq(Char)
  <2>1. h \in [0 .. Len(d.recs) -> Seq(Char)]
    BY DEF Chain
  <2>2. \A i \in 0 .. n - 1 : i \in 0 .. Len(d.recs)
    BY <1>1
  <2> QED BY <2>1, <2>2
<1>4. g \in [0 .. n -> Seq(Char)]
  BY <1>2, <1>3 DEF Until
<1>5. ASSUME NEW i \in 1 .. n PROVE Follows(e.recs[i], g[i - 1], g[i])
  <2>1. i - 1 \in 0 .. n /\ i - 1 # n /\ i \in 0 .. n
    OBVIOUS
  <2>2. g[i - 1] = h[i - 1]
    BY <1>2, <2>1
  <2>3. CASE i = n
    <3>1. g[i] = t
      BY <1>2, <2>1, <2>3
    <3> HIDE DEF g
    <3> QED BY <2>2, <2>3, <3>1
  <2>4. CASE i # n
    <3>1. g[i] = h[i]
      BY <1>2, <2>1, <2>4
    <3>2. i \in 1 .. n - 1 /\ i \in 1 .. Len(d.recs)
      BY <1>1, <2>4
    <3>3. e.recs[i] = d.recs[i] /\ Follows(d.recs[i], h[i - 1], h[i])
      BY <3>2 DEF Chain
    <3> HIDE DEF g
    <3> QED BY <2>2, <3>1, <3>3
  <2> QED BY <2>3, <2>4
<1>6. g[e.at] = e.text
  BY <1>2
<1> HIDE DEF g
<1>7. Chain(e, g)
  BY <1>4, <1>5, <1>6 DEF Chain
<1> QED BY <1>7 DEF g

\* reset_undo forgets the records that were undone.
LEMMA ResetForgets ==
  ASSUME NEW d, IsDoc(d)
  PROVE  LET e == ResetUndo(d)
         IN  /\ e = [text |-> d.text, recs |-> SubSeq(d.recs, 1, d.at), at |-> d.at,
                     head |-> e.head, dirty |-> d.dirty, undefined |-> d.undefined]
             /\ e.head \in {"null", "first", "freed"}
             /\ (d.head = "null" <=> d.recs = <<>>) /\ e.head = "null"
                  => e.recs = <<>>
<1>1. /\ d.at \in Nat /\ d.recs \in Seq(Recs) /\ d.at <= Len(d.recs) /\ Len(d.recs) \in Nat
      /\ d.head \in {"null", "first", "freed"}
      /\ d = [text |-> d.text, recs |-> d.recs, at |-> d.at,
              head |-> d.head, dirty |-> d.dirty, undefined |-> d.undefined]
  BY DEF IsDoc
<1>2. CASE d.at = Len(d.recs)
  <2>1. ResetUndo(d) = d
    BY <1>2 DEF ResetUndo
  <2>2. SubSeq(d.recs, 1, d.at) = d.recs
    BY <1>1, <1>2, SubSeqFull
  <2> QED BY <1>1, <2>1, <2>2
<1>3. CASE d.at # Len(d.recs)
  <2>1. PICK e : e = [d EXCEPT !.recs = SubSeq(d.recs, 1, d.at),
                               !.head = IF d.at = 0 THEN "freed" ELSE d.head]
    OBVIOUS
  <2>2. e = [text |-> d.text, recs |-> SubSeq(d.recs, 1, d.at), at |-> d.at,
             head |-> IF d.at = 0 THEN "freed" ELSE d.head,
             dirty |-> d.dirty, undefined |-> d.undefined]
    BY <1>1, <2>1
  <2>3. ResetUndo(d) = e
    BY <1>3, <2>1 DEF ResetUndo
  <2>4. d.recs # <<>>
    BY <1>1, <1>3
  <2> QED BY <1>1, <2>2, <2>3, <2>4
<1> QED BY <1>2, <1>3

\* replace: the edit is a new step of the chain, or it replaces the newest.
LEMMA ReplaceExtends ==
  ASSUME NEW d, IsDoc(d), d.head = "null" <=> d.recs = <<>>,
         NEW h, Chain(d, h), NEW pos \in Nat, NEW len \in Nat, NEW buf \in Seq(Char),
         pos + len <= Len(d.text)
  PROVE  LET e == ReplaceIn(d, pos, len, buf)
             t == Texts!Splice(d.text, pos, len, buf)
         IN  /\ IsDoc(e) /\ e.head # "null" /\ e.recs # <<>>
             /\ e.text = t /\ e.dirty /\ e.undefined = d.undefined
             /\ Len(e.recs) = e.at
             /\ \/ e.at = d.at + 1
                \/ e.at = d.at /\ d.at # 0 /\ len + Len(buf) = 1
             /\ Chain(e, Until(h, e.at, t))
<1> DEFINE t == Texts!Splice(d.text, pos, len, buf)
           d1 == ResetUndo(d)
           q == SubSeq(d.recs, 1, d.at)
           merged == IF d.at = 0 THEN {} ELSE Merged(d1, pos, len, buf, q[d.at])
           d2 == Record(d1, pos, len, buf)
           e == ReplaceIn(d, pos, len, buf)
<1>1. /\ d.at \in Nat /\ d.recs \in Seq(Recs) /\ d.at <= Len(d.recs) /\ Len(d.recs) \in Nat
      /\ d.text \in Seq(Char) /\ d.dirty \in BOOLEAN /\ d.undefined \in BOOLEAN
  BY DEF IsDoc
<1>2. /\ d1 = [text |-> d.text, recs |-> q, at |-> d.at,
               head |-> d1.head, dirty |-> d.dirty, undefined |-> d.undefined]
      /\ d1.head \in {"null", "first", "freed"}
      /\ d1.head = "null" => q = <<>>
  <2>1. /\ ResetUndo(d) = [text |-> d.text, recs |-> SubSeq(d.recs, 1, d.at), at |-> d.at,
                            head |-> ResetUndo(d).head, dirty |-> d.dirty,
                            undefined |-> d.undefined]
        /\ ResetUndo(d).head \in {"null", "first", "freed"}
        /\ ResetUndo(d).head = "null" => ResetUndo(d).recs = <<>>
    BY ResetForgets
  <2>2. ResetUndo(d).recs = SubSeq(d.recs, 1, d.at)
    BY <2>1
  <2> QED BY <2>1, <2>2
<1>3. /\ q \in Seq(Recs) /\ Len(q) = d.at
      /\ \A i \in 1 .. d.at : q[i] = d.recs[i]
  BY <1>1
<1>4. t \in Seq(Char)
  <2>1. PICK r : Follows(r, d.text, t)
    BY <1>1, EditFollows
  <2> HIDE DEF t
  <2> QED BY <2>1, FollowsBothWays
<1> HIDE DEF d1, q, t
<1>5. d2 = IF merged # {}
           THEN [d1 EXCEPT !.recs = [q EXCEPT ![d.at] = CHOOSE r \in merged : TRUE]]
           ELSE [d1 EXCEPT !.recs = Append(q, [pos |-> pos, inserted |-> buf,
                                               erased |-> SubSeq(d.text, pos + 1, pos + len)]),
                           !.at = d.at + 1,
                           !.head = IF d1.head = "null" THEN "first" ELSE d1.head]
  <2>1. d1.recs = q /\ d1.text = d.text /\ Len(q) = d.at
    BY <1>2, <1>3
  <2> QED BY <2>1 DEF Record
<1>6. e = [d2 EXCEPT !.text = Texts!Splice(d2.text, pos, len, buf), !.dirty = TRUE]
  BY DEF ReplaceIn, ReplaceText, d1
<1> HIDE DEF d2, e, merged
<1>7. ASSUME NEW recs \in Seq(Recs), NEW n \in Nat, Len(recs) = n, n <= d.at + 1,
             NEW head \in {"first", "freed"}, n >= 1,
             d2 = [text |-> d.text, recs |-> recs, at |-> n, head |-> head,
                   dirty |-> d.dirty, undefined |-> d.undefined],
             \A i \in 1 .. n - 1 : recs[i] = d.recs[i],
             Follows(recs[n], h[n - 1], t)
      PROVE  /\ IsDoc(e) /\ e.head # "null" /\ e.recs # <<>>
             /\ e.text = t /\ e.dirty /\ e.undefined = d.undefined
             /\ Len(e.recs) = e.at /\ e.at = n
             /\ Chain(e, Until(h, e.at, t))
  <2>1. e = [text |-> t, recs |-> recs, at |-> n, head |-> head,
             dirty |-> TRUE, undefined |-> d.undefined]
    BY <1>6, <1>7 DEF t
  <2>2. IsDoc(e)
    BY <1>1, <1>4, <1>7, <2>1 DEF IsDoc
  <2>3. n <= Len(d.recs) + 1
    BY <1>1, <1>7
  <2>4. /\ e.text = t /\ e.recs = recs /\ e.at = n /\ e.head = head /\ e.dirty
        /\ e.undefined = d.undefined
    BY <2>1
  <2> HIDE DEF e
  <2>5. Chain(e, Until(h, n, t))
    BY <1>4, <1>7, <2>3, <2>4, ChainUntil
  <2>6. recs # <<>>
    BY <1>7
  <2> QED BY <1>7, <2>2, <2>4, <2>5, <2>6
<1>8. CASE merged = {}
  <2> DEFINE r == [pos |-> pos, inserted |-> buf, erased |-> SubSeq(d.text, pos + 1, pos + len)]
             recs == Append(q, r)
             head == IF d1.head = "null" THEN "first" ELSE d1.head
  <2>1. Follows(r, d.text, t)
    BY <1>1, EditFollows DEF t
  <2>2. r \in Recs
    BY <2>1 DEF Follows
  <2> HIDE DEF r
  <2>3. /\ recs \in Seq(Recs) /\ Len(recs) = d.at + 1 /\ recs[d.at + 1] = r
        /\ \A i \in 1 .. d.at : recs[i] = q[i]
    BY <1>1, <1>3, <2>2, AppendProperties
  <2>4. d2 = [text |-> d.text, recs |-> recs, at |-> d.at + 1, head |-> head,
              dirty |-> d.dirty, undefined |-> d.undefined]
    <3>1. d2 = [d1 EXCEPT !.recs = recs, !.at = d.at + 1, !.head = head]
      BY <1>5, <1>8 DEF r
    <3> HIDE DEF recs, head
    <3>2. PICK hd : d1 = [text |-> d.text, recs |-> q, at |-> d.at, head |-> hd,
                          dirty |-> d.dirty, undefined |-> d.undefined]
      BY <1>2
    <3>3. PICK x : x = [d1 EXCEPT !.recs = recs]
      OBVIOUS
    <3>4. x = [text |-> d.text, recs |-> recs, at |-> d.at, head |-> hd,
               dirty |-> d.dirty, undefined |-> d.undefined]
      BY <3>2, <3>3
    <3>5. d2 = [x EXCEPT !.at = d.at + 1, !.head = head]
      BY <3>1, <3>3
    <3> QED BY <3>4, <3>5
  <2>5. head \in {"first", "freed"}
    BY <1>2
  <2>6. h[d.at] = d.text
    BY DEF Chain
  <2> HIDE DEF recs, head
  <2>7. PICK n \in Nat : n = d.at + 1 /\ n - 1 = d.at /\ n >= 1
    BY <1>1
  <2>8. \A i \in 1 .. n - 1 : recs[i] = d.recs[i]
    BY <1>3, <2>3, <2>7
  <2>9. /\ IsDoc(e) /\ e.head # "null" /\ e.recs # <<>>
        /\ e.text = t /\ e.dirty /\ e.undefined = d.undefined
        /\ Len(e.recs) = e.at /\ e.at = n
        /\ Chain(e, Until(h, e.at, t))
    <3>1. Follows(recs[n], h[n - 1], t)
      BY <2>1, <2>3, <2>6, <2>7
    <3>2. Len(recs) = n /\ n <= d.at + 1
      BY <2>3, <2>7, <1>1
    <3> QED BY <1>7, <2>3, <2>4, <2>5, <2>7, <2>8, <3>1, <3>2
  <2> QED BY <2>7, <2>9 DEF t, e
<1>9. CASE merged # {}
  <2> DEFINE r == CHOOSE m \in merged : TRUE
             recs == [q EXCEPT ![d.at] = r]
  <2>1. d.at # 0 /\ merged = Merged(d1, pos, len, buf, q[d.at]) /\ r \in merged
    BY <1>9 DEF merged
  <2> HIDE DEF r
  <2>2. d.at \in 1 .. Len(d.recs) /\ d.at \in 1 .. d.at /\ d1.text = d.text
    BY <1>1, <1>2, <2>1
  <2>3. Follows(q[d.at], h[d.at - 1], d1.text)
    BY <1>3, <2>2 DEF Chain
  <2>4. Follows(r, h[d.at - 1], t) /\ len + Len(buf) = 1
    <3>1. pos + len <= Len(d1.text)
      BY <2>2
    <3>2. /\ Follows(r, h[d.at - 1], Texts!Splice(d1.text, pos, len, buf))
          /\ len + Len(buf) = 1
      BY <2>1, <2>3, <3>1, MergeFollows
    <3> QED BY <2>2, <3>2 DEF t
  <2>5. r \in Recs
    BY <2>4 DEF Follows
  <2>6. /\ recs \in Seq(Recs) /\ Len(recs) = d.at
        /\ \A i \in 1 .. d.at : recs[i] = IF i = d.at THEN r ELSE q[i]
    BY <1>3, <2>2, <2>5, ExceptSeq
  <2>7. d2 = [text |-> d.text, recs |-> recs, at |-> d.at, head |-> d1.head,
              dirty |-> d.dirty, undefined |-> d.undefined]
    <3>1. d2 = [d1 EXCEPT !.recs = recs]
      BY <1>5, <1>9 DEF r
    <3> HIDE DEF recs
    <3> QED BY <1>2, <3>1
  <2>8. d1.head \in {"first", "freed"}
    <3>1. q # <<>>
      BY <1>3, <2>1
    <3> QED BY <1>2, <3>1
  <2> HIDE DEF recs
  <2>9. \A i \in 1 .. d.at - 1 : recs[i] = d.recs[i]
    <3> SUFFICES ASSUME NEW i \in 1 .. d.at - 1 PROVE recs[i] = d.recs[i]
      OBVIOUS
    <3>1. i \in 1 .. d.at /\ i # d.at
      BY <1>1
    <3> QED BY <1>3, <2>6, <3>1
  <2>10. /\ IsDoc(e) /\ e.head # "null" /\ e.recs # <<>>
         /\ e.text = t /\ e.dirty /\ e.undefined = d.undefined
         /\ Len(e.recs) = e.at /\ e.at = d.at
         /\ Chain(e, Until(h, e.at, t))
    <3>1. Follows(recs[d.at], h[d.at - 1], t) /\ d.at >= 1 /\ d.at <= d.at + 1
      BY <1>1, <2>1, <2>2, <2>4, <2>6
    <3> QED BY <1>1, <1>7, <2>6, <2>7, <2>8, <2>9, <3>1
  <2> QED BY <2>1, <2>4, <2>10 DEF t, e
<1> QED BY <1>8, <1>9

\* undo goes back one text, redo goes forth one; neither changes the chain.
LEMMA UndoGoesBack ==
  ASSUME NEW d, IsDoc(d), d.at # 0, NEW h, Chain(d, h)
  PROVE  /\ UndoIn(d) = [text |-> h[d.at - 1], recs |-> d.recs, at |-> d.at - 1,
                         head |-> d.head, dirty |-> d.at # 1, undefined |-> d.undefined]
         /\ h[d.at - 1] \in Seq(Char) /\ d.at - 1 \in Nat
         /\ IsDoc(UndoIn(d)) /\ Chain(UndoIn(d), h)
<1> DEFINE r == d.recs[d.at]
           e == UndoIn(d)
<1>1. /\ d.at \in Nat /\ d.recs \in Seq(Recs) /\ d.at <= Len(d.recs) /\ Len(d.recs) \in Nat
      /\ d.head \in {"null", "first", "freed"} /\ d.undefined \in BOOLEAN
      /\ d = [text |-> d.text, recs |-> d.recs, at |-> d.at,
              head |-> d.head, dirty |-> d.dirty, undefined |-> d.undefined]
  BY DEF IsDoc
<1>2. d.at \in 1 .. Len(d.recs) /\ d.at - 1 \in Nat /\ d.at - 1 <= Len(d.recs)
  BY <1>1
<1>3. Follows(r, h[d.at - 1], d.text)
  BY <1>2 DEF Chain
<1>4. /\ h[d.at - 1] = Texts!Splice(d.text, r.pos, Len(r.inserted), r.erased)
      /\ h[d.at - 1] \in Seq(Char)
  <2> HIDE DEF r
  <2> QED BY <1>3, FollowsBothWays
<1>5. PICK x : x = [d EXCEPT !.text = h[d.at - 1], !.dirty = TRUE]
  OBVIOUS
<1>6. x = [text |-> h[d.at - 1], recs |-> d.recs, at |-> d.at,
           head |-> d.head, dirty |-> TRUE, undefined |-> d.undefined]
  BY <1>1, <1>5
<1>7. e = [x EXCEPT !.at = d.at - 1, !.dirty = d.at # 1]
  BY <1>4, <1>5 DEF UndoIn, ReplaceText
<1> HIDE DEF e
<1>8. e = [text |-> h[d.at - 1], recs |-> d.recs, at |-> d.at - 1,
           head |-> d.head, dirty |-> d.at # 1, undefined |-> d.undefined]
  BY <1>6, <1>7
<1>9. e.text = h[d.at - 1] /\ e.recs = d.recs /\ e.at = d.at - 1
  BY <1>8
<1>10. IsDoc(e)
  BY <1>1, <1>2, <1>4, <1>8 DEF IsDoc
<1>11. Chain(e, h)
  BY <1>9 DEF Chain
<1> QED BY <1>2, <1>4, <1>8, <1>10, <1>11 DEF e

\* Redo takes the text to the next of the chain.
LEMMA RedoGoesForth ==
  ASSUME NEW d, IsDoc(d), d.at # Len(d.recs), ~(d.at = 0 /\ d.head = "freed"),
         NEW h, Chain(d, h)
  PROVE  /\ RedoIn(d) = [text |-> h[d.at + 1], recs |-> d.recs, at |-> d.at + 1,
                         head |-> d.head, dirty |-> TRUE, undefined |-> d.undefined]
         /\ IsDoc(RedoIn(d)) /\ Chain(RedoIn(d), h)
<1> DEFINE r == d.recs[d.at + 1]
           e == RedoIn(d)
<1>1. /\ d.at \in Nat /\ d.recs \in Seq(Recs) /\ d.at <= Len(d.recs) /\ Len(d.recs) \in Nat
      /\ d.head \in {"null", "first", "freed"} /\ d.undefined \in BOOLEAN
      /\ d = [text |-> d.text, recs |-> d.recs, at |-> d.at,
              head |-> d.head, dirty |-> d.dirty, undefined |-> d.undefined]
  BY DEF IsDoc
<1>2. d.at + 1 \in 1 .. Len(d.recs) /\ d.at + 1 \in Nat /\ (d.at + 1) - 1 = d.at
      /\ d.at + 1 <= Len(d.recs)
  BY <1>1
<1>3. Follows(r, d.text, h[d.at + 1])
  BY <1>2 DEF Chain
<1>4. /\ h[d.at + 1] = Texts!Splice(d.text, r.pos, Len(r.erased), r.inserted)
      /\ h[d.at + 1] \in Seq(Char)
  <2> HIDE DEF r
  <2> QED BY <1>3, FollowsBothWays
<1>5. PICK x : x = [d EXCEPT !.text = h[d.at + 1], !.dirty = TRUE]
  OBVIOUS
<1>6. x = [text |-> h[d.at + 1], recs |-> d.recs, at |-> d.at,
           head |-> d.head, dirty |-> TRUE, undefined |-> d.undefined]
  BY <1>1, <1>5
<1>7. e = [x EXCEPT !.at = d.at + 1]
  BY <1>4, <1>5 DEF RedoIn, ReplaceText
<1> HIDE DEF e
<1>8. e = [text |-> h[d.at + 1], recs |-> d.recs, at |-> d.at + 1,
           head |-> d.head, dirty |-> TRUE, undefined |-> d.undefined]
  BY <1>6, <1>7
<1>9. e.text = h[d.at + 1] /\ e.recs = d.recs /\ e.at = d.at + 1
  BY <1>8
<1>10. IsDoc(e)
  BY <1>1, <1>2, <1>4, <1>8 DEF IsDoc
<1>11. Chain(e, h)
  BY <1>9 DEF Chain
<1> QED BY <1>8, <1>10, <1>11 DEF e

-----------------------------------------------------------------------------
(* The invariant.                                                          *)

\* The list describes a chain of texts that starts with the saved one, and the
\* dirty flag tells whether the text is that one.
ChainOK ==
  /\ saved \in Seq(Char)
  /\ IsDoc(doc)
  /\ doc.head = "null" <=> doc.recs = <<>>
  /\ doc.dirty <=> doc.at # 0
  /\ \E h : Chain(doc, h) /\ h[0] = saved

\* A document without records has a chain of one text.
LEMMA NoRecordsOK ==
  ASSUME NEW t \in Seq(Char), NEW d, NEW u \in BOOLEAN,
         d = [text |-> t, recs |-> <<>>, at |-> 0, head |-> "null",
              dirty |-> FALSE, undefined |-> u]
  PROVE  IsDoc(d) /\ Chain(d, [i \in 0 .. 0 |-> t])
<1>1. /\ <<>> \in Seq(Recs) /\ Len(<<>>) = 0
  BY EmptySeq
<1>2. d.recs = <<>> /\ d.at = 0 /\ d.text = t
  OBVIOUS
<1>3. IsDoc(d)
  BY <1>1 DEF IsDoc
<1>4. [i \in 0 .. 0 |-> t] \in [0 .. 0 -> Seq(Char)] /\ [i \in 0 .. 0 |-> t][0] = t
  OBVIOUS
<1>5. 1 .. 0 = {}
  OBVIOUS
<1>6. Chain(d, [i \in 0 .. 0 |-> t])
  BY <1>1, <1>2, <1>4, <1>5 DEF Chain
<1> QED BY <1>3, <1>6

\* A text that was just loaded is its own history.
LEMMA UndoInitOK == UndoInit => ChainOK
<1> SUFFICES ASSUME UndoInit PROVE ChainOK
  OBVIOUS
<1>1. /\ saved \in Seq(Char)
      /\ doc = [text |-> saved, recs |-> <<>>, at |-> 0, head |-> "null",
                dirty |-> FALSE, undefined |-> FALSE]
  BY UndoAssumption DEF UndoInit, NewDoc
<1>2. IsDoc(doc) /\ Chain(doc, [i \in 0 .. 0 |-> saved])
  BY <1>1, NoRecordsOK
<1>3. [i \in 0 .. 0 |-> saved][0] = saved
  OBVIOUS
<1>4. doc.head = "null" /\ doc.recs = <<>> /\ doc.dirty = FALSE /\ doc.at = 0
  BY <1>1
<1> QED BY <1>1, <1>2, <1>3, <1>4 DEF ChainOK

-----------------------------------------------------------------------------
(* The texts of the abstract specification.                                *)

\* The texts of the history, as the refinement computes them.
Seen(d) == [i \in 1 .. Len(d.recs) + 1 |-> TextAt(d, i - 1)]

\* They are the chain, from the oldest to the newest.
LEMMA SeenIsChain ==
  ASSUME NEW d, IsDoc(d), NEW h, Chain(d, h)
  PROVE  /\ Len(d.recs) \in Nat /\ d.at \in Nat /\ d.at <= Len(d.recs)
         /\ Seen(d) \in Seq(Seq(Char))
         /\ Len(Seen(d)) = Len(d.recs) + 1
         /\ \A i \in 1 .. Len(d.recs) + 1 : Seen(d)[i] = h[i - 1]
         /\ Seen(d)[d.at + 1] = d.text
<1>1. Len(d.recs) \in Nat /\ d.at \in Nat /\ d.at <= Len(d.recs)
  BY DEF IsDoc
<1>2. ASSUME NEW i \in 1 .. Len(d.recs) + 1
      PROVE  TextAt(d, i - 1) = h[i - 1] /\ h[i - 1] \in Seq(Char)
  <2>1. i - 1 \in 0 .. Len(d.recs)
    BY <1>1
  <2>2. h \in [0 .. Len(d.recs) -> Seq(Char)]
    BY DEF Chain
  <2> QED BY <2>1, <2>2, TextAtIsChain
<1>3. Seen(d) = [i \in 1 .. Len(d.recs) + 1 |-> h[i - 1]]
  BY <1>2 DEF Seen
<1>4. PICK n \in Nat : n = Len(d.recs) + 1
  BY <1>1
<1>5. /\ Seen(d) \in [1 .. n -> Seq(Char)]
      /\ \A i \in 1 .. n : Seen(d)[i] = h[i - 1]
  BY <1>2, <1>3, <1>4
<1>6. Seen(d) \in Seq(Seq(Char)) /\ Len(Seen(d)) = n
  BY <1>5
<1>7. d.at + 1 \in 1 .. n /\ (d.at + 1) - 1 = d.at /\ h[d.at] = d.text
  BY <1>1, <1>4 DEF Chain
<1> QED BY <1>1, <1>4, <1>5, <1>6, <1>7

\* Two documents with the same chain have seen the same texts.
LEMMA SameChainSameSeen ==
  ASSUME NEW d, NEW e, IsDoc(d), IsDoc(e), d.recs = e.recs,
         NEW h, Chain(d, h), Chain(e, h)
  PROVE  Seen(e) = Seen(d)
<1>1. \A i \in 1 .. Len(d.recs) + 1 : Seen(d)[i] = Seen(e)[i]
  BY SeenIsChain
<1>2. /\ Seen(d) \in Seq(Seq(Char)) /\ Seen(e) \in Seq(Seq(Char))
      /\ Len(Seen(d)) = Len(d.recs) + 1 /\ Len(Seen(e)) = Len(d.recs) + 1
  BY SeenIsChain
<1> QED BY <1>1, <1>2, SeqEqual

\* A text put behind the first n.
LEMMA UntilIsThen ==
  ASSUME NEW d, NEW e, IsDoc(d), IsDoc(e), NEW h, NEW t \in Seq(Char),
         e.at = Len(e.recs), e.at <= Len(d.recs) + 1,
         Chain(d, h), Chain(e, Until(h, e.at, t))
  PROVE  Seen(e) = Append(SubSeq(Seen(d), 1, e.at), t)
<1> DEFINE g == Until(h, e.at, t)
           p == SubSeq(Seen(d), 1, e.at)
<1>1. /\ Len(d.recs) \in Nat /\ e.at \in Nat
      /\ Seen(d) \in Seq(Seq(Char)) /\ Len(Seen(d)) = Len(d.recs) + 1
      /\ \A i \in 1 .. Len(d.recs) + 1 : Seen(d)[i] = h[i - 1]
  <2>1. e.at \in Nat
    BY DEF IsDoc
  <2> QED BY <2>1, SeenIsChain
<1>2. /\ Seen(e) \in Seq(Seq(Char)) /\ Len(Seen(e)) = e.at + 1
      /\ \A i \in 1 .. e.at + 1 : Seen(e)[i] = g[i - 1]
  <2> HIDE DEF g
  <2> QED BY SeenIsChain DEF g
<1>3. p \in Seq(Seq(Char)) /\ Len(p) = e.at /\ \A i \in 1 .. e.at : p[i] = Seen(d)[i]
  BY <1>1
<1>4. /\ Append(p, t) \in Seq(Seq(Char)) /\ Len(Append(p, t)) = e.at + 1
      /\ Append(p, t)[e.at + 1] = t
      /\ \A i \in 1 .. e.at : Append(p, t)[i] = p[i]
  <2> HIDE DEF p
  <2> QED BY <1>3, AppendProperties
<1>5. \A i \in 0 .. e.at : g[i] = IF i = e.at THEN t ELSE h[i]
  BY DEF Until
<1> HIDE DEF g, p
<1>6. ASSUME NEW i \in 1 .. e.at + 1 PROVE Seen(e)[i] = Append(p, t)[i]
  <2>1. i - 1 \in 0 .. e.at /\ Seen(e)[i] = g[i - 1]
    BY <1>1, <1>2
  <2>2. CASE i = e.at + 1
    <3>1. i - 1 = e.at
      BY <1>1, <2>2
    <3> QED BY <1>4, <1>5, <2>1, <2>2, <3>1
  <2>3. CASE i # e.at + 1
    <3>1. i - 1 # e.at /\ i \in 1 .. e.at /\ i \in 1 .. Len(d.recs) + 1
      <4>1. PICK n \in Nat : n = e.at
        BY <1>1
      <4>2. PICK m \in Nat : m = Len(d.recs)
        BY <1>1
      <4>3. n <= m + 1 /\ i \in 1 .. n + 1 /\ i # n + 1
        BY <2>3, <4>1, <4>2
      <4>4. i - 1 # n /\ i \in 1 .. n /\ i \in 1 .. m + 1
        BY <4>3
      <4> QED BY <4>1, <4>2, <4>4
    <3> QED BY <1>1, <1>3, <1>4, <1>5, <2>1, <3>1
  <2> QED BY <2>2, <2>3
<1>7. Seen(e) = Append(p, t)
  BY <1>2, <1>4, <1>6, SeqEqual
<1> QED BY <1>7 DEF p

-----------------------------------------------------------------------------
(* The steps.                                                              *)

\* What every command is shown to do: keep the chain, and move along it as
\* ButeHistory allows.
StepOK == ChainOK' /\ [UNCHANGED undoVars \/ H!Next]_(H!vars)

\* Editing forgets what could be redone and merges or appends a record.
LEMMA EditOK ==
  ASSUME ChainOK, NEW pos \in 0 .. Len(doc.text), NEW len \in 0 .. Len(doc.text),
         NEW buf \in Bufs, EditText(pos, len, buf)
  PROVE  StepOK
<1> DEFINE t == Texts!Splice(doc.text, pos, len, buf)
<1>1. PICK h : Chain(doc, h) /\ h[0] = saved
  BY DEF ChainOK
<1>2. /\ pos \in Nat /\ len \in Nat /\ buf \in Seq(Char) /\ pos + len <= Len(doc.text)
      /\ IsDoc(doc) /\ (doc.head = "null" <=> doc.recs = <<>>)
      /\ doc' = ReplaceIn(doc, pos, len, buf) /\ saved' = saved /\ saved \in Seq(Char)
  BY UndoAssumption DEF EditText, ChainOK, IsDoc
<1>3. /\ IsDoc(doc') /\ doc'.head # "null" /\ doc'.recs # <<>>
      /\ doc'.text = t /\ doc'.dirty /\ doc'.undefined = doc.undefined
      /\ Len(doc'.recs) = doc'.at
      /\ \/ doc'.at = doc.at + 1
         \/ doc'.at = doc.at /\ doc.at # 0 /\ len + Len(buf) = 1
      /\ Chain(doc', Until(h, doc'.at, t))
  BY <1>1, <1>2, ReplaceExtends
<1>4. t \in Seq(Char)
  BY <1>3 DEF IsDoc
<1>5. doc.at \in Nat /\ Len(doc.recs) \in Nat /\ doc.at <= Len(doc.recs)
  BY <1>2 DEF IsDoc
<1>6. doc'.at \in Nat /\ doc'.at # 0 /\ doc'.at <= Len(doc.recs) + 1
  BY <1>3, <1>5
<1> HIDE DEF t
<1>7. Until(h, doc'.at, t)[0] = saved'
  BY <1>1, <1>2, <1>6 DEF Until
<1>8. ChainOK'
  BY <1>2, <1>3, <1>6, <1>7 DEF ChainOK
<1>9. Seen(doc)' = Append(SubSeq(Seen(doc), 1, doc'.at), t)
  <2>1. Seen(doc') = Append(SubSeq(Seen(doc), 1, doc'.at), t)
    BY <1>1, <1>2, <1>3, <1>4, <1>6, UntilIsThen
  <2> QED BY <2>1
<1>10. Seen(doc)[doc.at + 1] = doc.text
  BY <1>1, <1>2, SeenIsChain
<1>11. t = H!Text!Splice(doc.text, pos, len, buf)
  BY DEF t, Texts!Splice, H!Text!Splice
<1>12. H!Edit(pos, len, buf)
  <2>1. \/ doc'.at = doc.at + 1 /\ doc'.at + 1 = (doc.at + 1) + 1
        \/ /\ doc'.at = (doc.at + 1) - 1 /\ doc'.at + 1 = doc.at + 1
           /\ doc.at + 1 > 1 /\ len + Len(buf) = 1
    BY <1>3, <1>5
  <2> QED BY <1>2, <1>9, <1>10, <1>11, <2>1 DEF H!Edit, H!Then, Seen
<1>13. H!Next
  BY <1>10, <1>12 DEF H!Next, Seen
<1> QED BY <1>8, <1>13 DEF StepOK

\* Undo goes one text back.
LEMMA UndoOK == ASSUME ChainOK, Undo PROVE StepOK
<1>1. PICK h : Chain(doc, h) /\ h[0] = saved
  BY DEF ChainOK
<1>2. /\ IsDoc(doc) /\ (doc.head = "null" <=> doc.recs = <<>>)
      /\ doc' = UndoIn(doc) /\ saved' = saved /\ saved \in Seq(Char) /\ doc.at # 0
  BY DEF Undo, ChainOK
<1>3. /\ UndoIn(doc) = [text |-> h[doc.at - 1], recs |-> doc.recs, at |-> doc.at - 1,
                        head |-> doc.head, dirty |-> doc.at # 1, undefined |-> doc.undefined]
      /\ doc.at - 1 \in Nat
      /\ IsDoc(doc') /\ Chain(doc', h)
  BY <1>1, <1>2, UndoGoesBack
<1>4. /\ doc'.recs = doc.recs /\ doc'.at = doc.at - 1 /\ doc'.head = doc.head
      /\ doc'.dirty = (doc.at # 1)
  BY <1>2, <1>3
<1>5. doc.at \in Nat
  BY <1>2 DEF IsDoc
<1>6. ChainOK'
  <2>1. doc'.dirty <=> doc'.at # 0
    <3>1. doc.at # 1 <=> doc.at - 1 # 0
      BY <1>5
    <3> QED BY <1>4, <3>1, Zenon
  <2>2. doc'.head = "null" <=> doc'.recs = <<>>
    BY <1>2, <1>4
  <2>3. \E g : Chain(doc', g) /\ g[0] = saved'
    BY <1>1, <1>2, <1>3
  <2> QED BY <1>2, <1>3, <2>1, <2>2, <2>3 DEF ChainOK
<1>7. Seen(doc)' = Seen(doc)
  <2>1. Seen(doc') = Seen(doc)
    BY <1>1, <1>2, <1>3, <1>4, SameChainSameSeen
  <2> QED BY <2>1
<1>8. H!Undo
  <2>1. doc.at + 1 > 1 /\ doc'.at + 1 = (doc.at + 1) - 1
    BY <1>2, <1>4, <1>5
  <2> QED BY <1>2, <1>7, <2>1 DEF H!Undo, Seen
<1> QED BY <1>6, <1>8 DEF StepOK, H!Next

\* Redo goes one text forth.
LEMMA RedoOK == ASSUME ChainOK, Redo PROVE StepOK
<1>1. PICK h : Chain(doc, h) /\ h[0] = saved
  BY DEF ChainOK
<1>2. /\ IsDoc(doc) /\ (doc.head = "null" <=> doc.recs = <<>>) /\ (doc.dirty <=> doc.at # 0)
      /\ doc' = RedoIn(doc) /\ saved' = saved /\ saved \in Seq(Char) /\ CanRedo(doc)
  BY DEF Redo, ChainOK
<1>3. /\ doc.at \in Nat /\ Len(doc.recs) \in Nat /\ doc.recs \in Seq(Recs)
      /\ doc.at <= Len(doc.recs)
      /\ doc.head \in {"null", "first", "freed"} /\ doc.text \in Seq(Char)
      /\ doc.dirty \in BOOLEAN /\ doc.undefined \in BOOLEAN
      /\ doc = [text |-> doc.text, recs |-> doc.recs, at |-> doc.at,
                head |-> doc.head, dirty |-> doc.dirty, undefined |-> doc.undefined]
  BY <1>2 DEF IsDoc
<1>4. CASE doc.at = 0 /\ doc.head = "freed"
  <2>1. doc' = [doc EXCEPT !.undefined = TRUE]
    BY <1>2, <1>4 DEF RedoIn
  <2>2. doc' = [text |-> doc.text, recs |-> doc.recs, at |-> doc.at,
                head |-> doc.head, dirty |-> doc.dirty, undefined |-> TRUE]
    BY <1>3, <2>1
  <2>3. /\ doc'.recs = doc.recs /\ doc'.at = doc.at /\ doc'.head = doc.head
        /\ doc'.text = doc.text /\ doc'.dirty = doc.dirty
    BY <2>2
  <2>4. IsDoc(doc')
    BY <1>3, <2>2 DEF IsDoc
  <2>5. Chain(doc', h)
    BY <1>1, <2>3 DEF Chain
  <2>6. ChainOK'
    BY <1>1, <1>2, <2>3, <2>4, <2>5 DEF ChainOK
  <2>7. Seen(doc)' = Seen(doc)
    <3>1. Seen(doc') = Seen(doc)
      BY <1>1, <1>2, <2>3, <2>4, <2>5, SameChainSameSeen
    <3> QED BY <3>1
  <2>8. UNCHANGED H!vars
    BY <1>2, <2>3, <2>7 DEF H!vars, Seen
  <2> QED BY <2>6, <2>8 DEF StepOK
<1>5. CASE ~(doc.at = 0 /\ doc.head = "freed")
  <2>1. doc.at # Len(doc.recs)
    <3>1. doc.at = 0 => doc.recs # <<>>
      BY <1>2, <1>5 DEF CanRedo
    <3>2. doc.at = 0 => Len(doc.recs) # 0
      BY <1>3, <3>1
    <3> QED BY <1>2, <1>3, <3>2 DEF CanRedo
  <2>2. /\ RedoIn(doc) = [text |-> h[doc.at + 1], recs |-> doc.recs, at |-> doc.at + 1,
                          head |-> doc.head, dirty |-> TRUE, undefined |-> doc.undefined]
        /\ IsDoc(doc') /\ Chain(doc', h)
    BY <1>1, <1>2, <1>5, <2>1, RedoGoesForth
  <2>3. /\ doc'.recs = doc.recs /\ doc'.at = doc.at + 1 /\ doc'.head = doc.head
        /\ doc'.dirty = TRUE
    BY <1>2, <2>2
  <2>4. doc.at + 1 # 0
    BY <1>3
  <2>5. ChainOK'
    BY <1>1, <1>2, <2>2, <2>3, <2>4 DEF ChainOK
  <2>6. Seen(doc)' = Seen(doc)
    <3>1. Seen(doc') = Seen(doc)
      BY <1>1, <1>2, <2>2, <2>3, SameChainSameSeen
    <3> QED BY <3>1
  <2>7. Len(Seen(doc)) = Len(doc.recs) + 1
    BY <1>1, <1>2, SeenIsChain
  <2>8. H!Redo
    <3>1. doc.at + 1 < Len(doc.recs) + 1 /\ doc'.at + 1 = (doc.at + 1) + 1
      BY <1>3, <2>1, <2>3
    <3> QED BY <1>2, <2>6, <2>7, <3>1 DEF H!Redo, Seen
  <2> QED BY <2>5, <2>8 DEF StepOK, H!Next
<1> QED BY <1>4, <1>5

\* Saving changes no text, and ends the merging.
LEMMA SaveOK == ASSUME ChainOK, SaveText PROVE StepOK
<1>1. PICK h : Chain(doc, h)
  BY DEF ChainOK
<1>2. /\ IsDoc(doc) /\ saved' = doc.text
      /\ doc' = [FreeUndo(doc) EXCEPT !.dirty = FALSE]
  BY DEF SaveText, ChainOK
<1>3. /\ doc.text \in Seq(Char)
      /\ doc = [text |-> doc.text, recs |-> doc.recs, at |-> doc.at,
                head |-> doc.head, dirty |-> doc.dirty, undefined |-> doc.undefined]
  BY <1>2 DEF IsDoc
<1>4. PICK u \in BOOLEAN : u = (doc.undefined \/ doc.head = "freed")
  OBVIOUS
<1>5. PICK x : x = [doc EXCEPT !.recs = <<>>, !.at = 0]
  OBVIOUS
<1>6. x = [text |-> doc.text, recs |-> <<>>, at |-> 0,
           head |-> doc.head, dirty |-> doc.dirty, undefined |-> doc.undefined]
  BY <1>3, <1>5
<1>7. PICK y : y = [x EXCEPT !.head = "null", !.undefined = u]
  OBVIOUS
<1>8. y = [text |-> doc.text, recs |-> <<>>, at |-> 0,
           head |-> "null", dirty |-> doc.dirty, undefined |-> u]
  BY <1>6, <1>7
<1>9. FreeUndo(doc) = y
  BY <1>4, <1>5, <1>7 DEF FreeUndo
<1>10. doc' = [text |-> doc.text, recs |-> <<>>, at |-> 0,
               head |-> "null", dirty |-> FALSE, undefined |-> u]
  <2>1. doc' = [y EXCEPT !.dirty = FALSE]
    BY <1>2, <1>9
  <2>2. ASSUME NEW e, e = [y EXCEPT !.dirty = FALSE]
        PROVE  e = [text |-> doc.text, recs |-> <<>>, at |-> 0,
                    head |-> "null", dirty |-> FALSE, undefined |-> u]
    BY <1>8, <2>2
  <2> QED BY <2>1, <2>2
<1>11. IsDoc(doc') /\ Chain(doc', [i \in 0 .. 0 |-> doc.text])
  BY <1>3, <1>10, NoRecordsOK
<1>12. /\ doc'.head = "null" /\ doc'.recs = <<>> /\ doc'.dirty = FALSE /\ doc'.at = 0
       /\ [i \in 0 .. 0 |-> doc.text][0] = saved'
  BY <1>2, <1>10
<1>13. ChainOK'
  BY <1>2, <1>3, <1>11, <1>12 DEF ChainOK
<1>14. Seen(doc)[doc.at + 1] = doc.text
  BY <1>1, <1>2, SeenIsChain
<1>15. Seen(doc)' = <<doc.text>>
  <2>1. /\ Seen(doc') \in Seq(Seq(Char)) /\ Len(Seen(doc')) = 0 + 1
        /\ \A i \in 1 .. 0 + 1 : Seen(doc')[i] = [j \in 0 .. 0 |-> doc.text][i - 1]
    <3>1. Len(doc'.recs) = 0
      BY <1>12, EmptySeq
    <3>2. PICK g : g = [j \in 0 .. 0 |-> doc.text]
      OBVIOUS
    <3>3. /\ Seen(doc') \in Seq(Seq(Char)) /\ Len(Seen(doc')) = Len(doc'.recs) + 1
          /\ \A i \in 1 .. Len(doc'.recs) + 1 : Seen(doc')[i] = g[i - 1]
      BY <1>11, <3>2, SeenIsChain
    <3> QED BY <3>1, <3>2, <3>3
  <2>2. Len(Seen(doc')) = 1 /\ Seen(doc')[1] = doc.text
    BY <2>1
  <2>3. Seen(doc') = <<doc.text>>
    BY <2>1, <2>2
  <2> QED BY <2>3
<1>16. H!Save
  <2>1. doc'.at + 1 = 1
    BY <1>12
  <2> QED BY <1>2, <1>14, <1>15, <2>1 DEF H!Save, Seen
<1> QED BY <1>13, <1>16 DEF StepOK, H!Next

\* So does every step.
LEMMA UndoStepOK == ChainOK /\ [UndoNext]_undoVars => StepOK
<1> SUFFICES ASSUME ChainOK, [UndoNext]_undoVars PROVE StepOK
  OBVIOUS
<1>1. CASE UndoNext
  BY <1>1, EditOK, UndoOK, RedoOK, SaveOK DEF UndoNext
<1>2. CASE UNCHANGED undoVars
  BY <1>2 DEF StepOK, ChainOK, undoVars
<1> QED BY <1>1, <1>2

\* The undo list of a document is well formed, and the flag that decides
\* whether quitting asks is clear exactly when the text is the saved one, with
\* no edit in effect.
THEOREM UndoListInvariant == UndoSpec => []UndoListOK
<1>1. UndoInit => ChainOK
  BY UndoInitOK
<1>2. ChainOK /\ [UndoNext]_undoVars => ChainOK'
  BY UndoStepOK DEF StepOK
<1>3. ChainOK => UndoListOK
  <2> SUFFICES ASSUME ChainOK PROVE UndoListOK
    OBVIOUS
  <2>1. PICK h : Chain(doc, h) /\ h[0] = saved
    BY DEF ChainOK
  <2>2. ~doc.dirty => doc.text = saved
    BY <2>1 DEF Chain, ChainOK
  <2> QED BY <2>2 DEF ChainOK, UndoListOK, TypeOK, CleanMeansSaved, IsDoc
<1>4. QED
  BY <1>1, <1>2, <1>3, PTL DEF UndoSpec

\* Undo and redo of bute do what ButeHistory promises: whatever is merged,
\* forgotten or freed, the texts they bring back are those the editor went
\* through.
THEOREM UndoIsHistory == UndoSpec => RefinesHistory
<1>1. UndoInit => ChainOK /\ H!Init
  <2> SUFFICES ASSUME UndoInit PROVE H!Init
    BY UndoInitOK
  <2>1. saved \in Seq(Char) /\ doc.recs = <<>> /\ doc.at = 0 /\ doc.text = saved
    BY UndoAssumption DEF UndoInit, NewDoc
  <2>2. IsDoc(doc) /\ \E h : Chain(doc, h)
    BY UndoInitOK DEF ChainOK
  <2>3. /\ Seen(doc) \in Seq(Seq(Char)) /\ Len(Seen(doc)) = 1
        /\ Seen(doc)[1] = saved
    <3>1. /\ Seen(doc) \in Seq(Seq(Char)) /\ Len(Seen(doc)) = 0 + 1
          /\ Seen(doc)[0 + 1] = saved
      BY <2>1, <2>2, EmptySeq, SeenIsChain
    <3> QED BY <3>1
  <2>4. Seen(doc) = <<saved>>
    BY <2>3
  <2> QED BY <2>1, <2>4 DEF H!Init, Seen
<1>2. ChainOK /\ [UndoNext]_undoVars
        => ChainOK' /\ [UNCHANGED undoVars \/ H!Next]_(H!vars)
  BY UndoStepOK DEF StepOK
<1>3. QED
  BY <1>1, <1>2, PTL DEF UndoSpec, RefinesHistory

-----------------------------------------------------------------------------
(* The ring of editors.                                                    *)

\* The recursive functions of the module are defined: a walk of n steps is
\* determined by where it starts and by the ring.
Walk(w, next, a, n) == w = [k \in 0 .. n |-> IF k = 0 THEN a ELSE next[w[k - 1]]]

\* There is such a walk, of any length.
LEMMA WalkExists ==
  ASSUME NEW next, NEW a, NEW n \in Nat
  PROVE  \E w : Walk(w, next, a, n)
<1> DEFINE S == {m \in Nat : \E w : Walk(w, next, a, m)}
<1>1. 0 \in S
  <2>1. Walk([k \in 0 .. 0 |-> a], next, a, 0)
    BY DEF Walk
  <2> QED BY <2>1
<1>2. ASSUME NEW m \in Nat, m \in S PROVE m + 1 \in S
  <2>1. PICK w : Walk(w, next, a, m)
    BY <1>2
  <2> DEFINE v == [k \in 0 .. m + 1 |-> IF k = 0 THEN a ELSE next[w[k - 1]]]
  <2>2. \A k \in 0 .. m : v[k] = w[k]
    <3>1. \A k \in 0 .. m : w[k] = IF k = 0 THEN a ELSE next[w[k - 1]]
      BY <2>1 DEF Walk
    <3>2. \A k \in 0 .. m : k \in 0 .. m + 1
      OBVIOUS
    <3> QED BY <3>1, <3>2
  <2>3. \A k \in 0 .. m + 1 : k # 0 => v[k - 1] = w[k - 1]
    BY <2>2
  <2>4. Walk(v, next, a, m + 1)
    <3> HIDE DEF v
    <3>1. v = [k \in 0 .. m + 1 |-> IF k = 0 THEN a ELSE next[w[k - 1]]]
      BY DEF v
    <3> QED BY <2>3, <3>1 DEF Walk
  <2> HIDE DEF v
  <2> QED BY <2>4
<1>3. n \in S
  <2> HIDE DEF S
  <2> QED BY <1>1, <1>2, NatSetInduction
<1> QED BY <1>3

\* What is used of a walk: its first step and each next one.
IsWalk(w, next, a, n) ==
  /\ w[0] = a
  /\ \A k \in 0 .. n - 1 : w[k + 1] = next[w[k]]

\* Two walks along the same ring are one.
LEMMA WalkUnique ==
  ASSUME NEW next, NEW a, NEW n \in Nat,
         NEW v, IsWalk(v, next, a, n), NEW w, IsWalk(w, next, a, n)
  PROVE  \A k \in 0 .. n : v[k] = w[k]
<1> DEFINE S == {k \in Nat : k <= n => v[k] = w[k]}
<1>1. 0 \in S
  BY DEF IsWalk
<1>2. ASSUME NEW k \in Nat, k \in S PROVE k + 1 \in S
  <2>1. SUFFICES ASSUME k + 1 <= n PROVE v[k + 1] = w[k + 1]
    OBVIOUS
  <2>2. k \in 0 .. n - 1 /\ v[k] = w[k]
    BY <1>2, <2>1
  <2> QED BY <2>2 DEF IsWalk
<1>3. Nat \subseteq S
  <2> HIDE DEF S
  <2> QED BY <1>1, <1>2, NatSetInduction
<1> QED BY <1>3

\* After is a walk along next.
LEMMA AfterWalks ==
  ASSUME NEW e, NEW n \in Nat
  PROVE  \E w : IsWalk(w, e.next, e.current, n) /\ After(e, n) = w[n]
<1> DEFINE walk == CHOOSE w : Walk(w, e.next, e.current, n)
<1>1. Walk(walk, e.next, e.current, n)
  BY WalkExists
<1>2. After(e, n) = walk[n]
  BY DEF After, Walk
<1>3. IsWalk(walk, e.next, e.current, n)
  <2> HIDE DEF walk
  <2>1. \A k \in 0 .. n : walk[k] = IF k = 0 THEN e.current ELSE e.next[walk[k - 1]]
    BY <1>1 DEF Walk
  <2>2. \A k \in 0 .. n - 1 : k + 1 \in 0 .. n /\ k + 1 # 0 /\ (k + 1) - 1 = k
    OBVIOUS
  <2> QED BY <2>1, <2>2 DEF IsWalk
<1> QED BY <1>2, <1>3

\* One step more is the editor next to where the walk stands.
LEMMA AfterStep ==
  ASSUME NEW e, NEW n \in Nat
  PROVE  /\ After(e, 0) = e.current
         /\ After(e, n + 1) = e.next[After(e, n)]
<1>1. After(e, 0) = e.current
  BY AfterWalks DEF IsWalk
<1>2. PICK w : IsWalk(w, e.next, e.current, n + 1) /\ After(e, n + 1) = w[n + 1]
  BY AfterWalks
<1>3. PICK v : IsWalk(v, e.next, e.current, n) /\ After(e, n) = v[n]
  BY AfterWalks
<1>4. IsWalk(w, e.next, e.current, n)
  BY <1>2 DEF IsWalk
<1>5. w[n] = v[n]
  BY <1>3, <1>4, WalkUnique
<1> QED
  BY <1>1, <1>2, <1>3, <1>5 DEF IsWalk

-----------------------------------------------------------------------------
(* The ring.                                                               *)

\* A clean editor holds the text that was loaded or saved last.
EditorOK(d) ==
  /\ d = [name |-> d.name, newfile |-> d.newfile, dirty |-> d.dirty, text |-> d.text,
          base |-> d.base, cut |-> d.cut]
  /\ d.dirty \in BOOLEAN
  /\ ~d.dirty => d.text = d.base

\* The fields of an environment: next and prev lead from live editors to live
\* editors.
Shape(e) ==
  /\ e = [current |-> e.current, untitled |-> e.untitled, next |-> e.next,
          prev |-> e.prev, ed |-> e.ed]
  /\ e.untitled \in Nat
  /\ Live(e) \subseteq 1 .. MaxEds
  /\ e.next \in [Live(e) -> Live(e)] /\ e.prev \in [Live(e) -> Live(e)]
  /\ e.ed = [id \in Live(e) |-> e.ed[id]]
  /\ \A id \in Live(e) : EditorOK(e.ed[id])

\* f lists the editors in the order of the ring, from the current one.
Order(e, f, N) ==
  /\ f \in [1 .. N -> Live(e)]
  /\ \A id \in Live(e) : \E i \in 1 .. N : f[i] = id
  /\ \A i, j \in 1 .. N : f[i] = f[j] => i = j
  /\ \A i \in 1 .. N - 1 : e.next[f[i]] = f[i + 1] /\ e.prev[f[i + 1]] = f[i]
  /\ N = 0 => e.current = NULL
  /\ N # 0 => e.current = f[1] /\ e.next[f[N]] = f[1] /\ e.prev[f[1]] = f[N]

\* An environment whose editors, if any, are in one ring with the current one.
IsRing(e) == Shape(e) /\ \E N \in Nat : \E f : Order(e, f, N)

\* Making an editor puts it after the current one.
LEMMA CreateKeepsRing ==
  ASSUME NEW e, IsRing(e), NEW id \in 1 .. MaxEds, id \notin Live(e),
         NEW new, EditorOK(new)
  PROVE  LET c == Create(e, id, new)
         IN  /\ IsRing(c)
             /\ c.current = id /\ c.untitled = e.untitled
             /\ Live(c) = Live(e) \cup {id}
             /\ c.ed[id] = new /\ \A k \in Live(e) : c.ed[k] = e.ed[k]
<1> DEFINE c == Create(e, id, new)
<1> SUFFICES /\ IsRing(c)
             /\ c.current = id /\ c.untitled = e.untitled
             /\ Live(c) = Live(e) \cup {id}
             /\ c.ed[id] = new /\ \A k \in Live(e) : c.ed[k] = e.ed[k]
  OBVIOUS
<1>0. c = Create(e, id, new)
  OBVIOUS
<1> HIDE DEF c
<1>ring. PICK N \in Nat : \E f : Order(e, f, N)
  BY DEF IsRing
<1>1. PICK f : Order(e, f, N)
  BY <1>ring
<1>2. Shape(e)
  BY DEF IsRing
<1>3. CASE N = 0
  <2>1. Live(e) = {} /\ e.current = NULL
    BY <1>1, <1>3 DEF Order
  <2>2. c = [current |-> id, untitled |-> e.untitled, next |-> [x \in {id} |-> id],
             prev |-> [x \in {id} |-> id], ed |-> [x \in {id} |-> new]]
    BY <2>1, <1>0, <1>2 DEF Create, Shape, With
  <2>3. Live(c) = {id} /\ Shape(c)
    <3> QED BY <2>2, <1>2 DEF Live, Shape
  <2>4. Order(c, [i \in 1 .. 1 |-> id], 1)
    <3> QED BY <2>2, <2>3 DEF Order
  <2> QED BY <2>1, <2>2, <2>3, <2>4 DEF IsRing
<1>4. CASE N # 0
  <2> DEFINE cur == e.current
             nxt == e.next[cur]
             next == [x \in Live(e) \cup {id} |-> IF x = id THEN nxt ELSE IF x = cur THEN id ELSE e.next[x]]
             prev == [x \in Live(e) \cup {id} |-> IF x = id THEN cur ELSE IF x = nxt THEN id ELSE e.prev[x]]
             ed == [x \in Live(e) \cup {id} |-> IF x = id THEN new ELSE e.ed[x]]
             g == [i \in 1 .. N + 1 |-> IF i = 1 THEN id ELSE IF i = N + 1 THEN f[1] ELSE f[i]]
  <2>1. cur \in Live(e) /\ cur # NULL /\ nxt \in Live(e) /\ cur = f[1] /\ f \in [1 .. N -> Live(e)]
    BY <1>1, <1>2, <1>4 DEF Order, Shape, NULL
  <2>2. c = [current |-> id, untitled |-> e.untitled, next |-> next, prev |-> prev, ed |-> ed]
    <3>1. c = [current |-> id, untitled |-> e.untitled,
               next |-> With([e.next EXCEPT ![cur] = id], id, nxt),
               prev |-> With([e.prev EXCEPT ![nxt] = id], id, cur),
               ed |-> With(e.ed, id, new)]
      BY <2>1, <1>0, <1>2 DEF Create, Shape
    <3>2. With([e.next EXCEPT ![cur] = id], id, nxt) = next
      BY <2>1, <1>2 DEF Shape, With
    <3>3. With([e.prev EXCEPT ![nxt] = id], id, cur) = prev
      BY <2>1, <1>2 DEF Shape, With
    <3>4. With(e.ed, id, new) = ed
      BY <2>1, <1>2 DEF Shape, With
    <3> QED BY <3>1, <3>2, <3>3, <3>4
  <2>3. Live(c) = Live(e) \cup {id}
    BY <2>2 DEF Live
  <2>4. Shape(c)
    <3>1. next \in [Live(c) -> Live(c)] /\ prev \in [Live(c) -> Live(c)]
      BY <2>1, <2>3, <1>2 DEF Shape
    <3>2. ed = [k \in Live(c) |-> ed[k]] /\ \A k \in Live(c) : EditorOK(ed[k])
      BY <2>3, <1>2 DEF Shape
    <3>3. Live(c) \subseteq 1 .. MaxEds /\ e.untitled \in Nat
      BY <2>3, <1>2 DEF Shape
    <3> HIDE DEF next, prev, ed
    <3> QED BY <2>2, <3>1, <3>2, <3>3 DEF Shape
  <2>5. Order(c, g, N + 1)
    <3>1. g \in [1 .. N + 1 -> Live(c)]
      BY <2>1, <2>3, <1>4
    <3>2. \A i \in 1 .. N + 1 : g[i] = IF i = 1 THEN id ELSE IF i = N + 1 THEN f[1] ELSE f[i]
      OBVIOUS
    <3>3. nxt = IF N = 1 THEN f[1] ELSE f[2]
      BY <1>1, <1>4, <2>1 DEF Order
    <3>4. \A k \in Live(c) : \E i \in 1 .. N + 1 : g[i] = k
      <4> SUFFICES ASSUME NEW k \in Live(c) PROVE \E i \in 1 .. N + 1 : g[i] = k
        OBVIOUS
      <4> HIDE DEF g
      <4>1. CASE k = id
        BY <3>2, <4>1, <1>4
      <4>2. CASE k # id
        <5>1. PICK i \in 1 .. N : f[i] = k
          BY <1>1, <2>3, <4>2 DEF Order
        <5>2. CASE i = 1
          BY <5>1, <5>2, <3>2, <1>4
        <5>3. CASE i # 1
          BY <5>1, <5>3, <3>2
        <5> QED BY <5>2, <5>3
      <4> QED BY <4>1, <4>2
    <3>5. \A i, j \in 1 .. N + 1 : g[i] = g[j] => i = j
      <4>1. \A i, j \in 1 .. N : f[i] = f[j] => i = j
        BY <1>1 DEF Order
      <4> HIDE DEF g
      <4> QED BY <3>2, <4>1, <2>1, <1>4
    <3>6. \A i \in 1 .. N : c.next[g[i]] = g[i + 1] /\ c.prev[g[i + 1]] = g[i]
      <4> SUFFICES ASSUME NEW i \in 1 .. N PROVE next[g[i]] = g[i + 1] /\ prev[g[i + 1]] = g[i]
        BY <2>2
      <4>1. \A k, m \in 1 .. N : f[k] = f[m] => k = m
        BY <1>1 DEF Order
      <4>2. \A k \in 1 .. N - 1 : e.next[f[k]] = f[k + 1] /\ e.prev[f[k + 1]] = f[k]
        BY <1>1 DEF Order
      <4>3. e.next[f[N]] = f[1] /\ e.prev[f[1]] = f[N]
        BY <1>1, <1>4 DEF Order
      <4>4. \A x \in Live(e) : /\ next[x] = IF x = cur THEN id ELSE e.next[x]
                               /\ prev[x] = IF x = nxt THEN id ELSE e.prev[x]
        OBVIOUS
      <4>5. next[id] = nxt /\ prev[id] = cur
        OBVIOUS
      <4>6. f[i] \in Live(e)
        BY <2>1
      <4> HIDE DEF next, prev, g, cur, nxt
      <4>7. CASE i = 1
        BY <4>7, <4>1, <4>2, <4>3, <4>4, <4>5, <3>2, <3>3, <2>1, <1>4
      <4>8. CASE i # 1 /\ i # N
        BY <4>8, <4>1, <4>2, <4>3, <4>4, <4>5, <3>2, <3>3, <2>1, <1>4
      <4>9. CASE i # 1 /\ i = N
        BY <4>9, <4>1, <4>2, <4>3, <4>4, <4>5, <3>2, <3>3, <2>1, <1>4
      <4> QED BY <4>7, <4>8, <4>9
    <3>7. c.current = g[1] /\ c.next[g[N + 1]] = g[1] /\ c.prev[g[1]] = g[N + 1]
      <4>1. c.current = id /\ c.next[cur] = id /\ c.prev[id] = cur
        BY <2>1, <2>2
      <4> HIDE DEF g
      <4> QED BY <4>1, <3>2, <2>1, <1>4
    <3> HIDE DEF g
    <3> QED BY <3>1, <3>4, <3>5, <3>6, <3>7 DEF Order
  <2>6. c.ed[id] = new /\ \A k \in Live(e) : c.ed[k] = e.ed[k]
    BY <2>2
  <2>7. IsRing(c)
    <3> HIDE DEF g
    <3> QED BY <2>4, <2>5 DEF IsRing
  <2> QED BY <2>2, <2>3, <2>6, <2>7
<1> QED BY <1>3, <1>4

\* Destroying the current editor closes the ring behind it.
LEMMA DestroyKeepsRing ==
  ASSUME NEW e, IsRing(e), Live(e) # {}
  PROVE  LET c == Destroy(e, e.current)
         IN  /\ e.current \in Live(e)
             /\ IsRing(c)
             /\ c.untitled = e.untitled
             /\ Live(c) = Live(e) \ {e.current}
             /\ \A k \in Live(c) : c.ed[k] = e.ed[k]
<1> DEFINE c == Destroy(e, e.current)
           id == e.current
<1> SUFFICES /\ id \in Live(e)
             /\ IsRing(c)
             /\ c.untitled = e.untitled
             /\ Live(c) = Live(e) \ {id}
             /\ \A k \in Live(c) : c.ed[k] = e.ed[k]
  OBVIOUS
<1>0. c = Destroy(e, id)
  OBVIOUS
<1> HIDE DEF c
<1>ring. PICK N \in Nat : \E f : Order(e, f, N)
  BY DEF IsRing
<1>1. PICK f : Order(e, f, N)
  BY <1>ring
<1>2. Shape(e)
  BY DEF IsRing
<1>3. N # 0 /\ id = f[1] /\ f \in [1 .. N -> Live(e)] /\ id \in Live(e)
  BY <1>1 DEF Order
<1> DEFINE nxt == e.next[id]
           prv == e.prev[id]
           next == [x \in Live(e) \ {id} |-> IF x = prv THEN nxt ELSE e.next[x]]
           prev == [x \in Live(e) \ {id} |-> IF x = nxt THEN prv ELSE e.prev[x]]
           ed == [x \in Live(e) \ {id} |-> e.ed[x]]
           M == N - 1
           g == [i \in 1 .. M |-> IF i = 1 THEN f[N] ELSE f[i]]
<1>4. prv = f[N] /\ nxt = (IF N = 1 THEN f[1] ELSE f[2])
  BY <1>1, <1>3 DEF Order
<1>5. c = [current |-> IF nxt = id THEN NULL ELSE prv, untitled |-> e.untitled,
           next |-> next, prev |-> prev, ed |-> ed]
  <2>1. c = [current |-> IF nxt = id THEN NULL ELSE prv, untitled |-> e.untitled,
             next |-> Without([e.next EXCEPT ![prv] = nxt], id),
             prev |-> Without([e.prev EXCEPT ![nxt] = prv], id),
             ed |-> Without(e.ed, id)]
    BY <1>0, <1>2 DEF Destroy, Shape
  <2>2. Without([e.next EXCEPT ![prv] = nxt], id) = next
    BY <1>2, <1>3 DEF Shape, Without
  <2>3. Without([e.prev EXCEPT ![nxt] = prv], id) = prev
    BY <1>2, <1>3 DEF Shape, Without
  <2>4. Without(e.ed, id) = ed
    BY <1>2, <1>3 DEF Shape, Without
  <2> QED BY <2>1, <2>2, <2>3, <2>4
<1>6. Live(c) = Live(e) \ {id}
  BY <1>5 DEF Live
<1>7. \A i, j \in 1 .. N : f[i] = f[j] => i = j
  BY <1>1 DEF Order
<1>8. \A i \in 1 .. N - 1 : e.next[f[i]] = f[i + 1] /\ e.prev[f[i + 1]] = f[i]
  BY <1>1 DEF Order
<1>9. e.next[f[N]] = f[1] /\ e.prev[f[1]] = f[N]
  BY <1>1, <1>3 DEF Order
<1>10. \A k \in Live(e) : \E i \in 1 .. N : f[i] = k
  BY <1>1 DEF Order
<1>11. \A i \in 1 .. M : g[i] = IF i = 1 THEN f[N] ELSE f[i]
  OBVIOUS
<1>12. \A x \in Live(c) : /\ c.next[x] = IF x = prv THEN nxt ELSE e.next[x]
                          /\ c.prev[x] = IF x = nxt THEN prv ELSE e.prev[x]
  BY <1>5, <1>6
<1>13. g \in [1 .. M -> Live(c)]
  <2> SUFFICES ASSUME NEW i \in 1 .. M PROVE g[i] \in Live(c)
    OBVIOUS
  <2>1. PICK j \in 2 .. N : g[i] = f[j]
    BY <1>3, <1>11
  <2>2. f[j] \in Live(e) /\ f[j] # f[1]
    BY <1>3, <1>7
  <2> QED BY <1>3, <1>6, <2>1, <2>2
<1>14. \A k \in Live(c) : \E i \in 1 .. M : g[i] = k
  <2> SUFFICES ASSUME NEW k \in Live(c) PROVE \E i \in 1 .. M : g[i] = k
    OBVIOUS
  <2> HIDE DEF g
  <2>1. PICK i \in 1 .. N : f[i] = k
    BY <1>6, <1>10
  <2>2. i # 1
    BY <2>1, <1>3, <1>6
  <2> QED BY <2>1, <2>2, <1>3, <1>11
<1>15. Shape(c)
  <2>1. \A x \in Live(c) : c.next[x] \in Live(c) /\ c.prev[x] \in Live(c)
    <3> SUFFICES ASSUME NEW x \in Live(c) PROVE c.next[x] \in Live(c) /\ c.prev[x] \in Live(c)
      OBVIOUS
    <3>1. PICK i \in 1 .. N : f[i] = x
      BY <1>6, <1>10
    <3>2. i # 1 /\ N # 1
      BY <3>1, <1>3, <1>6
    <3>3. prv \in Live(c) /\ nxt \in Live(c)
      BY <1>3, <1>4, <1>6, <1>7, <3>2
    <3>4. x # prv => e.next[x] \in Live(c)
      <4>1. SUFFICES ASSUME x # prv PROVE e.next[x] = f[i + 1] /\ i + 1 \in 1 .. N /\ i + 1 # 1
        BY <1>3, <1>6, <1>7
      <4>2. i # N
        BY <4>1, <1>4, <3>1
      <4> QED BY <4>2, <3>1, <1>8
    <3>5. x # nxt => e.prev[x] \in Live(c)
      <4>1. SUFFICES ASSUME x # nxt PROVE e.prev[x] = f[i - 1] /\ i - 1 \in 1 .. N /\ i - 1 # 1
        BY <1>3, <1>6, <1>7
      <4>2. i # 2
        BY <4>1, <1>4, <3>1, <3>2
      <4>3. i - 1 \in 1 .. N - 1 /\ (i - 1) + 1 = i
        BY <3>2
      <4> QED BY <4>2, <4>3, <3>1, <3>2, <1>8
    <3> HIDE DEF nxt, prv
    <3> QED BY <3>3, <3>4, <3>5, <1>12
  <2>2. c.next \in [Live(c) -> Live(c)] /\ c.prev \in [Live(c) -> Live(c)]
    BY <1>5, <1>6, <2>1
  <2>3. ed = [k \in Live(c) |-> ed[k]] /\ \A k \in Live(c) : EditorOK(ed[k])
    BY <1>6, <1>2 DEF Shape
  <2> HIDE DEF next, prev, ed
  <2> QED BY <1>5, <1>6, <2>2, <2>3, <1>2 DEF Shape
<1>16. Order(c, g, M)
  <2>1. \A i, j \in 1 .. M : g[i] = g[j] => i = j
    <3> HIDE DEF g
    <3> QED BY <1>7, <1>11
  <2>2. \A i \in 1 .. M - 1 : c.next[g[i]] = g[i + 1] /\ c.prev[g[i + 1]] = g[i]
    <3> SUFFICES ASSUME NEW i \in 1 .. M - 1
                 PROVE  c.next[g[i]] = g[i + 1] /\ c.prev[g[i + 1]] = g[i]
      OBVIOUS
    <3>1. g[i] \in Live(c) /\ g[i + 1] \in Live(c)
      BY <1>13
    <3> HIDE DEF g, nxt, prv
    <3>2. CASE i = 1
      BY <3>1, <3>2, <1>3, <1>4, <1>7, <1>8, <1>11, <1>12
    <3>3. CASE i # 1
      <4>1. i \in 2 .. N - 1 /\ i \in 1 .. M /\ i + 1 \in 1 .. M /\ i + 1 # 1
        BY <3>3
      <4>2. g[i] = f[i] /\ g[i + 1] = f[i + 1]
        BY <4>1, <3>3, <1>11
      <4>3. f[i] # f[N] /\ f[i + 1] # f[2] /\ N # 1
        BY <4>1, <1>7
      <4>4. e.next[f[i]] = f[i + 1] /\ e.prev[f[i + 1]] = f[i]
        BY <4>1, <1>8
      <4> QED BY <3>1, <4>2, <4>3, <4>4, <1>4, <1>12
    <3> QED BY <3>2, <3>3
  <2>3. M = 0 => c.current = NULL
    BY <1>3, <1>4, <1>5
  <2>4. M # 0 => c.current = g[1] /\ c.next[g[M]] = g[1] /\ c.prev[g[1]] = g[M]
    <3>1. SUFFICES ASSUME M # 0 PROVE c.current = g[1] /\ c.next[g[M]] = g[1] /\ c.prev[g[1]] = g[M]
      OBVIOUS
    <3>2. c.current = f[N]
      BY <3>1, <1>3, <1>4, <1>5, <1>7
    <3>3. g[1] \in Live(c) /\ g[M] \in Live(c)
      <4>1. 1 \in 1 .. M /\ M \in 1 .. M
        BY <3>1, <1>3
      <4> HIDE DEF g, M
      <4> QED BY <4>1, <1>13
    <3> HIDE DEF g, nxt, prv
    <3>4. CASE M = 1
      BY <3>1, <3>2, <3>3, <3>4, <1>3, <1>4, <1>7, <1>8, <1>9, <1>11, <1>12
    <3>5. CASE M # 1
      <4>1. M - 1 \in Nat /\ M - 1 # 0 /\ M \in 1 .. N - 1 /\ M + 1 = N
        BY <1>3, <3>1, <3>5
      <4> HIDE DEF M
      <4> QED BY <4>1, <3>1, <3>2, <3>3, <3>5, <1>3, <1>4, <1>7, <1>8, <1>9, <1>11, <1>12
    <3> QED BY <3>4, <3>5
  <2>5. M \in Nat
    BY <1>3
  <2> HIDE DEF g, M
  <2> QED BY <2>1, <2>2, <2>3, <2>4, <1>13, <1>14 DEF Order
<1>17. M \in Nat
  BY <1>3
<1>18. c.untitled = e.untitled /\ \A k \in Live(c) : c.ed[k] = e.ed[k]
  BY <1>5, <1>6
<1>19. IsRing(c)
  <2> HIDE DEF g, M
  <2> QED BY <1>15, <1>16, <1>17 DEF IsRing
<1> QED
  BY <1>3, <1>6, <1>18, <1>19

\* Going to another editor turns the ring.
LEMMA GoKeepsRing ==
  ASSUME NEW e, IsRing(e), NEW id \in Live(e)
  PROVE  IsRing([e EXCEPT !.current = id])
<1>ring. PICK N \in Nat : \E f : Order(e, f, N)
  BY DEF IsRing
<1>1. PICK f : Order(e, f, N)
  BY <1>ring
<1>2. Shape(e)
  BY DEF IsRing
<1>3. PICK k \in 1 .. N : f[k] = id
  BY <1>1 DEF Order
<1> DEFINE c == [e EXCEPT !.current = id]
           g == [i \in 1 .. N |-> IF i + k - 1 <= N THEN f[i + k - 1] ELSE f[i + k - 1 - N]]
<1>4. /\ c = [current |-> id, untitled |-> e.untitled, next |-> e.next, prev |-> e.prev, ed |-> e.ed]
      /\ Live(c) = Live(e)
  BY <1>2 DEF Shape, Live
<1> HIDE DEF c
<1>5. Shape(c)
  BY <1>2, <1>4 DEF Shape
<1>6. \A i \in 1 .. N : g[i] = IF i + k - 1 <= N THEN f[i + k - 1] ELSE f[i + k - 1 - N]
  OBVIOUS
<1>7. \A i, j \in 1 .. N : f[i] = f[j] => i = j
  BY <1>1 DEF Order
<1>8. \A i \in 1 .. N - 1 : e.next[f[i]] = f[i + 1] /\ e.prev[f[i + 1]] = f[i]
  BY <1>1 DEF Order
<1>9. e.next[f[N]] = f[1] /\ e.prev[f[1]] = f[N]
  BY <1>1 DEF Order
<1>10. Order(c, g, N)
  <2>1. g \in [1 .. N -> Live(c)]
    <3>1. f \in [1 .. N -> Live(e)]
      BY <1>1 DEF Order
    <3>2. \A i \in 1 .. N : IF i + k - 1 <= N THEN i + k - 1 \in 1 .. N ELSE i + k - 1 - N \in 1 .. N
      OBVIOUS
    <3> QED BY <1>4, <3>1, <3>2
  <2> HIDE DEF g
  <2>2. \A id2 \in Live(c) : \E i \in 1 .. N : g[i] = id2
    <3> SUFFICES ASSUME NEW x \in Live(c) PROVE \E i \in 1 .. N : g[i] = x
      OBVIOUS
    <3>1. PICK j \in 1 .. N : f[j] = x
      BY <1>1, <1>4 DEF Order
    <3>2. CASE j >= k
      <4>1. j - k + 1 \in 1 .. N /\ (j - k + 1) + k - 1 = j
        BY <3>2
      <4> QED BY <3>1, <4>1, <1>6
    <3>3. CASE j < k
      <4>1. PICK i \in 1 .. N : i = j - k + 1 + N
        BY <3>3
      <4>2. ~ (i + k - 1 <= N) /\ i + k - 1 - N = j
        BY <4>1
      <4> QED BY <3>1, <4>2, <1>6
    <3> QED BY <3>2, <3>3
  <2>3. \A i, j \in 1 .. N : g[i] = g[j] => i = j
    BY <1>6, <1>7
  <2>4. \A i \in 1 .. N - 1 : c.next[g[i]] = g[i + 1] /\ c.prev[g[i + 1]] = g[i]
    <3> SUFFICES ASSUME NEW i \in 1 .. N - 1
                 PROVE  c.next[g[i]] = g[i + 1] /\ c.prev[g[i + 1]] = g[i]
      OBVIOUS
    <3>1. g[i] = (IF i + k - 1 <= N THEN f[i + k - 1] ELSE f[i + k - 1 - N])
      BY <1>6
    <3>2. g[i + 1] = (IF i + k <= N THEN f[i + k] ELSE f[i + k - N])
      <4>1. i + 1 \in 1 .. N /\ (i + 1) + k - 1 = i + k
        OBVIOUS
      <4> QED BY <4>1, <1>6
    <3>3. CASE i + k <= N
      <4>1. i + k - 1 \in 1 .. N - 1 /\ (i + k - 1) + 1 = i + k
        BY <3>3
      <4> QED BY <4>1, <3>1, <3>2, <3>3, <1>4, <1>8
    <3>4. CASE i + k = N + 1
      BY <3>1, <3>2, <3>4, <1>4, <1>9
    <3>5. CASE i + k > N + 1
      <4>1. /\ i + k - 1 - N \in 1 .. N - 1 /\ (i + k - 1 - N) + 1 = i + k - N
            /\ ~ (i + k - 1 <= N) /\ ~ (i + k <= N)
        BY <3>5
      <4> QED BY <4>1, <3>1, <3>2, <1>4, <1>8
    <3> QED BY <3>3, <3>4, <3>5
  <2>5. c.current = g[1] /\ c.next[g[N]] = g[1] /\ c.prev[g[1]] = g[N]
    <3>1. g[1] = f[k]
      BY <1>6
    <3>2. g[N] = (IF k = 1 THEN f[N] ELSE f[k - 1])
      <4>1. k # 1 => ~ (N + k - 1 <= N) /\ N + k - 1 - N = k - 1
        OBVIOUS
      <4> QED BY <4>1, <1>6
    <3>3. CASE k = 1
      BY <3>1, <3>2, <3>3, <1>3, <1>4, <1>9
    <3>4. CASE k # 1
      <4>1. k - 1 \in 1 .. N - 1 /\ (k - 1) + 1 = k
        BY <3>4
      <4> QED BY <4>1, <3>1, <3>2, <3>4, <1>3, <1>4, <1>8
    <3> QED BY <3>3, <3>4
  <2> QED BY <2>1, <2>2, <2>3, <2>4, <2>5 DEF Order
<1> HIDE DEF g
<1>11. IsRing(c)
  BY <1>5, <1>10 DEF IsRing
<1> QED BY <1>11 DEF c

-----------------------------------------------------------------------------
(* Walking the ring.                                                       *)

\* Walking along next visits the editors in the order of the ring.
LEMMA AfterIsOrder ==
  ASSUME NEW e, IsRing(e), NEW N \in Nat, NEW f, Order(e, f, N), N # 0
  PROVE  /\ \A n \in 0 .. N - 1 : After(e, n) = f[n + 1]
         /\ \A n \in Nat : After(e, n) \in Live(e)
<1> DEFINE S == {n \in Nat : n < N => After(e, n) = f[n + 1]}
           T == {n \in Nat : After(e, n) \in Live(e)}
<1>1. 0 \in S /\ 0 \in T
  BY AfterStep DEF Order
<1>2. ASSUME NEW n \in Nat, n \in S PROVE n + 1 \in S
  <2>1. SUFFICES ASSUME n + 1 < N PROVE After(e, n + 1) = f[n + 1 + 1]
    OBVIOUS
  <2>2. n + 1 \in 1 .. N - 1 /\ After(e, n) = f[n + 1]
    BY <1>2, <2>1
  <2> QED BY <2>2, AfterStep DEF Order
<1>3. ASSUME NEW n \in Nat, n \in T PROVE n + 1 \in T
  BY <1>3, AfterStep DEF IsRing, Shape
<1>4. Nat \subseteq S
  <2> HIDE DEF S
  <2> QED BY <1>1, <1>2, NatSetInduction
<1>5. Nat \subseteq T
  <2> HIDE DEF T
  <2> QED BY <1>1, <1>3, NatSetInduction
<1> QED BY <1>4, <1>5

\* The walk of as many steps as there are editors meets them all.
LEMMA RingIsWalked ==
  ASSUME NEW e, IsRing(e), Live(e) # {}
  PROVE  /\ Cardinality(Live(e)) \in 1 .. MaxEds
         /\ {After(e, n) : n \in 0 .. Cardinality(Live(e)) - 1} = Live(e)
         /\ \A n \in Nat : After(e, n) \in Live(e)
         /\ \A id \in Live(e) : \E n \in 0 .. Cardinality(Live(e)) - 1 :
              /\ After(e, n) = id
              /\ \A k \in 1 .. n : After(e, k) # e.current
<1>ring. PICK N \in Nat : \E f : Order(e, f, N)
  BY DEF IsRing
<1>1. PICK f : Order(e, f, N)
  BY <1>ring
<1>2. N # 0
  BY <1>1 DEF Order
<1>3. Cardinality(Live(e)) = N
  <2>1. f \in Bijection(1 .. N, Live(e))
    BY <1>1 DEF Order, Bijection, Injection, Surjection, IsInjective
  <2>2. IsFiniteSet(1 .. N) /\ Cardinality(1 .. N) = N
    BY FS_Interval
  <2>3. ExistsBijection(1 .. N, Live(e))
    BY <2>1 DEF ExistsBijection
  <2> QED BY <2>2, <2>3, FS_Bijection
<1>4. N <= MaxEds
  <2>1. Live(e) \subseteq 1 .. MaxEds
    BY DEF IsRing, Shape
  <2>2. IsFiniteSet(1 .. MaxEds) /\ Cardinality(1 .. MaxEds) = MaxEds
    BY FS_Interval, EnvAssumption
  <2>3. Cardinality(Live(e)) <= Cardinality(1 .. MaxEds)
    BY <2>1, <2>2, FS_Subset
  <2> QED BY <2>2, <2>3, <1>3
<1>5. \A n \in 0 .. N - 1 : After(e, n) = f[n + 1]
  BY <1>1, <1>2, AfterIsOrder
<1>6. \A n \in Nat : After(e, n) \in Live(e)
  BY <1>1, <1>2, AfterIsOrder
<1>7. ASSUME NEW id \in Live(e)
      PROVE  \E n \in 0 .. N - 1 : After(e, n) = id /\ \A k \in 1 .. n : After(e, k) # e.current
  <2>1. PICK i \in 1 .. N : f[i] = id
    BY <1>1 DEF Order
  <2>2. i - 1 \in 0 .. N - 1 /\ After(e, i - 1) = id
    BY <2>1, <1>5
  <2>3. ASSUME NEW k \in 1 .. i - 1 PROVE After(e, k) # e.current
    <3>1. After(e, k) = f[k + 1] /\ k + 1 \in 1 .. N /\ k + 1 # 1 /\ 1 \in 1 .. N
      BY <1>5
    <3>2. e.current = f[1] /\ \A m, j \in 1 .. N : f[m] = f[j] => m = j
      BY <1>1, <1>2 DEF Order
    <3> QED BY <3>1, <3>2
  <2> QED BY <2>2, <2>3
<1>8. {After(e, n) : n \in 0 .. N - 1} = Live(e)
  <2>1. \A n \in 0 .. N - 1 : n \in Nat
    OBVIOUS
  <2> QED BY <2>1, <1>6, <1>7
<1> QED BY <1>2, <1>3, <1>4, <1>6, <1>7, <1>8, EnvAssumption

\* find_editor finds an editor of the ring, if there is one of that name.
LEMMA FoundInRing ==
  ASSUME NEW e, IsRing(e), Live(e) # {}, NEW name
  PROVE  /\ Found(e, name) # {} => /\ Min(Found(e, name)) \in Nat
                                  /\ After(e, Min(Found(e, name))) \in Live(e)
         /\ Found(e, name) = {} => \A id \in Live(e) : e.ed[id].name # name
<1>1. ASSUME Found(e, name) # {}
      PROVE  Min(Found(e, name)) \in Nat
  <2>1. Found(e, name) \in SUBSET Nat
    BY EnvAssumption DEF Found
  <2>2. \E x \in Found(e, name) : \A y \in Found(e, name) : x <= y
    BY <2>1, <1>1, NatLeast
  <2> QED BY <2>1, <2>2 DEF Min
<1>2. ASSUME NEW id \in Live(e), e.ed[id].name = name
      PROVE  Found(e, name) # {}
  <2>1. PICK n \in 0 .. Cardinality(Live(e)) - 1 :
          After(e, n) = id /\ \A k \in 1 .. n : After(e, k) # e.current
    BY RingIsWalked
  <2>2. n \in 0 .. MaxEds - 1
    BY RingIsWalked, EnvAssumption
  <2> QED BY <1>2, <2>1, <2>2 DEF Found
<1> QED BY <1>1, <1>2, RingIsWalked

-----------------------------------------------------------------------------
(* The changes the commands make to the ring.                              *)

\* There is a current editor as long as there is any.
LEMMA CurrentInRing ==
  ASSUME NEW e, IsRing(e)
  PROVE  /\ e.current = NULL <=> Live(e) = {}
         /\ Live(e) # {} => e.current \in Live(e)
<1>ring. PICK N \in Nat : \E f : Order(e, f, N)
  BY DEF IsRing
<1>1. PICK f : Order(e, f, N)
  BY <1>ring
<1>2. Live(e) \subseteq 1 .. MaxEds
  BY DEF IsRing, Shape
<1>3. CASE N = 0
  BY <1>1, <1>3 DEF Order
<1>4. CASE N # 0
  <2>1. f[1] \in Live(e) /\ e.current = f[1]
    BY <1>1, <1>4 DEF Order
  <2>2. e.current # 0
    BY <1>2, <2>1
  <2> QED BY <2>1, <2>2 DEF NULL
<1> QED BY <1>3, <1>4

\* Changing one editor leaves the ring as it is.
LEMMA ChangeKeepsRing ==
  ASSUME NEW e, IsRing(e), NEW id \in Live(e), NEW d, EditorOK(d)
  PROVE  LET c == [e EXCEPT !.ed[id] = d]
         IN  /\ IsRing(c) /\ Live(c) = Live(e) /\ c.current = e.current
             /\ c.ed = [e.ed EXCEPT ![id] = d]
             /\ c.ed[id] = d /\ \A k \in Live(e) \ {id} : c.ed[k] = e.ed[k]
<1> DEFINE c == [e EXCEPT !.ed[id] = d]
<1>ring. PICK N \in Nat : \E f : Order(e, f, N)
  BY DEF IsRing
<1>1. PICK f : Order(e, f, N)
  BY <1>ring
<1>2. Shape(e)
  BY DEF IsRing
<1>3. c = [current |-> e.current, untitled |-> e.untitled, next |-> e.next, prev |-> e.prev,
           ed |-> [e.ed EXCEPT ![id] = d]]
  BY <1>2 DEF Shape
<1>4. [e.ed EXCEPT ![id] = d] = [k \in Live(e) |-> IF k = id THEN d ELSE e.ed[k]]
  BY <1>2 DEF Shape
<1> SUFFICES /\ IsRing(c) /\ Live(c) = Live(e) /\ c.current = e.current
             /\ c.ed = [e.ed EXCEPT ![id] = d]
             /\ c.ed[id] = d /\ \A k \in Live(e) \ {id} : c.ed[k] = e.ed[k]
  OBVIOUS
<1> HIDE DEF c
<1>5. Live(c) = Live(e)
  BY <1>3, <1>4 DEF Live
<1>6. Shape(c)
  BY <1>2, <1>3, <1>4, <1>5 DEF Shape
<1>7. Order(c, f, N)
  BY <1>1, <1>3, <1>5 DEF Order
<1> QED BY <1>3, <1>4, <1>5, <1>6, <1>7 DEF IsRing

\* A block that is free.
LEMMA BlockIsFree ==
  ASSUME NEW T, T \subseteq 1 .. MaxEds, T # 1 .. MaxEds
  PROVE  /\ Min((1 .. MaxEds) \ T) \in 1 .. MaxEds
         /\ Min((1 .. MaxEds) \ T) \notin T
<1> DEFINE F == (1 .. MaxEds) \ T
<1>1. F \in SUBSET Nat /\ F # {}
  <2>1. PICK x \in 1 .. MaxEds : x \notin T
    OBVIOUS
  <2>2. 1 .. MaxEds \subseteq Nat
    BY EnvAssumption
  <2> QED BY <2>1, <2>2
<1>2. \E x \in F : \A y \in F : x <= y
  <2> HIDE DEF F
  <2> QED BY <1>1, NatLeast
<1>3. Min(F) \in F
  BY <1>2 DEF Min
<1> QED BY <1>3

\* malloc finds a block for one editor more.
LEMMA NewBlock ==
  ASSUME NEW e, IsRing(e), Cardinality(Live(e)) < MaxEds
  PROVE  Block(e) \in 1 .. MaxEds /\ Block(e) \notin Live(e)
<1>1. Live(e) \subseteq 1 .. MaxEds
  BY DEF IsRing, Shape
<1>2. Live(e) # 1 .. MaxEds
  BY FS_Interval, EnvAssumption
<1> QED BY <1>1, <1>2, BlockIsFree DEF Block

\* A new editor is clean.
LEMMA EditorIsOK ==
  ASSUME NEW name, NEW newfile, NEW text
  PROVE  EditorOK(Editor(name, newfile, text)) /\ Editor(name, newfile, text).newfile = newfile
  BY DEF Editor, EditorOK

\* A new editor without a file joins the ring.
LEMMA UntitledKeepsRing ==
  ASSUME NEW e, IsRing(e), NEW id \in 1 .. MaxEds, id \notin Live(e)
  PROVE  LET c == CreateUntitled(e, id)
         IN  /\ IsRing(c) /\ c.current = id
             /\ Live(c) = Live(e) \cup {id}
             /\ c.ed[id].newfile
             /\ \A k \in Live(e) : c.ed[k] = e.ed[k]
<1> DEFINE u == [e EXCEPT !.untitled = @ + 1]
           d == Editor(Untitled(e.untitled + 1), TRUE, Empty)
<1>ring. PICK N \in Nat : \E f : Order(e, f, N)
  BY DEF IsRing
<1>1. PICK f : Order(e, f, N)
  BY <1>ring
<1>2. Shape(e)
  BY DEF IsRing
<1>3. u = [current |-> e.current, untitled |-> e.untitled + 1, next |-> e.next, prev |-> e.prev,
           ed |-> e.ed]
  BY <1>2 DEF Shape
<1>4. Live(u) = Live(e) /\ Shape(u) /\ Order(u, f, N)
  <2> HIDE DEF u
  <2> QED BY <1>1, <1>2, <1>3 DEF Live, Shape, Order
<1>5. IsRing(u)
  BY <1>4 DEF IsRing
<1>6. EditorOK(d) /\ d.newfile = TRUE
  BY EditorIsOK
<1>7. CreateUntitled(e, id) = Create(u, id, d)
  BY DEF CreateUntitled
<1>8. u.ed = e.ed
  BY <1>3
<1> HIDE DEF u, d
<1> QED BY <1>4, <1>5, <1>6, <1>7, <1>8, CreateKeepsRing

\* Before anything is open.
LEMMA NoEnvIsRing == IsRing(NoEnv) /\ Live(NoEnv) = {}
<1>1. Live(NoEnv) = {}
  BY DEF NoEnv, Live
<1>2. Shape(NoEnv)
  BY <1>1 DEF NoEnv, Shape
<1>3. Order(NoEnv, <<>>, 0)
  BY <1>1 DEF NoEnv, Order, NULL
<1> QED BY <1>1, <1>2, <1>3 DEF IsRing

-----------------------------------------------------------------------------
(* The editors of the command line, and quitting.                          *)

\* The editors of the command line, one after the other.
Adding(w, files, args, readable, n) ==
  w = [i \in 0 .. n |->
         IF i = 0 THEN NoEnv ELSE Create(w[i - 1], i, Loaded(files, args[i], readable))]

\* The recursive function in Added is defined for every list of files.
LEMMA AddingExists ==
  ASSUME NEW files, NEW args, NEW readable, NEW n \in Nat
  PROVE  \E w : Adding(w, files, args, readable, n)
<1> DEFINE F(w, i) == IF i = 0 THEN NoEnv ELSE Create(w[i - 1], i, Loaded(files, args[i], readable))
           S == {m \in Nat : \E w : Adding(w, files, args, readable, m)}
<1>1. 0 \in S
  <2>1. Adding([k \in 0 .. 0 |-> NoEnv], files, args, readable, 0)
    BY DEF Adding
  <2> QED BY <2>1
<1>2. ASSUME NEW m \in Nat, m \in S PROVE m + 1 \in S
  <2>1. PICK w : Adding(w, files, args, readable, m)
    BY <1>2
  <2> DEFINE v == [k \in 0 .. m + 1 |-> F(w, k)]
  <2>2. \A k \in 0 .. m : v[k] = w[k]
    <3>1. \A k \in 0 .. m : w[k] = F(w, k)
      BY <2>1 DEF Adding
    <3>2. \A k \in 0 .. m : k \in 0 .. m + 1
      OBVIOUS
    <3> HIDE DEF F
    <3> QED BY <3>1, <3>2
  <2>3. \A k \in 0 .. m + 1 : k # 0 => v[k - 1] = w[k - 1]
    <3> HIDE DEF v
    <3> QED BY <2>2
  <2>4. Adding(v, files, args, readable, m + 1)
    <3> HIDE DEF v
    <3>1. v = [k \in 0 .. m + 1 |-> F(w, k)]
      BY DEF v
    <3>2. \A k \in 0 .. m + 1 : F(w, k) = F(v, k)
      BY <2>3
    <3>3. v = [k \in 0 .. m + 1 |-> F(v, k)]
      <4> HIDE DEF F
      <4> QED BY <3>1, <3>2
    <3> QED BY <3>3 DEF Adding
  <2> HIDE DEF v
  <2> QED BY <2>4
<1>3. n \in S
  <2> HIDE DEF S
  <2> QED BY <1>1, <1>2, NatSetInduction
<1> QED BY <1>3

\* Starting on a list of files makes a ring of them.
LEMMA AddedIsRing ==
  ASSUME NEW files, NEW args, NEW readable, Len(args) \in 1 .. MaxEds
  PROVE  IsRing(Added(files, args, readable)) /\ Live(Added(files, args, readable)) # {}
<1> DEFINE n == Len(args)
           add == CHOOSE w : Adding(w, files, args, readable, n)
           e == add[n]
<1>1. Adding(add, files, args, readable, n)
  BY AddingExists
<1>2. Added(files, args, readable) = [e EXCEPT !.current = e.next[e.current]]
  BY DEF Added, Adding
<1> HIDE DEF add
<1>3. \A i \in 0 .. n : add[i] = IF i = 0 THEN NoEnv
                                ELSE Create(add[i - 1], i, Loaded(files, args[i], readable))
  BY <1>1 DEF Adding
<1> DEFINE S == {i \in Nat : i <= n => IsRing(add[i]) /\ Live(add[i]) = 1 .. i}
<1>4. 0 \in S
  <2>1. add[0] = NoEnv /\ 1 .. 0 = {}
    BY <1>3
  <2> QED BY <2>1, NoEnvIsRing
<1>5. ASSUME NEW i \in Nat, i \in S PROVE i + 1 \in S
  <2>1. SUFFICES ASSUME i + 1 <= n
                 PROVE  IsRing(add[i + 1]) /\ Live(add[i + 1]) = 1 .. (i + 1)
    OBVIOUS
  <2>2. IsRing(add[i]) /\ Live(add[i]) = 1 .. i
    BY <1>5, <2>1
  <2>3. add[i + 1] = Create(add[i], i + 1, Loaded(files, args[i + 1], readable))
    BY <1>3, <2>1
  <2>4. EditorOK(Loaded(files, args[i + 1], readable))
    BY EditorIsOK DEF Loaded
  <2>5. i + 1 \in 1 .. MaxEds /\ i + 1 \notin Live(add[i])
    BY <2>1, <2>2, EnvAssumption
  <2>6. (1 .. i) \cup {i + 1} = 1 .. (i + 1)
    OBVIOUS
  <2> DEFINE new == Loaded(files, args[i + 1], readable)
             f == add[i]
             j == i + 1
  <2> HIDE DEF new, f, j
  <2>7. IsRing(Create(f, j, new)) /\ Live(Create(f, j, new)) = Live(f) \cup {j}
    BY <2>2, <2>4, <2>5, CreateKeepsRing DEF new, f, j
  <2> QED BY <2>2, <2>3, <2>6, <2>7 DEF new, f, j
<1>6. IsRing(e) /\ Live(e) = 1 .. n
  <2>1. n \in S
    <3> HIDE DEF S
    <3> QED BY <1>4, <1>5, NatSetInduction
  <2> QED BY <2>1
<1> HIDE DEF e
<1>7. Live(e) # {}
  BY <1>6
<1>8. e.next[e.current] \in Live(e)
  BY <1>6, <1>7, CurrentInRing DEF IsRing, Shape
<1>9. Live([e EXCEPT !.current = e.next[e.current]]) = Live(e)
  BY <1>6 DEF IsRing, Shape, Live
<1>10. IsRing([e EXCEPT !.current = e.next[e.current]])
  BY <1>6, <1>8, GoKeepsRing
<1> QED BY <1>2, <1>7, <1>9, <1>10

\* The ring as quitting takes one current editor after the other from it.
Quitting(w, e, n) ==
  w = [k \in 0 .. n |-> IF k = 0 THEN e ELSE Destroy(w[k - 1], w[k - 1].current)]

\* The recursive function in Quit is defined for any number of editors.
LEMMA QuittingExists ==
  ASSUME NEW e, NEW n \in Nat
  PROVE  \E w : Quitting(w, e, n)
<1> DEFINE F(w, i) == IF i = 0 THEN e ELSE Destroy(w[i - 1], w[i - 1].current)
           S == {m \in Nat : \E w : Quitting(w, e, m)}
<1>1. 0 \in S
  <2>1. Quitting([k \in 0 .. 0 |-> e], e, 0)
    BY DEF Quitting
  <2> QED BY <2>1
<1>2. ASSUME NEW m \in Nat, m \in S PROVE m + 1 \in S
  <2>1. PICK w : Quitting(w, e, m)
    BY <1>2
  <2> DEFINE v == [k \in 0 .. m + 1 |-> F(w, k)]
  <2>2. \A k \in 0 .. m : v[k] = w[k]
    <3>1. \A k \in 0 .. m : w[k] = F(w, k)
      BY <2>1 DEF Quitting
    <3>2. \A k \in 0 .. m : k \in 0 .. m + 1
      OBVIOUS
    <3> HIDE DEF F
    <3> QED BY <3>1, <3>2
  <2>3. \A k \in 0 .. m + 1 : k # 0 => v[k - 1] = w[k - 1]
    <3> HIDE DEF v
    <3> QED BY <2>2
  <2>4. Quitting(v, e, m + 1)
    <3> HIDE DEF v
    <3>1. v = [k \in 0 .. m + 1 |-> F(w, k)]
      BY DEF v
    <3>2. \A k \in 0 .. m + 1 : F(w, k) = F(v, k)
      BY <2>3
    <3>3. v = [k \in 0 .. m + 1 |-> F(v, k)]
      <4> HIDE DEF F
      <4> QED BY <3>1, <3>2
    <3> QED BY <3>3 DEF Quitting
  <2> HIDE DEF v
  <2> QED BY <2>4
<1>3. n \in S
  <2> HIDE DEF S
  <2> QED BY <1>1, <1>2, NatSetInduction
<1> QED BY <1>3

\* Destroying the current editor as often as there are editors leaves none.
LEMMA QuitEmptiesRing ==
  ASSUME NEW e, IsRing(e), Live(e) # {}, NEW w, Quitting(w, e, Cardinality(Live(e)))
  PROVE  LET c == w[Cardinality(Live(e))] IN IsRing(c) /\ Live(c) = {}
<1> DEFINE n == Cardinality(Live(e))
           S == {k \in Nat : k <= n => /\ IsRing(w[k]) /\ IsFiniteSet(Live(w[k]))
                                       /\ Cardinality(Live(w[k])) = n - k}
<1>1. IsFiniteSet(Live(e)) /\ n \in Nat
  <2>1. IsFiniteSet(1 .. MaxEds)
    BY FS_Interval, EnvAssumption
  <2>2. Live(e) \in SUBSET (1 .. MaxEds)
    BY DEF IsRing, Shape
  <2>3. IsFiniteSet(Live(e))
    BY <2>1, <2>2, FS_Subset
  <2> QED BY <2>3, FS_CardinalityType
<1>2. \A k \in 0 .. n : w[k] = IF k = 0 THEN e ELSE Destroy(w[k - 1], w[k - 1].current)
  BY DEF Quitting
<1> HIDE DEF n
<1>3. 0 \in S
  BY <1>1, <1>2 DEF n
<1>4. ASSUME NEW k \in Nat, k \in S PROVE k + 1 \in S
  <2>1. SUFFICES ASSUME k + 1 <= n
                 PROVE  /\ IsRing(w[k + 1]) /\ IsFiniteSet(Live(w[k + 1]))
                        /\ Cardinality(Live(w[k + 1])) = n - (k + 1)
    OBVIOUS
  <2>2. IsRing(w[k]) /\ IsFiniteSet(Live(w[k])) /\ Cardinality(Live(w[k])) = n - k
    BY <1>4, <2>1, <1>1
  <2>3. Live(w[k]) # {}
    BY <2>1, <2>2, <1>1, FS_EmptySet
  <2>4. w[k + 1] = Destroy(w[k], w[k].current)
    BY <1>1, <1>2, <2>1
  <2>5. IsRing(w[k + 1]) /\ Live(w[k + 1]) = Live(w[k]) \ {w[k].current} /\ w[k].current \in Live(w[k])
    BY <2>2, <2>3, <2>4, DestroyKeepsRing
  <2>6. /\ IsFiniteSet(Live(w[k]) \ {w[k].current})
        /\ Cardinality(Live(w[k]) \ {w[k].current}) = (n - k) - 1
    BY <2>2, <2>5, FS_RemoveElement
  <2> QED BY <2>1, <2>5, <2>6, <1>1
<1>5. n \in S
  <2> HIDE DEF S
  <2> QED BY <1>1, <1>3, <1>4, NatSetInduction
<1>6. IsRing(w[n]) /\ Live(w[n]) = {}
  BY <1>1, <1>5, FS_EmptySet
<1> QED BY <1>6 DEF n

-----------------------------------------------------------------------------
(* The invariant, and what a step may do.                                  *)

\* The inductive invariant: the editors are a ring, there is none only when the
\* program is over, and the keyboard loop works on the current one.
EnvInv ==
  /\ IsRing(env)
  /\ disk = [n \in Names |-> disk[n]]
  /\ phase = "over" <=> Live(env) = {}
  /\ phase = "editing" => loop = env.current

\* NothingLostUnasked, of one step.
LosesNothing ==
  \A id \in Live(env) \ Live(env') :
    env.ed[id].text = env.ed[id].base \/ id \in agreed'

\* CleanIsOnDisk, of one step.
SavesToDisk ==
  \A id \in Live(env) \cap Live(env') :
    LET d == env'.ed[id]
    IN  env.ed[id].dirty /\ ~d.dirty /\ d.text = env.ed[id].text
          => d.cut \/ d.text = env.ed[id].base \/ disk'[d.name] = d.text

\* OpenIsUnique, of one step.
OpensOne ==
  \A id \in Live(env') \ Live(env) :
    ~env'.ed[id].newfile => \A k \in Live(env) : env.ed[k].name # env'.ed[id].name

\* What every command is shown to do.
Keeps == EnvInv' /\ LosesNothing /\ SavesToDisk /\ OpensOne

\* A new editor or the files of the command line make the first ring.
LEMMA InitHasRing == EnvInit => EnvInv
<1> SUFFICES ASSUME EnvInit PROVE EnvInv
  OBVIOUS
<1>1. loop = env.current /\ phase = "editing" /\ disk = [n \in Names |-> disk[n]]
  BY DEF EnvInit
<1>2. CASE env = CreateUntitled(NoEnv, 1)
  <2>1. 1 \in 1 .. MaxEds
    BY EnvAssumption
  <2>2. IsRing(env) /\ Live(env) = {} \cup {1}
    BY <1>2, <2>1, NoEnvIsRing, UntitledKeepsRing
  <2> QED BY <1>1, <2>2 DEF EnvInv
<1>3. CASE \E a \in Args, readable \in BOOLEAN : env = Added(disk, a, readable)
  <2>1. PICK a \in Args, readable \in BOOLEAN : env = Added(disk, a, readable)
    BY <1>3
  <2>2. IsRing(env) /\ Live(env) # {}
    BY <2>1, EnvAssumption, AddedIsRing
  <2> QED BY <1>1, <2>2 DEF EnvInv
<1> QED BY <1>2, <1>3 DEF EnvInit

\* The editor the loop is at.
LEMMA LoopIsLive ==
  ASSUME EnvInv, phase = "editing"
  PROVE  /\ IsRing(env) /\ loop = env.current /\ loop \in Live(env) /\ EditorOK(env.ed[loop])
         /\ Live(env) # {}
<1>1. IsRing(env) /\ Live(env) # {} /\ loop = env.current
  BY DEF EnvInv
<1>2. loop \in Live(env)
  BY <1>1, CurrentInRing
<1> QED BY <1>1, <1>2 DEF IsRing, Shape

\* A command that changes the editor it is given, and nothing else.
LEMMA ChangeKeeps ==
  ASSUME EnvInv, phase = "editing", NEW d, EditorOK(d),
         env' = [env EXCEPT !.ed[loop] = d], loop' = env'.current, UNCHANGED phase,
         disk' = [n \in Names |-> disk'[n]],
         env.ed[loop].dirty /\ ~d.dirty /\ d.text = env.ed[loop].text
           => d.cut \/ d.text = env.ed[loop].base \/ disk'[d.name] = d.text
  PROVE  Keeps
<1>1. /\ IsRing(env) /\ loop \in Live(env) /\ loop = env.current /\ Live(env) # {}
  BY LoopIsLive
<1>2. /\ IsRing(env') /\ Live(env') = Live(env)
      /\ env'.ed[loop] = d /\ \A k \in Live(env) \ {loop} : env'.ed[k] = env.ed[k]
  BY <1>1, ChangeKeepsRing
<1>3. EnvInv'
  BY <1>1, <1>2 DEF EnvInv
<1>4. LosesNothing /\ OpensOne
  BY <1>2 DEF LosesNothing, OpensOne
<1>5. SavesToDisk
  BY <1>1, <1>2 DEF SavesToDisk
<1> QED BY <1>3, <1>4, <1>5 DEF Keeps

\* A command that goes to an editor, and changes none.
LEMMA GoKeeps ==
  ASSUME EnvInv, phase = "editing", NEW id \in Live(env),
         env' = [env EXCEPT !.current = id], loop' = env'.current,
         UNCHANGED <<phase, disk>>
  PROVE  Keeps
<1>1. IsRing(env) /\ Live(env) # {}
  BY LoopIsLive
<1>2. IsRing(env')
  BY <1>1, GoKeepsRing
<1>3. Live(env') = Live(env) /\ env'.ed = env.ed
  BY <1>1 DEF IsRing, Shape, Live
<1>4. EnvInv'
  BY <1>1, <1>2, <1>3 DEF EnvInv
<1> QED BY <1>3, <1>4 DEF Keeps, LosesNothing, SavesToDisk, OpensOne

\* The changes to an editor: of its text, by undo, of its name.
LEMMA ChangedIsOK ==
  ASSUME NEW o, EditorOK(o), NEW x
  PROVE  /\ LET d == [o EXCEPT !.text = x, !.dirty = TRUE]
            IN  EditorOK(d) /\ d.dirty = TRUE
         /\ LET d == [o EXCEPT !.text = o.base, !.dirty = FALSE]
            IN  EditorOK(d) /\ d.text = o.base
         /\ LET d == [o EXCEPT !.name = x, !.newfile = FALSE]
            IN  EditorOK(d) /\ d.name = x /\ d.text = o.text /\ d.dirty = o.dirty
<1>0. o = [name |-> o.name, newfile |-> o.newfile, dirty |-> o.dirty, text |-> o.text,
            base |-> o.base, cut |-> o.cut]
  BY DEF EditorOK
<1>1. ASSUME NEW d, d = [o EXCEPT !.text = x, !.dirty = TRUE]
      PROVE  EditorOK(d) /\ d.dirty = TRUE
  <2>1. d = [name |-> o.name, newfile |-> o.newfile, dirty |-> TRUE, text |-> x,
             base |-> o.base, cut |-> o.cut]
    BY <1>0, <1>1
  <2> QED BY <2>1 DEF EditorOK
<1>2. ASSUME NEW d, d = [o EXCEPT !.text = o.base, !.dirty = FALSE]
      PROVE  EditorOK(d) /\ d.text = o.base
  <2>1. d = [name |-> o.name, newfile |-> o.newfile, dirty |-> FALSE, text |-> o.base,
             base |-> o.base, cut |-> o.cut]
    BY <1>0, <1>2
  <2> QED BY <2>1 DEF EditorOK
<1>3. ASSUME NEW d, d = [o EXCEPT !.name = x, !.newfile = FALSE]
      PROVE  EditorOK(d) /\ d.name = x /\ d.text = o.text /\ d.dirty = o.dirty
  <2>1. d = [name |-> x, newfile |-> FALSE, dirty |-> o.dirty, text |-> o.text,
             base |-> o.base, cut |-> o.cut]
    BY <1>0, <1>3
  <2> QED BY <2>1 DEF EditorOK
<1> QED BY <1>1, <1>2, <1>3

\* An editing command changes one text, and makes its editor dirty.
LEMMA EditKeeps ==
  ASSUME EnvInv, NEW t \in Contents, Edit(t)
  PROVE  Keeps
<1> DEFINE d == [env.ed[loop] EXCEPT !.text = t, !.dirty = TRUE]
<1>1. /\ phase = "editing" /\ loop \in Live(env) /\ IsRing(env) /\ EditorOK(env.ed[loop])
  BY LoopIsLive DEF Edit
<1>2. EditorOK(d) /\ d.dirty = TRUE
  BY <1>1, ChangedIsOK
<1>3. env' = [env EXCEPT !.ed[loop] = d]
  BY <1>1 DEF Edit, Go, IsRing, Shape
<1>4. loop' = env'.current /\ UNCHANGED phase /\ disk' = [n \in Names |-> disk'[n]]
  BY DEF Edit, Go, EnvInv
<1> HIDE DEF d
<1> QED BY <1>1, <1>2, <1>3, <1>4, ChangeKeeps

\* Undo, as far as it goes, gives the text back that was loaded or saved.
LEMMA UndoAllKeeps ==
  ASSUME EnvInv, UndoAll
  PROVE  Keeps
<1> DEFINE d == [env.ed[loop] EXCEPT !.text = env.ed[loop].base, !.dirty = FALSE]
<1>1. /\ phase = "editing" /\ loop \in Live(env) /\ IsRing(env) /\ EditorOK(env.ed[loop])
  BY LoopIsLive DEF UndoAll
<1>2. EditorOK(d) /\ d.text = env.ed[loop].base
  BY <1>1, ChangedIsOK
<1>3. env' = [env EXCEPT !.ed[loop] = d]
  BY <1>1 DEF UndoAll, Go, IsRing, Shape
<1>4. loop' = env'.current /\ UNCHANGED phase /\ disk' = [n \in Names |-> disk'[n]]
  BY DEF UndoAll, Go, EnvInv
<1> HIDE DEF d
<1> QED BY <1>1, <1>2, <1>3, <1>4, ChangeKeeps

\* Switching walks one step along the ring.
LEMMA NextBufferKeeps ==
  ASSUME EnvInv, NextBuffer
  PROVE  Keeps
<1>1. phase = "editing" /\ loop \in Live(env) /\ IsRing(env)
  BY LoopIsLive DEF NextBuffer
<1>2. env.next[loop] \in Live(env)
  BY <1>1 DEF IsRing, Shape
<1> QED BY <1>1, <1>2, GoKeeps DEF NextBuffer, Go

\* A new untitled editor in the ring, beside all the others.
LEMMA NewEditorKeeps ==
  ASSUME EnvInv, NewEditor
  PROVE  Keeps
<1>1. phase = "editing" /\ IsRing(env) /\ Live(env) # {}
  BY LoopIsLive DEF NewEditor
<1>2. Block(env) \in 1 .. MaxEds /\ Block(env) \notin Live(env)
  BY <1>1, NewBlock DEF NewEditor
<1>3. /\ IsRing(env') /\ Live(env') = Live(env) \cup {Block(env)}
      /\ env'.ed[Block(env)].newfile
      /\ \A k \in Live(env) : env'.ed[k] = env.ed[k]
  BY <1>1, <1>2, UntitledKeepsRing DEF NewEditor, Go
<1>4. EnvInv'
  BY <1>1, <1>3 DEF EnvInv, NewEditor, Go
<1> QED BY <1>3, <1>4 DEF Keeps, LosesNothing, SavesToDisk, OpensOne

\* Opening walks to the editor of that name, or makes one and keeps or destroys
\* it.
LEMMA OpenKeeps ==
  ASSUME EnvInv, NEW name \in Names, NEW readable \in BOOLEAN, Open(name, readable)
  PROVE  Keeps
<1>1. phase = "editing" /\ IsRing(env) /\ Live(env) # {} /\ UNCHANGED disk
  BY LoopIsLive DEF Open
<1>2. CASE Found(env, name) # {}
  <2>1. After(env, Min(Found(env, name))) \in Live(env)
    BY <1>1, <1>2, FoundInRing
  <2> QED BY <1>1, <1>2, <2>1, GoKeeps DEF Open, Go
<1>3. CASE Found(env, name) = {}
  <2> DEFINE b == Block(env)
             new == Editor(name, FALSE, disk[name])
             none == Editor(NoName, FALSE, Empty)
  <2>1. b \in 1 .. MaxEds /\ b \notin Live(env)
    BY <1>1, <1>3, NewBlock DEF Open
  <2>2. CASE readable /\ disk[name] # NoFile
    <3>1. env' = Create(env, b, new) /\ loop' = env'.current /\ UNCHANGED phase
      BY <1>3, <2>2 DEF Open, Go
    <3>2. EditorOK(new) /\ new.name = name
      BY EditorIsOK DEF Editor
    <3> HIDE DEF b, new
    <3>3. /\ IsRing(env') /\ Live(env') = Live(env) \cup {b}
          /\ env'.ed[b] = new /\ \A k \in Live(env) : env'.ed[k] = env.ed[k]
      BY <1>1, <2>1, <3>1, <3>2, CreateKeepsRing
    <3>4. \A k \in Live(env) : env.ed[k].name # name
      BY <1>1, <1>3, FoundInRing
    <3>5. EnvInv'
      BY <1>1, <3>1, <3>3 DEF EnvInv
    <3> QED BY <3>2, <3>3, <3>4, <3>5 DEF Keeps, LosesNothing, SavesToDisk, OpensOne
  <2>3. CASE ~(readable /\ disk[name] # NoFile)
    <3> DEFINE failed == Create(env, b, none)
    <3>1. env' = Destroy(failed, failed.current) /\ loop' = env'.current /\ UNCHANGED phase
      BY <1>3, <2>3 DEF Open, Go
    <3>2. EditorOK(none)
      BY EditorIsOK
    <3> HIDE DEF b, none
    <3>3. /\ IsRing(failed) /\ Live(failed) = Live(env) \cup {b} /\ failed.current = b
          /\ \A k \in Live(env) : failed.ed[k] = env.ed[k]
      BY <1>1, <2>1, <3>2, CreateKeepsRing
    <3> HIDE DEF failed
    <3>4. /\ IsRing(env') /\ Live(env') = Live(failed) \ {b}
          /\ \A k \in Live(env') : env'.ed[k] = failed.ed[k]
      BY <3>1, <3>3, DestroyKeepsRing
    <3>5. Live(env') = Live(env) /\ \A k \in Live(env) : env'.ed[k] = env.ed[k]
      BY <2>1, <3>3, <3>4
    <3>6. EnvInv'
      BY <1>1, <3>1, <3>4, <3>5 DEF EnvInv
    <3> QED BY <3>5, <3>6 DEF Keeps, LosesNothing, SavesToDisk, OpensOne
  <2> QED BY <2>2, <2>3
<1> QED BY <1>2, <1>3

\* What write_file leaves on the disk.
LEMMA WriteFileKeeps ==
  ASSUME EnvInv, NEW name, NEW text, NEW opened \in BOOLEAN, NEW written \in BOOLEAN,
         WriteFile(name, text, opened, written)
  PROVE  /\ disk' = [n \in Names |-> disk'[n]]
         /\ opened /\ written /\ name \in Names => disk'[name] = text
<1>1. disk = [n \in Names |-> disk[n]]
  BY DEF EnvInv
<1> QED BY <1>1 DEF WriteFile

\* A save leaves an editor clean only with its own text as the saved one.
LEMMA WrittenIsOK ==
  ASSUME NEW d, EditorOK(d), NEW opened \in BOOLEAN, NEW written \in BOOLEAN
  PROVE  LET w == Written(d, opened, written)
         IN  /\ EditorOK(w) /\ w.name = d.name /\ w.text = d.text
             /\ opened => w.cut = ~written
             /\ ~opened => w.dirty = d.dirty
  BY DEF EditorOK, Written

\* Saving writes the text the editor holds.
LEMMA SaveKeeps ==
  ASSUME EnvInv, NEW opened \in BOOLEAN, NEW written \in BOOLEAN, Save(opened, written)
  PROVE  Keeps
<1> DEFINE d == env.ed[loop]
           w == Written(d, opened, written)
<1>1. phase = "editing" /\ EditorOK(d)
  BY LoopIsLive DEF Save
<1>2. /\ EditorOK(w) /\ w.name = d.name /\ w.text = d.text
      /\ opened => w.cut = ~written
      /\ ~opened => w.dirty = d.dirty
  BY <1>1, WrittenIsOK
<1>3. /\ env' = [env EXCEPT !.ed[loop] = w] /\ loop' = env'.current /\ UNCHANGED phase
      /\ WriteFile(d.name, d.text, opened, written)
      /\ opened => d.name \in Names
  BY DEF Save, Go
<1>4. /\ disk' = [n \in Names |-> disk'[n]]
      /\ opened /\ written /\ d.name \in Names => disk'[d.name] = d.text
  BY <1>3, WriteFileKeeps
<1>5. d.dirty /\ ~w.dirty /\ w.text = d.text
        => w.cut \/ w.text = d.base \/ disk'[w.name] = w.text
  BY <1>2, <1>3, <1>4
<1> HIDE DEF w
<1> QED BY <1>1, <1>2, <1>3, <1>4, <1>5, ChangeKeeps

\* Saving under another name does too.
LEMMA SaveAsKeeps ==
  ASSUME EnvInv, NEW name \in Names, NEW yes \in BOOLEAN,
         NEW opened \in BOOLEAN, NEW written \in BOOLEAN, SaveAs(name, yes, opened, written)
  PROVE  Keeps
<1> DEFINE d == env.ed[loop]
           named == [d EXCEPT !.name = name, !.newfile = FALSE]
           w == Written(named, opened, written)
<1>1. phase = "editing" /\ EditorOK(d)
  BY LoopIsLive DEF SaveAs
<1>2. EditorOK(named) /\ named.name = name /\ named.text = d.text /\ named.dirty = d.dirty
  BY <1>1, ChangedIsOK
<1>3. /\ env' = [env EXCEPT !.ed[loop] = w] /\ loop' = env'.current /\ UNCHANGED phase
      /\ WriteFile(name, d.text, opened, written)
  BY DEF SaveAs, Go
<1> HIDE DEF named
<1>4a. LET v == Written(named, opened, written)
       IN  /\ EditorOK(v) /\ v.name = named.name /\ v.text = named.text
           /\ opened => v.cut = ~written
           /\ ~opened => v.dirty = named.dirty
  BY <1>2, WrittenIsOK
<1>4. /\ EditorOK(w) /\ w.name = name /\ w.text = d.text
      /\ opened => w.cut = ~written
      /\ ~opened => w.dirty = d.dirty
  BY <1>2, <1>4a
<1>5. /\ disk' = [n \in Names |-> disk'[n]]
      /\ opened /\ written /\ name \in Names => disk'[name] = d.text
  BY <1>3, WriteFileKeeps
<1>6. d.dirty /\ ~w.dirty /\ w.text = d.text
        => w.cut \/ w.text = d.base \/ disk'[w.name] = w.text
  BY <1>4, <1>5
<1> HIDE DEF w
<1> QED BY <1>1, <1>3, <1>4, <1>5, <1>6, ChangeKeeps

\* Closing takes one editor out, clean or given up, and leaves a ring or an
\* untitled editor.
LEMMA CloseKeeps ==
  ASSUME EnvInv, NEW yes \in BOOLEAN, NEW intact \in BOOLEAN, Close(yes, intact)
  PROVE  Keeps
<1> DEFINE gone == Destroy(env, loop)
           b == Min((1 .. MaxEds) \ {loop})
<1>1. /\ phase = "editing" /\ IsRing(env) /\ loop = env.current /\ loop \in Live(env)
      /\ Live(env) # {} /\ EditorOK(env.ed[loop])
  BY LoopIsLive DEF Close
<1>2. /\ env' = IF gone.current = NULL THEN CreateUntitled(gone, b) ELSE gone
      /\ agreed' = IF env.ed[loop].dirty THEN {loop} ELSE {}
      /\ loop' = IF intact THEN env'.current ELSE NULL
      /\ phase' = IF intact THEN phase ELSE "undefined"
      /\ UNCHANGED disk
  BY DEF Close
<1>3. /\ IsRing(gone) /\ Live(gone) = Live(env) \ {loop}
      /\ \A k \in Live(gone) : gone.ed[k] = env.ed[k]
  BY <1>1, DestroyKeepsRing
<1>4. b \in 1 .. MaxEds /\ b # loop
  <2>1. {loop} \subseteq 1 .. MaxEds /\ {loop} # 1 .. MaxEds
    <3>1. loop \in 1 .. MaxEds
      BY <1>1 DEF IsRing, Shape
    <3>2. 1 \in 1 .. MaxEds /\ 2 \in 1 .. MaxEds
      BY EnvAssumption
    <3> QED BY <3>1, <3>2
  <2> QED BY <2>1, BlockIsFree
<1> HIDE DEF gone, b
<1>5. CASE gone.current = NULL
  <2>1. Live(gone) = {}
    BY <1>3, <1>5, CurrentInRing
  <2>2. /\ IsRing(env') /\ Live(env') = {b} /\ env'.ed[b].newfile
    BY <1>2, <1>3, <1>4, <1>5, <2>1, UntitledKeepsRing
  <2>3. Live(env) = {loop}
    BY <1>1, <1>3, <2>1
  <2>4. EnvInv'
    BY <1>1, <1>2, <2>2 DEF EnvInv
  <2>5. LosesNothing
    BY <1>1, <1>2, <2>3 DEF LosesNothing, EditorOK
  <2>6. SavesToDisk /\ OpensOne
    BY <1>4, <2>2, <2>3 DEF SavesToDisk, OpensOne
  <2> QED BY <2>4, <2>5, <2>6 DEF Keeps
<1>6. CASE gone.current # NULL
  <2>1. env' = gone /\ Live(gone) # {}
    BY <1>2, <1>3, <1>6, CurrentInRing
  <2>2. EnvInv'
    BY <1>1, <1>2, <1>3, <2>1 DEF EnvInv
  <2>3. LosesNothing
    BY <1>1, <1>2, <1>3, <2>1 DEF LosesNothing, EditorOK
  <2>4. SavesToDisk /\ OpensOne
    BY <1>3, <2>1 DEF SavesToDisk, OpensOne
  <2> QED BY <2>2, <2>3, <2>4 DEF Keeps
<1> QED BY <1>5, <1>6

\* Quitting takes editors out one by one, up to the first that is not given up.
LEMMA QuitKeeps ==
  ASSUME EnvInv, Quit
  PROVE  Keeps
<1> DEFINE n == Cardinality(Live(env))
           gone == CHOOSE w : Quitting(w, env, n)
<1>1. phase = "editing" /\ IsRing(env) /\ Live(env) # {}
  BY LoopIsLive DEF Quit
<1>2. n \in Nat
  BY <1>1, RingIsWalked, EnvAssumption
<1>3. Quitting(gone, env, n)
  <2> HIDE DEF n
  <2> QED BY <1>2, QuittingExists
<1>4. /\ agreed' = Asked(env) /\ env' = gone[n] /\ loop' = NULL /\ phase' = "over"
      /\ UNCHANGED disk
  BY DEF Quit, Quitting
<1> HIDE DEF gone
<1>5. IsRing(env') /\ Live(env') = {}
  BY <1>1, <1>3, <1>4, QuitEmptiesRing
<1>6. EnvInv'
  BY <1>4, <1>5 DEF EnvInv
<1>7. LosesNothing
  <2> SUFFICES ASSUME NEW id \in Live(env), env.ed[id].text # env.ed[id].base
               PROVE  id \in Asked(env)
    BY <1>4 DEF LosesNothing
  <2>1. env.ed[id].dirty
    BY <1>1 DEF IsRing, Shape, EditorOK
  <2>2. PICK k \in 0 .. n - 1 : After(env, k) = id
    BY <1>1, RingIsWalked
  <2> QED BY <2>1, <2>2 DEF Asked
<1>8. SavesToDisk /\ OpensOne
  BY <1>5 DEF SavesToDisk, OpensOne
<1> QED BY <1>6, <1>7, <1>8 DEF Keeps

\* So does every step.
LEMMA StepKeeps ==
  ASSUME EnvInv, [EnvNext]_envVars
  PROVE  Keeps \/ (EnvInv' /\ UNCHANGED envVars)
<1>1. ASSUME NEW t \in Contents, Edit(t) PROVE Keeps
  BY <1>1, EditKeeps
<1>2. CASE UndoAll
  BY <1>2, UndoAllKeeps
<1>3. CASE NextBuffer
  BY <1>3, NextBufferKeeps
<1>4. CASE NewEditor
  BY <1>4, NewEditorKeeps
<1>5. ASSUME NEW name \in Names, NEW readable \in BOOLEAN, Open(name, readable) PROVE Keeps
  BY <1>5, OpenKeeps
<1>6. ASSUME NEW opened \in BOOLEAN, NEW written \in BOOLEAN, Save(opened, written) PROVE Keeps
  BY <1>6, SaveKeeps
<1>7. ASSUME NEW name \in Names, NEW yes \in BOOLEAN, NEW opened \in BOOLEAN,
             NEW written \in BOOLEAN, SaveAs(name, yes, opened, written)
      PROVE  Keeps
  BY <1>7, SaveAsKeeps
<1>8. ASSUME NEW yes \in BOOLEAN, NEW intact \in BOOLEAN, Close(yes, intact) PROVE Keeps
  BY <1>8, CloseKeeps
<1>9. CASE Quit
  BY <1>9, QuitKeeps
<1>10. CASE UNCHANGED envVars
  BY <1>10 DEF envVars, EnvInv
<1> QED
  BY <1>1, <1>2, <1>3, <1>4, <1>5, <1>6, <1>7, <1>8, <1>9, <1>10 DEF EnvNext

\* The invariant implies the property.
LEMMA InvGivesRing == EnvInv => RingOK
<1> SUFFICES ASSUME EnvInv PROVE RingOK
  OBVIOUS
<1>1. IsRing(env)
  BY DEF EnvInv
<1>ring. PICK N \in Nat : \E f : Order(env, f, N)
  BY <1>1 DEF IsRing
<1>2. PICK f : Order(env, f, N)
  BY <1>ring
<1>3. DOMAIN env.next = Live(env) /\ DOMAIN env.prev = Live(env)
  BY <1>1 DEF IsRing, Shape
<1>4. ASSUME NEW id \in Live(env)
      PROVE  env.next[id] \in Live(env) /\ env.prev[env.next[id]] = id
  <2>1. PICK i \in 1 .. N : f[i] = id
    BY <1>2 DEF Order
  <2>2. CASE i = N
    BY <1>1, <1>2, <2>1, <2>2 DEF Order, IsRing, Shape
  <2>3. CASE i # N
    <3>1. i \in 1 .. N - 1
      BY <2>3
    <3> QED BY <1>1, <1>2, <2>1, <3>1 DEF Order, IsRing, Shape
  <2> QED BY <2>2, <2>3
<1>5. Live(env) # {} => {After(env, n) : n \in 0 .. Cardinality(Live(env)) - 1} = Live(env)
  BY <1>1, RingIsWalked
<1> QED BY <1>3, <1>4, <1>5 DEF RingOK, EnvInv

\* Whatever is opened, switched to, saved under new names and closed, next and
\* prev remain one ring of all the editors, and the loop stays in it.
THEOREM RingOKInvariant == EnvSpec => []RingOK
<1>1. EnvInv /\ [EnvNext]_envVars => EnvInv'
  BY StepKeeps DEF Keeps
<1>2. QED
  BY <1>1, InitHasRing, InvGivesRing, PTL DEF EnvSpec

\* No text is lost unless the user agreed, and a clean editor is on the disk.
THEOREM EnvLosesNothing == EnvSpec => NothingIsLost
<1>1. EnvInv /\ [EnvNext]_envVars => EnvInv'
  BY StepKeeps DEF Keeps
<1>2. EnvInv /\ [EnvNext]_envVars => [LosesNothing]_envVars /\ [SavesToDisk]_envVars
  BY StepKeeps DEF Keeps
<1>3. EnvSpec => [][LosesNothing]_envVars /\ [][SavesToDisk]_envVars
  BY <1>1, <1>2, InitHasRing, PTL DEF EnvSpec
<1>4. QED
  BY <1>3 DEF NothingIsLost, NothingLostUnasked, CleanIsOnDisk, LosesNothing, SavesToDisk

\* Opening a file that is open already makes no second editor for it.
THEOREM EnvOpensOne == EnvSpec => OpenIsUnique
<1>1. EnvInv /\ [EnvNext]_envVars => EnvInv'
  BY StepKeeps DEF Keeps
<1>2. EnvInv /\ [EnvNext]_envVars => [OpensOne]_envVars
  BY StepKeeps DEF Keeps
<1>3. EnvSpec => [][OpensOne]_envVars
  BY <1>1, <1>2, InitHasRing, PTL DEF EnvSpec
<1>4. QED
  BY <1>3 DEF OpenIsUnique, OpensOne
=============================================================================
