-------------------------- MODULE ButeEditorProofs --------------------------
(***************************************************************************)
(* What bute keeps of lines instead of counting them is what counting      *)
(* would give, for every text, alphabet and size of the screen, and        *)
(* through every command that is not in Overshooting, in any order.  There *)
(* undo is left out too, which may leave the cursor behind its line.       *)
(***************************************************************************)
EXTENDS ButeEditor, SetInduction, SequenceTheorems, FiniteSetTheorems

-----------------------------------------------------------------------------
(* Steps.                                                                  *)

\* n steps of G, from v.
Steps(w, n, V, v, G) ==
  w \in [0 .. n -> V] /\ w[0] = v /\ \A k \in 0 .. n - 1 : w[k + 1] = G[w[k]]

\* Steps can be taken n times, one from where the last one led.
LEMMA StepsExist ==
  ASSUME NEW n \in Nat, NEW V, NEW v \in V, NEW G \in [V -> V]
  PROVE  \E w : Steps(w, n, V, v, G)
<1> DEFINE Good(w, m) == w \in [0 .. m -> V] /\ w[0] = v /\ \A k \in 0 .. m - 1 : w[k + 1] = G[w[k]]
           S == {m \in Nat : \E w : Good(w, m)}
<1>1. 0 \in S
  <2> DEFINE w == [k \in 0 .. 0 |-> v]
  <2>1. w \in [0 .. 0 -> V] /\ w[0] = v
    OBVIOUS
  <2> HIDE DEF w
  <2>2. Good(w, 0)
    BY <2>1
  <2> QED BY <2>2
<1>2. ASSUME NEW m \in Nat, m \in S PROVE m + 1 \in S
  <2>1. PICK w : Good(w, m)
    BY <1>2
  <2> DEFINE u == [k \in 0 .. m + 1 |-> IF k = m + 1 THEN G[w[m]] ELSE w[k]]
  <2>2. /\ u \in [0 .. m + 1 -> V] /\ u[m + 1] = G[w[m]]
        /\ \A k \in 0 .. m : u[k] = w[k]
    <3>1. \A k \in 0 .. m + 1 : k # m + 1 => k \in 0 .. m
      OBVIOUS
    <3>2. m \in 0 .. m /\ w \in [0 .. m -> V]
      BY <2>1
    <3> QED BY <3>1, <3>2
  <2> HIDE DEF u
  <2>3. \A k \in 0 .. m : u[k + 1] = G[u[k]]
    <3> TAKE k \in 0 .. m
    <3>1. CASE k = m
      BY <2>2, <3>1
    <3>2. CASE k # m
      <4>1. k \in 0 .. m - 1 /\ k + 1 \in 0 .. m
        BY <3>2
      <4> QED BY <2>1, <2>2, <4>1
    <3> QED BY <3>1, <3>2
  <2>4. u[0] = v
    BY <2>1, <2>2
  <2>5. m + 1 \in Nat /\ (m + 1) - 1 = m
    OBVIOUS
  <2>6. Good(u, m + 1)
    BY <2>2, <2>3, <2>4, <2>5
  <2> HIDE DEF Good
  <2> QED BY <2>5, <2>6
<1>3. n \in S
  <2> HIDE DEF S
  <2> QED BY <1>1, <1>2, NatSetInduction
<1> QED BY <1>3 DEF Steps

\* What each step keeps holds of all.
LEMMA StepsStay ==
  ASSUME NEW n \in Nat, NEW V, NEW w, w[0] \in V,
         \A k \in 0 .. n - 1 : w[k] \in V => w[k + 1] \in V
  PROVE  \A k \in 0 .. n : w[k] \in V
<1> DEFINE S == {k \in Nat : k <= n => w[k] \in V}
<1>1. 0 \in S
  OBVIOUS
<1>2. ASSUME NEW k \in Nat, k \in S PROVE k + 1 \in S
  BY <1>2
<1>3. Nat \subseteq S
  <2> HIDE DEF S
  <2> QED BY <1>1, <1>2, NatSetInduction
<1> QED BY <1>3

-----------------------------------------------------------------------------
(* Lines of a text.                                                        *)

\* The places of newlines between two places.
Ends(t, p, q) == {n \in Newlines(t) : p <= n /\ n < q}

\* They can be counted.
LEMMA EndsFinite ==
  ASSUME NEW t \in Seq(Char), NEW p, NEW q
  PROVE  /\ IsFiniteSet(Ends(t, p, q)) /\ Cardinality(Ends(t, p, q)) \in Nat
         /\ LinesBetween(t, p, q) = Cardinality(Ends(t, p, q))
<1>1. IsFiniteSet(0 .. Len(t) - 1)
  BY FS_Interval
<1>2. IsFiniteSet(Ends(t, p, q))
  BY <1>1, FS_Subset DEF Ends, Newlines
<1>3. LinesBetween(t, p, q) = Cardinality(Ends(t, p, q))
  BY DEF LinesBetween, Ends
<1> QED BY <1>2, <1>3, FS_CardinalityType

\* The lines before a place.
Count(t, q) == LinesBetween(t, 0, q)

\* Counting on from p.
LEMMA CountOn ==
  ASSUME NEW t \in Seq(Char), NEW p \in 0 .. Len(t), NEW q \in p .. Len(t)
  PROVE  /\ Count(t, p) \in Nat /\ LinesBetween(t, p, q) \in Nat
         /\ Count(t, q) = Count(t, p) + LinesBetween(t, p, q)
<1> DEFINE A == Ends(t, 0, p)
           B == Ends(t, p, q)
           C == Ends(t, 0, q)
<1>1. C = A \cup B /\ A \cap B = {}
  <2>1. \A n \in Newlines(t) : n \in Int /\ n >= 0
    BY DEF Newlines
  <2> QED BY <2>1 DEF Ends
<1>2. /\ IsFiniteSet(A) /\ IsFiniteSet(B)
      /\ Cardinality(A) \in Nat /\ Cardinality(B) \in Nat
      /\ Count(t, p) = Cardinality(A) /\ Count(t, q) = Cardinality(C)
      /\ LinesBetween(t, p, q) = Cardinality(B)
  BY EndsFinite DEF Count
<1> HIDE DEF A, B, C
<1>3. Cardinality(C) = Cardinality(A) + Cardinality(B) - Cardinality({})
  BY <1>1, <1>2, FS_Union
<1>4. Cardinality({}) = 0
  BY FS_EmptySet
<1> QED BY <1>2, <1>3, <1>4

\* No line begins where there is no newline, and one more with one.
LEMMA CountNext ==
  ASSUME NEW t \in Seq(Char), NEW p \in 0 .. Len(t), NEW q \in p .. Len(t)
  PROVE  /\ (\A n \in p .. q - 1 : t[n + 1] # NL) => Count(t, q) = Count(t, p)
         /\ (\E n \in p .. q - 1 : t[n + 1] = NL) => Count(t, q) > Count(t, p)
         /\ (q > p /\ t[q] = NL /\ \A n \in p .. q - 2 : t[n + 1] # NL)
               => Count(t, q) = Count(t, p) + 1
<1> DEFINE B == Ends(t, p, q)
<1>1. B = {n \in p .. q - 1 : t[n + 1] = NL}
  BY DEF Ends, Newlines
<1>2. /\ IsFiniteSet(B) /\ Cardinality(B) \in Nat /\ Count(t, p) \in Nat
      /\ Count(t, q) = Count(t, p) + Cardinality(B)
  BY EndsFinite, CountOn
<1> HIDE DEF B
<1>3. Cardinality(B) = 0 <=> B = {}
  BY <1>2, FS_EmptySet
<1>4. ASSUME \A n \in p .. q - 1 : t[n + 1] # NL PROVE Count(t, q) = Count(t, p)
  <2>1. B = {}
    BY <1>1, <1>4
  <2> QED BY <2>1, <1>2, <1>3
<1>5. ASSUME NEW n \in p .. q - 1, t[n + 1] = NL PROVE Count(t, q) > Count(t, p)
  <2>1. n \in B
    BY <1>1, <1>5
  <2>2. Cardinality(B) # 0
    BY <2>1, <1>3
  <2> QED BY <2>2, <1>2
<1>6. ASSUME q > p, t[q] = NL, \A n \in p .. q - 2 : t[n + 1] # NL
      PROVE  Count(t, q) = Count(t, p) + 1
  <2>1. B = {q - 1}
    <3>1. q - 1 \in p .. q - 1 /\ (q - 1) + 1 = q
      BY <1>6
    <3>2. \A n \in p .. q - 1 : n = q - 1 \/ n \in p .. q - 2
      OBVIOUS
    <3> QED BY <1>1, <1>6, <3>1, <3>2
  <2>2. Cardinality({q - 1}) = 1
    BY FS_Singleton
  <2> QED BY <2>1, <2>2, <1>2
<1> QED BY <1>4, <1>5, <1>6


\* The least and the greatest of a finite set of naturals.
LEMMA MinIs ==
  ASSUME NEW S \in SUBSET Nat, S # {}
  PROVE  Min(S) \in S /\ \A y \in S : Min(S) <= y
<1>1. \E x \in S : \A y \in S : x <= y
  BY NatLeast
<1> QED BY <1>1 DEF Min

\* The greatest of naturals up to n.
LEMMA MaxIs ==
  ASSUME NEW n \in Nat, NEW S \in SUBSET (0 .. n), S # {}
  PROVE  Max(S) \in S /\ \A y \in S : y <= Max(S)
<1> DEFINE T == {n - x : x \in S}
<1>1. T \in SUBSET Nat /\ T # {}
  <2>1. \A x \in S : x \in 0 .. n
    OBVIOUS
  <2>2. \A x \in S : n - x \in Nat
    BY <2>1
  <2>3. \A x \in S : n - x \in T
    OBVIOUS
  <2>4. \A y \in T : \E x \in S : y = n - x
    OBVIOUS
  <2> HIDE DEF T
  <2> QED BY <2>2, <2>3, <2>4
<1>2. PICK y \in T : \A z \in T : y <= z
  <2> HIDE DEF T
  <2> QED BY <1>1, NatLeast
<1>3. PICK x \in S : y = n - x
  BY <1>2
<1>4. \A z \in S : n - x <= n - z
  BY <1>2, <1>3
<1>5. \A z \in S : x >= z
  BY <1>4
<1> QED BY <1>5 DEF Max

\* Where get_char stops.
Stops(t, p) == t[p + 1] \in Negative \cup {NL}

\* From a place of the text on, the first stop, or the end.
LEMMA StopIs ==
  ASSUME NEW t \in Seq(Char), NEW p \in 0 .. Len(t)
  PROVE  /\ StopFrom(t, p) \in p .. Len(t)
         /\ \A n \in p .. StopFrom(t, p) - 1 : ~ Stops(t, n)
         /\ StopFrom(t, p) < Len(t) => Stops(t, StopFrom(t, p))
<1> DEFINE S == {q \in p .. Len(t) - 1 : t[q + 1] \in Negative \cup {NL}} \cup {Len(t)}
<1>1. Max({p, 0}) = p /\ Max({p, Len(t)}) = Len(t)
  <2>1. \A n \in Nat : \A m \in 0 .. n : Max({n, m}) = n /\ Max({m, n}) = n
    <3> TAKE n \in Nat
    <3> TAKE m \in 0 .. n
    <3> DEFINE U == {n, m}
    <3>1. U \in SUBSET (0 .. n) /\ U # {}
      OBVIOUS
    <3> HIDE DEF U
    <3>2. Max(U) \in U /\ \A y \in U : y <= Max(U)
      BY <3>1, MaxIs
    <3>3. Max(U) = n
      BY <3>2 DEF U
    <3>4. {m, n} = U
      BY DEF U
    <3> QED BY <3>3, <3>4 DEF U
  <2>2. 0 \in 0 .. p /\ p \in Nat /\ Len(t) \in Nat
    OBVIOUS
  <2> QED BY <2>1, <2>2
<1>2. StopFrom(t, p) = Min(S)
  BY <1>1 DEF StopFrom
<1>3. S \in SUBSET Nat /\ S # {}
  OBVIOUS
<1>4. Min(S) \in S /\ \A y \in S : Min(S) <= y
  <2> HIDE DEF S
  <2> QED BY <1>3, MinIs
<1> DEFINE s == Min(S)
<1>5. s \in p .. Len(t) /\ (s < Len(t) => t[s + 1] \in Negative \cup {NL})
  <2> HIDE DEF s
  <2> QED BY <1>4 DEF s
<1>6. ASSUME NEW n \in p .. s - 1 PROVE t[n + 1] \notin Negative \cup {NL}
  <2>1. n \notin S
    <3> HIDE DEF S
    <3>1. s \in Int /\ n \in Int /\ n < s
      BY <1>5, <1>6
    <3> QED BY <1>4, <3>1
  <2>2. n \in p .. Len(t) - 1
    <3> HIDE DEF s
    <3> QED BY <1>5, <1>6
  <2> QED BY <2>1, <2>2
<1> HIDE DEF S
<1> QED BY <1>2, <1>5, <1>6 DEF Stops

\* A line begins at p.
IsLine(t, p) == p \in 0 .. Len(t) /\ (p > 0 => t[p] = NL)

\* p lies in the line that begins at s.
InLine(t, s, p) == IsLine(t, s) /\ s <= p /\ p <= Len(t) /\ \A n \in s .. p - 1 : t[n + 1] # NL

\* line_start goes back to the start of the line, and there is one.
LEMMA LineStartIs ==
  ASSUME NEW t \in Seq(Char), NEW p \in 0 .. Len(t)
  PROVE  InLine(t, LineStart(t, p), p)
<1> DEFINE S == {q \in Newlines(t) : q < p}
<1>1. S \in SUBSET (0 .. Len(t))
  BY DEF Newlines
<1>2. CASE S = {}
  <2>1. LineStart(t, p) = 0
    BY <1>2 DEF LineStart
  <2>2. \A n \in 0 .. p - 1 : t[n + 1] # NL
    <3> TAKE n \in 0 .. p - 1
    <3>1. n \notin S
      BY <1>2
    <3>2. n \in 0 .. Len(t) - 1 /\ n < p
      OBVIOUS
    <3> QED BY <3>1, <3>2 DEF Newlines
  <2> QED BY <2>1, <2>2 DEF InLine, IsLine
<1>3. CASE S # {}
  <2>1. LineStart(t, p) = Max(S) + 1
    BY <1>3 DEF LineStart
  <2>2. Max(S) \in S /\ \A y \in S : y <= Max(S)
    <3>1. Len(t) \in Nat
      OBVIOUS
    <3> HIDE DEF S
    <3> QED BY <1>1, <1>3, <3>1, MaxIs
  <2>3. PICK m \in 0 .. Len(t) - 1 : m = Max(S) /\ m < p /\ t[m + 1] = NL
    BY <2>2 DEF Newlines
  <2>4. ASSUME NEW n \in m + 1 .. p - 1 PROVE t[n + 1] # NL
    <3>1. n \notin S
      <4> HIDE DEF S
      <4> QED BY <2>2, <2>3
    <3> QED BY <3>1 DEF Newlines
  <2> QED BY <2>1, <2>3, <2>4 DEF InLine, IsLine
<1> QED BY <1>2, <1>3

\* It is the only one.
LEMMA InLineOnce ==
  ASSUME NEW t \in Seq(Char), NEW p \in 0 .. Len(t), NEW s, InLine(t, s, p)
  PROVE  s = LineStart(t, p)
<1>1. InLine(t, LineStart(t, p), p)
  BY LineStartIs
<1>2. \A a, b \in 0 .. Len(t) : InLine(t, a, p) /\ InLine(t, b, p) => ~ a < b
  <2> TAKE a, b \in 0 .. Len(t)
  <2> SUFFICES ASSUME InLine(t, a, p), InLine(t, b, p), a < b PROVE FALSE
    OBVIOUS
  <2>1. b - 1 \in a .. p - 1 /\ t[b] = NL
    BY DEF InLine, IsLine
  <2>2. t[(b - 1) + 1] # NL /\ (b - 1) + 1 = b
    BY <2>1 DEF InLine
  <2> QED BY <2>1, <2>2
<1>3. s \in 0 .. Len(t) /\ LineStart(t, p) \in 0 .. Len(t)
  BY <1>1 DEF InLine, IsLine
<1> QED BY <1>1, <1>2, <1>3

\* A line begins where line_start finds nothing to go back.
LEMMA LineIsStart ==
  ASSUME NEW t \in Seq(Char), NEW p \in 0 .. Len(t)
  PROVE  IsLine(t, p) <=> p = LineStart(t, p)
<1>1. ASSUME IsLine(t, p) PROVE p = LineStart(t, p)
  <2>1. InLine(t, p, p)
    BY <1>1 DEF InLine
  <2> QED BY <2>1, InLineOnce
<1>2. ASSUME p = LineStart(t, p) PROVE IsLine(t, p)
  BY <1>2, LineStartIs DEF InLine
<1> QED BY <1>1, <1>2

\* The number of a line tells it.
LEMMA LinesInOrder ==
  ASSUME NEW t \in Seq(Char), NEW p, NEW q, IsLine(t, p), IsLine(t, q)
  PROVE  /\ Count(t, p) \in Nat /\ Count(t, q) \in Nat
         /\ Count(t, p) <= Count(t, q) => p <= q
         /\ Count(t, p) < Count(t, q) => p < q
<1>1. \A a, b \in 0 .. Len(t) : IsLine(t, b) /\ a < b => Count(t, a) < Count(t, b)
  <2> TAKE a, b \in 0 .. Len(t)
  <2> SUFFICES ASSUME IsLine(t, b), a < b PROVE Count(t, a) < Count(t, b)
    OBVIOUS
  <2>1. b \in a .. Len(t) /\ b - 1 \in a .. b - 1 /\ t[(b - 1) + 1] = NL
    BY DEF IsLine
  <2>2. Count(t, b) > Count(t, a)
    BY <2>1, CountNext
  <2>3. Count(t, a) \in Nat /\ Count(t, b) \in Nat
    BY <2>1, CountOn
  <2> QED BY <2>2, <2>3
<1>2. p \in 0 .. Len(t) /\ q \in 0 .. Len(t)
  BY DEF IsLine
<1>3. Count(t, p) \in Nat /\ Count(t, q) \in Nat
  <2>1. p \in p .. Len(t) /\ q \in q .. Len(t)
    BY <1>2
  <2> QED BY <1>2, <2>1, CountOn
<1>4. (p < q => Count(t, p) < Count(t, q)) /\ (q < p => Count(t, q) < Count(t, p))
  BY <1>1, <1>2
<1> QED BY <1>2, <1>3, <1>4

\* The line above.
LEMMA PrevIs ==
  ASSUME NEW t \in Seq(Char), NEW p, IsLine(t, p)
  PROVE  /\ PrevLine(t, p) < 0 <=> p = 0
         /\ p = 0 => PrevLine(t, p) = -1
         /\ p > 0 => /\ InLine(t, PrevLine(t, p), p - 1)
                     /\ Count(t, p) = Count(t, PrevLine(t, p)) + 1
<1>1. p \in 0 .. Len(t)
  BY DEF IsLine
<1>2. ASSUME p = 0 PROVE PrevLine(t, p) = -1
  BY <1>2 DEF PrevLine
<1>3. ASSUME p > 0
      PROVE  /\ PrevLine(t, p) >= 0
             /\ InLine(t, PrevLine(t, p), p - 1)
             /\ Count(t, p) = Count(t, PrevLine(t, p)) + 1
  <2> DEFINE S == {q \in Newlines(t) : q < p}
  <2>1. p - 1 \in S /\ S \in SUBSET (0 .. Len(t))
    BY <1>1, <1>3 DEF Newlines, IsLine
  <2>2. Max(S) = p - 1
    <3>1. Max(S) \in S /\ \A y \in S : y <= Max(S)
      <4>1. Len(t) \in Nat /\ S # {}
        BY <2>1
      <4> HIDE DEF S
      <4> QED BY <2>1, <4>1, MaxIs
    <3>2. Max(S) \in Int /\ Max(S) < p
      BY <3>1 DEF Newlines
    <3>3. p - 1 <= Max(S)
      <4> HIDE DEF S
      <4> QED BY <2>1, <3>1
    <3> QED BY <1>1, <3>2, <3>3
  <2>3. PrevLine(t, p) = LineStart(t, p - 1)
    BY <1>3, <2>1, <2>2 DEF PrevLine
  <2>4. InLine(t, PrevLine(t, p), p - 1)
    BY <1>1, <1>3, <2>3, LineStartIs
  <2>5. PICK a \in 0 .. Len(t) : a = PrevLine(t, p) /\ a <= p - 1
    BY <2>4 DEF InLine, IsLine
  <2>6. p \in a .. Len(t) /\ p > a /\ t[p] = NL /\ \A n \in a .. p - 2 : t[n + 1] # NL
    BY <1>1, <1>3, <2>4, <2>5 DEF InLine, IsLine
  <2>7. Count(t, p) = Count(t, a) + 1
    BY <2>6, CountNext
  <2> QED BY <2>4, <2>5, <2>7
<1>4. PrevLine(t, p) < 0 <=> p = 0
  <2>1. p > 0 => PrevLine(t, p) \in 0 .. Len(t)
    BY <1>3 DEF InLine, IsLine
  <2>2. p = 0 => PrevLine(t, p) < 0
    BY <1>2
  <2> QED BY <1>1, <2>1, <2>2
<1> QED BY <1>2, <1>3, <1>4

\* The line below, and none where a line is the last or holds a negative
\* character.
LEMMA NextIs ==
  ASSUME NEW t \in Seq(Char), NEW p, IsLine(t, p)
  PROVE  /\ NextLine(t, p) = -1 \/ NextLine(t, p) \in p + 1 .. Len(t)
         /\ NextLine(t, p) # -1 =>
              /\ IsLine(t, NextLine(t, p))
              /\ NextLine(t, p) = StopFrom(t, p) + 1
              /\ Count(t, NextLine(t, p)) = Count(t, p) + 1
              /\ \A n \in p .. NextLine(t, p) - 2 : ~ Stops(t, n)
<1>1. p \in 0 .. Len(t)
  BY DEF IsLine
<1>2. PICK s \in p .. Len(t) :
        /\ s = StopFrom(t, p)
        /\ \A n \in p .. s - 1 : ~ Stops(t, n)
        /\ s < Len(t) => Stops(t, s)
  BY <1>1, StopIs
<1>3. CASE s \in Newlines(t)
  <2>1. NextLine(t, p) = s + 1
    BY <1>2, <1>3 DEF NextLine
  <2>2. s \in 0 .. Len(t) - 1 /\ t[s + 1] = NL
    BY <1>3 DEF Newlines
  <2>3. IsLine(t, s + 1)
    BY <2>2 DEF IsLine
  <2>4. \A n \in p .. (s + 1) - 2 : t[n + 1] # NL
    BY <1>2 DEF Stops
  <2>5. s + 1 \in p .. Len(t) /\ s + 1 > p
    BY <1>1, <1>2, <2>2
  <2>6. Count(t, s + 1) = Count(t, p) + 1
    BY <1>1, <2>2, <2>4, <2>5, CountNext
  <2>7. \A n \in p .. (s + 1) - 2 : ~ Stops(t, n)
    BY <1>2
  <2> QED BY <1>1, <1>2, <2>1, <2>2, <2>3, <2>6, <2>7
<1>4. CASE s \notin Newlines(t)
  BY <1>2, <1>4 DEF NextLine
<1> QED BY <1>3, <1>4

\* No character before p is negative.
Clear(t, p) == \A n \in 0 .. p - 1 : t[n + 1] \notin Negative

\* Above a line that get_char can be walked to, every line has a next one.
LEMMA NextThere ==
  ASSUME NEW t \in Seq(Char), NEW p, NEW q, IsLine(t, p), IsLine(t, q), p < q, Clear(t, q)
  PROVE  NextLine(t, p) \in p + 1 .. q
<1>1. p \in 0 .. Len(t) /\ q \in 1 .. Len(t) /\ t[q] = NL
  BY DEF IsLine
<1>2. PICK s \in p .. Len(t) :
        /\ s = StopFrom(t, p)
        /\ \A n \in p .. s - 1 : ~ Stops(t, n)
        /\ s < Len(t) => Stops(t, s)
  BY <1>1, StopIs
<1>3. s <= q - 1
  <2>1. Stops(t, q - 1)
    BY <1>1 DEF Stops
  <2>2. q - 1 \notin p .. s - 1
    BY <1>2, <2>1
  <2> QED BY <1>1, <2>2
<1>4. s \in 0 .. q - 1 /\ t[s + 1] \in Negative \cup {NL}
  BY <1>1, <1>2, <1>3 DEF Stops
<1>5. s \in Newlines(t)
  <2>1. t[s + 1] = NL
    BY <1>4 DEF Clear
  <2> QED BY <1>1, <1>4, <2>1 DEF Newlines
<1>6. NextLine(t, p) = s + 1
  BY <1>2, <1>5 DEF NextLine
<1> QED BY <1>1, <1>2, <1>4, <1>6

-----------------------------------------------------------------------------
(* Editors.                                                                *)

Recs == [pos : Nat, inserted : Seq(Char), erased : Seq(Char)]
Editors ==
  [text : Seq(Char), recs : Seq(Recs), at : Nat, head : {"null", "first", "freed"},
   dirty : BOOLEAN, undefined : BOOLEAN, linepos : Int, line : Int, col : Int,
   lastcol : Nat, anchor : Nat \cup {-1}, toppos : Int, topline : Int, margin : Nat]

\* The records in effect, from the newest to the oldest, can be undone one after
\* the other: each lies in the text that the later ones leave.
Undoable(n, recs, at) ==
  /\ at \in 0 .. Len(recs)
  /\ \E lens \in [0 .. at -> Nat] :
       /\ lens[at] = n
       /\ \A i \in 1 .. at :
            /\ recs[i].pos + Len(recs[i].inserted) <= lens[i]
            /\ lens[i - 1] = lens[i] - Len(recs[i].inserted) + Len(recs[i].erased)

\* What session.recording says.
Recorded(t, recs, at) ==
  Undoable(Len(t), recs, at) /\ (session.recording \/ at = 0)

\* The line at p, and its number; the cursor in it; the top of the screen.
LineAt(t, p, line) == IsLine(t, p) /\ Clear(t, p) /\ line = Count(t, p)
CursorAt(t, p, col) ==
  col \in Nat /\ p + col <= Len(t) /\ \A n \in p .. p + col - 1 : ~ Stops(t, n)
TopAt(t, p, line) == IsLine(t, p) /\ line = Count(t, p)

\* The cursor's line is counted.
Lined(e) ==
  e \in Editors /\ LineAt(e.text, e.linepos, e.line) /\ Recorded(e.text, e.recs, e.at)

\* It is on the screen, may be above it, may be right below it.
Viewed(e) ==
  Lined(e) /\ TopAt(e.text, e.toppos, e.topline) /\ e.topline <= e.line /\ e.line < e.topline + Lines
MaybeAbove(e) ==
  /\ Lined(e)
  /\ e.topline <= e.line => TopAt(e.text, e.toppos, e.topline)
  /\ e.line < e.topline + Lines
MaybeBelow(e) ==
  /\ Lined(e) /\ TopAt(e.text, e.toppos, e.topline)
  /\ e.topline < e.line /\ e.line <= e.topline + Lines

\* All is as it should be.
Good(e) == Viewed(e) /\ CursorAt(e.text, e.linepos, e.col)

\* Two editors with the same text and undo list.
SameText(e, f) == f.text = e.text /\ f.recs = e.recs /\ f.at = e.at /\ f.undefined = e.undefined

\* Line numbers are naturals.
LEMMA LineNumbers ==
  ASSUME NEW e, Lined(e)
  PROVE  /\ e.text \in Seq(Char) /\ e.linepos \in 0 .. Len(e.text) /\ e.line \in Nat
         /\ IsLine(e.text, e.linepos) /\ Clear(e.text, e.linepos)
         /\ e.line = Count(e.text, e.linepos)
<1>1. e.text \in Seq(Char)
  BY DEF Lined, Editors
<1>2. IsLine(e.text, e.linepos) /\ e.line = Count(e.text, e.linepos) /\ Clear(e.text, e.linepos)
  BY DEF Lined, LineAt
<1> QED BY <1>1, <1>2, LinesInOrder DEF IsLine

\* The top of the screen is not below the cursor.
LEMMA TopIsAbove ==
  ASSUME NEW e, Lined(e), TopAt(e.text, e.toppos, e.topline), e.topline <= e.line
  PROVE  /\ e.toppos \in 0 .. e.linepos /\ e.topline \in Nat
         /\ e.topline < e.line => e.toppos < e.linepos
         /\ e.topline = e.line <=> e.toppos = e.linepos
<1>1. /\ e.text \in Seq(Char) /\ IsLine(e.text, e.linepos) /\ e.line = Count(e.text, e.linepos)
      /\ IsLine(e.text, e.toppos) /\ e.topline = Count(e.text, e.toppos)
  BY LineNumbers DEF TopAt
<1>2. /\ e.line \in Nat /\ e.topline \in Nat
      /\ e.topline <= e.line => e.toppos <= e.linepos
      /\ e.topline < e.line => e.toppos < e.linepos
      /\ e.line <= e.topline => e.linepos <= e.toppos
  BY <1>1, LinesInOrder
<1>3. e.toppos \in Nat /\ e.linepos \in Nat
  BY <1>1 DEF IsLine
<1>4. e.toppos = e.linepos => e.topline = e.line
  BY <1>1
<1> QED BY <1>2, <1>3, <1>4

\* Scrolling shows the line below the screen.
LEMMA ScrollDownView ==
  ASSUME NEW e, Viewed(e) \/ MaybeBelow(e)
  PROVE  /\ Viewed(ScrollDown(e)) /\ SameText(e, ScrollDown(e))
         /\ ScrollDown(e).linepos = e.linepos /\ ScrollDown(e).col = e.col
         /\ ScrollDown(e).anchor = e.anchor /\ ScrollDown(e).line = e.line
         /\ ScrollDown(e).lastcol = e.lastcol
<1>1. /\ Lined(e) /\ TopAt(e.text, e.toppos, e.topline) /\ e.topline <= e.line
      /\ e.line <= e.topline + Lines /\ Lines \in Nat /\ Lines > 0 /\ e \in Editors
  <2>1. Lines \in Nat /\ Lines > 0
    BY EditorAssumption DEF EditorAssumption
  <2>2. CASE Viewed(e)
    <3>1. Lined(e) /\ TopAt(e.text, e.toppos, e.topline) /\ e.topline <= e.line /\ e.line < e.topline + Lines
      BY <2>2 DEF Viewed
    <3>2. e.topline \in Int /\ e.line \in Int /\ e \in Editors
      BY <3>1 DEF Lined, Editors
    <3> QED BY <2>1, <3>1, <3>2
  <2>3. CASE MaybeBelow(e)
    <3>1. Lined(e) /\ TopAt(e.text, e.toppos, e.topline) /\ e.topline < e.line /\ e.line <= e.topline + Lines
      BY <2>3 DEF MaybeBelow
    <3>2. e.topline \in Int /\ e.line \in Int /\ e \in Editors
      BY <3>1 DEF Lined, Editors
    <3> QED BY <2>1, <3>1, <3>2
  <2> QED BY <2>2, <2>3
<1>2. CASE e.line < e.topline + Lines
  <2>1. ~ e.line >= e.topline + Lines
    BY <1>1, <1>2, LineNumbers, TopIsAbove
  <2>2. ScrollDown(e) = e
    BY <2>1 DEF ScrollDown
  <2> QED BY <1>1, <1>2, <2>2 DEF Viewed, SameText
<1>3. CASE e.line = e.topline + Lines
  <2>0. e.topline < e.line
    BY <1>1, <1>3, LineNumbers, TopIsAbove
  <2>1. /\ e.text \in Seq(Char) /\ IsLine(e.text, e.toppos) /\ IsLine(e.text, e.linepos)
        /\ e.toppos < e.linepos /\ Clear(e.text, e.linepos) /\ e.topline \in Nat
        /\ e.topline = Count(e.text, e.toppos)
    BY <1>1, <2>0, LineNumbers, TopIsAbove DEF TopAt
  <2>2. PICK n \in Int : n = NextLine(e.text, e.toppos) /\ n > e.toppos /\ e.toppos \in Nat
    <3>1. e.toppos \in Nat /\ e.linepos \in Nat
      BY <2>1 DEF IsLine
    <3> QED BY <2>1, <3>1, NextThere
  <2>3. TopAt(e.text, n, e.topline + 1)
    <3>1. n # -1
      BY <2>2
    <3> QED BY <2>1, <2>2, <3>1, NextIs DEF TopAt
  <2> DEFINE f == [e EXCEPT !.toppos = n, !.topline = e.topline + 1]
  <2>4. ScrollDown(e) = f
    <3>1. e.line >= e.topline + Lines
      BY <1>1, <1>3, <2>1
    <3> QED BY <2>2, <3>1 DEF ScrollDown
  <2>5. /\ f \in Editors /\ SameText(e, f) /\ f.linepos = e.linepos /\ f.col = e.col /\ f.line = e.line
        /\ f.anchor = e.anchor /\ f.toppos = n /\ f.topline = e.topline + 1 /\ f.lastcol = e.lastcol
    <3>1. e \in Editors /\ n \in Int /\ e.topline + 1 \in Int
      BY <1>1, <2>1, <2>2
    <3> QED BY <3>1 DEF Editors, SameText
  <2> HIDE DEF f
  <2>6. Lined(f)
    BY <1>1, <2>5 DEF Lined, SameText
  <2>7. f.topline <= f.line /\ f.line < f.topline + Lines
    BY <1>1, <1>3, <2>1, <2>5, LineNumbers
  <2>8. TopAt(f.text, f.toppos, f.topline)
    BY <2>3, <2>5 DEF SameText
  <2>9. Viewed(f)
    BY <2>6, <2>7, <2>8 DEF Viewed
  <2> QED BY <2>4, <2>5, <2>9
<1>4. e.line < e.topline + Lines \/ e.line = e.topline + Lines
  BY <1>1, LineNumbers, TopIsAbove
<1> QED BY <1>2, <1>3, <1>4

\* What the commands look at besides the cursor's line.
SameCursor(e, f) ==
  /\ f.linepos = e.linepos /\ f.line = e.line /\ f.col = e.col
  /\ f.lastcol = e.lastcol /\ f.anchor = e.anchor

\* Scrolling shows the line above the screen.
LEMMA ScrollUpView ==
  ASSUME NEW e, MaybeAbove(e)
  PROVE  Viewed(ScrollUp(e)) /\ SameText(e, ScrollUp(e)) /\ SameCursor(e, ScrollUp(e))
<1>1. /\ Lined(e) /\ e \in Editors /\ Lines \in Nat /\ Lines > 0
      /\ e.topline <= e.line => TopAt(e.text, e.toppos, e.topline)
      /\ e.line < e.topline + Lines
  BY EditorAssumption DEF EditorAssumption, MaybeAbove, Lined
<1>2. e.topline \in Int /\ e.line \in Nat
  BY <1>1, LineNumbers DEF Editors
<1>3. CASE e.topline <= e.line
  <2>1. ScrollUp(e) = e
    BY <1>2, <1>3 DEF ScrollUp
  <2> QED BY <1>1, <1>3, <2>1 DEF Viewed, SameText, SameCursor
<1>4. CASE e.line < e.topline
  <2> DEFINE f == [e EXCEPT !.toppos = e.linepos, !.topline = e.line]
  <2>1. ScrollUp(e) = f
    BY <1>4 DEF ScrollUp
  <2>2. /\ f \in Editors /\ SameText(e, f) /\ SameCursor(e, f)
        /\ f.toppos = e.linepos /\ f.topline = e.line
    BY <1>1, <1>2 DEF Editors, SameText, SameCursor
  <2> HIDE DEF f
  <2>3. Lined(f)
    BY <1>1, <2>2 DEF Lined, SameText, SameCursor
  <2>4. TopAt(f.text, f.toppos, f.topline)
    BY <1>1, <2>2, LineNumbers DEF TopAt, SameText
  <2>5. f.topline <= f.line /\ f.line < f.topline + Lines
    BY <1>1, <1>2, <2>2 DEF SameCursor
  <2> QED BY <2>1, <2>2, <2>3, <2>4, <2>5 DEF Viewed
<1> QED BY <1>2, <1>3, <1>4

\* The next line.
LEMMA LineBelowView ==
  ASSUME NEW e, Viewed(e), NextLine(e.text, e.linepos) # -1
  PROVE  /\ MaybeBelow([e EXCEPT !.linepos = NextLine(e.text, e.linepos), !.line = e.line + 1])
         /\ Viewed(LineBelow(e)) /\ SameText(e, LineBelow(e))
         /\ LineBelow(e).linepos = NextLine(e.text, e.linepos)
         /\ LineBelow(e).line = e.line + 1
         /\ LineBelow(e).col = e.col /\ LineBelow(e).lastcol = e.lastcol
         /\ LineBelow(e).anchor = e.anchor
<1>1. /\ Lined(e) /\ e \in Editors /\ TopAt(e.text, e.toppos, e.topline)
      /\ e.topline <= e.line /\ e.line < e.topline + Lines /\ Lines \in Nat
  BY EditorAssumption DEF EditorAssumption, Viewed, Lined
<1>2. /\ e.text \in Seq(Char) /\ e.linepos \in 0 .. Len(e.text) /\ e.line \in Nat
      /\ IsLine(e.text, e.linepos) /\ Clear(e.text, e.linepos)
      /\ e.line = Count(e.text, e.linepos) /\ e.topline \in Nat
  BY <1>1, LineNumbers, TopIsAbove
<1>3. PICK n \in Int : n = NextLine(e.text, e.linepos) /\ n \in e.linepos + 1 .. Len(e.text)
  BY <1>2, NextIs
<1>4. /\ IsLine(e.text, n) /\ Count(e.text, n) = e.line + 1
      /\ \A m \in e.linepos .. n - 2 : ~ Stops(e.text, m)
  BY <1>2, <1>3, NextIs
<1>5. Clear(e.text, n)
  <2> SUFFICES ASSUME NEW m \in 0 .. n - 1 PROVE e.text[m + 1] \notin Negative
    BY DEF Clear
  <2>1. CASE m < e.linepos
    BY <1>2, <2>1 DEF Clear
  <2>2. CASE m \in e.linepos .. n - 2
    BY <1>4, <2>2 DEF Stops
  <2>3. CASE m = n - 1
    <3>1. e.text[m + 1] = NL
      BY <1>2, <1>3, <1>4, <2>3 DEF IsLine
    <3> QED BY <3>1, EditorAssumption DEF EditorAssumption
  <2> QED BY <1>2, <1>3, <2>1, <2>2, <2>3
<1> DEFINE f == [e EXCEPT !.linepos = n, !.line = e.line + 1]
<1>6. /\ f \in Editors /\ SameText(e, f) /\ f.linepos = n /\ f.line = e.line + 1
      /\ f.toppos = e.toppos /\ f.topline = e.topline /\ f.col = e.col
      /\ f.lastcol = e.lastcol /\ f.anchor = e.anchor
  <2>1. e.line + 1 \in Int
    BY <1>2
  <2> QED BY <1>1, <2>1 DEF Editors, SameText
<1>7. f = [e EXCEPT !.linepos = NextLine(e.text, e.linepos), !.line = e.line + 1]
  BY <1>3
<1>8. LineBelow(e) = ScrollDown(f)
  BY <1>3 DEF LineBelow
<1> HIDE DEF f
<1>9. LineAt(f.text, f.linepos, f.line)
  BY <1>4, <1>5, <1>6 DEF LineAt, SameText
<1>10. Lined(f)
  BY <1>1, <1>6, <1>9 DEF Lined, SameText
<1>11. MaybeBelow(f)
  <2>1. f.topline < f.line /\ f.line <= f.topline + Lines
    BY <1>1, <1>2, <1>6
  <2>2. TopAt(f.text, f.toppos, f.topline)
    BY <1>1, <1>6 DEF SameText
  <2> QED BY <1>10, <2>1, <2>2 DEF MaybeBelow
<1>12. /\ Viewed(ScrollDown(f)) /\ SameText(f, ScrollDown(f))
       /\ ScrollDown(f).linepos = f.linepos /\ ScrollDown(f).col = f.col
       /\ ScrollDown(f).anchor = f.anchor /\ ScrollDown(f).line = f.line
       /\ ScrollDown(f).lastcol = f.lastcol
  BY <1>11, ScrollDownView
<1> QED BY <1>3, <1>6, <1>7, <1>8, <1>11, <1>12 DEF SameText

\* The previous one.
LEMMA LineAboveLined ==
  ASSUME NEW e, Lined(e), e.linepos > 0
  PROVE  /\ Lined(LineAbove(e)) /\ SameText(e, LineAbove(e))
         /\ LineAbove(e).linepos = PrevLine(e.text, e.linepos)
         /\ InLine(e.text, LineAbove(e).linepos, e.linepos - 1)
         /\ LineAbove(e).line = e.line - 1 /\ e.line >= 1
         /\ LineAbove(e).toppos = e.toppos /\ LineAbove(e).topline = e.topline
         /\ LineAbove(e).col = e.col /\ LineAbove(e).lastcol = e.lastcol
         /\ LineAbove(e).anchor = e.anchor
<1>1. /\ e \in Editors /\ e.text \in Seq(Char) /\ e.linepos \in 0 .. Len(e.text) /\ e.line \in Nat
      /\ IsLine(e.text, e.linepos) /\ Clear(e.text, e.linepos)
      /\ e.line = Count(e.text, e.linepos)
  BY LineNumbers DEF Lined
<1>2. PICK p \in 0 .. e.linepos - 1 :
        /\ p = PrevLine(e.text, e.linepos)
        /\ InLine(e.text, p, e.linepos - 1)
        /\ e.line = Count(e.text, p) + 1
  <2>1. /\ InLine(e.text, PrevLine(e.text, e.linepos), e.linepos - 1)
        /\ e.line = Count(e.text, PrevLine(e.text, e.linepos)) + 1
    BY <1>1, PrevIs
  <2> QED BY <1>1, <2>1 DEF InLine, IsLine
<1>3. IsLine(e.text, p) /\ Count(e.text, p) \in Nat
  BY <1>1, <1>2, LinesInOrder DEF InLine
<1>4. Clear(e.text, p)
  BY <1>1, <1>2 DEF Clear
<1> DEFINE f == [e EXCEPT !.linepos = p, !.line = e.line - 1]
<1>5. LineAbove(e) = f
  BY <1>2 DEF LineAbove
<1>6. /\ f \in Editors /\ SameText(e, f) /\ f.linepos = p /\ f.line = e.line - 1
      /\ f.toppos = e.toppos /\ f.topline = e.topline /\ f.col = e.col
      /\ f.lastcol = e.lastcol /\ f.anchor = e.anchor
  <2>1. e.line - 1 \in Int /\ p \in Int
    BY <1>1
  <2> QED BY <1>1, <2>1 DEF Editors, SameText
<1> HIDE DEF f
<1>7. LineAt(f.text, f.linepos, f.line)
  BY <1>1, <1>2, <1>3, <1>4, <1>6 DEF LineAt, SameText
<1>8. Lined(f)
  BY <1>6, <1>7 DEF Lined, SameText
<1>9. e.line >= 1
  BY <1>2, <1>3
<1> QED BY <1>2, <1>5, <1>6, <1>8, <1>9

\* A line above the cursor's may be above the screen.
LEMMA LineAboveMaybe ==
  ASSUME NEW e, Viewed(e), e.linepos > 0
  PROVE  MaybeAbove(LineAbove(e))
<1>1. /\ Lined(e) /\ TopAt(e.text, e.toppos, e.topline)
      /\ e.topline <= e.line /\ e.line < e.topline + Lines /\ Lines \in Nat
  BY EditorAssumption DEF EditorAssumption, Viewed
<1>2. e.line \in Nat /\ e.topline \in Nat
  BY <1>1, LineNumbers, TopIsAbove
<1>3. /\ Lined(LineAbove(e)) /\ SameText(e, LineAbove(e))
      /\ LineAbove(e).line = e.line - 1
      /\ LineAbove(e).toppos = e.toppos /\ LineAbove(e).topline = e.topline
  BY <1>1, LineAboveLined
<1> QED BY <1>1, <1>2, <1>3 DEF MaybeAbove, SameText

\* Screen columns are naturals.
LEMMA ColumnIsNat ==
  ASSUME NEW t, NEW linepos, NEW col \in Nat
  PROVE  Column(t, linepos, col) \in Nat
<1> DEFINE G == [k \in Nat |-> [c \in Nat |->
                   IF linepos + (k + 1) > Len(t) THEN c
                   ELSE IF t[linepos + (k + 1)] = TAB THEN (c \div TabSize + 1) * TabSize
                   ELSE c + 1]]
           IsColumn(w) == w = [k \in 0 .. col |->
                   IF k = 0 THEN 0
                   ELSE IF linepos + k > Len(t) THEN w[k - 1]
                   ELSE IF t[linepos + k] = TAB THEN (w[k - 1] \div TabSize + 1) * TabSize
                   ELSE w[k - 1] + 1]
           H == [x \in Nat \X Nat |-> <<x[1] + 1, G[x[1]][x[2]]>>]
<1>1. TabSize \in Nat /\ TabSize > 0
  BY EditorAssumption DEF EditorAssumption
<1>a. \A x \in Nat : (x \div TabSize + 1) * TabSize \in Nat
  BY <1>1
<1>2. \A k, c \in Nat : G[k][c] \in Nat
  BY <1>a
<1>3. H \in [Nat \X Nat -> Nat \X Nat] /\ <<0, 0>> \in Nat \X Nat
  <2> HIDE DEF G
  <2>1. \A x \in Nat \X Nat : <<x[1] + 1, G[x[1]][x[2]]>> \in Nat \X Nat
    BY <1>2
  <2> QED BY <2>1
<1>4. PICK w \in [0 .. col -> Nat \X Nat] :
        w[0] = <<0, 0>> /\ \A k \in 0 .. col - 1 : w[k + 1] = H[w[k]]
  <2> DEFINE V == Nat \X Nat
             z == <<0, 0>>
  <2>1. H \in [V -> V] /\ z \in V
    BY <1>3
  <2> HIDE DEF H, V, z
  <2>2. \E w : Steps(w, col, V, z, H)
    BY <2>1, StepsExist
  <2> QED BY <2>2 DEF V, z, Steps
<1>5. \A k \in 0 .. col : w[k][1] = k
  <2> DEFINE S == {k \in Nat : k <= col => w[k][1] = k}
  <2>1. 0 \in S
    BY <1>4
  <2>2. ASSUME NEW k \in Nat, k \in S PROVE k + 1 \in S
    <3> SUFFICES ASSUME k + 1 <= col PROVE w[k + 1][1] = k + 1
      OBVIOUS
    <3>1. k \in 0 .. col - 1 /\ k \in 0 .. col /\ w[k][1] = k
      BY <2>2
    <3>2. w[k + 1] = H[w[k]] /\ w[k] \in Nat \X Nat
      BY <1>4, <3>1
    <3>3. w[k + 1][1] = w[k][1] + 1
      BY <3>2
    <3> QED BY <3>1, <3>3
  <2>3. Nat \subseteq S
    <3> HIDE DEF S
    <3> QED BY <2>1, <2>2, NatSetInduction
  <2> QED BY <2>3
<1> DEFINE u == [k \in 0 .. col |-> w[k][2]]
<1>6. u \in [0 .. col -> Nat] /\ u[0] = 0
  BY <1>4
<1>7. ASSUME NEW k \in 1 .. col PROVE u[k] = G[k - 1][u[k - 1]]
  <2>1. k - 1 \in 0 .. col - 1 /\ k - 1 \in 0 .. col /\ k \in 0 .. col /\ (k - 1) + 1 = k
    OBVIOUS
  <2>2. w[k] = H[w[k - 1]] /\ w[k - 1] \in Nat \X Nat /\ w[k - 1][1] = k - 1
    BY <1>4, <1>5, <2>1
  <2>3. w[k][2] = G[k - 1][w[k - 1][2]]
    <3> HIDE DEF G
    <3>1. H[w[k - 1]] = <<w[k - 1][1] + 1, G[w[k - 1][1]][w[k - 1][2]]>>
      BY <2>2
    <3> HIDE DEF H
    <3>2. w[k] = <<w[k - 1][1] + 1, G[w[k - 1][1]][w[k - 1][2]]>>
      BY <2>2, <3>1
    <3>3. w[k][2] = G[w[k - 1][1]][w[k - 1][2]]
      BY <3>2
    <3> QED BY <2>2, <3>3
  <2> QED BY <2>1, <2>3
<1> HIDE DEF u
<1>8. IsColumn(u)
  <2> DEFINE v(k) == IF k = 0 THEN 0
                     ELSE IF linepos + k > Len(t) THEN u[k - 1]
                     ELSE IF t[linepos + k] = TAB THEN (u[k - 1] \div TabSize + 1) * TabSize
                     ELSE u[k - 1] + 1
  <2>1. ASSUME NEW k \in 0 .. col PROVE u[k] = v(k)
    <3>1. CASE k = 0
      BY <1>6, <3>1
    <3>2. CASE k # 0
      <4>1. k \in 1 .. col /\ k - 1 \in Nat /\ k - 1 \in 0 .. col /\ (k - 1) + 1 = k
        BY <3>2
      <4>2. u[k] = G[k - 1][u[k - 1]] /\ u[k - 1] \in Nat
        BY <1>6, <1>7, <4>1
      <4>3. u[k] = IF linepos + ((k - 1) + 1) > Len(t) THEN u[k - 1]
                   ELSE IF t[linepos + ((k - 1) + 1)] = TAB THEN (u[k - 1] \div TabSize + 1) * TabSize
                   ELSE u[k - 1] + 1
        BY <4>1, <4>2
      <4> QED BY <3>2, <4>1, <4>3
    <3> QED BY <3>1, <3>2
  <2>2. u = [k \in 0 .. col |-> u[k]]
    BY <1>6
  <2>3. u = [k \in 0 .. col |-> v(k)]
    <3> HIDE DEF v
    <3> QED BY <2>1, <2>2
  <2> QED BY <2>3
<1> DEFINE c == CHOOSE x : IsColumn(x)
<1>9. IsColumn(c)
  <2> HIDE DEF IsColumn
  <2> QED BY <1>8
<1>10. Column(t, linepos, col) = c[col]
  BY DEF Column
<1> HIDE DEF c
<1>11. \A k \in 0 .. col : c[k] \in Nat
  <2>1. c[0] \in Nat
    BY <1>9
  <2>2. ASSUME NEW k \in 0 .. col - 1, c[k] \in Nat PROVE c[k + 1] \in Nat
    <3>1. k + 1 \in 0 .. col /\ k + 1 # 0 /\ (k + 1) - 1 = k
      OBVIOUS
    <3>2. (c[k] \div TabSize + 1) * TabSize \in Nat /\ c[k] + 1 \in Nat
      <4> PICK x : x = c[k]
        OBVIOUS
      <4>1. x \in Nat
        BY <2>2
      <4>2. (x \div TabSize + 1) * TabSize \in Nat
        BY <1>a, <4>1, Zenon
      <4> QED BY <4>1, <4>2
    <3> QED BY <1>9, <2>2, <3>1, <3>2
  <2> HIDE DEF IsColumn
  <2> QED BY <2>1, <2>2, StepsStay
<1> QED BY <1>10, <1>11

\* The characters of a line up to the stop.
LEMMA LengthIs ==
  ASSUME NEW t \in Seq(Char), NEW p, IsLine(t, p)
  PROVE  /\ LineLength(t, p) \in Nat /\ p + LineLength(t, p) = StopFrom(t, p)
         /\ p + LineLength(t, p) <= Len(t)
         /\ \A n \in p .. p + LineLength(t, p) - 1 : ~ Stops(t, n)
<1>1. p \in 0 .. Len(t)
  BY DEF IsLine
<1>2. PICK s \in p .. Len(t) : s = StopFrom(t, p) /\ \A n \in p .. s - 1 : ~ Stops(t, n)
  BY <1>1, StopIs
<1>3. LineLength(t, p) = s - p /\ s - p \in Nat /\ p + (s - p) = s
  BY <1>1, <1>2 DEF LineLength
<1> QED BY <1>1, <1>2, <1>3

\* A cursor in the line is a column up to its length.
LEMMA CursorInLength ==
  ASSUME NEW t \in Seq(Char), NEW p, IsLine(t, p), NEW col \in Nat
  PROVE  CursorAt(t, p, col) <=> col <= LineLength(t, p)
<1>1. PICK l \in Nat : /\ l = LineLength(t, p) /\ p \in 0 .. Len(t)
                       /\ p + l = StopFrom(t, p) /\ p + l <= Len(t)
                       /\ \A n \in p .. p + l - 1 : ~ Stops(t, n)
                       /\ p + l < Len(t) => Stops(t, p + l)
  <2>1. /\ LineLength(t, p) \in Nat /\ p + LineLength(t, p) = StopFrom(t, p)
        /\ p + LineLength(t, p) <= Len(t)
        /\ \A n \in p .. p + LineLength(t, p) - 1 : ~ Stops(t, n)
    BY LengthIs
  <2>2. p \in 0 .. Len(t)
    BY DEF IsLine
  <2>3. StopFrom(t, p) < Len(t) => Stops(t, StopFrom(t, p))
    BY <2>2, StopIs
  <2> QED BY <2>1, <2>2, <2>3
<1>2. ASSUME col <= l PROVE CursorAt(t, p, col)
  BY <1>1, <1>2 DEF CursorAt
<1>3. ASSUME CursorAt(t, p, col), col > l PROVE FALSE
  <2>1. p + l \in p .. p + col - 1 /\ p + l < Len(t)
    BY <1>1, <1>3 DEF CursorAt
  <2> QED BY <1>1, <1>3, <2>1 DEF CursorAt
<1> QED BY <1>1, <1>2, <1>3

\* Scrolling sideways gives a margin.
LEMMA MarginIsNat ==
  ASSUME NEW margin \in Nat, NEW c \in Nat, NEW cols \in Nat
  PROVE  LET back == Max({0, margin - 4 * ((margin - c + 3) \div 4)})
             m == IF c < margin THEN back ELSE margin
         IN  (IF c - m >= cols THEN m + 4 * ((c - m - cols) \div 4 + 1) ELSE m) \in Nat
<1> DEFINE x == margin - 4 * ((margin - c + 3) \div 4)
           back == Max({0, x})
           m == IF c < margin THEN back ELSE margin
<1>1. x \in Int
  OBVIOUS
<1>2. back \in Nat
  <2> HIDE DEF x
  <2>1. CASE x >= 0
    <3> DEFINE S == {0, x}
    <3>1. S \in SUBSET (0 .. x) /\ S # {} /\ x \in Nat
      BY <1>1, <2>1
    <3> HIDE DEF S
    <3>2. Max(S) \in S
      BY <3>1, MaxIs
    <3> QED BY <3>1, <3>2 DEF S
  <2>2. CASE x < 0
    <3>1. \E y \in {0, x} : \A z \in {0, x} : y >= z
      BY <1>1, <2>2
    <3>2. Max({0, x}) \in {0, x} /\ \A z \in {0, x} : Max({0, x}) >= z
      BY <3>1 DEF Max
    <3> QED BY <1>1, <2>2, <3>2
  <2> QED BY <1>1, <2>1, <2>2
<1> HIDE DEF back, x
<1>3. m \in Nat
  BY <1>2
<1> HIDE DEF m
<1>4. c - m >= cols => m + 4 * ((c - m - cols) \div 4 + 1) \in Nat
  <2>1. ASSUME NEW d \in Nat PROVE m + 4 * (d \div 4 + 1) \in Nat
    BY <1>3
  <2>2. c - m >= cols => c - m - cols \in Nat
    BY <1>3
  <2> QED BY <2>1, <2>2
<1> QED BY <1>3, <1>4 DEF m, back, x

\* The parts of an editor that scrolling sideways and choosing the column leave.
SameLine(e, f) ==
  /\ f.linepos = e.linepos /\ f.line = e.line /\ f.anchor = e.anchor
  /\ f.toppos = e.toppos /\ f.topline = e.topline

\* What is viewed stays so when other parts change.
LEMMA SameView ==
  ASSUME NEW e, Viewed(e), NEW f, f \in Editors, SameText(e, f),
         f.linepos = e.linepos, f.line = e.line, f.toppos = e.toppos, f.topline = e.topline
  PROVE  Viewed(f)
BY DEF Viewed, Lined, SameText

\* adjust_layout chooses the column within the line.
LEMMA AdjustLayoutIs ==
  ASSUME NEW e \in Editors, IsLine(e.text, e.linepos)
  PROVE  LET f == AdjustLayout(e)
         IN  /\ f \in Editors /\ SameText(e, f) /\ SameLine(e, f) /\ f.lastcol = e.lastcol
             /\ f.col = IF e.lastcol > LineLength(e.text, e.linepos)
                        THEN LineLength(e.text, e.linepos) ELSE e.lastcol
             /\ CursorAt(f.text, f.linepos, f.col)
<1>1. /\ e.text \in Seq(Char) /\ IsLine(e.text, e.linepos) /\ e.lastcol \in Nat /\ e.margin \in Nat
  BY DEF Editors
<1>2. PICK ll \in Nat : ll = LineLength(e.text, e.linepos)
  BY <1>1, LengthIs
<1>3. PICK col \in Nat : col = (IF e.lastcol > ll THEN ll ELSE e.lastcol) /\ col <= ll
  BY <1>1
<1>4. PICK c \in Nat : c = Column(e.text, e.linepos, col)
  BY ColumnIsNat
<1> DEFINE back == Max({0, e.margin - 4 * ((e.margin - c + 3) \div 4)})
           m == IF c < e.margin THEN back ELSE e.margin
<1>5. PICK margin \in Nat : margin = IF c - m >= Cols THEN m + 4 * ((c - m - Cols) \div 4 + 1) ELSE m
  <2>1. Cols \in Nat
    BY EditorAssumption DEF EditorAssumption
  <2> QED BY <1>1, <2>1, MarginIsNat
<1> DEFINE f == [e EXCEPT !.col = col, !.margin = margin]
<1>6. AdjustLayout(e) = f
  BY <1>2, <1>3, <1>4, <1>5 DEF AdjustLayout
<1>7. /\ f \in Editors /\ SameText(e, f) /\ SameLine(e, f) /\ f.lastcol = e.lastcol /\ f.col = col
  <2>1. f \in Editors
    <3>1. col \in Int
      OBVIOUS
    <3> QED BY <1>1, <3>1 DEF Editors
  <2>2. SameText(e, f) /\ SameLine(e, f) /\ f.lastcol = e.lastcol /\ f.col = col
    BY DEF Editors, SameText, SameLine
  <2> QED BY <2>1, <2>2
<1> HIDE DEF f
<1>8. CursorAt(e.text, e.linepos, col)
  BY <1>1, <1>2, <1>3, CursorInLength
<1>9. CursorAt(f.text, f.linepos, f.col)
  BY <1>7, <1>8 DEF SameText, SameLine
<1> QED BY <1>2, <1>3, <1>6, <1>7, <1>9

\* It puts the cursor into its line.
LEMMA AdjustLayoutGood ==
  ASSUME NEW e, Viewed(e)
  PROVE  /\ Good(AdjustLayout(e)) /\ SameText(e, AdjustLayout(e)) /\ SameLine(e, AdjustLayout(e))
         /\ AdjustLayout(e).lastcol = e.lastcol
         /\ AdjustLayout(e).col = IF e.lastcol > LineLength(e.text, e.linepos)
                                  THEN LineLength(e.text, e.linepos) ELSE e.lastcol
<1>1. e \in Editors /\ IsLine(e.text, e.linepos)
  <2>1. Lined(e) /\ e \in Editors
    BY DEF Viewed, Lined
  <2> QED BY <2>1, LineNumbers
<1>2. PICK f : f = AdjustLayout(e)
  OBVIOUS
<1>3. /\ f \in Editors /\ SameText(e, f) /\ SameLine(e, f) /\ f.lastcol = e.lastcol
      /\ f.col = IF e.lastcol > LineLength(e.text, e.linepos)
                 THEN LineLength(e.text, e.linepos) ELSE e.lastcol
      /\ CursorAt(f.text, f.linepos, f.col)
  BY <1>1, <1>2, AdjustLayoutIs
<1>4. Viewed(f)
  BY <1>3, SameView DEF SameLine
<1> QED BY <1>2, <1>3, <1>4 DEF Good

\* Moving sideways.
LEMMA SidewaysGood ==
  ASSUME NEW e, Viewed(e), NEW col \in Nat
  PROVE  /\ Good(Sideways(e, col)) /\ SameText(e, Sideways(e, col)) /\ SameLine(e, Sideways(e, col))
<1> DEFINE f == [e EXCEPT !.col = col, !.lastcol = col]
<1>1. e \in Editors
  BY DEF Viewed, Lined
<1>2. f \in Editors /\ SameText(e, f) /\ SameLine(e, f)
  <2>1. f \in Editors
    <3>1. col \in Int
      OBVIOUS
    <3> QED BY <1>1, <3>1 DEF Editors
  <2>2. SameText(e, f) /\ SameLine(e, f)
    BY <1>1 DEF Editors, SameText, SameLine
  <2> QED BY <2>1, <2>2
<1>3. Sideways(e, col) = AdjustLayout(f)
  BY DEF Sideways
<1> HIDE DEF f
<1>4. Viewed(f)
  BY <1>2, SameView DEF SameLine
<1>5. /\ Good(AdjustLayout(f)) /\ SameText(f, AdjustLayout(f)) /\ SameLine(f, AdjustLayout(f))
  BY <1>4, AdjustLayoutGood
<1> QED BY <1>2, <1>3, <1>5 DEF SameText, SameLine

\* The position of the cursor.
LEMMA PosIs ==
  ASSUME NEW e, Good(e)
  PROVE  /\ e \in Editors /\ e.text \in Seq(Char) /\ e.linepos \in Nat /\ e.col \in Nat
         /\ Pos(e) = e.linepos + e.col /\ Pos(e) \in 0 .. Len(e.text) /\ e.linepos <= Pos(e)
         /\ Clear(e.text, Pos(e)) /\ Viewed(e)
<1>1. /\ Viewed(e) /\ Lined(e) /\ e \in Editors /\ CursorAt(e.text, e.linepos, e.col)
  BY DEF Good, Viewed, Lined
<1>2. e.text \in Seq(Char) /\ e.linepos \in Nat /\ Clear(e.text, e.linepos)
  BY <1>1, LineNumbers
<1>3. e.col \in Nat /\ e.linepos + e.col <= Len(e.text)
  BY <1>1 DEF CursorAt
<1>4. Pos(e) = e.linepos + e.col /\ Pos(e) \in 0 .. Len(e.text) /\ e.linepos <= Pos(e)
  BY <1>2, <1>3 DEF Pos
<1>5. Clear(e.text, Pos(e))
  <2>0. PICK p \in Nat : p = Pos(e) /\ p = e.linepos + e.col
    BY <1>2, <1>3, <1>4
  <2>1. ASSUME NEW n \in 0 .. p - 1 PROVE e.text[n + 1] \notin Negative
    <3>1. CASE n < e.linepos
      BY <1>2, <3>1 DEF Clear
    <3>2. CASE n >= e.linepos
      <4>1. ~ Stops(e.text, n)
        BY <1>1, <1>2, <1>3, <2>0, <3>2 DEF CursorAt
      <4> QED BY <4>1 DEF Stops
    <3> QED BY <1>2, <3>1, <3>2
  <2>2. Clear(e.text, p)
    BY <2>1 DEF Clear
  <2> QED BY <2>0, <2>2
<1> QED BY <1>1, <1>2, <1>3, <1>4, <1>5

\* The anchor is set, kept or taken away.
LEMMA UpdateSelectionGood ==
  ASSUME NEW e, Good(e), NEW select \in BOOLEAN
  PROVE  /\ Good(UpdateSelection(e, select)) /\ SameText(e, UpdateSelection(e, select))
         /\ UpdateSelection(e, select).linepos = e.linepos
         /\ UpdateSelection(e, select).line = e.line
         /\ UpdateSelection(e, select).col = e.col
         /\ UpdateSelection(e, select).lastcol = e.lastcol
<1>1. e \in Editors /\ Pos(e) \in Nat /\ e.anchor \in Nat \cup {-1} /\ CursorAt(e.text, e.linepos, e.col)
      /\ Viewed(e)
  BY PosIs DEF Editors, Good
<1>2. PICK a \in Nat \cup {-1} : a = IF ~select THEN -1 ELSE IF e.anchor = -1 THEN Pos(e) ELSE e.anchor
  BY <1>1
<1> DEFINE f == [e EXCEPT !.anchor = a]
<1>3. UpdateSelection(e, select) = f
  BY <1>2 DEF UpdateSelection
<1>4. /\ f \in Editors /\ SameText(e, f) /\ f.linepos = e.linepos /\ f.line = e.line
      /\ f.toppos = e.toppos /\ f.topline = e.topline /\ f.col = e.col /\ f.lastcol = e.lastcol
  BY <1>1 DEF Editors, SameText
<1> HIDE DEF f
<1>5. Viewed(f)
  BY <1>1, <1>4, SameView
<1>6. CursorAt(f.text, f.linepos, f.col)
  BY <1>1, <1>4 DEF SameText
<1> QED BY <1>3, <1>4, <1>5, <1>6 DEF Good

-----------------------------------------------------------------------------
(* Edits.                                                                  *)

\* The same first k characters.
Agree(t, u, k) ==
  k \in Nat /\ k <= Len(t) /\ k <= Len(u) /\ \A i \in 1 .. k : u[i] = t[i]

\* Lines that begin in them are the same.
LEMMA AgreeSame ==
  ASSUME NEW t \in Seq(Char), NEW u \in Seq(Char), NEW k, Agree(t, u, k), NEW p \in 0 .. k
  PROVE  /\ IsLine(t, p) <=> IsLine(u, p)
         /\ Count(t, p) = Count(u, p)
         /\ Clear(t, p) <=> Clear(u, p)
<1>1. k \in Nat /\ k <= Len(t) /\ k <= Len(u) /\ \A i \in 1 .. k : u[i] = t[i]
  BY DEF Agree
<1>2. \A n \in 0 .. p - 1 : n + 1 \in 1 .. k /\ n \in 0 .. Len(t) - 1 /\ n \in 0 .. Len(u) - 1
  BY <1>1
<1>3. \A n \in 0 .. p - 1 : t[n + 1] = u[n + 1]
  BY <1>1, <1>2
<1>4. IsLine(t, p) <=> IsLine(u, p)
  <2>1. p \in 0 .. Len(t) /\ p \in 0 .. Len(u)
    BY <1>1
  <2>2. p > 0 => t[p] = u[p]
    BY <1>1
  <2> QED BY <2>1, <2>2 DEF IsLine
<1>5. Ends(t, 0, p) = Ends(u, 0, p)
  <2>1. Ends(t, 0, p) = {n \in 0 .. p - 1 : t[n + 1] = NL}
    BY <1>1 DEF Ends, Newlines
  <2>2. Ends(u, 0, p) = {n \in 0 .. p - 1 : u[n + 1] = NL}
    BY <1>1 DEF Ends, Newlines
  <2> QED BY <1>3, <2>1, <2>2
<1>6. Count(t, p) = Count(u, p)
  BY <1>5, EndsFinite DEF Count
<1>7. Clear(t, p) <=> Clear(u, p)
  BY <1>3 DEF Clear
<1> QED BY <1>4, <1>6, <1>7

\* A line and what is above it stay when the text changes below.
LEMMA EditedView ==
  ASSUME NEW e, Viewed(e), NEW f, f \in Editors, Recorded(f.text, f.recs, f.at),
         f.linepos = e.linepos, f.line = e.line, f.toppos = e.toppos, f.topline = e.topline,
         NEW k, Agree(e.text, f.text, k), e.linepos <= k
  PROVE  Viewed(f)
<1>1. /\ Lined(e) /\ TopAt(e.text, e.toppos, e.topline) /\ e.topline <= e.line
      /\ e.line < e.topline + Lines
  BY DEF Viewed
<1>2. /\ e.text \in Seq(Char) /\ f.text \in Seq(Char) /\ k \in Nat
      /\ e.linepos \in 0 .. k /\ e.toppos \in 0 .. k
  <2>1. e.text \in Seq(Char) /\ e.linepos \in Nat /\ e.toppos \in 0 .. e.linepos
    BY <1>1, LineNumbers, TopIsAbove
  <2> QED BY <2>1 DEF Editors, Agree
<1>3. /\ IsLine(e.text, e.linepos) <=> IsLine(f.text, e.linepos)
      /\ Count(e.text, e.linepos) = Count(f.text, e.linepos)
      /\ Clear(e.text, e.linepos) <=> Clear(f.text, e.linepos)
      /\ IsLine(e.text, e.toppos) <=> IsLine(f.text, e.toppos)
      /\ Count(e.text, e.toppos) = Count(f.text, e.toppos)
  BY <1>2, AgreeSame
<1>4. LineAt(f.text, f.linepos, f.line) /\ TopAt(f.text, f.toppos, f.topline)
  BY <1>1, <1>3 DEF Lined, LineAt, TopAt
<1> QED BY <1>1, <1>4 DEF Viewed, Lined

\* So does the cursor before it.
LEMMA EditedCursor ==
  ASSUME NEW t \in Seq(Char), NEW u \in Seq(Char), NEW k, Agree(t, u, k),
         NEW p \in Nat, NEW col, CursorAt(t, p, col), p + col <= k
  PROVE  CursorAt(u, p, col)
<1>1. /\ k \in Nat /\ k <= Len(t) /\ k <= Len(u) /\ \A i \in 1 .. k : u[i] = t[i]
      /\ col \in Nat /\ \A n \in p .. p + col - 1 : ~ Stops(t, n)
  BY DEF Agree, CursorAt
<1>2. \A n \in p .. p + col - 1 : ~ Stops(u, n)
  <2> TAKE n \in p .. p + col - 1
  <2>1. n + 1 \in 1 .. k
    BY <1>1
  <2> QED BY <1>1, <2>1 DEF Stops
<1> QED BY <1>1, <1>2 DEF CursorAt

\* A text with a part of it replaced.
SpliceIs(s, t, pos, len, buf) ==
  /\ s \in Seq(Char) /\ Len(s) = Len(t) - len + Len(buf)
  /\ Agree(t, s, pos)
  /\ \A i \in 1 .. Len(buf) : s[pos + i] = buf[i]
  /\ \A i \in pos + len + 1 .. Len(t) : s[i - len + Len(buf)] = t[i]

\* That is what replace makes of it.
LEMMA SpliceAt ==
  ASSUME NEW t \in Seq(Char), NEW buf \in Seq(Char), NEW pos \in Nat, NEW len \in Nat,
         pos + len <= Len(t)
  PROVE  SpliceIs(Texts!Splice(t, pos, len, buf), t, pos, len, buf)
<1>1. PICK l : l = SubSeq(t, 1, pos)
  OBVIOUS
<1>2. PICK r : r = SubSeq(t, pos + len + 1, Len(t))
  OBVIOUS
<1>3. PICK s : s = Texts!Splice(t, pos, len, buf)
  OBVIOUS
<1>4. /\ l \in Seq(Char) /\ Len(l) = pos
      /\ \A i \in 1 .. pos : l[i] = t[i]
  BY <1>1
<1>5. /\ r \in Seq(Char) /\ Len(r) = Len(t) - (pos + len)
      /\ \A i \in 1 .. Len(t) - (pos + len) : r[i] = t[i + pos + len]
  BY <1>2
<1>6. s = l \o buf \o r
  BY <1>1, <1>2, <1>3 DEF Texts!Splice
<1>7. PICK lb : lb = l \o buf
  OBVIOUS
<1>8. /\ lb \in Seq(Char) /\ Len(lb) = pos + Len(buf)
      /\ \A i \in 1 .. pos : lb[i] = l[i]
      /\ \A i \in 1 .. Len(buf) : lb[pos + i] = buf[i]
  <2>1. \A a, b \in Seq(Char) : /\ a \o b \in Seq(Char) /\ Len(a \o b) = Len(a) + Len(b)
                                /\ \A i \in 1 .. Len(a) : (a \o b)[i] = a[i]
                                /\ \A i \in 1 .. Len(b) : (a \o b)[Len(a) + i] = b[i]
    BY ConcatProperties
  <2> QED BY <1>4, <1>7, <2>1, Zenon
<1>9. /\ s \in Seq(Char) /\ Len(s) = Len(lb) + Len(r)
      /\ \A i \in 1 .. Len(lb) : s[i] = lb[i]
      /\ \A i \in 1 .. Len(r) : s[Len(lb) + i] = r[i]
  <2>1. \A a, b \in Seq(Char) : /\ a \o b \in Seq(Char) /\ Len(a \o b) = Len(a) + Len(b)
                                /\ \A i \in 1 .. Len(a) : (a \o b)[i] = a[i]
                                /\ \A i \in 1 .. Len(b) : (a \o b)[Len(a) + i] = b[i]
    BY ConcatProperties
  <2>2. s = lb \o r
    BY <1>6, <1>7
  <2>3. lb \in Seq(Char) /\ r \in Seq(Char)
    BY <1>5, <1>8
  <2> QED BY <2>1, <2>2, <2>3, Zenon
<1>10. Len(s) = Len(t) - len + Len(buf)
  BY <1>5, <1>8, <1>9
<1>11. \A i \in 1 .. pos : s[i] = t[i]
  BY <1>4, <1>8, <1>9
<1>12. \A i \in 1 .. Len(buf) : s[pos + i] = buf[i]
  BY <1>8, <1>9
<1>13. \A i \in pos + len + 1 .. Len(t) : s[i - len + Len(buf)] = t[i]
  <2> TAKE i \in pos + len + 1 .. Len(t)
  <2>1. PICK j \in 1 .. Len(r) : j = i - (pos + len)
    BY <1>5
  <2>2. i - len + Len(buf) = Len(lb) + j /\ i = j + pos + len
    BY <1>8, <2>1
  <2> QED BY <1>5, <1>9, <2>1, <2>2
<1>14. Agree(t, s, pos)
  <2>1. pos <= Len(s)
    BY <1>10
  <2> QED BY <1>11, <2>1 DEF Agree
<1> QED BY <1>3, <1>9, <1>10, <1>12, <1>13, <1>14 DEF SpliceIs

-----------------------------------------------------------------------------
(* The records in effect.                                                  *)

\* Without the newest.
LEMMA UndoableLess ==
  ASSUME NEW n \in Nat, NEW recs \in Seq(Recs), NEW at, Undoable(n, recs, at), at # 0
  PROVE  /\ at \in 1 .. Len(recs) /\ recs[at] \in Recs
         /\ recs[at].pos + Len(recs[at].inserted) <= n
         /\ Undoable(n - Len(recs[at].inserted) + Len(recs[at].erased), recs, at - 1)
<1>1. PICK lens \in [0 .. at -> Nat] :
       /\ lens[at] = n
       /\ \A i \in 1 .. at :
            /\ recs[i].pos + Len(recs[i].inserted) <= lens[i]
            /\ lens[i - 1] = lens[i] - Len(recs[i].inserted) + Len(recs[i].erased)
  BY DEF Undoable
<1>2. at \in 1 .. Len(recs)
  BY DEF Undoable
<1> DEFINE l == [i \in 0 .. at - 1 |-> lens[i]]
<1>3. l \in [0 .. at - 1 -> Nat] /\ \A i \in 0 .. at - 1 : l[i] = lens[i]
  <2>1. \A i \in 0 .. at - 1 : i \in 0 .. at
    BY <1>2
  <2> QED BY <2>1
<1> HIDE DEF l
<1>4. l[at - 1] = n - Len(recs[at].inserted) + Len(recs[at].erased)
  <2>1. at - 1 \in 0 .. at - 1 /\ at \in 1 .. at
    BY <1>2
  <2> QED BY <1>1, <1>3, <2>1
<1>5. \A i \in 1 .. at - 1 :
            /\ recs[i].pos + Len(recs[i].inserted) <= l[i]
            /\ l[i - 1] = l[i] - Len(recs[i].inserted) + Len(recs[i].erased)
  <2> TAKE i \in 1 .. at - 1
  <2>1. i \in 1 .. at /\ i \in 0 .. at - 1 /\ i - 1 \in 0 .. at - 1
    BY <1>2
  <2>2. l[i] = lens[i] /\ l[i - 1] = lens[i - 1]
    BY <1>3, <2>1
  <2> QED BY <1>1, <2>1, <2>2, Zenon
<1>6. at - 1 \in 0 .. Len(recs)
  BY <1>2
<1>7. Undoable(n - Len(recs[at].inserted) + Len(recs[at].erased), recs, at - 1)
  BY <1>3, <1>4, <1>5, <1>6 DEF Undoable
<1>8. recs[at].pos + Len(recs[at].inserted) <= n
  <2>1. at \in 1 .. at
    BY <1>2
  <2> QED BY <1>1, <2>1
<1>9. recs[at] \in Recs
  BY <1>2
<1> QED BY <1>2, <1>7, <1>8, <1>9

\* With one more.
LEMMA UndoableMore ==
  ASSUME NEW n \in Nat, NEW recs \in Seq(Recs), NEW m \in Nat, NEW k \in Nat,
         Undoable(k, recs, m), NEW new \in Seq(Recs), Len(new) = m + 1,
         \A i \in 1 .. m : new[i] = recs[i],
         new[m + 1].pos + Len(new[m + 1].inserted) <= n,
         k = n - Len(new[m + 1].inserted) + Len(new[m + 1].erased)
  PROVE  Undoable(n, new, m + 1)
<1>1. PICK lens \in [0 .. m -> Nat] :
       /\ lens[m] = k
       /\ \A i \in 1 .. m :
            /\ recs[i].pos + Len(recs[i].inserted) <= lens[i]
            /\ lens[i - 1] = lens[i] - Len(recs[i].inserted) + Len(recs[i].erased)
  BY DEF Undoable
<1> DEFINE l == [i \in 0 .. m + 1 |-> IF i = m + 1 THEN n ELSE lens[i]]
<1>2. /\ l \in [0 .. m + 1 -> Nat] /\ l[m + 1] = n
      /\ \A i \in 0 .. m : l[i] = lens[i]
  <2>1. \A i \in 0 .. m + 1 : i # m + 1 => i \in 0 .. m
    OBVIOUS
  <2> QED BY <2>1
<1> HIDE DEF l
<1>3. ASSUME NEW i \in 1 .. m + 1
      PROVE  /\ new[i].pos + Len(new[i].inserted) <= l[i]
             /\ l[i - 1] = l[i] - Len(new[i].inserted) + Len(new[i].erased)
  <2>1. CASE i = m + 1
    <3>0. m \in 0 .. m /\ i - 1 = m
      BY <2>1
    <3>1. l[i] = n /\ l[i - 1] = k
      BY <1>1, <1>2, <2>1, <3>0
    <3> QED BY <2>1, <3>1
  <2>2. CASE i # m + 1
    <3>1. i \in 1 .. m /\ i \in 0 .. m /\ i - 1 \in 0 .. m
      BY <2>2
    <3>2. l[i] = lens[i] /\ l[i - 1] = lens[i - 1] /\ new[i] = recs[i]
      BY <1>2, <3>1
    <3> QED BY <1>1, <3>1, <3>2, Zenon
  <2> QED BY <2>1, <2>2
<1>4. m + 1 \in 0 .. Len(new)
  OBVIOUS
<1> QED BY <1>2, <1>3, <1>4 DEF Undoable

\* No record in effect.
LEMMA UndoableNone ==
  ASSUME NEW n \in Nat, NEW recs \in Seq(Recs)
  PROVE  Undoable(n, recs, 0)
<1> DEFINE l == [i \in 0 .. 0 |-> n]
<1>1. l \in [0 .. 0 -> Nat] /\ l[0] = n
  OBVIOUS
<1>2. \A i \in 1 .. 0 : FALSE
  OBVIOUS
<1>3. 0 \in 0 .. Len(recs)
  OBVIOUS
<1> HIDE DEF l
<1> QED BY <1>1, <1>2, <1>3 DEF Undoable

\* The records in effect are among the list's.
LEMMA UndoableIn ==
  ASSUME NEW n \in Nat, NEW recs \in Seq(Recs), NEW at, Undoable(n, recs, at),
         NEW new \in Seq(Recs), at <= Len(new), \A i \in 1 .. at : new[i] = recs[i]
  PROVE  Undoable(n, new, at)
<1>1. at \in 0 .. Len(recs)
  BY DEF Undoable
<1>2. at \in 0 .. Len(new)
  BY <1>1
<1> QED BY <1>2 DEF Undoable

\* What an edit changes of an editor: not the cursor, not the screen.
SameScreen(e, f) ==
  /\ f.linepos = e.linepos /\ f.line = e.line /\ f.col = e.col
  /\ f.lastcol = e.lastcol /\ f.anchor = e.anchor
  /\ f.toppos = e.toppos /\ f.topline = e.topline /\ f.undefined = e.undefined

\* reset_undo leaves the records in effect.
LEMMA ResetUndoIs ==
  ASSUME NEW e \in Editors, NEW n \in Nat, Undoable(n, e.recs, e.at)
  PROVE  /\ ResetUndo(e) \in Editors /\ SameScreen(e, ResetUndo(e))
         /\ ResetUndo(e).text = e.text /\ Len(ResetUndo(e).recs) = ResetUndo(e).at
         /\ Undoable(n, ResetUndo(e).recs, ResetUndo(e).at)
<1>1. e.recs \in Seq(Recs) /\ e.at \in 0 .. Len(e.recs)
  BY DEF Editors, Undoable
<1>2. CASE e.at = Len(e.recs)
  BY <1>2 DEF ResetUndo, SameScreen
<1>3. CASE e.at # Len(e.recs)
  <2>1. PICK r : r = SubSeq(e.recs, 1, e.at)
    OBVIOUS
  <2>2. r \in Seq(Recs) /\ Len(r) = e.at /\ \A i \in 1 .. e.at : r[i] = e.recs[i]
    BY <1>1, <2>1
  <2>3. PICK h \in {"null", "first", "freed"} : h = IF e.at = 0 THEN "freed" ELSE e.head
    BY DEF Editors
  <2> DEFINE f == [e EXCEPT !.recs = r, !.head = h]
  <2>4. ResetUndo(e) = f
    BY <1>3, <2>1, <2>3 DEF ResetUndo
  <2>5. f \in Editors
    BY <2>2 DEF Editors
  <2>6. SameScreen(e, f) /\ f.text = e.text /\ f.recs = r /\ f.at = e.at
    BY DEF Editors, SameScreen
  <2> HIDE DEF f
  <2>7. Undoable(n, r, e.at)
    BY <1>1, <2>2, UndoableIn
  <2> QED BY <2>2, <2>4, <2>5, <2>6, <2>7
<1> QED BY <1>2, <1>3

\* An edit within the text, after the record r was made of it.
EditAfter(d, pos, len, buf, r) ==
  /\ d.text \in Seq(Char) /\ pos \in Nat /\ len \in Nat /\ buf \in Seq(Char)
  /\ pos + len <= Len(d.text) /\ r \in Recs /\ r.pos + Len(r.inserted) <= Len(d.text)

\* x can be undone after it, and gives the text r would have given.
StandsForBoth(d, len, buf, r, x) ==
  /\ x \in Recs
  /\ x.pos + Len(x.inserted) <= Len(d.text) - len + Len(buf)
  /\ (Len(d.text) - len + Len(buf)) - Len(x.inserted) + Len(x.erased)
       = Len(d.text) - Len(r.inserted) + Len(r.erased)

\* A record an edit was merged into stands for both.
LEMMA MergedIs ==
  ASSUME NEW d, NEW pos, NEW len, NEW buf, NEW r, EditAfter(d, pos, len, buf, r),
         NEW x \in Merged(d, pos, len, buf, r)
  PROVE  StandsForBoth(d, len, buf, r, x)
<1>0. /\ d.text \in Seq(Char) /\ pos \in Nat /\ len \in Nat /\ buf \in Seq(Char)
      /\ pos + len <= Len(d.text) /\ r \in Recs /\ r.pos + Len(r.inserted) <= Len(d.text)
  BY DEF EditAfter
<1>1. r.pos \in Nat /\ r.inserted \in Seq(Char) /\ r.erased \in Seq(Char)
  BY <1>0 DEF Recs
<1>2. \A a, b \in Seq(Char) : a \o b \in Seq(Char) /\ Len(a \o b) = Len(a) + Len(b)
  BY ConcatProperties
<1>3. PICK ch : pos + 1 <= Len(d.text) => ch \in Char /\ ch = d.text[pos + 1]
  <2>1. \A i \in 1 .. Len(d.text) : d.text[i] \in Char
    BY <1>0
  <2>2. pos + 1 <= Len(d.text) => pos + 1 \in 1 .. Len(d.text)
    BY <1>0
  <2> QED BY <2>1, <2>2
<1>a. PICK l \in Nat, i \in Nat, j \in Nat, b \in Nat, p \in Nat :
        /\ l = Len(d.text) /\ i = Len(r.inserted) /\ j = Len(r.erased) /\ b = Len(buf)
        /\ p = r.pos
  <2>1. \A s \in Seq(Char) : Len(s) \in Nat
    OBVIOUS
  <2>2. Len(d.text) \in Nat /\ Len(r.inserted) \in Nat /\ Len(r.erased) \in Nat /\ Len(buf) \in Nat
    BY <1>0, <1>1, <2>1, Zenon
  <2> QED BY <1>1, <2>2, Zenon
<1>b. p + i <= l /\ pos + len <= l
  BY <1>0, <1>a
<1>c. \A s : s = <<>> => Len(s) = 0
  OBVIOUS
<1>d. SUFFICES /\ x \in Recs
               /\ x.pos + Len(x.inserted) <= l - len + b
               /\ (l - len + b) - Len(x.inserted) + Len(x.erased) = l - i + j
  BY <1>a DEF StandsForBoth
<1>4. CASE len = 0 /\ Len(buf) = 1 /\ r.erased = <<>> /\ pos = r.pos + Len(r.inserted)
  <2>1. PICK s \in Seq(Char) : s = r.inserted \o buf /\ Len(s) = Len(r.inserted) + Len(buf)
    BY <1>0, <1>1, <1>2
  <2>2. x = [r EXCEPT !.inserted = s]
    BY <1>4, <2>1 DEF Merged
  <2>3. x \in Recs /\ x.inserted = s /\ x.pos = r.pos /\ x.erased = r.erased
    BY <1>0, <2>2 DEF Recs
  <2>4. Len(x.inserted) = i + 1 /\ x.pos = p /\ Len(x.erased) = 0 /\ j = 0 /\ b = 1
    BY <1>4, <1>a, <1>c, <2>1, <2>3
  <2> QED BY <1>0, <1>4, <1>b, <2>3, <2>4
<1>5. CASE len = 1 /\ buf = <<>> /\ r.inserted = <<>> /\ pos = r.pos
  <2>1. ch \in Char /\ ch = d.text[pos + 1]
    BY <1>0, <1>3, <1>5
  <2>2. PICK s \in Seq(Char) : s = Append(r.erased, d.text[pos + 1]) /\ Len(s) = Len(r.erased) + 1
    <3>1. \A e \in Seq(Char) : Append(e, ch) \in Seq(Char) /\ Len(Append(e, ch)) = Len(e) + 1
      BY <2>1
    <3> QED BY <1>1, <2>1, <3>1, Zenon
  <2>3. x = [r EXCEPT !.erased = s]
    BY <1>5, <2>2 DEF Merged
  <2>4. x \in Recs /\ x.erased = s /\ x.pos = r.pos /\ x.inserted = r.inserted
    BY <1>0, <2>3 DEF Recs
  <2>5. /\ Len(x.inserted) = 0 /\ i = 0 /\ b = 0 /\ len = 1
        /\ x.pos = p /\ p = pos /\ Len(x.erased) = j + 1
    BY <1>5, <1>a, <1>c, <2>2, <2>4
  <2> QED BY <1>0, <1>b, <2>4, <2>5
<1>6. CASE len = 1 /\ buf = <<>> /\ r.inserted = <<>> /\ pos # r.pos /\ pos = r.pos - 1
  <2>1. ch \in Char /\ ch = d.text[pos + 1]
    BY <1>0, <1>3, <1>6
  <2>2. PICK c \in Seq(Char) : c = <<d.text[pos + 1]>> /\ Len(c) = 1
    <3>1. <<ch>> \in Seq(Char) /\ Len(<<ch>>) = 1
      BY <2>1
    <3> QED BY <2>1, <3>1, Zenon
  <2>3. PICK s \in Seq(Char) : s = c \o r.erased /\ Len(s) = 1 + Len(r.erased)
    BY <1>1, <1>2, <2>2
  <2>4. x = [r EXCEPT !.pos = pos, !.erased = s]
    BY <1>6, <2>2, <2>3 DEF Merged
  <2>5. x \in Recs /\ x.erased = s /\ x.pos = pos /\ x.inserted = r.inserted
    BY <1>0, <2>4 DEF Recs
  <2>6. /\ Len(x.inserted) = 0 /\ i = 0 /\ b = 0 /\ len = 1
        /\ x.pos = pos /\ p = pos + 1 /\ Len(x.erased) = j + 1
    BY <1>6, <1>a, <1>c, <2>3, <2>5
  <2> QED BY <1>0, <1>b, <2>5, <2>6
<1> QED BY <1>4, <1>5, <1>6 DEF Merged

\* The first half of replace keeps the list one that can be undone.
LEMMA RecordIs ==
  ASSUME NEW e \in Editors, NEW pos \in Nat, NEW len \in Nat, NEW buf \in Seq(Char),
         pos + len <= Len(e.text), Len(e.recs) = e.at,
         Undoable(Len(e.text), e.recs, e.at)
  PROVE  LET f == Record(e, pos, len, buf)
         IN  /\ f \in Editors /\ SameScreen(e, f) /\ f.text = e.text
             /\ Undoable(Len(e.text) - len + Len(buf), f.recs, f.at)
<1>1. PICK n : n = Len(e.recs)
  OBVIOUS
<1>2. /\ e.text \in Seq(Char) /\ e.recs \in Seq(Recs) /\ n \in Nat /\ e.at = n
      /\ Len(e.text) \in Nat
  BY <1>1 DEF Editors
<1> DEFINE merged == IF n = 0 THEN {} ELSE Merged(e, pos, len, buf, e.recs[n])
           l == Len(e.text) - len + Len(buf)
<1>3. l \in Nat
  BY <1>2
<1>4. CASE merged # {}
  <2>1. PICK x : x = CHOOSE r \in merged : TRUE
    OBVIOUS
  <2>2. x \in merged
    <3> HIDE DEF merged
    <3> QED BY <1>4, <2>1
  <2>3. n # 0 /\ x \in Merged(e, pos, len, buf, e.recs[n])
    BY <2>2
  <2>4. PICK m \in Nat : n = m + 1
    BY <1>2, <2>3
  <2>5. PICK r \in Recs : r = e.recs[n]
    BY <1>1, <1>2, <2>3
  <2>6. /\ r.pos + Len(r.inserted) <= Len(e.text)
        /\ Undoable(Len(e.text) - Len(r.inserted) + Len(r.erased), e.recs, m)
    <3>0. Undoable(Len(e.text), e.recs, n)
      BY <1>2
    <3>1. /\ e.recs[n].pos + Len(e.recs[n].inserted) <= Len(e.text)
          /\ Undoable(Len(e.text) - Len(e.recs[n].inserted) + Len(e.recs[n].erased), e.recs, n - 1)
      BY <1>2, <2>3, <3>0, UndoableLess
    <3>2. n - 1 = m
      BY <2>4
    <3> QED BY <2>5, <3>1, <3>2, Zenon
  <2>7. /\ x \in Recs /\ x.pos + Len(x.inserted) <= l
        /\ l - Len(x.inserted) + Len(x.erased) = Len(e.text) - Len(r.inserted) + Len(r.erased)
    <3>1. x \in Merged(e, pos, len, buf, r)
      BY <2>3, <2>5
    <3>2. EditAfter(e, pos, len, buf, r)
      BY <1>2, <2>6 DEF EditAfter
    <3>3. StandsForBoth(e, len, buf, r, x)
      BY <3>1, <3>2, MergedIs
    <3> QED BY <3>3 DEF StandsForBoth
  <2>8. PICK new \in Seq(Recs) : /\ new = [e.recs EXCEPT ![n] = x] /\ Len(new) = n /\ new[n] = x
                                 /\ \A i \in 1 .. m : new[i] = e.recs[i]
    <3>1. n \in 1 .. Len(e.recs) /\ \A i \in 1 .. m : i # n /\ i \in 1 .. Len(e.recs)
      BY <1>1, <2>4
    <3> DEFINE s == [e.recs EXCEPT ![n] = x]
    <3>2. s \in Seq(Recs) /\ Len(s) = n
      <4>1. x \in Recs /\ n = Len(e.recs) /\ e.recs \in Seq(Recs)
        BY <1>1, <1>2, <2>7
      <4> HIDE DEF l, merged
      <4>2. \A q \in Seq(Recs) : \A i \in 1 .. Len(q) : \A y \in Recs :
              [q EXCEPT ![i] = y] \in Seq(Recs) /\ Len([q EXCEPT ![i] = y]) = Len(q)
        BY ExceptSeq
      <4> QED BY <3>1, <4>1, <4>2, Zenon
    <3>3. s[n] = x /\ \A i \in 1 .. m : s[i] = e.recs[i]
      BY <1>2, <3>1
    <3> QED BY <3>2, <3>3
  <2>9. Undoable(l, new, n)
    <3>1. PICK k \in Nat : /\ k = l - Len(x.inserted) + Len(x.erased)
                           /\ Undoable(k, e.recs, m)
      <4>1. r.inserted \in Seq(Char) /\ r.erased \in Seq(Char) /\ r.pos \in Nat
        BY DEF Recs
      <4>2. Len(e.text) - Len(r.inserted) + Len(r.erased) \in Nat
        <5>1. PICK i \in Nat, j \in Nat, p \in Nat : i = Len(r.inserted) /\ j = Len(r.erased) /\ p = r.pos
          BY <4>1
        <5>2. p + i <= Len(e.text)
          BY <2>6, <5>1, Zenon
        <5>3. Len(e.text) - i + j \in Nat
          BY <1>2, <5>2
        <5> QED BY <5>1, <5>3, Zenon
      <4> HIDE DEF l
      <4> QED BY <2>6, <2>7, <4>2
    <3>2. new[m + 1] = x /\ Len(new) = m + 1
      BY <2>4, <2>8
    <3> HIDE DEF l
    <3>3. /\ new[m + 1].pos + Len(new[m + 1].inserted) <= l
          /\ k = l - Len(new[m + 1].inserted) + Len(new[m + 1].erased)
      BY <2>7, <3>1, <3>2, Zenon
    <3>4. Undoable(l, new, m + 1)
      BY <1>2, <1>3, <2>8, <3>1, <3>2, <3>3, UndoableMore, Zenon
    <3> QED BY <2>4, <3>4, Zenon
  <2> DEFINE f == [e EXCEPT !.recs = new]
  <2>10. Record(e, pos, len, buf) = f
    BY <1>1, <1>4, <2>1, <2>8 DEF Record
  <2>11. f \in Editors /\ SameScreen(e, f) /\ f.text = e.text /\ f.recs = new /\ f.at = n
    BY <1>2 DEF Editors, SameScreen
  <2> HIDE DEF f, merged, l
  <2> QED BY <2>9, <2>10, <2>11 DEF l
<1>5. CASE merged = {}
  <2>1. PICK s \in Seq(Char) : s = SubSeq(e.text, pos + 1, pos + len) /\ Len(s) = len
    <3>1. \A t \in Seq(Char) : pos + len <= Len(t) =>
             /\ SubSeq(t, pos + 1, pos + len) \in Seq(Char)
             /\ Len(SubSeq(t, pos + 1, pos + len)) = len
      <4> HIDE DEF l, merged
      <4> QED OBVIOUS
    <3> QED BY <1>2, <3>1, Zenon
  <2>2. PICK x \in Recs : /\ x = [pos |-> pos, inserted |-> buf, erased |-> s]
                          /\ x.pos = pos /\ x.inserted = buf /\ x.erased = s
    <3> DEFINE x == [pos |-> pos, inserted |-> buf, erased |-> s]
    <3>1. x \in Recs
      BY DEF Recs
    <3>2. x.pos = pos /\ x.inserted = buf /\ x.erased = s
      OBVIOUS
    <3> QED BY <3>1, <3>2
  <2>3. PICK new \in Seq(Recs) : /\ new = Append(e.recs, x) /\ Len(new) = n + 1 /\ new[n + 1] = x
                                 /\ \A i \in 1 .. n : new[i] = e.recs[i]
    <3>1. \A q \in Seq(Recs) : /\ Append(q, x) \in Seq(Recs) /\ Len(Append(q, x)) = Len(q) + 1
                               /\ Append(q, x)[Len(q) + 1] = x
                               /\ \A i \in 1 .. Len(q) : Append(q, x)[i] = q[i]
      BY AppendProperties
    <3>2. PICK q \in Seq(Recs) : q = e.recs /\ Len(q) = n
      BY <1>1, <1>2
    <3>3. /\ Append(q, x) \in Seq(Recs) /\ Len(Append(q, x)) = n + 1
          /\ Append(q, x)[n + 1] = x
          /\ \A i \in 1 .. n : Append(q, x)[i] = q[i]
      BY <3>1, <3>2, Zenon
    <3> HIDE DEF merged, l
    <3> QED BY <3>2, <3>3, Zenon
  <2>4. PICK h \in {"null", "first", "freed"} : h = IF e.head = "null" THEN "first" ELSE e.head
    BY DEF Editors
  <2>5. Undoable(l, new, n + 1)
    <3>1. PICK k \in Nat : k = Len(e.text) /\ k = l - Len(buf) + len
      BY <1>2
    <3>2. Undoable(k, e.recs, n)
      BY <1>2, <3>1
    <3>3. pos + Len(buf) <= l
      BY <1>2
    <3> HIDE DEF l
    <3>4. new[n + 1].pos + Len(new[n + 1].inserted) <= l
      BY <2>2, <2>3, <3>3, Zenon
    <3>5. k = l - Len(new[n + 1].inserted) + Len(new[n + 1].erased)
      BY <2>1, <2>2, <2>3, <3>1, Zenon
    <3> QED BY <1>2, <1>3, <2>3, <3>1, <3>2, <3>4, <3>5, UndoableMore, Zenon
  <2> DEFINE f == [e EXCEPT !.recs = new, !.at = n + 1, !.head = h]
  <2>6. Record(e, pos, len, buf) = f
    BY <1>1, <1>5, <2>1, <2>2, <2>3, <2>4 DEF Record
  <2>7. f \in Editors
    <3>1. n + 1 \in Nat
      BY <1>2
    <3> QED BY <3>1 DEF Editors
  <2>8. SameScreen(e, f) /\ f.text = e.text /\ f.recs = new /\ f.at = n + 1
    BY DEF Editors, SameScreen
  <2> HIDE DEF f, merged, l
  <2> QED BY <2>5, <2>6, <2>7, <2>8 DEF l
<1> QED BY <1>4, <1>5

\* replace within the text: the part replaced, the cursor and the screen left
\* alone, and a list that can be undone from the new text.
Replaced(e, f, pos, len, buf) ==
  /\ f \in Editors /\ SameScreen(e, f)
  /\ SpliceIs(f.text, e.text, pos, len, buf)
  /\ Recorded(f.text, f.recs, f.at)

\* That is what replace does, whether it records the edit or not.
LEMMA ReplaceEdIs ==
  ASSUME NEW e \in Editors, Recorded(e.text, e.recs, e.at),
         NEW pos \in Nat, NEW len \in Nat, NEW buf \in Seq(Char), pos + len <= Len(e.text)
  PROVE  Replaced(e, ReplaceEd(e, pos, len, buf), pos, len, buf)
<1>1. PICK s : s = Texts!Splice(e.text, pos, len, buf)
  OBVIOUS
<1>2. /\ e.text \in Seq(Char) /\ SpliceIs(s, e.text, pos, len, buf) /\ s \in Seq(Char)
      /\ Len(s) = Len(e.text) - len + Len(buf) /\ Len(s) \in Nat /\ Len(e.text) \in Nat
  <2>1. e.text \in Seq(Char)
    BY DEF Editors
  <2>2. SpliceIs(s, e.text, pos, len, buf)
    BY <1>1, <2>1, SpliceAt
  <2> QED BY <2>1, <2>2 DEF SpliceIs
<1>3. ~ (pos < 0 \/ pos + len > Len(e.text))
  BY <1>2
<1>4. ASSUME NEW d \in Editors, SameScreen(e, d), d.text = e.text,
             Recorded(s, d.recs, d.at)
      PROVE  Replaced(e, ReplaceText(d, pos, len, buf), pos, len, buf)
  <2> DEFINE f == [d EXCEPT !.text = s, !.dirty = TRUE]
  <2>1. ReplaceText(d, pos, len, buf) = f
    BY <1>1, <1>4 DEF ReplaceText
  <2>2. f \in Editors
    BY <1>2 DEF Editors
  <2>3. SameScreen(e, f) /\ f.text = s /\ f.recs = d.recs /\ f.at = d.at
    BY <1>4 DEF Editors, SameScreen
  <2> HIDE DEF f
  <2> QED BY <1>2, <1>4, <2>1, <2>2, <2>3 DEF Replaced
<1>5. CASE session.recording
  <2>1. PICK d : d = ResetUndo(e)
    OBVIOUS
  <2>2. /\ d \in Editors /\ SameScreen(e, d) /\ d.text = e.text /\ Len(d.recs) = d.at
        /\ Undoable(Len(e.text), d.recs, d.at)
    <3>1. Undoable(Len(e.text), e.recs, e.at)
      BY DEF Recorded
    <3> QED BY <1>2, <2>1, <3>1, ResetUndoIs
  <2>3. PICK g : g = Record(d, pos, len, buf)
    OBVIOUS
  <2>4. /\ g \in Editors /\ SameScreen(d, g) /\ g.text = e.text
        /\ Undoable(Len(s), g.recs, g.at)
    <3>1. pos + len <= Len(d.text) /\ Undoable(Len(d.text), d.recs, d.at)
      BY <2>2
    <3>2. /\ g \in Editors /\ SameScreen(d, g) /\ g.text = d.text
          /\ Undoable(Len(d.text) - len + Len(buf), g.recs, g.at)
      BY <2>2, <2>3, <3>1, RecordIs
    <3> QED BY <1>2, <2>2, <3>2
  <2>5. SameScreen(e, g) /\ Recorded(s, g.recs, g.at)
    BY <1>5, <2>2, <2>4 DEF SameScreen, Recorded
  <2>6. Replaced(e, ReplaceText(g, pos, len, buf), pos, len, buf)
    BY <1>4, <2>4, <2>5
  <2>7. ReplaceEd(e, pos, len, buf) = ReplaceText(g, pos, len, buf)
    BY <1>3, <1>5, <2>1, <2>3 DEF ReplaceEd, ReplaceIn
  <2> QED BY <2>6, <2>7
<1>6. CASE ~ session.recording
  <2>1. ReplaceEd(e, pos, len, buf) = ReplaceText(e, pos, len, buf)
    BY <1>3, <1>6 DEF ReplaceEd
  <2>2. Recorded(s, e.recs, e.at)
    <3>1. e.at = 0 /\ e.recs \in Seq(Recs)
      BY <1>6 DEF Recorded, Editors
    <3>2. Undoable(Len(s), e.recs, e.at)
      BY <1>2, <3>1, UndoableNone
    <3> QED BY <3>1, <3>2 DEF Recorded
  <2>3. SameScreen(e, e)
    BY DEF SameScreen
  <2> QED BY <1>4, <2>1, <2>2, <2>3
<1> QED BY <1>5, <1>6

\* Behind the start of the cursor's line, the screen stays right; behind the
\* cursor, it does too.
LEMMA ReplacedView ==
  ASSUME NEW e, Viewed(e), NEW f, NEW pos \in Nat, NEW len, NEW buf,
         Replaced(e, f, pos, len, buf), e.linepos <= pos
  PROVE  /\ Viewed(f)
         /\ Good(e) /\ Pos(e) <= pos => Good(f)
<1>1. /\ f \in Editors /\ SameScreen(e, f) /\ SpliceIs(f.text, e.text, pos, len, buf)
      /\ Recorded(f.text, f.recs, f.at) /\ Agree(e.text, f.text, pos)
  BY DEF Replaced, SpliceIs
<1>2. Viewed(f)
  <2>1. f.linepos = e.linepos /\ f.line = e.line /\ f.toppos = e.toppos /\ f.topline = e.topline
    BY <1>1 DEF SameScreen
  <2> QED BY <1>1, <2>1, EditedView
<1>3. ASSUME Good(e), Pos(e) <= pos PROVE Good(f)
  <2>1. /\ e.text \in Seq(Char) /\ f.text \in Seq(Char) /\ e.linepos \in Nat
        /\ Pos(e) = e.linepos + e.col /\ CursorAt(e.text, e.linepos, e.col)
    BY <1>1, <1>3, PosIs DEF SpliceIs, Good
  <2>2. CursorAt(f.text, e.linepos, e.col)
    BY <1>1, <1>3, <2>1, EditedCursor
  <2> QED BY <1>1, <1>2, <2>2 DEF Good, SameScreen
<1> QED BY <1>2, <1>3

\* Outside the text there is nothing to look at afterwards.
LEMMA UndefinedGood ==
  ASSUME NEW e, Good(e)
  PROVE  Good(Undefined(e)) /\ Undefined(e).undefined /\ Undefined(e).text = e.text
         /\ Undefined(e).linepos = e.linepos /\ Undefined(e).col = e.col
         /\ Undefined(e).anchor = e.anchor
<1> DEFINE f == Undefined(e)
<1>1. e \in Editors /\ Viewed(e) /\ CursorAt(e.text, e.linepos, e.col)
  BY DEF Good, Viewed, Lined
<1>2. /\ f \in Editors /\ f.text = e.text /\ f.recs = e.recs /\ f.at = e.at
      /\ f.linepos = e.linepos /\ f.line = e.line /\ f.col = e.col
      /\ f.toppos = e.toppos /\ f.topline = e.topline /\ f.anchor = e.anchor /\ f.undefined = TRUE
  BY <1>1 DEF Editors, Undefined
<1> HIDE DEF f
<1>3. Viewed(f) /\ CursorAt(f.text, f.linepos, f.col)
  BY <1>1, <1>2 DEF Viewed, Lined
<1> QED BY <1>2, <1>3 DEF Good, f

-----------------------------------------------------------------------------
(* moveto.                                                                 *)

\* What steps of a function give.
LEMMA StepsAre ==
  ASSUME NEW n \in Nat, NEW V, NEW v \in V, NEW G \in [V -> V]
  PROVE  \E w \in [0 .. n -> V] : w = [k \in 0 .. n |-> IF k = 0 THEN v ELSE G[w[k - 1]]]
<1>1. PICK w : Steps(w, n, V, v, G)
  BY StepsExist
<1>2. w \in [0 .. n -> V] /\ w[0] = v /\ \A k \in 0 .. n - 1 : w[k + 1] = G[w[k]]
  BY <1>1 DEF Steps
<1>3. \A k \in 0 .. n : w[k] = IF k = 0 THEN v ELSE G[w[k - 1]]
  <2> TAKE k \in 0 .. n
  <2>1. CASE k = 0
    BY <1>2, <2>1
  <2>2. CASE k # 0
    <3>1. k - 1 \in 0 .. n - 1 /\ (k - 1) + 1 = k
      BY <2>2
    <3> QED BY <1>2, <2>2, <3>1
  <2> QED BY <2>1, <2>2
<1>4. w = [k \in 0 .. n |-> IF k = 0 THEN v ELSE G[w[k - 1]]]
  BY <1>2, <1>3
<1> QED BY <1>2, <1>4

\* The line of pos: it is below none that begins behind pos.
Final(e, pos) ==
  e.linepos <= pos /\ (NextLine(e.text, e.linepos) = -1 \/ pos < NextLine(e.text, e.linepos))

\* What the commands that move by moveto keep.
SameRest(e, f) == SameText(e, f) /\ f.anchor = e.anchor /\ f.lastcol = e.lastcol

\* The cursor put elsewhere in its line.
LEMMA ColumnGood ==
  ASSUME NEW e, Viewed(e), NEW col \in Nat, CursorAt(e.text, e.linepos, col)
  PROVE  LET f == [e EXCEPT !.col = col]
         IN  Good(f) /\ SameRest(e, f) /\ f.linepos = e.linepos /\ f.col = col
             /\ f.toppos = e.toppos /\ f.topline = e.topline
<1> DEFINE f == [e EXCEPT !.col = col]
<1>1. e \in Editors
  BY DEF Viewed, Lined
<1>2. f \in Editors
  <2>1. col \in Int
    OBVIOUS
  <2> QED BY <1>1, <2>1 DEF Editors
<1>3. /\ SameText(e, f) /\ SameRest(e, f) /\ f.linepos = e.linepos /\ f.line = e.line /\ f.col = col
      /\ f.toppos = e.toppos /\ f.topline = e.topline
  BY <1>1 DEF Editors, SameText, SameRest
<1> HIDE DEF f
<1>4. Viewed(f)
  BY <1>2, <1>3, SameView
<1>5. CursorAt(f.text, f.linepos, f.col)
  BY <1>3 DEF SameText
<1> QED BY <1>3, <1>4, <1>5 DEF Good, f

\* The loop of moveto, case by case.
LEMMA MoveStepCases ==
  ASSUME NEW e, Good(e), NEW pos \in Nat, NEW next, next = NextLine(e.text, e.linepos)
  PROVE  LET above == [e EXCEPT !.col = 0, !.linepos = PrevLine(e.text, e.linepos), !.line = e.line - 1]
         IN  /\ Blocked(e, pos) => MoveStep(e, pos) = e
             /\ e.linepos <= pos /\ pos <= Pos(e) =>
                  MoveStep(e, pos) = [e EXCEPT !.col = pos - e.linepos]
             /\ pos < e.linepos =>
                  MoveStep(e, pos) =
                    IF above.topline > above.line
                    THEN [above EXCEPT !.toppos = above.linepos, !.topline = above.topline - 1]
                    ELSE above
             /\ pos > Pos(e) /\ next # -1 /\ pos < next =>
                  MoveStep(e, pos) = [e EXCEPT !.col = pos - e.linepos]
             /\ pos > Pos(e) /\ next # -1 /\ pos >= next =>
                  MoveStep(e, pos) =
                    ScrollDown([e EXCEPT !.col = 0, !.linepos = next, !.line = e.line + 1])
<1>1. e \in Editors /\ e.linepos \in Nat /\ Pos(e) \in Nat /\ e.linepos <= Pos(e)
  BY PosIs
<1>2. IsLine(e.text, e.linepos) /\ e.text \in Seq(Char)
  BY <1>1, LineNumbers DEF Good, Viewed
<1>3. next \in Int
  <2>1. Len(e.text) \in Nat
    BY <1>2
  <2> QED BY <1>1, <1>2, <2>1, NextIs
<1>4. PICK p \in Nat : p = Pos(e) /\ e.linepos <= p
  BY <1>1
<1>5. ASSUME e.linepos <= pos, pos <= p PROVE MoveStep(e, pos) = [e EXCEPT !.col = pos - e.linepos]
  <2>1. ~ Blocked(e, pos)
    BY <1>4, <1>5 DEF Blocked
  <2> QED BY <1>1, <1>4, <1>5, <2>1 DEF MoveStep
<1>6. ASSUME pos < e.linepos
      PROVE  LET above == [e EXCEPT !.col = 0, !.linepos = PrevLine(e.text, e.linepos), !.line = e.line - 1]
             IN  MoveStep(e, pos) =
                    IF above.topline > above.line
                    THEN [above EXCEPT !.toppos = above.linepos, !.topline = above.topline - 1]
                    ELSE above
  <2>1. ~ (pos >= e.linepos /\ pos <= Pos(e)) /\ ~ pos > Pos(e)
    BY <1>1, <1>4, <1>6
  <2>2. ~ Blocked(e, pos)
    BY <2>1 DEF Blocked
  <2> QED BY <1>6, <2>1, <2>2 DEF MoveStep
<1>7. ASSUME Blocked(e, pos) PROVE MoveStep(e, pos) = e
  <2>1. pos > Pos(e) /\ NextLine(e.text, e.linepos) = -1
    BY <1>7 DEF Blocked
  <2>2. ~ (pos >= e.linepos /\ pos <= Pos(e)) /\ ~ pos < e.linepos
    BY <1>1, <1>4, <2>1
  <2> QED BY <1>7, <2>1, <2>2 DEF MoveStep
<1>8. ASSUME pos > p, next # -1, pos < next
      PROVE  MoveStep(e, pos) = [e EXCEPT !.col = pos - e.linepos]
  <2>1. ~ (pos >= e.linepos /\ pos <= Pos(e)) /\ ~ pos < e.linepos /\ pos > Pos(e)
    BY <1>1, <1>4, <1>8
  <2>2. ~ Blocked(e, pos)
    BY <1>8 DEF Blocked
  <2> QED BY <1>8, <2>1, <2>2 DEF MoveStep
<1>9. ASSUME pos > p, next # -1, pos >= next
      PROVE  MoveStep(e, pos) = ScrollDown([e EXCEPT !.col = 0, !.linepos = next, !.line = e.line + 1])
  <2>1. ~ (pos >= e.linepos /\ pos <= Pos(e)) /\ ~ pos < e.linepos /\ ~ pos < next
    BY <1>1, <1>3, <1>4, <1>9
  <2>2. ~ Blocked(e, pos)
    BY <1>9 DEF Blocked
  <2> QED BY <1>9, <2>1, <2>2 DEF MoveStep
<1> QED BY <1>4, <1>5, <1>6, <1>7, <1>8, <1>9

\* From a line below that of pos, it goes to the line above.
LEMMA MoveStepUp ==
  ASSUME NEW e, Good(e), NEW pos \in Nat, pos < e.linepos
  PROVE  LET f == MoveStep(e, pos)
         IN  /\ Good(f) /\ SameRest(e, f) /\ f.linepos < e.linepos
             /\ f.linepos > pos \/ Final(f, pos)
<1>1. /\ Viewed(e) /\ Lined(e) /\ e \in Editors /\ e.text \in Seq(Char) /\ e.linepos \in Nat
      /\ e.linepos > 0 /\ e.line \in Nat /\ e.topline \in Int
  <2>1. Viewed(e) /\ Lined(e) /\ e \in Editors
    BY DEF Good, Viewed, Lined
  <2>2. e.text \in Seq(Char) /\ e.linepos \in 0 .. Len(e.text) /\ e.line \in Nat
    BY <2>1, LineNumbers
  <2>3. e.topline \in Int
    BY <2>1 DEF Editors
  <2> QED BY <2>1, <2>2, <2>3
<1>2. PICK p \in Int : p = PrevLine(e.text, e.linepos) /\ InLine(e.text, p, e.linepos - 1) /\ p >= 0
                       /\ p <= e.linepos - 1 /\ IsLine(e.text, p)
  <2>1. InLine(e.text, PrevLine(e.text, e.linepos), e.linepos - 1)
    <3>1. IsLine(e.text, e.linepos)
      BY <1>1, LineNumbers
    <3> QED BY <1>1, <3>1, PrevIs
  <2> QED BY <2>1 DEF InLine, IsLine
<1> DEFINE g == [e EXCEPT !.linepos = p, !.line = e.line - 1]
           a == [e EXCEPT !.col = 0, !.linepos = p, !.line = e.line - 1]
           f == IF a.topline > a.line
                THEN [a EXCEPT !.toppos = a.linepos, !.topline = a.topline - 1] ELSE a
<1>3. MoveStep(e, pos) = f
  BY <1>2, MoveStepCases
<1>4. Lined(g) /\ g = LineAbove(e)
  <2>1. g = LineAbove(e)
    BY <1>2 DEF LineAbove
  <2> QED BY <1>1, <2>1, LineAboveLined
<1>5. /\ a \in Editors /\ a.text = e.text /\ a.recs = e.recs /\ a.at = e.at /\ a.undefined = e.undefined
      /\ a.linepos = p /\ a.line = e.line - 1 /\ a.col = 0 /\ a.anchor = e.anchor
      /\ a.lastcol = e.lastcol /\ a.toppos = e.toppos /\ a.topline = e.topline
      /\ g.text = e.text /\ g.recs = e.recs /\ g.at = e.at /\ g.linepos = p /\ g.line = e.line - 1
  <2>1. e.line - 1 \in Int /\ p \in Int /\ 0 \in Int /\ e \in Editors
    BY <1>1
  <2>2. a \in Editors
    BY <2>1 DEF Editors
  <2> QED BY <2>1, <2>2 DEF Editors
<1> HIDE DEF a, g
<1>6. LineAt(e.text, p, e.line - 1) /\ Recorded(e.text, e.recs, e.at)
  BY <1>4, <1>5 DEF Lined
<1>7. /\ TopAt(e.text, e.toppos, e.topline) /\ e.topline <= e.line /\ e.line < e.topline + Lines
      /\ Lines \in Nat /\ Lines > 0
  BY <1>1, EditorAssumption DEF EditorAssumption, Viewed
<1>8. /\ f \in Editors /\ f.text = e.text /\ f.recs = e.recs /\ f.at = e.at /\ f.undefined = e.undefined
      /\ f.linepos = p /\ f.line = e.line - 1 /\ f.col = 0 /\ f.anchor = e.anchor
      /\ f.lastcol = e.lastcol
      /\ e.topline > e.line - 1 => f.toppos = p /\ f.topline = e.topline - 1
      /\ ~ e.topline > e.line - 1 => f.toppos = e.toppos /\ f.topline = e.topline
  <2>1. CASE a.topline > a.line
    <3>1. a.topline - 1 \in Int /\ a.linepos \in Int
      BY <1>1, <1>5
    <3> DEFINE h == [a EXCEPT !.toppos = a.linepos, !.topline = a.topline - 1]
    <3>2. /\ h \in Editors /\ h.text = a.text /\ h.recs = a.recs /\ h.at = a.at
          /\ h.undefined = a.undefined
          /\ h.linepos = a.linepos /\ h.line = a.line /\ h.col = a.col /\ h.anchor = a.anchor
          /\ h.lastcol = a.lastcol /\ h.toppos = a.linepos /\ h.topline = a.topline - 1
      BY <1>5, <3>1 DEF Editors
    <3>3. f = h
      BY <2>1
    <3> HIDE DEF h, f
    <3> QED BY <1>5, <2>1, <3>2, <3>3
  <2>2. CASE ~ a.topline > a.line
    <3>1. f = a
      BY <2>2
    <3> HIDE DEF f
    <3> QED BY <1>5, <2>2, <3>1
  <2> QED BY <2>1, <2>2
<1> HIDE DEF f
<1>9. TopAt(f.text, f.toppos, f.topline) /\ f.topline <= f.line /\ f.line < f.topline + Lines
  <2>1. CASE e.topline > e.line - 1
    <3>1. e.topline = e.line
      BY <1>1, <1>7, <2>1
    <3>2. TopAt(e.text, p, e.line - 1)
      BY <1>6 DEF LineAt, TopAt
    <3> QED BY <1>1, <1>7, <1>8, <2>1, <3>1, <3>2
  <2>2. CASE ~ e.topline > e.line - 1
    BY <1>1, <1>7, <1>8, <2>2
  <2> QED BY <2>1, <2>2
<1>10. Lined(f)
  BY <1>6, <1>8 DEF Lined
<1>11. CursorAt(f.text, f.linepos, f.col)
  <2>1. p + 0 <= Len(e.text) /\ \A n \in p .. p + 0 - 1 : FALSE
    BY <1>2 DEF IsLine
  <2> QED BY <1>8, <2>1 DEF CursorAt
<1>12. Good(f) /\ SameRest(e, f)
  BY <1>8, <1>9, <1>10, <1>11 DEF Good, Viewed, SameRest, SameText
<1>13. f.linepos > pos \/ Final(f, pos)
  <2> SUFFICES ASSUME p <= pos, NextLine(e.text, p) # -1 PROVE pos < NextLine(e.text, p)
    BY <1>2, <1>8 DEF Final
  <2>1. PICK s \in p .. Len(e.text) :
          /\ s = StopFrom(e.text, p)
          /\ s < Len(e.text) => Stops(e.text, s)
    <3>1. p \in 0 .. Len(e.text)
      BY <1>2 DEF IsLine
    <3> QED BY <1>1, <3>1, StopIs
  <2>2. /\ NextLine(e.text, p) = s + 1 /\ s + 1 <= Len(e.text) /\ IsLine(e.text, s + 1)
    BY <1>1, <1>2, <2>1, NextIs
  <2>3. e.text[s + 1] = NL
    BY <1>2, <2>1, <2>2 DEF IsLine
  <2>4. s \notin p .. (e.linepos - 1) - 1
    BY <1>2, <2>3 DEF InLine
  <2>5. s >= e.linepos - 1
    BY <1>1, <1>2, <2>1, <2>4
  <2> QED BY <1>1, <2>2, <2>5
<1>14. f.linepos < e.linepos
  BY <1>1, <1>2, <1>8
<1> QED BY <1>3, <1>12, <1>13, <1>14

\* From a line above it, to the next.
LEMMA MoveStepDown ==
  ASSUME NEW e, Good(e), NEW pos \in Nat, e.linepos <= pos, ~ Final(e, pos)
  PROVE  LET f == MoveStep(e, pos)
         IN  /\ Good(f) /\ SameRest(e, f) /\ f.linepos > e.linepos /\ f.linepos <= pos
             /\ f.col = 0
<1>1. /\ Viewed(e) /\ e \in Editors /\ e.text \in Seq(Char) /\ e.linepos \in Nat /\ e.col \in Nat
      /\ Pos(e) = e.linepos + e.col /\ IsLine(e.text, e.linepos) /\ CursorAt(e.text, e.linepos, e.col)
      /\ e.line \in Nat
  <2>1. Lined(e)
    BY DEF Good, Viewed
  <2> QED BY <2>1, PosIs, LineNumbers DEF Good
<1>2. PICK n \in Int : /\ n = NextLine(e.text, e.linepos) /\ n # -1 /\ pos >= n
                       /\ n \in e.linepos + 1 .. Len(e.text)
  <2>1. NextLine(e.text, e.linepos) # -1
    BY DEF Final
  <2>2. NextLine(e.text, e.linepos) \in e.linepos + 1 .. Len(e.text)
    BY <1>1, <2>1, NextIs
  <2>3. ~ pos < NextLine(e.text, e.linepos)
    BY DEF Final
  <2> QED BY <1>1, <2>1, <2>2, <2>3
<1>3. Pos(e) < n
  <2>1. e.col <= LineLength(e.text, e.linepos)
    BY <1>1, CursorInLength
  <2>2. PICK l \in Nat : l = LineLength(e.text, e.linepos) /\ e.linepos + l = StopFrom(e.text, e.linepos)
    BY <1>1, LengthIs
  <2>3. n = StopFrom(e.text, e.linepos) + 1
    BY <1>1, <1>2, NextIs
  <2> QED BY <1>1, <1>2, <2>1, <2>2, <2>3
<1> DEFINE g == [e EXCEPT !.linepos = n, !.line = e.line + 1]
           h == [e EXCEPT !.col = 0, !.linepos = n, !.line = e.line + 1]
<1>4. MoveStep(e, pos) = ScrollDown(h)
  <2>1. pos > Pos(e) /\ n # -1 /\ pos >= n
    BY <1>1, <1>2, <1>3
  <2> QED BY <1>2, <2>1, MoveStepCases
<1>5. MaybeBelow(g)
  BY <1>1, <1>2, LineBelowView
<1>6. /\ h \in Editors /\ SameText(e, h) /\ h.linepos = n /\ h.line = e.line + 1 /\ h.col = 0
      /\ h.toppos = e.toppos /\ h.topline = e.topline /\ h.anchor = e.anchor /\ h.lastcol = e.lastcol
      /\ SameText(e, g) /\ g.linepos = n /\ g.line = e.line + 1
      /\ g.toppos = e.toppos /\ g.topline = e.topline
  <2>1. e.line + 1 \in Int /\ n \in Int /\ 0 \in Int /\ e \in Editors
    BY <1>1
  <2>2. h \in Editors
    BY <2>1 DEF Editors
  <2> QED BY <2>1, <2>2 DEF Editors, SameText
<1> HIDE DEF g, h
<1>7. MaybeBelow(h)
  BY <1>5, <1>6 DEF MaybeBelow, Lined, SameText
<1>8. /\ Viewed(ScrollDown(h)) /\ SameText(h, ScrollDown(h))
      /\ ScrollDown(h).linepos = h.linepos /\ ScrollDown(h).col = h.col
      /\ ScrollDown(h).anchor = h.anchor /\ ScrollDown(h).line = h.line
      /\ ScrollDown(h).lastcol = h.lastcol
  BY <1>7, ScrollDownView
<1>9. CursorAt(e.text, n, 0)
  <2>1. n + 0 <= Len(e.text) /\ \A m \in n .. n + 0 - 1 : FALSE
    BY <1>2
  <2> QED BY <2>1 DEF CursorAt
<1>10. /\ Good(ScrollDown(h)) /\ SameRest(e, ScrollDown(h)) /\ ScrollDown(h).linepos = n
       /\ ScrollDown(h).col = 0
  BY <1>6, <1>8, <1>9 DEF Good, SameRest, SameText
<1> QED BY <1>1, <1>2, <1>4, <1>10

\* In the line of pos, to pos, unless it is blocked.
LEMMA MoveStepFinal ==
  ASSUME NEW e, Good(e), NEW pos \in Nat, Final(e, pos)
  PROVE  LET f == MoveStep(e, pos)
         IN  /\ Good(f) /\ SameRest(e, f) /\ f.linepos = e.linepos /\ Final(f, pos)
             /\ ~ Blocked(e, pos) => Pos(f) = pos
             /\ Blocked(e, pos) => f = e
<1>1. /\ Viewed(e) /\ e \in Editors /\ e.text \in Seq(Char) /\ e.linepos \in Nat /\ e.col \in Nat
      /\ Pos(e) = e.linepos + e.col /\ IsLine(e.text, e.linepos) /\ CursorAt(e.text, e.linepos, e.col)
      /\ e.linepos <= pos
  <2>1. Lined(e)
    BY DEF Good, Viewed
  <2> QED BY <2>1, PosIs, LineNumbers DEF Good, Final
<1>2. PICK p \in Nat : p = Pos(e) /\ p = e.linepos + e.col
  BY <1>1
<1>3. ASSUME NEW col \in Nat, CursorAt(e.text, e.linepos, col), NEW f, f = [e EXCEPT !.col = col]
      PROVE  Good(f) /\ SameRest(e, f) /\ f.linepos = e.linepos /\ Final(f, pos)
             /\ Pos(f) = e.linepos + col
  <2>1. Good(f) /\ SameRest(e, f) /\ f.linepos = e.linepos /\ f.col = col
    BY <1>1, <1>3, ColumnGood
  <2> QED BY <2>1 DEF Final, Pos, SameRest, SameText
<1>4. CASE pos <= p
  <2>1. pos - e.linepos \in Nat /\ CursorAt(e.text, e.linepos, pos - e.linepos)
    BY <1>1, <1>2, <1>4 DEF CursorAt
  <2>2. MoveStep(e, pos) = [e EXCEPT !.col = pos - e.linepos]
    BY <1>1, <1>2, <1>4, MoveStepCases
  <2>3. e.linepos + (pos - e.linepos) = pos
    BY <1>1
  <2>4. PICK f : f = MoveStep(e, pos)
    OBVIOUS
  <2>5. Good(f) /\ SameRest(e, f) /\ f.linepos = e.linepos /\ Final(f, pos) /\ Pos(f) = pos
    BY <1>3, <2>1, <2>2, <2>3, <2>4
  <2>6. ~ Blocked(e, pos)
    BY <1>2, <1>4 DEF Blocked
  <2> QED BY <2>4, <2>5, <2>6
<1>5. CASE pos > p /\ NextLine(e.text, e.linepos) # -1
  <2>0. PICK n \in Int : n = NextLine(e.text, e.linepos) /\ n = StopFrom(e.text, e.linepos) + 1 /\ pos < n
    <3>1. NextLine(e.text, e.linepos) \in e.linepos + 1 .. Len(e.text)
      BY <1>1, <1>5, NextIs
    <3>2. NextLine(e.text, e.linepos) = StopFrom(e.text, e.linepos) + 1
      BY <1>1, <1>5, NextIs
    <3> QED BY <1>5, <3>1, <3>2 DEF Final
  <2>1. pos - e.linepos \in Nat /\ CursorAt(e.text, e.linepos, pos - e.linepos)
    <3>1. PICK l \in Nat : l = LineLength(e.text, e.linepos) /\ e.linepos + l = StopFrom(e.text, e.linepos)
      BY <1>1, LengthIs
    <3>2. pos - e.linepos \in Nat /\ pos - e.linepos <= l
      BY <1>1, <2>0, <3>1
    <3> QED BY <1>1, <3>1, <3>2, CursorInLength
  <2>2. MoveStep(e, pos) = [e EXCEPT !.col = pos - e.linepos]
    <3>1. pos > Pos(e) /\ n # -1 /\ pos < n
      BY <1>2, <1>5, <2>0
    <3> QED BY <2>0, <3>1, MoveStepCases
  <2>3. e.linepos + (pos - e.linepos) = pos
    BY <1>1
  <2>4. ~ Blocked(e, pos)
    BY <1>5 DEF Blocked
  <2> QED BY <1>1, <1>3, <2>1, <2>2, <2>3, <2>4
<1>6. CASE pos > p /\ NextLine(e.text, e.linepos) = -1
  <2>1. Blocked(e, pos)
    BY <1>2, <1>6 DEF Blocked
  <2>2. MoveStep(e, pos) = e
    BY <2>1, MoveStepCases
  <2> QED BY <1>1, <2>1, <2>2 DEF SameRest, SameText
<1> QED BY <1>4, <1>5, <1>6

\* Nothing is in the way: pos is not ahead, or it is in a line that is not the last.
Unblocked(e, pos) == Pos(e) >= pos \/ (Final(e, pos) /\ NextLine(e.text, e.linepos) # -1)

\* It stays so, and in the line of pos the next step is to pos.
LEMMA MoveStepUnblocked ==
  ASSUME NEW e, Good(e), NEW pos \in Nat, Unblocked(e, pos)
  PROVE  LET f == MoveStep(e, pos)
         IN  Unblocked(f, pos) /\ (e.linepos <= pos => Pos(f) = pos)
<1>1. /\ Viewed(e) /\ e.text \in Seq(Char) /\ e.linepos \in Nat /\ Pos(e) \in Nat
      /\ e.linepos <= Pos(e) /\ IsLine(e.text, e.linepos) /\ Clear(e.text, e.linepos)
      /\ Pos(e) = e.linepos + e.col /\ CursorAt(e.text, e.linepos, e.col) /\ e.col \in Nat
  BY PosIs, LineNumbers DEF Good, Viewed
<1>2. PICK f : f = MoveStep(e, pos)
  OBVIOUS
<1>3. CASE pos < e.linepos
  <2>1. /\ Good(f) /\ SameRest(e, f) /\ f.linepos < e.linepos
        /\ f.linepos > pos \/ Final(f, pos)
    BY <1>2, <1>3, MoveStepUp
  <2>2. f.text = e.text /\ IsLine(f.text, f.linepos) /\ f.linepos \in Nat /\ f.linepos <= Pos(f)
        /\ Pos(f) \in Nat
    BY <2>1, PosIs, LineNumbers DEF Good, Viewed, SameRest, SameText
  <2>3. NextLine(f.text, f.linepos) # -1
    BY <1>1, <2>1, <2>2, NextThere
  <2>4. Unblocked(f, pos)
    BY <2>1, <2>2, <2>3 DEF Unblocked
  <2> QED BY <1>1, <1>2, <1>3, <2>4
<1>4. CASE e.linepos <= pos /\ Pos(e) >= pos
  <2>1. pos - e.linepos \in Nat /\ e.linepos + (pos - e.linepos) = pos
    BY <1>1, <1>4
  <2>2. CursorAt(e.text, e.linepos, pos - e.linepos)
    BY <1>1, <1>4, <2>1 DEF CursorAt
  <2>3. f = [e EXCEPT !.col = pos - e.linepos]
    BY <1>2, <1>4, MoveStepCases
  <2>4. f.linepos = e.linepos /\ f.col = pos - e.linepos
    BY <1>1, <2>1, <2>2, <2>3, ColumnGood
  <2>5. Pos(f) = pos
    BY <2>1, <2>4 DEF Pos
  <2> QED BY <1>2, <2>5 DEF Unblocked
<1>5. CASE Final(e, pos) /\ NextLine(e.text, e.linepos) # -1
  <2>1. ~ Blocked(e, pos)
    BY <1>5 DEF Blocked
  <2>2. Pos(f) = pos
    BY <1>2, <1>5, <2>1, MoveStepFinal
  <2> QED BY <1>2, <2>2 DEF Unblocked
<1> QED BY <1>1, <1>3, <1>4, <1>5 DEF Unblocked

\* In a text without negative characters, a line that is final for pos is its line.
LEMMA FinalIsLine ==
  ASSUME NEW t \in Seq(Char), Clear(t, Len(t)), NEW p, IsLine(t, p), NEW pos \in 0 .. Len(t),
         p <= pos, NextLine(t, p) = -1 \/ pos < NextLine(t, p)
  PROVE  /\ LineStart(t, pos) = p /\ NextLine(t, pos) = NextLine(t, p)
         /\ NextLine(t, p) = -1 => StopFrom(t, p) = Len(t)
<1>1. PICK l \in Nat : l = Len(t) /\ p \in 0 .. l /\ pos \in p .. l
  BY DEF IsLine
<1>2. PICK s \in p .. l :
        /\ s = StopFrom(t, p)
        /\ \A n \in p .. s - 1 : ~ Stops(t, n)
        /\ s < l => Stops(t, s)
  BY <1>1, StopIs
<1>3. ASSUME s < l PROVE s \in Newlines(t) /\ NextLine(t, p) = s + 1
  <2>1. t[s + 1] \notin Negative
    BY <1>1, <1>2, <1>3 DEF Clear
  <2>2. t[s + 1] = NL
    BY <1>2, <1>3, <2>1 DEF Stops
  <2>3. s \in Newlines(t)
    BY <1>1, <1>2, <1>3, <2>2 DEF Newlines
  <2> QED BY <1>2, <2>3 DEF NextLine
<1>4. pos <= s
  <2>1. CASE s < l
    BY <1>1, <1>2, <1>3, <2>1
  <2>2. CASE s = l
    BY <1>1, <2>2
  <2> QED BY <1>2, <2>1, <2>2
<1>5. LineStart(t, pos) = p
  <2>1. \A n \in p .. pos - 1 : t[n + 1] # NL
    <3> TAKE n \in p .. pos - 1
    <3>1. n \in p .. s - 1
      BY <1>1, <1>2, <1>4
    <3>2. ~ Stops(t, n)
      BY <1>2, <3>1
    <3> QED BY <3>2 DEF Stops
  <2>2. InLine(t, p, pos)
    BY <1>1, <2>1 DEF InLine
  <2> QED BY <2>2, InLineOnce
<1>6. StopFrom(t, pos) = s
  <2>1. PICK r \in pos .. l :
          /\ r = StopFrom(t, pos)
          /\ \A n \in pos .. r - 1 : ~ Stops(t, n)
          /\ r < l => Stops(t, r)
    BY <1>1, StopIs
  <2>2. ~ r < s
    BY <1>1, <1>2, <2>1
  <2>3. ~ s < r
    <3> SUFFICES ASSUME s < r PROVE FALSE
      OBVIOUS
    <3>1. s \in pos .. r - 1 /\ s < l
      BY <1>1, <1>2, <1>4, <2>1
    <3> QED BY <1>2, <2>1, <3>1
  <2> QED BY <1>1, <1>2, <2>1, <2>2, <2>3
<1>7. NextLine(t, pos) = NextLine(t, p)
  BY <1>2, <1>6 DEF NextLine
<1>8. NextLine(t, p) = -1 => s = l
  BY <1>1, <1>2, <1>3
<1> QED BY <1>1, <1>2, <1>5, <1>7, <1>8

\* A place inside the last line is not reached from before it.
LEMMA MoveStepShort ==
  ASSUME NEW e, Good(e), Clear(e.text, Len(e.text)), NEW pos \in 0 .. Len(e.text), Pos(e) < pos,
         pos > LineStart(e.text, pos), NextLine(e.text, pos) = -1
  PROVE  Pos(MoveStep(e, pos)) < pos
<1>1. /\ e.text \in Seq(Char) /\ e.linepos \in Nat /\ Pos(e) \in Nat /\ pos \in Nat
      /\ e.linepos <= Pos(e) /\ IsLine(e.text, e.linepos)
  <2>1. pos \in Nat
    BY PosIs
  <2> QED BY <2>1, PosIs, LineNumbers DEF Good, Viewed
<1>2. PICK f : f = MoveStep(e, pos)
  OBVIOUS
<1>3. CASE Final(e, pos)
  <2>1. NextLine(e.text, e.linepos) = -1
    BY <1>1, <1>3, FinalIsLine DEF Final
  <2>2. Blocked(e, pos)
    BY <1>1, <2>1 DEF Blocked
  <2> QED BY <1>1, <2>2, MoveStepCases
<1>4. CASE ~ Final(e, pos)
  <2>1. Good(f) /\ SameRest(e, f) /\ f.linepos <= pos /\ f.col = 0
    BY <1>1, <1>2, <1>4, MoveStepDown
  <2>2. f.text = e.text /\ IsLine(f.text, f.linepos) /\ f.linepos \in Nat /\ Pos(f) = f.linepos + f.col
    BY <2>1, PosIs, LineNumbers DEF Good, Viewed, SameRest, SameText
  <2>3. ~ IsLine(e.text, pos)
    <3>1. LineStart(e.text, pos) # pos
      <4>1. LineStart(e.text, pos) \in Nat
        BY <1>1, LineStartIs DEF InLine, IsLine
      <4> QED BY <1>1, <4>1
    <3> QED BY <1>1, <3>1, LineIsStart
  <2>4. f.linepos # pos
    BY <2>2, <2>3
  <2> QED BY <1>1, <1>2, <2>1, <2>2, <2>4
<1> QED BY <1>3, <1>4

\* The moves of moveto, n of them.
Moves(w, e, pos, n) ==
  w = [k \in 0 .. n |-> IF k = 0 THEN e ELSE MoveStep(w[k - 1], pos)]

\* They can be made, and keep the cursor good.
LEMMA MovesAre ==
  ASSUME NEW e, Good(e), NEW pos \in Nat, NEW n \in Nat
  PROVE  /\ \E w : Moves(w, e, pos, n)
         /\ \A w : Moves(w, e, pos, n) =>
              /\ w[0] = e
              /\ \A k \in 0 .. n - 1 : w[k + 1] = MoveStep(w[k], pos)
              /\ \A k \in 0 .. n : Good(w[k]) /\ SameRest(e, w[k])
<1> DEFINE V == {x \in Editors : Good(x) /\ SameRest(e, x)}
           G == [x \in V |-> MoveStep(x, pos)]
<1>1. e \in V
  BY PosIs DEF SameRest, SameText
<1>2. ASSUME NEW x \in V PROVE MoveStep(x, pos) \in V
  <2>1. Good(x) /\ SameRest(e, x)
    OBVIOUS
  <2>2. x.linepos \in Nat
    BY <2>1, PosIs
  <2>3. Good(MoveStep(x, pos)) /\ SameRest(x, MoveStep(x, pos))
    <3>1. CASE pos < x.linepos
      BY <2>1, <3>1, MoveStepUp
    <3>2. CASE x.linepos <= pos /\ ~ Final(x, pos)
      BY <2>1, <3>2, MoveStepDown
    <3>3. CASE Final(x, pos)
      BY <2>1, <3>3, MoveStepFinal
    <3> QED BY <2>2, <3>1, <3>2, <3>3
  <2>4. MoveStep(x, pos) \in Editors
    BY <2>3, PosIs
  <2> QED BY <2>1, <2>3, <2>4 DEF SameRest, SameText
<1>3. \E w : Moves(w, e, pos, n)
  <2>1. G \in [V -> V]
    <3> HIDE DEF V
    <3> QED BY <1>2
  <2>2. PICK w \in [0 .. n -> V] : w = [k \in 0 .. n |-> IF k = 0 THEN e ELSE G[w[k - 1]]]
    <3> HIDE DEF V, G
    <3> QED BY <1>1, <2>1, StepsAre
  <2>3. \A k \in 0 .. n : k # 0 => w[k - 1] \in V
    OBVIOUS
  <2>4. w = [k \in 0 .. n |-> IF k = 0 THEN e ELSE MoveStep(w[k - 1], pos)]
    <3> HIDE DEF V
    <3>1. \A k \in 0 .. n : (IF k = 0 THEN e ELSE G[w[k - 1]]) = (IF k = 0 THEN e ELSE MoveStep(w[k - 1], pos))
      BY <2>3
    <3> HIDE DEF G
    <3> QED BY <2>2, <3>1
  <2> QED BY <2>4 DEF Moves
<1>4. ASSUME NEW w, Moves(w, e, pos, n)
      PROVE  /\ w[0] = e
             /\ \A k \in 0 .. n - 1 : w[k + 1] = MoveStep(w[k], pos)
             /\ \A k \in 0 .. n : Good(w[k]) /\ SameRest(e, w[k])
  <2>1. w[0] = e /\ \A k \in 0 .. n - 1 : w[k + 1] = MoveStep(w[k], pos)
    <3>1. \A k \in 0 .. n - 1 : k + 1 \in 0 .. n /\ k + 1 # 0 /\ (k + 1) - 1 = k
      OBVIOUS
    <3>2. 0 \in 0 .. n
      OBVIOUS
    <3> QED BY <1>4, <3>1, <3>2 DEF Moves
  <2>2. \A k \in 0 .. n : w[k] \in V
    <3>1. \A k \in 0 .. n - 1 : w[k] \in V => w[k + 1] \in V
      <4> HIDE DEF V
      <4> QED BY <1>2, <2>1
    <3> HIDE DEF V
    <3> QED BY <1>1, <2>1, <3>1, StepsStay
  <2> QED BY <2>1, <2>2
<1> QED BY <1>3, <1>4

\* After as many moves as the text has characters the line is that of pos.
LEMMA MovesFinal ==
  ASSUME NEW e, Good(e), NEW pos \in 0 .. Len(e.text), NEW n \in Nat, n >= Len(e.text),
         NEW w, Moves(w, e, pos, n)
  PROVE  Final(w[Len(e.text)], pos)
<1>1. PICK l \in Nat : l = Len(e.text) /\ e.text \in Seq(Char) /\ pos \in 0 .. l /\ n >= l
  BY PosIs
<1>2. /\ w[0] = e
      /\ \A k \in 0 .. n - 1 : w[k + 1] = MoveStep(w[k], pos)
      /\ \A k \in 0 .. n : Good(w[k]) /\ SameRest(e, w[k])
  <2>1. pos \in Nat
    BY <1>1
  <2> QED BY <2>1, MovesAre, Zenon
<1> DEFINE At(k) == \/ w[k].linepos > pos /\ w[k].linepos <= l - k
                    \/ w[k].linepos <= pos /\ w[k].linepos >= k /\ ~ Final(w[k], pos)
                    \/ Final(w[k], pos)
           S == {k \in Nat : k <= l => At(k)}
<1>3. \A k \in 0 .. n : /\ w[k].linepos \in 0 .. l /\ w[k].text = e.text /\ IsLine(e.text, w[k].linepos)
  <2> TAKE k \in 0 .. n
  <2>1. Good(w[k]) /\ SameRest(e, w[k])
    BY <1>2
  <2>2. Lined(w[k]) /\ w[k].text = e.text
    BY <2>1 DEF Good, Viewed, SameRest, SameText
  <2> QED BY <1>1, <2>2, LineNumbers
<1>4. 0 \in S
  <2>1. w[0].linepos \in 0 .. l
    BY <1>1, <1>3
  <2> QED BY <1>1, <2>1
<1>5. ASSUME NEW k \in Nat, k \in S PROVE k + 1 \in S
  <2> SUFFICES ASSUME k + 1 <= l PROVE At(k + 1)
    OBVIOUS
  <2>1. At(k) /\ k \in 0 .. n - 1 /\ k \in 0 .. n /\ k + 1 \in 0 .. n
    BY <1>1, <1>5
  <2>2. /\ w[k + 1] = MoveStep(w[k], pos) /\ Good(w[k])
        /\ w[k].linepos \in 0 .. l /\ w[k + 1].linepos \in 0 .. l
    BY <1>2, <1>3, <2>1
  <2>3. CASE w[k].linepos > pos /\ w[k].linepos <= l - k
    <3>1. /\ w[k + 1].linepos < w[k].linepos
          /\ w[k + 1].linepos > pos \/ Final(w[k + 1], pos)
      BY <1>1, <2>2, <2>3, MoveStepUp
    <3> QED BY <1>1, <2>2, <2>3, <3>1
  <2>4. CASE w[k].linepos <= pos /\ w[k].linepos >= k /\ ~ Final(w[k], pos)
    <3>1. w[k + 1].linepos > w[k].linepos /\ w[k + 1].linepos <= pos
      BY <1>1, <2>2, <2>4, MoveStepDown
    <3> QED BY <1>1, <2>2, <2>4, <3>1
  <2>5. CASE Final(w[k], pos)
    <3>1. Final(w[k + 1], pos)
      BY <1>1, <2>2, <2>5, MoveStepFinal
    <3> QED BY <3>1
  <2> QED BY <2>1, <2>3, <2>4, <2>5
<1>6. l \in S
  <2> HIDE DEF S
  <2> QED BY <1>4, <1>5, NatSetInduction
<1>7. l \in 0 .. n
  BY <1>1
<1>8. ~ (w[l].linepos > pos /\ w[l].linepos <= l - l)
  BY <1>1, <1>3, <1>7
<1>9. ASSUME w[l].linepos <= pos, w[l].linepos >= l, ~ Final(w[l], pos) PROVE FALSE
  <2>1. NextLine(e.text, w[l].linepos) # -1 /\ NextLine(e.text, w[l].linepos) \in w[l].linepos + 1 .. l
    BY <1>1, <1>3, <1>7, <1>9, NextIs DEF Final
  <2> QED BY <1>1, <1>3, <1>7, <1>9, <2>1
<1>10. Final(w[l], pos)
  BY <1>6, <1>8, <1>9
<1> QED BY <1>1, <1>10

\* Scrolling to center the cursor's line on the screen, one line.
CenterStep(f, tl) ==
  IF f.topline > tl
  THEN [f EXCEPT !.toppos = PrevLine(f.text, f.toppos), !.topline = f.topline - 1]
  ELSE IF f.topline < tl
  THEN [f EXCEPT !.toppos = NextLine(f.text, f.toppos), !.topline = f.topline + 1]
  ELSE f

\* It keeps the cursor's line on the screen.
LEMMA CenterStepGood ==
  ASSUME NEW e, Good(e), NEW tl \in Nat, tl <= e.line, e.line < tl + Lines
  PROVE  LET f == CenterStep(e, tl)
         IN  Good(f) /\ SameRest(e, f) /\ f.linepos = e.linepos /\ f.col = e.col /\ f.line = e.line
<1>1. /\ Viewed(e) /\ Lined(e) /\ e \in Editors /\ e.text \in Seq(Char) /\ e.line \in Nat
      /\ IsLine(e.text, e.linepos) /\ Clear(e.text, e.linepos) /\ e.linepos \in Nat
      /\ TopAt(e.text, e.toppos, e.topline) /\ e.topline <= e.line /\ e.line < e.topline + Lines
      /\ Lines \in Nat /\ CursorAt(e.text, e.linepos, e.col)
  <2>1. Viewed(e) /\ Lined(e) /\ CursorAt(e.text, e.linepos, e.col)
    BY DEF Good, Viewed
  <2>2. Lines \in Nat
    BY EditorAssumption DEF EditorAssumption
  <2> QED BY <2>1, <2>2, LineNumbers DEF Viewed, Lined
<1>2. /\ e.toppos \in 0 .. e.linepos /\ e.topline \in Nat /\ IsLine(e.text, e.toppos)
      /\ e.topline < e.line => e.toppos < e.linepos
      /\ e.topline = Count(e.text, e.toppos)
  BY <1>1, TopIsAbove DEF TopAt
<1>3. ASSUME NEW p \in Int, NEW n \in Int, TopAt(e.text, p, n), n <= e.line, e.line < n + Lines,
             NEW f, f = [e EXCEPT !.toppos = p, !.topline = n]
      PROVE  Good(f) /\ SameRest(e, f) /\ f.linepos = e.linepos /\ f.col = e.col /\ f.line = e.line
  <2>1. f \in Editors
    BY <1>1, <1>3 DEF Editors
  <2>2. /\ SameRest(e, f) /\ f.linepos = e.linepos /\ f.col = e.col /\ f.line = e.line
        /\ f.toppos = p /\ f.topline = n
    BY <1>1, <1>3 DEF Editors, SameRest, SameText
  <2>3. Lined(f)
    BY <1>1, <2>1, <2>2 DEF Lined, SameRest, SameText
  <2>4. Viewed(f)
    BY <1>3, <2>2, <2>3 DEF Viewed, SameRest, SameText
  <2>5. CursorAt(f.text, f.linepos, f.col)
    BY <1>1, <2>2 DEF SameRest, SameText
  <2> QED BY <2>2, <2>4, <2>5 DEF Good
<1>4. CASE e.topline > tl
  <2>1. e.toppos > 0
    <3>1. CASE e.toppos = 0
      <4>1. Newlines(e.text) = {n \in Newlines(e.text) : TRUE} /\ Ends(e.text, 0, 0) = {}
        BY DEF Ends, Newlines
      <4>2. Count(e.text, 0) = Cardinality(Ends(e.text, 0, 0))
        BY <1>1, EndsFinite DEF Count
      <4>3. Count(e.text, 0) = 0
        BY <4>1, <4>2, FS_EmptySet
      <4> QED BY <1>2, <1>4, <3>1, <4>3
    <3> QED BY <1>1, <1>2, <3>1
  <2>2. PICK p \in Int : p = PrevLine(e.text, e.toppos) /\ TopAt(e.text, p, e.topline - 1)
    <3>1. /\ InLine(e.text, PrevLine(e.text, e.toppos), e.toppos - 1)
          /\ Count(e.text, e.toppos) = Count(e.text, PrevLine(e.text, e.toppos)) + 1
      BY <1>1, <1>2, <2>1, PrevIs
    <3>2. IsLine(e.text, PrevLine(e.text, e.toppos)) /\ PrevLine(e.text, e.toppos) \in Int
      BY <3>1 DEF InLine, IsLine
    <3>3. Count(e.text, PrevLine(e.text, e.toppos)) \in Nat
      BY <1>1, <3>2, LinesInOrder
    <3>4. Count(e.text, PrevLine(e.text, e.toppos)) = e.topline - 1
      BY <1>2, <3>1, <3>3
    <3> QED BY <3>2, <3>4 DEF TopAt
  <2>3. e.topline - 1 \in Int /\ e.topline - 1 <= e.line /\ e.line < (e.topline - 1) + Lines
    BY <1>1, <1>2, <1>4
  <2>4. CenterStep(e, tl) = [e EXCEPT !.toppos = p, !.topline = e.topline - 1]
    BY <1>4, <2>2 DEF CenterStep
  <2>5. PICK f : f = CenterStep(e, tl)
    OBVIOUS
  <2>6. f = [e EXCEPT !.toppos = p, !.topline = e.topline - 1]
    BY <2>4, <2>5
  <2>7. Good(f) /\ SameRest(e, f) /\ f.linepos = e.linepos /\ f.col = e.col /\ f.line = e.line
    BY <1>3, <2>2, <2>3, <2>6, Zenon
  <2> QED BY <2>5, <2>7
<1>5. CASE e.topline < tl
  <2>1. e.topline < e.line /\ e.toppos < e.linepos
    BY <1>1, <1>2, <1>5
  <2>2. PICK p \in Int : p = NextLine(e.text, e.toppos) /\ p >= 0
    <3>1. NextLine(e.text, e.toppos) \in e.toppos + 1 .. e.linepos
      BY <1>1, <1>2, <2>1, NextThere
    <3> QED BY <1>1, <1>2, <3>1
  <2>3. TopAt(e.text, p, e.topline + 1)
    <3>1. p # -1
      BY <2>2
    <3> QED BY <1>1, <1>2, <2>2, <3>1, NextIs DEF TopAt
  <2>4. e.topline + 1 \in Int /\ e.topline + 1 <= e.line /\ e.line < (e.topline + 1) + Lines
    BY <1>1, <1>2, <2>1
  <2>5. CenterStep(e, tl) = [e EXCEPT !.toppos = p, !.topline = e.topline + 1]
    <3>1. ~ e.topline > tl
      BY <1>2, <1>5
    <3> QED BY <1>5, <2>2, <3>1 DEF CenterStep
  <2>6. PICK f : f = CenterStep(e, tl)
    OBVIOUS
  <2>7. f = [e EXCEPT !.toppos = p, !.topline = e.topline + 1]
    BY <2>5, <2>6
  <2>8. Good(f) /\ SameRest(e, f) /\ f.linepos = e.linepos /\ f.col = e.col /\ f.line = e.line
    BY <1>3, <2>2, <2>3, <2>4, <2>7, Zenon
  <2> QED BY <2>6, <2>8
<1>6. CASE e.topline = tl
  <2>1. CenterStep(e, tl) = e
    BY <1>2, <1>6 DEF CenterStep
  <2> QED BY <2>1 DEF SameRest, SameText
<1> QED BY <1>2, <1>4, <1>5, <1>6

\* Centering moves the screen, not the cursor.
LEMMA CenterGood ==
  ASSUME NEW e, Good(e)
  PROVE  LET f == Center(e)
         IN  Good(f) /\ SameRest(e, f) /\ f.linepos = e.linepos /\ f.col = e.col
<1>1. e \in Editors /\ e.line \in Nat /\ e.text \in Seq(Char)
  <2>1. Lined(e)
    BY DEF Good, Viewed
  <2> QED BY <2>1, LineNumbers DEF Lined
<1>2. PICK tl \in Nat : /\ tl = IF e.line > Lines \div 2 THEN e.line - Lines \div 2 ELSE 0
                        /\ tl <= e.line /\ e.line < tl + Lines
  <2>1. Lines \in Nat /\ Lines > 0
    BY EditorAssumption DEF EditorAssumption
  <2>2. Lines \div 2 \in Nat /\ Lines \div 2 < Lines
    BY <2>1
  <2> QED BY <1>1, <2>1, <2>2
<1>3. PICK n \in Nat : n = Len(e.text)
  BY <1>1
<1> DEFINE V == {x \in Editors : /\ Good(x) /\ SameRest(e, x) /\ x.linepos = e.linepos
                                 /\ x.col = e.col /\ x.line = e.line}
           G == [x \in V |-> CenterStep(x, tl)]
           Runs(w) == w = [k \in 0 .. n |-> IF k = 0 THEN e ELSE CenterStep(w[k - 1], tl)]
           u == CHOOSE w : Runs(w)
<1>4. e \in V
  BY <1>1 DEF SameRest, SameText
<1>5. ASSUME NEW x \in V PROVE CenterStep(x, tl) \in V
  <2>1. /\ Good(x) /\ SameRest(e, x) /\ x.linepos = e.linepos /\ x.col = e.col /\ x.line = e.line
    OBVIOUS
  <2> DEFINE f == CenterStep(x, tl)
  <2>2. Good(f) /\ SameRest(x, f) /\ f.linepos = x.linepos /\ f.col = x.col /\ f.line = x.line
    BY <1>2, <2>1, CenterStepGood
  <2> HIDE DEF f
  <2>3. f \in Editors
    BY <2>2, PosIs
  <2>4. f \in V
    BY <2>1, <2>2, <2>3 DEF SameRest, SameText
  <2> HIDE DEF V
  <2> QED BY <2>4 DEF f
<1>6. Runs(u)
  <2>1. G \in [V -> V]
    <3> HIDE DEF V
    <3> QED BY <1>5
  <2>2. PICK w \in [0 .. n -> V] : w = [k \in 0 .. n |-> IF k = 0 THEN e ELSE G[w[k - 1]]]
    <3> HIDE DEF V, G
    <3> QED BY <1>4, <2>1, StepsAre
  <2>3. \A k \in 0 .. n : k # 0 => w[k - 1] \in V
    OBVIOUS
  <2>4. w = [k \in 0 .. n |-> IF k = 0 THEN e ELSE CenterStep(w[k - 1], tl)]
    <3> HIDE DEF V
    <3>1. \A k \in 0 .. n : (IF k = 0 THEN e ELSE G[w[k - 1]]) = (IF k = 0 THEN e ELSE CenterStep(w[k - 1], tl))
      BY <2>3
    <3> HIDE DEF G
    <3> QED BY <2>2, <3>1
  <2>5. Runs(w)
    BY <2>4
  <2> HIDE DEF Runs
  <2> QED BY <2>5
<1>7. Center(e) = u[n]
  BY <1>2, <1>3 DEF Center, Iterate, CenterStep
<1> HIDE DEF u
<1>8. u[0] = e /\ \A k \in 0 .. n - 1 : u[k + 1] = CenterStep(u[k], tl)
  <2>1. \A k \in 0 .. n - 1 : k + 1 \in 0 .. n /\ k + 1 # 0 /\ (k + 1) - 1 = k
    OBVIOUS
  <2>2. 0 \in 0 .. n
    OBVIOUS
  <2> QED BY <1>6, <2>1, <2>2
<1>9. \A k \in 0 .. n : u[k] \in V
  <2>1. \A k \in 0 .. n - 1 : u[k] \in V => u[k + 1] \in V
    <3> HIDE DEF V
    <3> QED BY <1>5, <1>8
  <2> HIDE DEF V
  <2> QED BY <1>4, <1>8, <2>1, StepsStay
<1> QED BY <1>7, <1>9

\* Where the loop of moveto has come to, and the end of the line if it was blocked.
LEMMA StoppedGood ==
  ASSUME NEW i, Good(i), NEW pos
  PROVE  LET m == Stopped(i, pos)
         IN  /\ Good(m) /\ SameRest(i, m)
             /\ Blocked(i, pos) => Pos(m) = StopFrom(i.text, i.linepos)
             /\ ~ Blocked(i, pos) => m = i
<1>1. Viewed(i) /\ i.text \in Seq(Char) /\ IsLine(i.text, i.linepos)
  BY PosIs, LineNumbers DEF Good, Viewed
<1>2. PICK l \in Nat : l = LineLength(i.text, i.linepos) /\ i.linepos + l = StopFrom(i.text, i.linepos)
  BY <1>1, LengthIs
<1>3. CursorAt(i.text, i.linepos, l)
  BY <1>1, <1>2, CursorInLength
<1>4. PICK f : f = [i EXCEPT !.col = l]
  OBVIOUS
<1>5. Good(f) /\ SameRest(i, f) /\ f.linepos = i.linepos /\ f.col = l
  BY <1>1, <1>3, <1>4, ColumnGood
<1>6. Pos(f) = StopFrom(i.text, i.linepos)
  BY <1>2, <1>5 DEF Pos
<1>7. SameRest(i, i)
  BY DEF SameRest, SameText
<1>8. Stopped(i, pos) = IF Blocked(i, pos) THEN f ELSE i
  BY <1>2, <1>4 DEF Stopped
<1> QED BY <1>5, <1>6, <1>7, <1>8

\* The loop of moveto is moves, as many as the text has characters and two.
LEMMA MovetoIs ==
  ASSUME NEW e, Good(e), NEW pos \in Nat, NEW center \in BOOLEAN
  PROVE  \E w : /\ Moves(w, e, pos, Len(e.text) + 2)
                /\ LET m == Stopped(w[Len(e.text) + 2], pos)
                   IN  Moveto(e, pos, center)
                         = IF center /\ m.topline # e.topline THEN Center(m) ELSE m
<1>1. PICK n \in Nat : n = Len(e.text) + 2
  <2>1. Len(e.text) \in Nat
    BY PosIs
  <2> QED BY <2>1
<1> DEFINE w == CHOOSE x : Moves(x, e, pos, n)
           m == Stopped(w[n], pos)
<1>2. Moves(w, e, pos, n)
  BY MovesAre
<1>3. Moveto(e, pos, center) = IF center /\ m.topline # e.topline THEN Center(m) ELSE m
  BY <1>1 DEF Moveto, Iterate, Moves
<1> HIDE DEF w
<1> QED BY <1>1, <1>2, <1>3

\* Where moveto ends: after the last of its moves, and not elsewhere for having
\* centered the screen.
LEMMA MovetoEnds ==
  ASSUME NEW e, Good(e), NEW pos \in Nat, NEW center \in BOOLEAN, NEW n \in Nat,
         n = Len(e.text) + 2
  PROVE  \E w : /\ Moves(w, e, pos, n) /\ Good(w[n])
                /\ Good(Moveto(e, pos, center)) /\ SameRest(e, Moveto(e, pos, center))
                /\ Blocked(w[n], pos) =>
                     Pos(Moveto(e, pos, center)) = StopFrom(e.text, w[n].linepos)
                /\ ~ Blocked(w[n], pos) => Pos(Moveto(e, pos, center)) = Pos(w[n])
<1>1. PICK w : /\ Moves(w, e, pos, n)
               /\ LET m == Stopped(w[n], pos)
                  IN  Moveto(e, pos, center)
                        = IF center /\ m.topline # e.topline THEN Center(m) ELSE m
  BY MovetoIs
<1>2. Good(w[n]) /\ SameRest(e, w[n])
  <2>1. n \in 0 .. n
    OBVIOUS
  <2>2. \A k \in 0 .. n : Good(w[k]) /\ SameRest(e, w[k])
    BY <1>1, MovesAre, Zenon
  <2> QED BY <2>1, <2>2
<1>3. PICK i : i = w[n]
  OBVIOUS
<1>4. PICK m : m = Stopped(i, pos)
  OBVIOUS
<1>5. PICK f : f = Moveto(e, pos, center) /\ f = IF center /\ m.topline # e.topline THEN Center(m) ELSE m
  BY <1>1, <1>3, <1>4
<1>6. /\ Good(m) /\ SameRest(i, m)
      /\ Blocked(i, pos) => Pos(m) = StopFrom(i.text, i.linepos)
      /\ ~ Blocked(i, pos) => Pos(m) = Pos(i)
  BY <1>2, <1>3, <1>4, StoppedGood
<1>7. Good(f) /\ SameRest(m, f) /\ Pos(f) = Pos(m)
  <2>1. CASE f = Center(m)
    <3>1. Good(f) /\ SameRest(m, f) /\ f.linepos = m.linepos /\ f.col = m.col
      BY <1>6, <2>1, CenterGood
    <3> QED BY <3>1 DEF Pos
  <2>2. CASE f = m
    BY <1>6, <2>2 DEF SameRest, SameText
  <2> QED BY <1>5, <2>1, <2>2
<1>8. SameRest(e, f) /\ i.text = e.text
  BY <1>2, <1>3, <1>6, <1>7 DEF SameRest, SameText
<1> QED BY <1>1, <1>2, <1>3, <1>5, <1>6, <1>7, <1>8

\* The last two moves are made in the line of pos.
LEMMA LastMoves ==
  ASSUME NEW e, Good(e), NEW pos \in 0 .. Len(e.text), NEW n \in Nat, n = Len(e.text) + 2,
         NEW w, Moves(w, e, pos, n)
  PROVE  /\ Final(w[n], pos) /\ w[n].text = e.text
         /\ Pos(w[n]) = pos \/ Blocked(w[n], pos)
         /\ Unblocked(e, pos) => Pos(w[n]) = pos
<1>1. PICK l \in Nat : l = Len(e.text) /\ n = l + 2 /\ pos \in Nat /\ pos <= l
  BY PosIs
<1>2. /\ w[0] = e
      /\ \A k \in 0 .. n - 1 : w[k + 1] = MoveStep(w[k], pos)
      /\ \A k \in 0 .. n : Good(w[k]) /\ SameRest(e, w[k])
  BY <1>1, MovesAre, Zenon
<1>3. PICK a, b, c : a = w[l] /\ b = w[l + 1] /\ c = w[n]
  OBVIOUS
<1>4. /\ Good(a) /\ Good(b) /\ Good(c) /\ SameRest(e, c)
      /\ b = MoveStep(a, pos) /\ c = MoveStep(b, pos)
  <2>1. /\ l \in 0 .. n /\ l + 1 \in 0 .. n /\ n \in 0 .. n /\ l \in 0 .. n - 1
        /\ l + 1 \in 0 .. n - 1 /\ (l + 1) + 1 = n
    BY <1>1
  <2> QED BY <1>2, <1>3, <2>1
<1>5. Final(a, pos)
  <2>1. n >= Len(e.text)
    BY <1>1
  <2> QED BY <1>1, <1>3, <2>1, MovesFinal
<1>6. Final(b, pos)
  BY <1>1, <1>4, <1>5, MoveStepFinal
<1>7. /\ Final(c, pos)
      /\ ~ Blocked(b, pos) => Pos(c) = pos
      /\ Blocked(b, pos) => c = b
  BY <1>1, <1>4, <1>6, MoveStepFinal
<1>8. ASSUME Unblocked(e, pos) PROVE Pos(c) = pos
  <2> DEFINE V == {x \in Editors : Good(x) /\ Unblocked(x, pos)}
  <2>1. \A k \in 0 .. n : Good(w[k]) /\ w[k] \in Editors
    BY <1>2, PosIs
  <2>2. w[0] \in V
    BY <1>2, <1>8, PosIs
  <2>3. \A k \in 0 .. n - 1 : w[k] \in V => w[k + 1] \in V
    <3> SUFFICES ASSUME NEW k \in 0 .. n - 1, w[k] \in V PROVE w[k + 1] \in V
      OBVIOUS
    <3>1. Unblocked(MoveStep(w[k], pos), pos)
      BY <1>1, MoveStepUnblocked
    <3>2. k + 1 \in 0 .. n
      OBVIOUS
    <3> QED BY <1>2, <2>1, <3>1, <3>2
  <2>4. \A k \in 0 .. n : w[k] \in V
    <3> HIDE DEF V
    <3> QED BY <2>2, <2>3, StepsStay
  <2>5. Unblocked(b, pos)
    BY <1>1, <1>3, <2>4
  <2>6. b.linepos <= pos
    BY <1>6 DEF Final
  <2> QED BY <1>1, <1>4, <2>5, <2>6, MoveStepUnblocked
<1>9. c.text = e.text
  BY <1>4 DEF SameRest, SameText
<1> QED BY <1>3, <1>7, <1>8, <1>9

\* moveto keeps the cursor in a counted line; back it goes to pos.
LEMMA MovetoGood ==
  ASSUME NEW e, Good(e), NEW pos \in Nat, NEW center \in BOOLEAN
  PROVE  LET f == Moveto(e, pos, center)
         IN  /\ Good(f) /\ SameRest(e, f)
             /\ pos <= Pos(e) => Pos(f) = pos
<1>1. PICK n \in Nat, l \in Nat : n = Len(e.text) + 2 /\ l = Len(e.text) /\ Pos(e) \in 0 .. l
  <2>1. Len(e.text) \in Nat /\ Pos(e) \in 0 .. Len(e.text)
    BY PosIs
  <2> QED BY <2>1
<1>2. PICK w : /\ Moves(w, e, pos, n) /\ Good(w[n])
               /\ Good(Moveto(e, pos, center)) /\ SameRest(e, Moveto(e, pos, center))
               /\ Blocked(w[n], pos) =>
                    Pos(Moveto(e, pos, center)) = StopFrom(e.text, w[n].linepos)
               /\ ~ Blocked(w[n], pos) => Pos(Moveto(e, pos, center)) = Pos(w[n])
  BY <1>1, MovetoEnds
<1>3. PICK f : /\ f = Moveto(e, pos, center) /\ Good(f) /\ SameRest(e, f)
               /\ ~ Blocked(w[n], pos) => Pos(f) = Pos(w[n])
  BY <1>2
<1>4. ASSUME pos <= Pos(e) PROVE Pos(f) = pos
  <2>1. pos \in 0 .. Len(e.text) /\ Unblocked(e, pos)
    BY <1>1, <1>4 DEF Unblocked
  <2>2. Pos(w[n]) = pos
    BY <1>1, <1>2, <2>1, LastMoves
  <2>3. ~ Blocked(w[n], pos)
    BY <2>2 DEF Blocked
  <2> QED BY <1>3, <2>2, <2>3
<1> QED BY <1>3, <1>4

\* In a text without negative characters, forward it goes to pos, or to the end of
\* the last line if pos lies in it.
LEMMA MovetoLands ==
  ASSUME NEW e, Good(e), Clear(e.text, Len(e.text)), NEW pos \in 0 .. Len(e.text),
         NEW center \in BOOLEAN
  PROVE  Pos(Moveto(e, pos, center)) = Landing(e.text, Pos(e), pos)
<1>1. PICK n \in Nat, l \in Nat :
        /\ n = Len(e.text) + 2 /\ l = Len(e.text) /\ Pos(e) \in 0 .. l /\ pos \in Nat /\ pos <= l
        /\ e.text \in Seq(Char)
  <2>1. Len(e.text) \in Nat /\ Pos(e) \in 0 .. Len(e.text) /\ e.text \in Seq(Char)
    BY PosIs
  <2> QED BY <2>1
<1>2. PICK w : /\ Moves(w, e, pos, n) /\ Good(w[n])
               /\ Good(Moveto(e, pos, center)) /\ SameRest(e, Moveto(e, pos, center))
               /\ Blocked(w[n], pos) =>
                    Pos(Moveto(e, pos, center)) = StopFrom(e.text, w[n].linepos)
               /\ ~ Blocked(w[n], pos) => Pos(Moveto(e, pos, center)) = Pos(w[n])
  BY <1>1, MovetoEnds
<1>3. PICK f : /\ f = Moveto(e, pos, center)
               /\ Blocked(w[n], pos) => Pos(f) = StopFrom(e.text, w[n].linepos)
               /\ ~ Blocked(w[n], pos) => Pos(f) = Pos(w[n])
  BY <1>2
<1>4. /\ Final(w[n], pos) /\ w[n].text = e.text
      /\ Pos(w[n]) = pos \/ Blocked(w[n], pos)
      /\ Unblocked(e, pos) => Pos(w[n]) = pos
  BY <1>1, <1>2, LastMoves
<1>5. PICK p \in Nat : /\ p = w[n].linepos /\ IsLine(e.text, p) /\ p <= pos /\ p <= Pos(w[n])
                       /\ Pos(w[n]) \in Nat
                       /\ NextLine(e.text, p) = -1 \/ pos < NextLine(e.text, p)
  <2>1. PICK x : x = w[n] /\ Good(x) /\ Final(x, pos) /\ x.text = e.text
    BY <1>2, <1>4
  <2>2. /\ x.linepos \in Nat /\ x.linepos <= Pos(x) /\ Pos(x) \in Nat /\ Lined(x)
    BY <2>1, PosIs DEF Good, Viewed
  <2>3. IsLine(x.text, x.linepos)
    BY <2>2, LineNumbers
  <2> QED BY <2>1, <2>2, <2>3 DEF Final
<1>6. /\ LineStart(e.text, pos) = p /\ NextLine(e.text, pos) = NextLine(e.text, p)
      /\ NextLine(e.text, p) = -1 => StopFrom(e.text, p) = l
  BY <1>1, <1>5, FinalIsLine
<1>7. CASE Blocked(w[n], pos)
  <2>1. pos > Pos(w[n]) /\ NextLine(e.text, p) = -1
    BY <1>4, <1>5, <1>7 DEF Blocked
  <2>2. pos > Pos(e)
    <3>1. ~ Unblocked(e, pos)
      BY <1>1, <1>4, <1>5, <2>1
    <3> QED BY <1>1, <3>1 DEF Unblocked
  <2>3. pos > LineStart(e.text, pos)
    BY <1>1, <1>5, <1>6, <2>1
  <2>4. Landing(e.text, Pos(e), pos) = l
    BY <1>1, <1>6, <2>1, <2>2, <2>3 DEF Landing
  <2> QED BY <1>3, <1>5, <1>6, <1>7, <2>1, <2>4
<1>8. CASE ~ Blocked(w[n], pos)
  <2>1. Pos(f) = pos /\ Pos(w[n]) = pos
    BY <1>3, <1>4, <1>8
  <2>2. ASSUME pos > Pos(e), pos > LineStart(e.text, pos), NextLine(e.text, pos) = -1 PROVE FALSE
    <3> DEFINE V == {x \in Editors : Good(x) /\ x.text = e.text /\ Pos(x) < pos}
    <3>1. /\ w[0] = e
          /\ \A k \in 0 .. n - 1 : w[k + 1] = MoveStep(w[k], pos)
          /\ \A k \in 0 .. n : Good(w[k]) /\ SameRest(e, w[k])
      <4>1. pos \in Nat /\ n \in Nat /\ Moves(w, e, pos, n)
        BY <1>1, <1>2
      <4> QED BY <4>1, MovesAre, Zenon
    <3>2. \A k \in 0 .. n : Good(w[k]) /\ w[k].text = e.text /\ w[k] \in Editors
      BY <3>1, PosIs DEF SameRest, SameText
    <3>3. w[0] \in V
      BY <1>1, <2>2, <3>1, PosIs
    <3>4. \A k \in 0 .. n - 1 : w[k] \in V => w[k + 1] \in V
      <4> SUFFICES ASSUME NEW k \in 0 .. n - 1, w[k] \in V PROVE w[k + 1] \in V
        OBVIOUS
      <4>1. PICK x : x = w[k] /\ Good(x) /\ x.text = e.text /\ Pos(x) < pos
        OBVIOUS
      <4>2. Pos(MoveStep(x, pos)) < pos
        BY <2>2, <4>1, MoveStepShort
      <4>3. k + 1 \in 0 .. n
        OBVIOUS
      <4> QED BY <3>1, <3>2, <4>1, <4>2, <4>3
    <3>5. w[n] \in V
      <4> HIDE DEF V
      <4>1. \A k \in 0 .. n : w[k] \in V
        BY <3>3, <3>4, StepsStay
      <4> QED BY <4>1
    <3> QED BY <1>1, <2>1, <3>5
  <2>3. Landing(e.text, Pos(e), pos) = pos
    BY <2>2 DEF Landing
  <2> QED BY <1>3, <2>1, <2>3
<1> QED BY <1>7, <1>8

-----------------------------------------------------------------------------
(* Commands that move the cursor.                                          *)

\* An editor that is viewed, by parts.
LEMMA ViewedIs ==
  ASSUME NEW e, Viewed(e)
  PROVE  /\ Lined(e) /\ e \in Editors /\ e.text \in Seq(Char) /\ e.line \in Nat /\ e.linepos \in 0 .. Len(e.text)
         /\ IsLine(e.text, e.linepos) /\ Clear(e.text, e.linepos) /\ e.line = Count(e.text, e.linepos)
         /\ IsLine(e.text, e.toppos) /\ e.topline = Count(e.text, e.toppos)
         /\ e.toppos \in 0 .. e.linepos /\ e.topline \in Nat
         /\ e.topline < e.line => e.toppos < e.linepos
         /\ e.topline = e.line <=> e.toppos = e.linepos
         /\ e.topline <= e.line /\ e.line < e.topline + Lines
         /\ Lines \in Nat /\ Lines > 0
         /\ AtFirstLine(e) <=> e.linepos = 0
         /\ AtLastLine(e) <=> NextLine(e.text, e.linepos) = -1
<1>1. /\ Lined(e) /\ TopAt(e.text, e.toppos, e.topline) /\ e.topline <= e.line
      /\ e.line < e.topline + Lines
  BY DEF Viewed
<1>2. Lines \in Nat /\ Lines > 0
  BY EditorAssumption DEF EditorAssumption
<1>3. /\ e.text \in Seq(Char) /\ e.linepos \in 0 .. Len(e.text) /\ e.line \in Nat
      /\ IsLine(e.text, e.linepos) /\ Clear(e.text, e.linepos)
      /\ e.line = Count(e.text, e.linepos)
  BY <1>1, LineNumbers
<1>4. AtFirstLine(e) <=> e.linepos = 0
  BY <1>3, PrevIs DEF AtFirstLine
<1>5. AtLastLine(e) <=> NextLine(e.text, e.linepos) = -1
  <2>1. NextLine(e.text, e.linepos) = -1 \/ NextLine(e.text, e.linepos) \in e.linepos + 1 .. Len(e.text)
    BY <1>3, NextIs
  <2> QED BY <1>3, <2>1 DEF AtLastLine
<1>6. e \in Editors
  BY <1>1 DEF Lined
<1> QED BY <1>1, <1>2, <1>3, <1>4, <1>5, <1>6, TopIsAbove DEF TopAt

\* No line before the first.
LEMMA NoneBefore ==
  ASSUME NEW t \in Seq(Char)
  PROVE  IsLine(t, 0) /\ Clear(t, 0) /\ Count(t, 0) = 0 /\ CursorAt(t, 0, 0)
<1>1. Ends(t, 0, 0) = {}
  BY DEF Ends, Newlines
<1>2. Count(t, 0) = 0
  BY <1>1, EndsFinite, FS_EmptySet DEF Count
<1>3. IsLine(t, 0) /\ Clear(t, 0)
  BY DEF IsLine, Clear
<1>4. CursorAt(t, 0, 0)
  BY DEF CursorAt
<1> QED BY <1>2, <1>3, <1>4

\* A step up keeps the screen right after scrolling.
LEMMA UpView ==
  ASSUME NEW e, Viewed(e), e.linepos > 0
  PROVE  LET f == ScrollUp(LineAbove(e))
         IN  /\ Viewed(f) /\ SameText(e, f) /\ f.anchor = e.anchor /\ f.lastcol = e.lastcol
             /\ f.linepos = PrevLine(e.text, e.linepos) /\ f.line = e.line - 1
             /\ f.linepos = LineAbove(e).linepos
<1> DEFINE a == LineAbove(e)
<1>1. /\ SameText(e, a) /\ a.linepos = PrevLine(e.text, e.linepos) /\ a.line = e.line - 1
      /\ a.anchor = e.anchor /\ a.lastcol = e.lastcol /\ MaybeAbove(a)
  BY LineAboveLined, LineAboveMaybe DEF Viewed
<1> HIDE DEF a
<1>2. Viewed(ScrollUp(a)) /\ SameText(a, ScrollUp(a)) /\ SameCursor(a, ScrollUp(a))
  BY <1>1, ScrollUpView
<1>3. /\ Viewed(ScrollUp(a)) /\ SameText(e, ScrollUp(a)) /\ ScrollUp(a).anchor = e.anchor
      /\ ScrollUp(a).lastcol = e.lastcol
      /\ ScrollUp(a).linepos = PrevLine(e.text, e.linepos) /\ ScrollUp(a).line = e.line - 1
      /\ ScrollUp(a).linepos = a.linepos
  BY <1>1, <1>2 DEF SameText, SameCursor
<1> QED BY <1>3 DEF a

\* up scrolls when it leaves the screen.
LEMMA UpGood ==
  ASSUME NEW e, Good(e), NEW select \in BOOLEAN
  PROVE  Good(Up(e, select))
<1> DEFINE u == UpdateSelection(e, select)
<1>1. Good(u) /\ Viewed(u)
  BY UpdateSelectionGood, PosIs
<1>2. Up(e, select) = IF AtFirstLine(u) THEN u ELSE AdjustLayout(ScrollUp(LineAbove(u)))
  BY DEF Up
<1> HIDE DEF u
<1>3. CASE AtFirstLine(u)
  BY <1>1, <1>2, <1>3
<1>4. CASE ~ AtFirstLine(u)
  <2>1. u.linepos > 0
    BY <1>1, <1>4, ViewedIs
  <2>2. Viewed(ScrollUp(LineAbove(u)))
    BY <1>1, <2>1, UpView
  <2> QED BY <1>2, <1>4, <2>2, AdjustLayoutGood
<1> QED BY <1>3, <1>4

\* down scrolls when it leaves the screen.
LEMMA DownGood ==
  ASSUME NEW e, Good(e), NEW select \in BOOLEAN
  PROVE  Good(Down(e, select))
<1> DEFINE u == UpdateSelection(e, select)
<1>1. Good(u) /\ Viewed(u)
  BY UpdateSelectionGood, PosIs
<1>2. Down(e, select) = IF AtLastLine(u) THEN u ELSE AdjustLayout(LineBelow(u))
  BY DEF Down
<1> HIDE DEF u
<1>3. CASE AtLastLine(u)
  BY <1>1, <1>2, <1>3
<1>4. CASE ~ AtLastLine(u)
  <2>1. Viewed(LineBelow(u))
    BY <1>1, <1>4, ViewedIs, LineBelowView
  <2> QED BY <1>2, <1>4, <2>1, AdjustLayoutGood
<1> QED BY <1>3, <1>4

\* left and right.
LEMMA LeftGood ==
  ASSUME NEW e, Good(e), NEW select \in BOOLEAN
  PROVE  Good(Left(e, select))
<1> DEFINE u == UpdateSelection(e, select)
           above == LineAbove(u)
<1>1. Good(u) /\ Viewed(u) /\ u.col \in Nat /\ u.text \in Seq(Char)
  BY UpdateSelectionGood, PosIs
<1>2. Left(e, select) = IF u.col > 0 THEN Sideways(u, u.col - 1)
                        ELSE IF AtFirstLine(u) THEN u
                        ELSE Sideways(ScrollUp(above), LineLength(u.text, above.linepos))
  BY DEF Left
<1> HIDE DEF u
<1>3. CASE u.col > 0
  <2>1. u.col - 1 \in Nat
    BY <1>1, <1>3
  <2> QED BY <1>1, <1>2, <1>3, <2>1, SidewaysGood
<1>4. CASE ~ u.col > 0 /\ AtFirstLine(u)
  BY <1>1, <1>2, <1>4
<1>5. CASE ~ u.col > 0 /\ ~ AtFirstLine(u)
  <2>1. u.linepos > 0
    BY <1>1, <1>5, ViewedIs
  <2>2. /\ Viewed(ScrollUp(above)) /\ SameText(u, ScrollUp(above))
        /\ ScrollUp(above).linepos = above.linepos
    BY <1>1, <2>1, UpView
  <2>3. IsLine(u.text, above.linepos)
    <3>1. IsLine(ScrollUp(above).text, ScrollUp(above).linepos)
      BY <2>2, ViewedIs
    <3> QED BY <2>2, <3>1 DEF SameText
  <2>4. LineLength(u.text, above.linepos) \in Nat
    BY <1>1, <2>3, LengthIs
  <2> HIDE DEF above
  <2> QED BY <1>2, <1>5, <2>2, <2>4, SidewaysGood
<1> QED BY <1>3, <1>4, <1>5

\* right goes on to the next line.
LEMMA RightGood ==
  ASSUME NEW e, Good(e), NEW select \in BOOLEAN
  PROVE  Good(Right(e, select))
<1> DEFINE u == UpdateSelection(e, select)
<1>1. Good(u) /\ Viewed(u) /\ u.col \in Nat
  BY UpdateSelectionGood, PosIs
<1>2. Right(e, select) = IF u.col < LineLength(u.text, u.linepos) THEN Sideways(u, u.col + 1)
                         ELSE IF AtLastLine(u) THEN u
                         ELSE Sideways(LineBelow(u), 0)
  BY DEF Right
<1> HIDE DEF u
<1>3. CASE u.col < LineLength(u.text, u.linepos)
  <2>1. u.col + 1 \in Nat
    BY <1>1
  <2> QED BY <1>1, <1>2, <1>3, <2>1, SidewaysGood
<1>4. CASE ~ u.col < LineLength(u.text, u.linepos) /\ AtLastLine(u)
  BY <1>1, <1>2, <1>4
<1>5. CASE ~ u.col < LineLength(u.text, u.linepos) /\ ~ AtLastLine(u)
  <2>1. Viewed(LineBelow(u)) /\ 0 \in Nat
    BY <1>1, <1>5, ViewedIs, LineBelowView
  <2>2. Good(Sideways(LineBelow(u), 0))
    BY <2>1, SidewaysGood
  <2> QED BY <1>2, <1>5, <2>2
<1> QED BY <1>3, <1>4, <1>5

\* home and end.
LEMMA HomeGood ==
  ASSUME NEW e, Good(e), NEW select \in BOOLEAN
  PROVE  Good(Home(e, select)) /\ Good(End(e, select))
<1>1. Viewed(UpdateSelection(e, select)) /\ 0 \in Nat
  BY UpdateSelectionGood, PosIs
<1>2. LineLength(e.text, e.linepos) \in Nat
  <2>1. Viewed(e)
    BY PosIs
  <2> QED BY <2>1, ViewedIs, LengthIs
<1>3. Good(Sideways(UpdateSelection(e, select), 0))
  BY <1>1, SidewaysGood
<1>4. Good(Sideways(UpdateSelection(e, select), LineLength(e.text, e.linepos)))
  BY <1>1, <1>2, SidewaysGood
<1> QED BY <1>3, <1>4 DEF Home, End

\* The first line, at the top of the screen.
LEMMA FirstLineView ==
  ASSUME NEW u, Viewed(u), NEW f, f \in Editors, SameText(u, f),
         f.linepos = 0, f.line = 0, f.toppos = 0, f.topline = 0
  PROVE  Viewed(f) /\ CursorAt(f.text, f.linepos, 0)
<1>1. /\ u.text \in Seq(Char) /\ Lines \in Nat /\ Lines > 0 /\ Recorded(u.text, u.recs, u.at)
      /\ f.text = u.text /\ f.recs = u.recs /\ f.at = u.at
  BY ViewedIs DEF Lined, SameText
<1>2. LineAt(f.text, f.linepos, f.line) /\ TopAt(f.text, f.toppos, f.topline)
      /\ CursorAt(f.text, f.linepos, 0)
  BY <1>1, NoneBefore DEF LineAt, TopAt
<1>3. Lined(f)
  BY <1>1, <1>2 DEF Lined
<1>4. f.topline <= f.line /\ f.line < f.topline + Lines
  BY <1>1
<1> QED BY <1>2, <1>3, <1>4 DEF Viewed

\* top.
LEMMA TopGood ==
  ASSUME NEW e, Good(e), NEW select \in BOOLEAN
  PROVE  Good(Top(e, select))
<1> DEFINE u == UpdateSelection(e, select)
           f == [u EXCEPT !.toppos = 0, !.topline = 0, !.margin = 0,
                          !.linepos = 0, !.line = 0, !.col = 0, !.lastcol = 0]
<1>1. Viewed(u) /\ u \in Editors
  BY UpdateSelectionGood, PosIs
<1>2. Top(e, select) = f
  BY DEF Top
<1> HIDE DEF u
<1>3. f \in Editors
  <2> DEFINE g == [u EXCEPT !.toppos = 0, !.topline = 0, !.margin = 0]
  <2>1. 0 \in Int /\ 0 \in Nat
    OBVIOUS
  <2>2. g \in Editors
    BY <1>1, <2>1 DEF Editors
  <2>3. f = [g EXCEPT !.linepos = 0, !.line = 0, !.col = 0, !.lastcol = 0]
    BY <1>1 DEF Editors
  <2> HIDE DEF f, g
  <2>4. [g EXCEPT !.linepos = 0, !.line = 0, !.col = 0, !.lastcol = 0] \in Editors
    BY <2>1, <2>2 DEF Editors
  <2> QED BY <2>3, <2>4
<1>4. /\ SameText(u, f) /\ f.linepos = 0 /\ f.line = 0 /\ f.toppos = 0 /\ f.topline = 0 /\ f.col = 0
  BY <1>1 DEF Editors, SameText
<1> HIDE DEF f
<1>5. Viewed(f) /\ CursorAt(f.text, f.linepos, 0)
  BY <1>1, <1>3, <1>4, FirstLineView
<1> QED BY <1>2, <1>4, <1>5 DEF Good

\* bottom: line after line.
LEMMA BottomGood ==
  ASSUME NEW e, Good(e), NEW select \in BOOLEAN
  PROVE  Good(Bottom(e, select))
<1> DEFINE v == UpdateSelection(e, select)
           F(x) == IF AtLastLine(x) THEN x ELSE LineBelow(x)
           n == Len(e.text)
           V == {x \in Editors : Viewed(x)}
           G == [x \in V |-> F(x)]
           Runs(w) == w = [k \in 0 .. n |-> IF k = 0 THEN v ELSE F(w[k - 1])]
           u == CHOOSE w : Runs(w)
<1>1. Viewed(v) /\ v \in Editors /\ n \in Nat
  BY UpdateSelectionGood, PosIs
<1>2. Bottom(e, select) = Sideways(u[n], LineLength(u[n].text, u[n].linepos))
  BY DEF Bottom, Iterate
<1> HIDE DEF v, u, n
<1>3. v \in V
  BY <1>1
<1>4. ASSUME NEW x \in V PROVE F(x) \in V
  <2>1. Viewed(x)
    OBVIOUS
  <2>2. CASE AtLastLine(x)
    BY <2>2
  <2>3. CASE ~ AtLastLine(x)
    <3>1. Viewed(LineBelow(x))
      BY <2>1, <2>3, ViewedIs, LineBelowView
    <3>2. LineBelow(x) \in Editors
      BY <3>1, ViewedIs
    <3> QED BY <2>3, <3>1, <3>2
  <2> QED BY <2>2, <2>3
<1>5. Runs(u)
  <2>1. G \in [V -> V]
    <3> HIDE DEF V, F
    <3> QED BY <1>4
  <2>2. PICK w \in [0 .. n -> V] : w = [k \in 0 .. n |-> IF k = 0 THEN v ELSE G[w[k - 1]]]
    <3> HIDE DEF V, G
    <3> QED BY <1>1, <1>3, <2>1, StepsAre
  <2>3. \A k \in 0 .. n : k # 0 => w[k - 1] \in V
    <3> HIDE DEF V
    <3> QED BY <1>1
  <2>4. Runs(w)
    <3> HIDE DEF V, F
    <3>1. \A k \in 0 .. n : (IF k = 0 THEN v ELSE G[w[k - 1]]) = (IF k = 0 THEN v ELSE F(w[k - 1]))
      BY <2>3
    <3> HIDE DEF G
    <3> QED BY <2>2, <3>1
  <2> HIDE DEF Runs
  <2> QED BY <2>4 DEF u
<1>6. u[0] = v /\ \A k \in 0 .. n - 1 : u[k + 1] = F(u[k])
  <2> HIDE DEF F
  <2>1. \A k \in 0 .. n - 1 : k + 1 \in 0 .. n /\ k + 1 # 0 /\ (k + 1) - 1 = k
    BY <1>1
  <2>2. 0 \in 0 .. n
    BY <1>1
  <2> QED BY <1>5, <2>1, <2>2
<1>7. \A k \in 0 .. n : u[k] \in V
  <2>1. \A k \in 0 .. n - 1 : u[k] \in V => u[k + 1] \in V
    <3> HIDE DEF V, F
    <3> QED BY <1>4, <1>6
  <2> HIDE DEF V, F
  <2> QED BY <1>1, <1>3, <1>6, <2>1, StepsStay
<1>8. Viewed(u[n])
  <2>1. n \in 0 .. n
    BY <1>1
  <2> QED BY <1>7, <2>1
<1>9. LineLength(u[n].text, u[n].linepos) \in Nat
  BY <1>8, ViewedIs, LengthIs
<1> QED BY <1>2, <1>8, <1>9, SidewaysGood

\* A line up, with the screen.
PageUpStep(f) ==
  IF AtFirstLine(f) THEN f
  ELSE IF f.topline > 0
  THEN [LineAbove(f) EXCEPT !.toppos = PrevLine(f.text, @), !.topline = @ - 1]
  ELSE LineAbove(f)

\* The cursor's line stays on the screen.
LEMMA PageUpStepView ==
  ASSUME NEW e, Viewed(e)
  PROVE  Viewed(PageUpStep(e))
<1>1. CASE AtFirstLine(e)
  BY <1>1 DEF PageUpStep
<1>2. CASE ~ AtFirstLine(e)
  <2> DEFINE a == LineAbove(e)
  <2>1. /\ e.linepos > 0 /\ e.text \in Seq(Char) /\ e.topline \in Nat /\ e.line \in Nat
        /\ e.topline <= e.line /\ e.line < e.topline + Lines /\ Lines \in Nat
        /\ IsLine(e.text, e.toppos) /\ e.topline = Count(e.text, e.toppos) /\ e.toppos \in Nat
    BY <1>2, ViewedIs
  <2>2. /\ Lined(a) /\ SameText(e, a) /\ a.line = e.line - 1 /\ e.line >= 1
        /\ a.toppos = e.toppos /\ a.topline = e.topline
    BY <2>1, LineAboveLined, ViewedIs
  <2>3. CASE e.topline > 0
    <3> DEFINE f == [a EXCEPT !.toppos = PrevLine(e.text, e.toppos), !.topline = e.topline - 1]
    <3>1. PageUpStep(e) = f
      <4>1. PageUpStep(e) = [a EXCEPT !.toppos = PrevLine(e.text, a.toppos), !.topline = a.topline - 1]
        BY <1>2, <2>3 DEF PageUpStep
      <4> HIDE DEF a
      <4> QED BY <2>2, <4>1
    <3> HIDE DEF a
    <3>2. e.toppos > 0
      BY <2>1, <2>3, NoneBefore
    <3>3. PICK p \in Int : p = PrevLine(e.text, e.toppos) /\ TopAt(e.text, p, e.topline - 1)
      <4>1. /\ InLine(e.text, PrevLine(e.text, e.toppos), e.toppos - 1)
            /\ Count(e.text, e.toppos) = Count(e.text, PrevLine(e.text, e.toppos)) + 1
        BY <2>1, <3>2, PrevIs
      <4>2. IsLine(e.text, PrevLine(e.text, e.toppos)) /\ PrevLine(e.text, e.toppos) \in Int
        BY <4>1 DEF InLine, IsLine
      <4>3. Count(e.text, PrevLine(e.text, e.toppos)) \in Nat
        BY <2>1, <4>2, LinesInOrder
      <4>4. Count(e.text, PrevLine(e.text, e.toppos)) = e.topline - 1
        BY <2>1, <4>1, <4>3
      <4> QED BY <4>2, <4>4 DEF TopAt
    <3>4. /\ f \in Editors /\ f.text = a.text /\ f.recs = a.recs /\ f.at = a.at
          /\ f.linepos = a.linepos /\ f.line = a.line
          /\ f.toppos = p /\ f.topline = e.topline - 1
      <4>1. a \in Editors /\ e.topline - 1 \in Int
        BY <2>1, <2>2 DEF Lined
      <4> QED BY <3>3, <4>1 DEF Editors
    <3> HIDE DEF f
    <3>5. Lined(f)
      BY <2>2, <3>4 DEF Lined
    <3>6. f.topline <= f.line /\ f.line < f.topline + Lines
      BY <2>1, <2>2, <2>3, <3>4
    <3>7. TopAt(f.text, f.toppos, f.topline)
      BY <2>2, <3>3, <3>4 DEF SameText
    <3> QED BY <3>1, <3>5, <3>6, <3>7 DEF Viewed
  <2>4. CASE ~ e.topline > 0
    <3>1. PageUpStep(e) = a
      BY <1>2, <2>4 DEF PageUpStep
    <3> HIDE DEF a
    <3>2. a.topline <= a.line /\ a.line < a.topline + Lines
      BY <2>1, <2>2, <2>4
    <3>3. TopAt(a.text, a.toppos, a.topline)
      BY <2>1, <2>2 DEF TopAt, SameText
    <3> QED BY <2>2, <3>1, <3>2, <3>3 DEF Viewed
  <2> QED BY <2>3, <2>4
<1> QED BY <1>1, <1>2

\* pageup.
LEMMA PageUpGood ==
  ASSUME NEW e, Good(e), NEW select \in BOOLEAN
  PROVE  Good(PageUp(e, select))
<1> DEFINE v == UpdateSelection(e, select)
           n == Lines
           V == {x \in Editors : Viewed(x)}
           G == [x \in V |-> PageUpStep(x)]
           Runs(w) == w = [k \in 0 .. n |-> IF k = 0 THEN v ELSE PageUpStep(w[k - 1])]
           u == CHOOSE w : Runs(w)
           f == [v EXCEPT !.linepos = 0, !.toppos = 0, !.line = 0, !.topline = 0]
<1>1. Viewed(v) /\ v \in Editors /\ n \in Nat /\ v.line \in Nat /\ v.line = Count(v.text, v.linepos)
  <2>1. Good(v) /\ Viewed(v)
    BY UpdateSelectionGood, PosIs
  <2> QED BY <2>1, ViewedIs
<1>2. PageUp(e, select) = IF v.line < n THEN AdjustLayout(f)
                          ELSE IF LinesBetween(v.text, 0, v.linepos) < n THEN u[n]
                          ELSE AdjustLayout(u[n])
  BY DEF PageUp, Iterate, PageUpStep
<1> HIDE DEF v, u, n
<1>3. v \in V
  BY <1>1
<1>4. ASSUME NEW x \in V PROVE PageUpStep(x) \in V
  <2>1. Viewed(x)
    OBVIOUS
  <2>2. Viewed(PageUpStep(x))
    BY <2>1, PageUpStepView
  <2>3. PageUpStep(x) \in Editors
    BY <2>2, ViewedIs
  <2> QED BY <2>2, <2>3
<1>5. Runs(u)
  <2>1. G \in [V -> V]
    <3> HIDE DEF V
    <3> QED BY <1>4
  <2>2. PICK w \in [0 .. n -> V] : w = [k \in 0 .. n |-> IF k = 0 THEN v ELSE G[w[k - 1]]]
    <3> HIDE DEF V, G
    <3>1. n \in Nat
      BY <1>1
    <3> QED BY <1>3, <2>1, <3>1, StepsAre
  <2>3. \A k \in 0 .. n : k # 0 => w[k - 1] \in V
    <3> HIDE DEF V
    <3> QED BY <1>1
  <2>4. Runs(w)
    <3> HIDE DEF V
    <3>1. \A k \in 0 .. n : (IF k = 0 THEN v ELSE G[w[k - 1]]) = (IF k = 0 THEN v ELSE PageUpStep(w[k - 1]))
      BY <2>3
    <3> HIDE DEF G
    <3> QED BY <2>2, <3>1
  <2> HIDE DEF Runs
  <2> QED BY <2>4 DEF u
<1>6. u[0] = v /\ \A k \in 0 .. n - 1 : u[k + 1] = PageUpStep(u[k])
  <2>1. \A k \in 0 .. n - 1 : k + 1 \in 0 .. n /\ k + 1 # 0 /\ (k + 1) - 1 = k
    BY <1>1
  <2>2. 0 \in 0 .. n
    BY <1>1
  <2> QED BY <1>5, <2>1, <2>2
<1>7. \A k \in 0 .. n : u[k] \in V
  <2>1. \A k \in 0 .. n - 1 : u[k] \in V => u[k + 1] \in V
    <3> HIDE DEF V
    <3> QED BY <1>4, <1>6
  <2> HIDE DEF V
  <2> QED BY <1>1, <1>3, <1>6, <2>1, StepsStay
<1>8. Viewed(u[n])
  <2>1. n \in 0 .. n
    BY <1>1
  <2> QED BY <1>7, <2>1
<1>9. CASE v.line < n
  <2>1. 0 \in Int /\ v \in Editors
    BY <1>1
  <2>2. f \in Editors
    BY <2>1 DEF Editors
  <2>3. SameText(v, f) /\ f.linepos = 0 /\ f.line = 0 /\ f.toppos = 0 /\ f.topline = 0
    BY <2>1 DEF Editors, SameText
  <2> HIDE DEF f
  <2>4. Viewed(f)
    BY <1>1, <2>2, <2>3, FirstLineView
  <2> QED BY <1>2, <1>9, <2>4, AdjustLayoutGood
<1>10. CASE ~ v.line < n
  <2>1. ~ LinesBetween(v.text, 0, v.linepos) < n
    BY <1>1, <1>10 DEF Count
  <2> QED BY <1>2, <1>8, <1>10, <2>1, AdjustLayoutGood
<1> QED BY <1>9, <1>10

\* A line down, with the screen.
PageDownStep(f) ==
  IF AtLastLine(f) THEN f
  ELSE [f EXCEPT !.linepos = NextLine(f.text, f.linepos), !.line = f.line + 1,
                 !.toppos = NextLine(f.text, f.toppos), !.topline = f.topline + 1]

\* Here too.
LEMMA PageDownStepView ==
  ASSUME NEW e, Viewed(e)
  PROVE  Viewed(PageDownStep(e))
<1>1. CASE AtLastLine(e)
  BY <1>1 DEF PageDownStep
<1>2. CASE ~ AtLastLine(e)
  <2>1. /\ e.linepos \in Nat /\ e.text \in Seq(Char) /\ e.topline \in Nat /\ e.line \in Nat
        /\ e.topline <= e.line /\ e.line < e.topline + Lines /\ Lines \in Nat
        /\ IsLine(e.text, e.toppos) /\ e.topline = Count(e.text, e.toppos) /\ e.toppos \in Nat
        /\ IsLine(e.text, e.linepos) /\ Clear(e.text, e.linepos) /\ e \in Editors
        /\ e.toppos <= e.linepos /\ NextLine(e.text, e.linepos) # -1
    BY <1>2, ViewedIs
  <2> DEFINE g == [e EXCEPT !.linepos = NextLine(e.text, e.linepos), !.line = e.line + 1]
  <2>2. Lined(g)
    BY <2>1, LineBelowView DEF MaybeBelow
  <2>3. PICK q \in Int : q = NextLine(e.text, e.linepos)
    <3>1. Len(e.text) \in Nat
      BY <2>1
    <3> QED BY <2>1, <3>1, NextIs
  <2>4. PICK p \in Int : p = NextLine(e.text, e.toppos) /\ p # -1
    <3>1. CASE e.toppos = e.linepos
      BY <2>1, <2>3, <3>1
    <3>2. CASE e.toppos # e.linepos
      <4>0. e.toppos < e.linepos
        BY <2>1, <3>2
      <4>1. NextLine(e.text, e.toppos) \in e.toppos + 1 .. e.linepos
        BY <2>1, <4>0, NextThere
      <4> QED BY <2>1, <4>1
    <3> QED BY <3>1, <3>2
  <2>5. TopAt(e.text, p, e.topline + 1)
    BY <2>1, <2>4, NextIs DEF TopAt
  <2> DEFINE f == [e EXCEPT !.linepos = q, !.line = e.line + 1, !.toppos = p, !.topline = e.topline + 1]
  <2>6. PageDownStep(e) = f
    BY <1>2, <2>3, <2>4 DEF PageDownStep
  <2>7. /\ f \in Editors /\ f.text = e.text /\ f.recs = e.recs /\ f.at = e.at
        /\ f.linepos = q /\ f.line = e.line + 1 /\ f.toppos = p /\ f.topline = e.topline + 1
        /\ g.text = e.text /\ g.recs = e.recs /\ g.at = e.at /\ g.linepos = q /\ g.line = e.line + 1
    <3>1. e.line + 1 \in Int /\ e.topline + 1 \in Int /\ q \in Int /\ p \in Int /\ e \in Editors
      BY <2>1
    <3>2. f \in Editors
      BY <3>1 DEF Editors
    <3> QED BY <2>3, <3>1, <3>2 DEF Editors
  <2> HIDE DEF f, g
  <2>8. Lined(f)
    BY <2>2, <2>7 DEF Lined
  <2>9. f.topline <= f.line /\ f.line < f.topline + Lines
    BY <2>1, <2>7
  <2>10. TopAt(f.text, f.toppos, f.topline)
    BY <2>5, <2>7
  <2> QED BY <2>6, <2>8, <2>9, <2>10 DEF Viewed
<1> QED BY <1>1, <1>2

\* pagedown.
LEMMA PageDownGood ==
  ASSUME NEW e, Good(e), NEW select \in BOOLEAN
  PROVE  Good(PageDown(e, select))
<1> DEFINE v == UpdateSelection(e, select)
           n == Lines
           V == {x \in Editors : Viewed(x)}
           G == [x \in V |-> PageDownStep(x)]
           Runs(w) == w = [k \in 0 .. n |-> IF k = 0 THEN v ELSE PageDownStep(w[k - 1])]
           u == CHOOSE w : Runs(w)
<1>1. Viewed(v) /\ v \in Editors /\ n \in Nat
  <2>1. Good(v) /\ Viewed(v)
    BY UpdateSelectionGood, PosIs
  <2> QED BY <2>1, ViewedIs
<1>2. PageDown(e, select) = AdjustLayout(u[n])
  BY DEF PageDown, Iterate, PageDownStep
<1> HIDE DEF v, u, n
<1>3. v \in V
  BY <1>1
<1>4. ASSUME NEW x \in V PROVE PageDownStep(x) \in V
  <2>1. Viewed(x)
    OBVIOUS
  <2>2. Viewed(PageDownStep(x))
    BY <2>1, PageDownStepView
  <2>3. PageDownStep(x) \in Editors
    BY <2>2, ViewedIs
  <2> QED BY <2>2, <2>3
<1>5. Runs(u)
  <2>1. G \in [V -> V]
    <3> HIDE DEF V
    <3> QED BY <1>4
  <2>2. PICK w \in [0 .. n -> V] : w = [k \in 0 .. n |-> IF k = 0 THEN v ELSE G[w[k - 1]]]
    <3> HIDE DEF V, G
    <3> QED BY <1>1, <1>3, <2>1, StepsAre
  <2>3. \A k \in 0 .. n : k # 0 => w[k - 1] \in V
    <3> HIDE DEF V
    <3> QED BY <1>1
  <2>4. Runs(w)
    <3> HIDE DEF V
    <3>1. \A k \in 0 .. n : (IF k = 0 THEN v ELSE G[w[k - 1]]) = (IF k = 0 THEN v ELSE PageDownStep(w[k - 1]))
      BY <2>3
    <3> HIDE DEF G
    <3> QED BY <2>2, <3>1
  <2> HIDE DEF Runs
  <2> QED BY <2>4 DEF u
<1>6. u[0] = v /\ \A k \in 0 .. n - 1 : u[k + 1] = PageDownStep(u[k])
  <2>1. \A k \in 0 .. n - 1 : k + 1 \in 0 .. n /\ k + 1 # 0 /\ (k + 1) - 1 = k
    BY <1>1
  <2>2. 0 \in 0 .. n
    BY <1>1
  <2> QED BY <1>5, <2>1, <2>2
<1>7. \A k \in 0 .. n : u[k] \in V
  <2>1. \A k \in 0 .. n - 1 : u[k] \in V => u[k + 1] \in V
    <3> HIDE DEF V
    <3> QED BY <1>4, <1>6
  <2> HIDE DEF V
  <2> QED BY <1>1, <1>3, <1>6, <2>1, StepsStay
<1>8. Viewed(u[n])
  <2>1. n \in 0 .. n
    BY <1>1
  <2> QED BY <1>7, <2>1
<1> QED BY <1>2, <1>8, AdjustLayoutGood

\* wordleft: the lines passed on the way are counted.
LEMMA WordLeftGood ==
  ASSUME NEW e, Good(e), NEW select \in BOOLEAN
  PROVE  Good(WordLeft(e, select))
<1> DEFINE u == UpdateSelection(e, select)
<1>1. /\ Good(u) /\ Viewed(u) /\ u.text \in Seq(Char) /\ Pos(u) \in 0 .. Len(u.text)
      /\ u.linepos <= Pos(u) /\ u.linepos \in 0 .. Len(u.text) /\ u.line \in Nat /\ u \in Editors
      /\ IsLine(u.text, u.linepos) /\ Clear(u.text, u.linepos) /\ u.line = Count(u.text, u.linepos)
      /\ u.line < u.topline + Lines /\ u.topline \in Nat /\ u.topline <= u.line /\ Lines \in Nat
      /\ Recorded(u.text, u.recs, u.at) /\ TopAt(u.text, u.toppos, u.topline) /\ Len(u.text) \in Nat
  <2>1. Good(u) /\ Viewed(u)
    BY UpdateSelectionGood, PosIs
  <2>2. TopAt(u.text, u.toppos, u.topline) /\ Recorded(u.text, u.recs, u.at)
    BY <2>1 DEF Viewed, Lined
  <2> QED BY <2>1, <2>2, PosIs, ViewedIs
<1> DEFINE p == WordBefore(u.text, Pos(u))
           start == IF p < u.linepos THEN LineStart(u.text, p) ELSE u.linepos
           f == [u EXCEPT !.linepos = start, !.line = u.line - LinesBetween(u.text, start, u.linepos)]
<1>2. WordLeft(e, select) = Sideways(ScrollUp(f), p - start)
  BY DEF WordLeft
<1> HIDE DEF u
<1>3. p \in 0 .. Len(u.text)
  <2> DEFINE S == {0} \cup {q \in 1 .. Pos(u) - 1 : IsAlnum(u.text, q) /\ ~ IsAlnum(u.text, q - 1)}
  <2>1. p = Max(S)
    BY DEF WordBefore
  <2>2. S \in SUBSET (0 .. Len(u.text)) /\ S # {} /\ Len(u.text) \in Nat
    BY <1>1
  <2> HIDE DEF S
  <2>3. Max(S) \in S
    BY <2>2, MaxIs
  <2> QED BY <2>1, <2>2, <2>3
<1> HIDE DEF p
<1>4. /\ IsLine(u.text, start) /\ start <= p /\ start \in 0 .. u.linepos
  <2>1. CASE p < u.linepos
    <3>1. InLine(u.text, LineStart(u.text, p), p)
      BY <1>1, <1>3, LineStartIs
    <3> QED BY <1>1, <1>3, <2>1, <3>1 DEF InLine, IsLine
  <2>2. CASE ~ p < u.linepos
    BY <1>1, <1>3, <2>2
  <2> QED BY <2>1, <2>2
<1> HIDE DEF start
<1>5. /\ LinesBetween(u.text, start, u.linepos) \in Nat
      /\ u.line - LinesBetween(u.text, start, u.linepos) = Count(u.text, start)
      /\ Count(u.text, start) \in Nat /\ Count(u.text, start) <= u.line
  <2>1. start \in 0 .. Len(u.text) /\ u.linepos \in start .. Len(u.text)
    BY <1>1, <1>4
  <2>2. /\ Count(u.text, start) \in Nat /\ LinesBetween(u.text, start, u.linepos) \in Nat
        /\ Count(u.text, u.linepos) = Count(u.text, start) + LinesBetween(u.text, start, u.linepos)
    BY <1>1, <2>1, CountOn
  <2> QED BY <1>1, <2>2
<1>6. Clear(u.text, start)
  BY <1>1, <1>4 DEF Clear
<1>7. /\ f \in Editors /\ f.text = u.text /\ f.recs = u.recs /\ f.at = u.at /\ f.linepos = start
      /\ f.line = Count(u.text, start) /\ f.toppos = u.toppos /\ f.topline = u.topline
  <2>1. start \in Int /\ u.line - LinesBetween(u.text, start, u.linepos) \in Int /\ u \in Editors
    BY <1>1, <1>4, <1>5
  <2>2. f \in Editors
    BY <2>1 DEF Editors
  <2>3. /\ f.text = u.text /\ f.recs = u.recs /\ f.at = u.at /\ f.linepos = start
        /\ f.line = u.line - LinesBetween(u.text, start, u.linepos)
        /\ f.toppos = u.toppos /\ f.topline = u.topline
    BY <2>1 DEF Editors
  <2> QED BY <1>5, <2>2, <2>3
<1> HIDE DEF f
<1>8. MaybeAbove(f)
  <2>1. Lined(f)
    BY <1>1, <1>4, <1>6, <1>7 DEF Lined, LineAt
  <2>2. f.line < f.topline + Lines
    BY <1>1, <1>5, <1>7
  <2> QED BY <1>1, <1>7, <2>1, <2>2 DEF MaybeAbove
<1>9. p - start \in Nat
  BY <1>3, <1>4
<1> QED BY <1>2, <1>8, <1>9, ScrollUpView, SidewaysGood

-----------------------------------------------------------------------------
(* Commands that edit.                                                     *)

\* The anchor set or taken away.
LEMMA AnchorGood ==
  ASSUME NEW e, Good(e), NEW a \in Nat \cup {-1}
  PROVE  LET f == [e EXCEPT !.anchor = a]
         IN  /\ Good(f) /\ SameText(e, f) /\ f.anchor = a /\ Pos(f) = Pos(e)
             /\ f.lastcol = e.lastcol
<1> DEFINE f == [e EXCEPT !.anchor = a]
<1>1. e \in Editors /\ Viewed(e) /\ CursorAt(e.text, e.linepos, e.col)
  BY PosIs DEF Good
<1>2. f \in Editors
  BY <1>1 DEF Editors
<1>3. /\ SameText(e, f) /\ f.linepos = e.linepos /\ f.line = e.line /\ f.col = e.col
      /\ f.toppos = e.toppos /\ f.topline = e.topline /\ f.anchor = a /\ f.lastcol = e.lastcol
  BY <1>1 DEF Editors, SameText
<1> HIDE DEF f
<1>4. Viewed(f)
  BY <1>1, <1>2, <1>3, SameView
<1>5. CursorAt(f.text, f.linepos, f.col) /\ Pos(f) = Pos(e)
  BY <1>1, <1>3 DEF SameText, Pos
<1> QED BY <1>3, <1>4, <1>5 DEF Good, f

\* An edit from the cursor on, or one outside the text.
LEMMA ReplaceGood ==
  ASSUME NEW e, Good(e), NEW pos \in Nat, Pos(e) <= pos, NEW len \in Nat, NEW buf \in Seq(Char)
  PROVE  LET f == ReplaceEd(e, pos, len, buf)
         IN  /\ Good(f) /\ f.linepos = e.linepos /\ f.col = e.col /\ f.anchor = e.anchor
             /\ pos + len <= Len(e.text) => Replaced(e, f, pos, len, buf)
<1>1. /\ e \in Editors /\ Viewed(e) /\ Recorded(e.text, e.recs, e.at) /\ e.linepos <= pos
      /\ Len(e.text) \in Nat
  <2>1. /\ Viewed(e) /\ e \in Editors /\ e.text \in Seq(Char) /\ e.linepos \in Nat /\ Pos(e) \in Nat
        /\ e.linepos <= Pos(e)
    BY PosIs
  <2> QED BY <2>1 DEF Viewed, Lined
<1> DEFINE f == ReplaceEd(e, pos, len, buf)
<1>2. CASE pos + len <= Len(e.text)
  <2>1. Replaced(e, f, pos, len, buf)
    BY <1>1, <1>2, ReplaceEdIs
  <2> HIDE DEF f
  <2>2. Good(f)
    BY <1>1, <2>1, ReplacedView
  <2>3. SameScreen(e, f)
    BY <2>1 DEF Replaced
  <2> QED BY <2>1, <2>2, <2>3 DEF SameScreen, f
<1>3. CASE pos + len > Len(e.text)
  <2>1. f = Undefined(e)
    BY <1>3 DEF ReplaceEd
  <2> HIDE DEF f
  <2>2. ~ pos + len <= Len(e.text)
    BY <1>1, <1>3
  <2> QED BY <2>1, <2>2, UndefinedGood DEF f
<1> QED BY <1>1, <1>2, <1>3

\* What is selected begins in the text, at the cursor or before it.
LEMMA SelectionIs ==
  ASSUME NEW e, Good(e), HasSelection(e)
  PROVE  /\ SelStart(e) \in 0 .. Pos(e) /\ SelEnd(e) - SelStart(e) \in Nat
         /\ SelStart(e) + (SelEnd(e) - SelStart(e)) = SelEnd(e) /\ SelEnd(e) \in Nat
         /\ SelStart(e) < SelEnd(e) /\ SelStart(e) <= Len(e.text)
         /\ Stray(e) <=> SelEnd(e) > Len(e.text)
<1>1. PICK p \in Nat : p = Pos(e) /\ p <= Len(e.text)
  BY PosIs
<1>2. PICK a \in Nat : a = e.anchor /\ a # p
  <2>1. e.anchor \in Nat \cup {-1} /\ e.anchor # -1 /\ e.anchor # p
    BY <1>1, PosIs DEF Editors, HasSelection
  <2> QED BY <2>1
<1>3. SelStart(e) = (IF p < a THEN p ELSE a) /\ SelEnd(e) = (IF p < a THEN a ELSE p)
  BY <1>1, <1>2 DEF SelStart, SelEnd
<1>4. PICK l \in Nat : l = Len(e.text)
  BY PosIs
<1>5. PICK x \in Nat, y \in Nat : x = SelStart(e) /\ y = SelEnd(e) /\ x <= p /\ x < y
  <2>1. CASE p < a
    BY <1>3, <2>1
  <2>2. CASE ~ p < a
    BY <1>2, <1>3, <2>2
  <2> QED BY <2>1, <2>2
<1>6. Stray(e) <=> y > l
  BY <1>4, <1>5 DEF Stray
<1>7. x \in 0 .. p /\ y - x \in Nat /\ x + (y - x) = y /\ x <= l
  BY <1>1, <1>4, <1>5
<1> QED BY <1>1, <1>4, <1>5, <1>6, <1>7

\* erase_selection goes to the start of the selection first.
LEMMA EraseSelectionGood ==
  ASSUME NEW e, Good(e)
  PROVE  Good(EraseSelection(e))
<1>1. CASE ~ HasSelection(e)
  BY <1>1 DEF EraseSelection
<1>2. CASE HasSelection(e)
  <2>1. PICK s \in Nat, len \in Nat : /\ s = SelStart(e) /\ len = SelEnd(e) - SelStart(e)
                                      /\ s <= Pos(e)
    <3>1. SelStart(e) \in 0 .. Pos(e) /\ SelEnd(e) - SelStart(e) \in Nat
      BY <1>2, SelectionIs
    <3> QED BY <3>1
  <2> DEFINE m == Moveto(e, s, FALSE)
             r == ReplaceEd(m, s, len, <<>>)
  <2>2. Good(m) /\ Pos(m) <= s
    <3>1. Good(m) /\ Pos(m) = s
      BY <2>1, MovetoGood
    <3> HIDE DEF m
    <3> QED BY <3>1
  <2>3. EraseSelection(e) = [r EXCEPT !.anchor = -1]
    BY <1>2, <2>1 DEF EraseSelection
  <2> HIDE DEF m
  <2>4. <<>> \in Seq(Char)
    OBVIOUS
  <2>5. Good(r)
    BY <2>2, <2>4, ReplaceGood
  <2> HIDE DEF r
  <2> QED BY <2>3, <2>5, AnchorGood
<1> QED BY <1>1, <1>2

\* An insert at the cursor.
LEMMA InsertAtGood ==
  ASSUME NEW e, Good(e), NEW buf \in Seq(Char)
  PROVE  LET f == InsertAt(e, buf)
         IN  /\ Good(f) /\ Replaced(e, f, Pos(e), 0, buf)
             /\ f.linepos = e.linepos /\ f.col = e.col /\ f.anchor = e.anchor
<1>1. PICK p \in Nat : p = Pos(e) /\ p + 0 <= Len(e.text) /\ Pos(e) <= p /\ 0 \in Nat
  BY PosIs
<1>2. InsertAt(e, buf) = ReplaceEd(e, p, 0, buf)
  BY <1>1 DEF InsertAt
<1> QED BY <1>1, <1>2, ReplaceGood

\* insert_char.
LEMMA InsertCharGood ==
  ASSUME NEW e, Good(e), NEW ch \in Char
  PROVE  Good(InsertChar(e, ch))
<1> DEFINE i == InsertAt(EraseSelection(e), <<ch>>)
<1>1. Good(i)
  <2>1. <<ch>> \in Seq(Char)
    OBVIOUS
  <2> QED BY <2>1, EraseSelectionGood, InsertAtGood
<1>2. InsertChar(e, ch) = Sideways(i, i.col + 1)
  BY DEF InsertChar
<1> HIDE DEF i
<1>3. Viewed(i) /\ i.col + 1 \in Nat
  BY <1>1, PosIs
<1> QED BY <1>2, <1>3, SidewaysGood

\* del, and a selection erased instead.
LEMMA DelGood ==
  ASSUME NEW e, Good(e)
  PROVE  Good(Del(e))
<1>1. CASE HasSelection(e)
  BY <1>1, EraseSelectionGood DEF Del
<1>2. CASE ~ HasSelection(e)
  <2>1. PICK p \in Nat : p = Pos(e)
    BY PosIs
  <2>2. Good(ReplaceEd(e, p, 1, <<>>))
    <3>1. <<>> \in Seq(Char) /\ 1 \in Nat /\ Pos(e) <= p
      BY <2>1
    <3> QED BY <3>1, ReplaceGood
  <2> QED BY <1>2, <2>1, <2>2 DEF Del
<1> QED BY <1>1, <1>2

\* select_all.
LEMMA SelectAllGood ==
  ASSUME NEW e, Good(e)
  PROVE  Good(SelectAll(e))
<1>1. 0 \in Nat \cup {-1} /\ Len(e.text) \in Nat
  BY PosIs
<1>2. Good([e EXCEPT !.anchor = 0])
  BY <1>1, AnchorGood
<1> QED BY <1>1, <1>2, MovetoGood DEF SelectAll

\* paste.
LEMMA PasteGood ==
  ASSUME NEW e, Good(e), NEW c \in Seq(Char)
  PROVE  Good(Paste(e, c))
<1> DEFINE p == InsertAt(EraseSelection(e), c)
<1>1. Good(p)
  BY EraseSelectionGood, InsertAtGood
<1>2. Paste(e, c) = Moveto(p, Pos(p) + Len(c), FALSE)
  BY DEF Paste
<1> HIDE DEF p
<1>3. Pos(p) + Len(c) \in Nat
  <2>1. Pos(p) \in Nat
    BY <1>1, PosIs
  <2> QED BY <2>1
<1> QED BY <1>1, <1>2, <1>3, MovetoGood

\* What strstr finds is behind the cursor.
LEMMA FoundIs ==
  ASSUME NEW e, Good(e), NEW search \in Seq(Char), Found(e, search) # {}
  PROVE  /\ Min(Found(e, search)) \in Nat /\ Min(Found(e, search)) + Len(search) \in Nat
         /\ Min(Found(e, search)) \in Found(e, search)
<1>1. Pos(e) \in Nat /\ Len(e.text) \in Nat
  BY PosIs
<1>2. Found(e, search) \in SUBSET Nat
  BY <1>1 DEF Found
<1>3. Min(Found(e, search)) \in Found(e, search)
  BY <1>2, MinIs
<1>4. PICK p \in Nat : p = Min(Found(e, search))
  BY <1>2, <1>3
<1> QED BY <1>3, <1>4

\* find_text.
LEMMA FindTextGood ==
  ASSUME NEW e, Good(e), NEW search \in Seq(Char)
  PROVE  Good(FindText(e, search))
<1>0. ~ Pos(e) > Len(e.text)
  BY PosIs
<1>1. CASE search = <<>> \/ Found(e, search) = {}
  BY <1>0, <1>1 DEF FindText
<1>2. CASE ~ (search = <<>> \/ Found(e, search) = {})
  <2>1. PICK p \in Nat : p = Min(Found(e, search)) /\ p + Len(search) \in Nat
    BY <1>2, FoundIs
  <2>2. Good([e EXCEPT !.anchor = p])
    BY AnchorGood
  <2>3. FindText(e, search) = Moveto([e EXCEPT !.anchor = p], p + Len(search), TRUE)
    BY <1>0, <1>2, <2>1 DEF FindText
  <2> QED BY <2>1, <2>2, <2>3, MovetoGood
<1> QED BY <1>1, <1>2

\* goto_line.
LEMMA GotoLineGood ==
  ASSUME NEW e, Good(e), NEW lineno \in Nat
  PROVE  Good(GotoLine(e, lineno))
<1> DEFINE n == lineno - 1
           V == 0 .. Len(e.text) \cup {-1}
           F(x) == IF x < 0 THEN x ELSE NextLine(e.text, x)
           G == [x \in V |-> F(x)]
           Runs(w) == w = [k \in 0 .. n |-> IF k = 0 THEN 0 ELSE F(w[k - 1])]
           u == CHOOSE w : Runs(w)
           p == IF lineno > 0 THEN u[n] ELSE -1
           g == [e EXCEPT !.anchor = -1]
<1>1. GotoLine(e, lineno) = IF p < 0 THEN g ELSE Moveto(g, p, TRUE)
  BY DEF GotoLine, Iterate
<1> HIDE DEF u
<1>2. Good(g)
  BY AnchorGood
<1> HIDE DEF g
<1>3. e.text \in Seq(Char) /\ Len(e.text) \in Nat
  BY PosIs
<1>4. ASSUME NEW x \in V PROVE F(x) \in V
  <2>1. CASE x < 0
    BY <2>1
  <2>2. CASE ~ x < 0
    <3>1. x \in 0 .. Len(e.text)
      BY <1>3, <2>2
    <3>2. PICK s \in x .. Len(e.text) : s = StopFrom(e.text, x)
      BY <1>3, <3>1, StopIs
    <3>3. NextLine(e.text, x) = (IF s \in Newlines(e.text) THEN s + 1 ELSE -1)
      BY <3>2 DEF NextLine
    <3>4. s \in Newlines(e.text) => s + 1 \in 0 .. Len(e.text)
      BY <1>3, <3>1, <3>2 DEF Newlines
    <3> QED BY <2>2, <3>3, <3>4
  <2> QED BY <2>1, <2>2
<1>5. lineno > 0 => u[n] \in V
  <2> SUFFICES ASSUME lineno > 0 PROVE u[n] \in V
    OBVIOUS
  <2>1. n \in Nat
    OBVIOUS
  <2> HIDE DEF n
  <2>2. 0 \in V
    BY <1>3
  <2>3. Runs(u)
    <3>1. G \in [V -> V]
      <4> HIDE DEF V, F
      <4> QED BY <1>4
    <3>2. PICK w \in [0 .. n -> V] : w = [k \in 0 .. n |-> IF k = 0 THEN 0 ELSE G[w[k - 1]]]
      <4> HIDE DEF V, G
      <4>1. \A v \in V : \E w \in [0 .. n -> V] : w = [k \in 0 .. n |-> IF k = 0 THEN v ELSE G[w[k - 1]]]
        BY <2>1, <3>1, StepsAre
      <4> QED BY <2>2, <4>1, Zenon
    <3>3. \A k \in 0 .. n : k # 0 => w[k - 1] \in V
      <4> HIDE DEF V
      <4> QED BY <2>1
    <3>4. Runs(w)
      <4> HIDE DEF V, F
      <4>1. \A k \in 0 .. n : (IF k = 0 THEN 0 ELSE G[w[k - 1]]) = (IF k = 0 THEN 0 ELSE F(w[k - 1]))
        BY <3>3
      <4> HIDE DEF G
      <4> QED BY <3>2, <4>1
    <3> HIDE DEF Runs
    <3> QED BY <3>4 DEF u
  <2>4. u[0] = 0 /\ \A k \in 0 .. n - 1 : u[k + 1] = F(u[k])
    <3> HIDE DEF F
    <3>1. \A k \in 0 .. n - 1 : k + 1 \in 0 .. n /\ k + 1 # 0 /\ (k + 1) - 1 = k
      BY <2>1
    <3>2. 0 \in 0 .. n
      BY <2>1
    <3> QED BY <2>3, <3>1, <3>2
  <2>5. \A k \in 0 .. n : u[k] \in V
    <3>1. \A k \in 0 .. n - 1 : u[k] \in V => u[k + 1] \in V
      <4> HIDE DEF V, F
      <4> QED BY <1>4, <2>4
    <3> HIDE DEF V, F
    <3> QED BY <2>1, <2>2, <2>4, <3>1, StepsStay
  <2>6. n \in 0 .. n
    BY <2>1
  <2> QED BY <2>5, <2>6
<1>6. CASE p < 0
  BY <1>1, <1>2, <1>6
<1>7. CASE ~ p < 0
  <2>1. lineno > 0 /\ u[n] \in V
    BY <1>5, <1>7
  <2>2. p \in Nat
    BY <1>3, <1>7, <2>1
  <2>3. Good(Moveto(g, p, TRUE))
    <3> HIDE DEF p
    <3> QED BY <1>2, <2>2, MovetoGood
  <2> QED BY <1>1, <1>7, <2>3
<1> QED BY <1>6, <1>7

\* An edit behind the start of a line below the screen.
LEMMA ReplacedBelow ==
  ASSUME NEW e, MaybeBelow(e), NEW f, NEW pos \in Nat, NEW len, NEW buf,
         Replaced(e, f, pos, len, buf), e.linepos <= pos
  PROVE  MaybeBelow(f)
<1>1. /\ f \in Editors /\ SameScreen(e, f) /\ SpliceIs(f.text, e.text, pos, len, buf)
      /\ Recorded(f.text, f.recs, f.at) /\ Agree(e.text, f.text, pos) /\ f.text \in Seq(Char)
  BY DEF Replaced, SpliceIs
<1>2. /\ Lined(e) /\ TopAt(e.text, e.toppos, e.topline) /\ e.topline < e.line
      /\ e.line <= e.topline + Lines
  BY DEF MaybeBelow
<1>3. /\ e.text \in Seq(Char) /\ e.linepos \in 0 .. pos /\ e.toppos \in 0 .. pos
  <2>1. e.text \in Seq(Char) /\ e.linepos \in Nat /\ e.line \in Nat
    BY <1>2, LineNumbers
  <2>2. e.topline <= e.line
    <3>1. e.topline \in Int
      BY <1>2 DEF Lined, Editors
    <3> QED BY <1>2, <2>1, <3>1
  <2>3. e.toppos \in 0 .. e.linepos
    BY <1>2, <2>2, TopIsAbove
  <2> QED BY <2>1, <2>3
<1>4. /\ IsLine(e.text, e.linepos) <=> IsLine(f.text, e.linepos)
      /\ Count(e.text, e.linepos) = Count(f.text, e.linepos)
      /\ Clear(e.text, e.linepos) <=> Clear(f.text, e.linepos)
      /\ IsLine(e.text, e.toppos) <=> IsLine(f.text, e.toppos)
      /\ Count(e.text, e.toppos) = Count(f.text, e.toppos)
  BY <1>1, <1>3, AgreeSame
<1>5. LineAt(f.text, f.linepos, f.line) /\ TopAt(f.text, f.toppos, f.topline)
  BY <1>1, <1>2, <1>4 DEF Lined, LineAt, TopAt, SameScreen
<1> QED BY <1>1, <1>2, <1>5 DEF MaybeBelow, Lined, SameScreen

\* newline, and the blanks it copies from the line before.
LEMMA NewlineGood ==
  ASSUME NEW e, Good(e)
  PROVE  Good(Newline(e))
<1> DEFINE x == EraseSelection(e)
           i == InsertAt(x, <<NL>>)
<1>1. NL \in Char /\ <<NL>> \in Seq(Char)
  BY EditorAssumption DEF EditorAssumption
<1>2. Good(x)
  BY EraseSelectionGood
<1> HIDE DEF x
<1>3. /\ Good(i) /\ Replaced(x, i, Pos(x), 0, <<NL>>)
      /\ i.linepos = x.linepos /\ i.col = x.col
  BY <1>1, <1>2, InsertAtGood
<1>4. PICK p \in Nat : p = Pos(x) /\ p = Pos(i)
  BY <1>2, <1>3, PosIs DEF Pos
<1>5. /\ i.text \in Seq(Char) /\ i.text[p + 1] = NL /\ p + 1 <= Len(i.text) /\ Len(i.text) \in Nat
  <2>1. SpliceIs(i.text, x.text, p, 0, <<NL>>)
    BY <1>3, <1>4 DEF Replaced
  <2>2. Len(x.text) \in Nat /\ p <= Len(x.text) /\ Len(<<NL>>) = 1 /\ 1 \in 1 .. 1 /\ <<NL>>[1] = NL
    <3>1. Pos(x) \in 0 .. Len(x.text) /\ x.text \in Seq(Char)
      BY <1>2, PosIs, ViewedIs
    <3>2. Len(<<NL>>) = 1 /\ 1 \in 1 .. 1 /\ <<NL>>[1] = NL
      OBVIOUS
    <3> QED BY <1>4, <3>1, <3>2
  <2>3. i.text[p + 1] = NL
    BY <2>1, <2>2 DEF SpliceIs
  <2> QED BY <2>1, <2>2, <2>3 DEF SpliceIs
<1> HIDE DEF i
<1>6. /\ Viewed(i) /\ i \in Editors /\ i.linepos \in Nat /\ i.linepos <= p /\ i.line \in Nat
      /\ IsLine(i.text, i.linepos) /\ Clear(i.text, p) /\ Clear(i.text, i.linepos)
  BY <1>3, <1>4, PosIs, ViewedIs
<1>7. PICK q \in Nat : q = NextLine(i.text, i.linepos) /\ q >= i.linepos + 1 /\ q <= Len(i.text)
  <2>1. IsLine(i.text, p + 1) /\ i.linepos < p + 1
    BY <1>5, <1>6 DEF IsLine
  <2>2. Clear(i.text, p + 1)
    <3>0. (p + 1) - 1 = p
      OBVIOUS
    <3> SUFFICES ASSUME NEW n \in 0 .. p PROVE i.text[n + 1] \notin Negative
      BY <3>0 DEF Clear
    <3>1. CASE n = p
      BY <1>5, <3>1, EditorAssumption DEF EditorAssumption
    <3>2. CASE n # p
      <4>1. n \in 0 .. p - 1
        BY <3>2
      <4> QED BY <1>6, <4>1 DEF Clear
    <3> QED BY <3>1, <3>2
  <2>3. NextLine(i.text, i.linepos) \in i.linepos + 1 .. p + 1
    BY <1>5, <1>6, <2>1, <2>2, NextThere
  <2> QED BY <1>5, <1>6, <2>3
<1> DEFINE n == [i EXCEPT !.col = 0, !.line = i.line + 1, !.linepos = q]
           g == [i EXCEPT !.linepos = q, !.line = i.line + 1]
           F(f) == [InsertAt(f, <<f.text[i.linepos + f.col + 1]>>) EXCEPT !.col = @ + 1]
           blanks == {k \in 0 .. Len(i.text) - i.linepos :
                        \A j \in 1 .. k : i.text[i.linepos + j] \in {SPACE, TAB}}
           m == Max(blanks)
           V == {f \in Editors : /\ MaybeBelow(f) /\ f.col \in Nat /\ f.linepos = q
                                 /\ q + f.col <= Len(f.text)}
           G == [f \in V |-> F(f)]
           Runs(w) == w = [k \in 0 .. m |-> IF k = 0 THEN n ELSE F(w[k - 1])]
           u == CHOOSE w : Runs(w)
           b == IF NoIndent THEN n ELSE u[m]
           s == [b EXCEPT !.lastcol = b.col]
<1>8. Newline(e) = IF i.undefined THEN i ELSE AdjustLayout(ScrollDown(s))
  BY <1>7 DEF Newline, Iterate, i, x
<1> HIDE DEF u
<1>9. n \in V
  <2>1. MaybeBelow(g)
    <3>1. NextLine(i.text, i.linepos) # -1
      BY <1>7
    <3> QED BY <1>6, <1>7, <3>1, LineBelowView
  <2>2. /\ n \in Editors /\ n.text = i.text /\ n.recs = i.recs /\ n.at = i.at
        /\ n.linepos = q /\ n.line = i.line + 1 /\ n.col = 0 /\ n.toppos = i.toppos /\ n.topline = i.topline
        /\ g.text = i.text /\ g.recs = i.recs /\ g.at = i.at
        /\ g.linepos = q /\ g.line = i.line + 1 /\ g.toppos = i.toppos /\ g.topline = i.topline
    <3>1. i.line + 1 \in Int /\ q \in Int /\ 0 \in Int /\ i \in Editors
      BY <1>6
    <3>2. n \in Editors
      BY <3>1 DEF Editors
    <3> QED BY <3>1, <3>2 DEF Editors
  <2> HIDE DEF n, g
  <2>3. MaybeBelow(n)
    BY <2>1, <2>2 DEF MaybeBelow, Lined
  <2> QED BY <1>7, <2>2, <2>3
<1>10. m \in Nat
  <2>1. i.linepos <= Len(i.text)
    BY <1>6 DEF IsLine
  <2>2. PICK z \in Nat : z = Len(i.text) - i.linepos
    BY <1>5, <1>6, <2>1
  <2>3. blanks \in SUBSET (0 .. z) /\ 0 \in blanks
    BY <2>2
  <2>4. m = Max(blanks)
    OBVIOUS
  <2> HIDE DEF blanks, m
  <2>5. Max(blanks) \in blanks
    BY <2>3, MaxIs
  <2>6. m \in 0 .. z
    BY <2>3, <2>4, <2>5
  <2> QED BY <2>2, <2>6
<1> HIDE DEF m, n
<1>11. ASSUME NEW f \in V PROVE F(f) \in V
  <2>1. /\ f \in Editors /\ MaybeBelow(f) /\ f.col \in Nat /\ f.linepos = q /\ f.text \in Seq(Char)
        /\ q + f.col <= Len(f.text) /\ Recorded(f.text, f.recs, f.at)
    BY DEF MaybeBelow, Lined, Editors
  <2>2. PICK pos \in Nat : pos = Pos(f) /\ pos = q + f.col
    BY <2>1 DEF Pos
  <2>3. <<f.text[i.linepos + f.col + 1]>> \in Seq(Char)
    <3>1. i.linepos + f.col + 1 \in 1 .. Len(f.text)
      BY <1>6, <1>7, <2>1
    <3>2. f.text[i.linepos + f.col + 1] \in Char
      BY <2>1, <3>1
    <3> QED BY <3>2
  <2>4. PICK c \in Seq(Char) : c = <<f.text[i.linepos + f.col + 1]>> /\ Len(c) = 1
    BY <2>3
  <2> DEFINE r == InsertAt(f, c)
             h == [r EXCEPT !.col = f.col + 1]
  <2>5. Replaced(f, r, pos, 0, c)
    <3>1. r = ReplaceEd(f, pos, 0, c)
      BY <2>2 DEF InsertAt
    <3>2. pos + 0 <= Len(f.text) /\ 0 \in Nat
      BY <2>1, <2>2
    <3> HIDE DEF r
    <3> QED BY <2>1, <2>4, <3>1, <3>2, ReplaceEdIs
  <2> HIDE DEF r
  <2>6. MaybeBelow(r) /\ r \in Editors /\ r.col = f.col /\ r.linepos = q
    <3>1. f.linepos <= pos
      BY <1>7, <2>1, <2>2
    <3>2. MaybeBelow(r)
      BY <2>1, <2>2, <2>5, <3>1, ReplacedBelow
    <3> QED BY <2>1, <2>5, <3>2 DEF Replaced, SameScreen
  <2>7. Len(r.text) = Len(f.text) + 1
    <3>1. Len(r.text) = Len(f.text) - 0 + Len(c)
      BY <2>5 DEF Replaced, SpliceIs
    <3> QED BY <2>1, <2>4, <3>1
  <2>8. F(f) = h
    BY <2>4, <2>6 DEF r
  <2>9. /\ h \in Editors /\ h.text = r.text /\ h.recs = r.recs /\ h.at = r.at /\ h.linepos = q
        /\ h.line = r.line /\ h.col = f.col + 1 /\ h.toppos = r.toppos /\ h.topline = r.topline
    <3>1. f.col + 1 \in Int
      BY <2>1
    <3> QED BY <2>6, <3>1 DEF Editors
  <2> HIDE DEF h, F
  <2>10. MaybeBelow(h)
    BY <2>6, <2>9 DEF MaybeBelow, Lined
  <2>11. h.col \in Nat /\ q + h.col <= Len(h.text)
    BY <2>1, <2>7, <2>9
  <2> QED BY <2>8, <2>9, <2>10, <2>11
<1>12. Runs(u)
  <2>1. G \in [V -> V]
    <3> HIDE DEF V, F
    <3> QED BY <1>11
  <2>2. PICK w \in [0 .. m -> V] : w = [k \in 0 .. m |-> IF k = 0 THEN n ELSE G[w[k - 1]]]
    <3> HIDE DEF V, G
    <3> QED BY <1>9, <1>10, <2>1, StepsAre
  <2>3. \A k \in 0 .. m : k # 0 => w[k - 1] \in V
    <3> HIDE DEF V
    <3> QED BY <1>10
  <2>4. Runs(w)
    <3> HIDE DEF V, F
    <3>1. \A k \in 0 .. m : (IF k = 0 THEN n ELSE G[w[k - 1]]) = (IF k = 0 THEN n ELSE F(w[k - 1]))
      BY <2>3
    <3> HIDE DEF G
    <3> QED BY <2>2, <3>1
  <2> HIDE DEF Runs
  <2> QED BY <2>4 DEF u
<1>13. u[0] = n /\ \A k \in 0 .. m - 1 : u[k + 1] = F(u[k])
  <2> HIDE DEF F
  <2>1. \A k \in 0 .. m - 1 : k + 1 \in 0 .. m /\ k + 1 # 0 /\ (k + 1) - 1 = k
    BY <1>10
  <2>2. 0 \in 0 .. m
    BY <1>10
  <2> QED BY <1>12, <2>1, <2>2
<1>14. \A k \in 0 .. m : u[k] \in V
  <2>1. \A k \in 0 .. m - 1 : u[k] \in V => u[k + 1] \in V
    <3> HIDE DEF V, F
    <3> QED BY <1>11, <1>13
  <2> HIDE DEF V, F
  <2> QED BY <1>9, <1>10, <1>13, <2>1, StepsStay
<1>15. b \in V
  <2>1. m \in 0 .. m
    BY <1>10
  <2> HIDE DEF V
  <2> QED BY <1>9, <1>14, <2>1
<1> HIDE DEF b
<1>16. MaybeBelow(s)
  <2>1. b \in Editors /\ MaybeBelow(b) /\ b.col \in Nat
    BY <1>15
  <2>2. /\ s \in Editors /\ s.text = b.text /\ s.recs = b.recs /\ s.at = b.at /\ s.linepos = b.linepos
        /\ s.line = b.line /\ s.toppos = b.toppos /\ s.topline = b.topline
    BY <2>1 DEF Editors
  <2> HIDE DEF s
  <2> QED BY <2>1, <2>2 DEF MaybeBelow, Lined
<1> HIDE DEF s
<1>17. Good(AdjustLayout(ScrollDown(s)))
  BY <1>16, ScrollDownView, AdjustLayoutGood
<1> QED BY <1>3, <1>8, <1>17

\* backspace joins two lines, or shortens one.
LEMMA BackspaceGood ==
  ASSUME NEW e, Good(e)
  PROVE  Good(Backspace(e))
<1>1. PICK pp \in Int : pp = Pos(e) - 1 /\ pp >= -1
  BY PosIs
<1>2. CASE HasSelection(e)
  BY <1>2, EraseSelectionGood DEF Backspace
<1>3. CASE ~ HasSelection(e) /\ pp < 0
  BY <1>1, <1>3 DEF Backspace
<1>4. CASE ~ HasSelection(e) /\ ~ pp < 0
  <2>1. PICK p \in Nat : p = pp /\ p = Pos(e) - 1
    BY <1>1, <1>4
  <2> DEFINE j == ReplaceEd(e, p, 1, <<>>)
             start == LineStart(j.text, p)
             c == [j EXCEPT !.col = e.col - 1]
             g == [j EXCEPT !.line = e.line - 1, !.linepos = start, !.col = p - start]
             b == IF e.col > 0 THEN c ELSE ScrollUp(g)
  <2>2. /\ Viewed(e) /\ e \in Editors /\ e.text \in Seq(Char) /\ Len(e.text) \in Nat
        /\ p + 1 <= Len(e.text) /\ Recorded(e.text, e.recs, e.at) /\ e.col \in Nat /\ e.linepos \in Nat
        /\ p + 1 = e.linepos + e.col /\ IsLine(e.text, e.linepos) /\ e.line \in Nat
        /\ e.line = Count(e.text, e.linepos) /\ Clear(e.text, e.linepos)
        /\ e.topline <= e.line /\ e.line < e.topline + Lines /\ e.topline \in Nat /\ Lines \in Nat
        /\ e.toppos \in 0 .. e.linepos
        /\ e.topline < e.line => e.toppos < e.linepos
    <3>1. Viewed(e) /\ Pos(e) \in 0 .. Len(e.text) /\ Pos(e) = e.linepos + e.col /\ e.col \in Nat
      BY PosIs
    <3>2. Recorded(e.text, e.recs, e.at)
      BY <3>1 DEF Viewed, Lined
    <3>3. p + 1 = Pos(e)
      BY <2>1, <3>1
    <3>4. /\ e \in Editors /\ e.text \in Seq(Char) /\ e.line \in Nat /\ e.linepos \in 0 .. Len(e.text)
          /\ IsLine(e.text, e.linepos) /\ Clear(e.text, e.linepos) /\ e.line = Count(e.text, e.linepos)
          /\ e.toppos \in 0 .. e.linepos /\ e.topline \in Nat
          /\ e.topline < e.line => e.toppos < e.linepos
          /\ e.topline <= e.line /\ e.line < e.topline + Lines /\ Lines \in Nat
      BY <3>1, ViewedIs
    <3>5. Len(e.text) \in Nat
      BY <3>4
    <3> QED BY <3>1, <3>2, <3>3, <3>4, <3>5
  <2>3. Replaced(e, j, p, 1, <<>>)
    <3>1. <<>> \in Seq(Char) /\ 1 \in Nat
      OBVIOUS
    <3> QED BY <2>2, <3>1, ReplaceEdIs
  <2>4. /\ j \in Editors /\ SameScreen(e, j) /\ Agree(e.text, j.text, p) /\ j.text \in Seq(Char)
        /\ Recorded(j.text, j.recs, j.at) /\ p <= Len(j.text) /\ Len(j.text) \in Nat
    <3> HIDE DEF j
    <3>1. /\ j \in Editors /\ SameScreen(e, j) /\ Agree(e.text, j.text, p) /\ j.text \in Seq(Char)
          /\ Recorded(j.text, j.recs, j.at)
      BY <2>3 DEF Replaced, SpliceIs
    <3> QED BY <3>1 DEF Agree
  <2>5. Backspace(e) = Sideways(b, b.col)
    <3>1. ReplaceEd(e, Pos(e) - 1, 1, <<>>) = j
      BY <2>1
    <3>2. Backspace(e) = LET joined == j
                             st == LineStart(joined.text, p)
                             bb == IF e.col > 0 THEN [joined EXCEPT !.col = @ - 1]
                                   ELSE ScrollUp([joined EXCEPT !.line = @ - 1, !.linepos = st,
                                                                !.col = p - st])
                         IN  Sideways(bb, bb.col)
      BY <1>4, <2>1, <3>1 DEF Backspace
    <3>3. j.col = e.col /\ j.line = e.line
      BY <2>4 DEF SameScreen
    <3> HIDE DEF j
    <3> QED BY <3>2, <3>3
  <2> HIDE DEF j
  <2>6. CASE e.col > 0
    <3>1. Viewed(j)
      <4>1. e.linepos <= p
        BY <2>2, <2>6
      <4> QED BY <2>2, <2>3, <4>1, ReplacedView
    <3>2. e.col - 1 \in Nat /\ e.col - 1 \in Int
      BY <2>2, <2>6
    <3>3. c \in Editors
      BY <2>4, <3>2 DEF Editors
    <3>4. /\ SameText(j, c) /\ c.linepos = j.linepos /\ c.line = j.line /\ c.toppos = j.toppos
          /\ c.topline = j.topline /\ c.col = e.col - 1
      BY <2>4 DEF Editors, SameText
    <3> HIDE DEF c
    <3>5. Viewed(c)
      BY <3>1, <3>3, <3>4, SameView
    <3>6. Good(Sideways(c, c.col))
      BY <3>2, <3>4, <3>5, SidewaysGood
    <3> QED BY <2>5, <2>6, <3>6
  <2>7. CASE ~ e.col > 0
    <3>1. e.linepos = p + 1 /\ e.linepos > 0
      BY <2>2, <2>7
    <3>2. InLine(j.text, start, p) /\ start \in 0 .. p /\ IsLine(j.text, start)
      <4>1. p \in 0 .. Len(j.text)
        BY <2>4
      <4>2. InLine(j.text, start, p)
        BY <2>4, <4>1, LineStartIs
      <4> QED BY <4>2 DEF InLine, IsLine
    <3> HIDE DEF start
    <3>3. /\ IsLine(e.text, start) /\ Count(e.text, start) = Count(j.text, start)
          /\ Clear(e.text, start) <=> Clear(j.text, start)
      BY <2>2, <2>4, <3>2, AgreeSame
    <3>4. InLine(e.text, start, p)
      <4>1. \A n \in start .. p - 1 : e.text[n + 1] = j.text[n + 1]
        <5> TAKE n \in start .. p - 1
        <5>1. n + 1 \in 1 .. p
          BY <3>2
        <5> QED BY <2>4, <5>1 DEF Agree
      <4>2. start <= p /\ p <= Len(e.text) /\ start \in Nat
        BY <2>2, <3>2
      <4>3. \A n \in start .. p - 1 : j.text[n + 1] # NL
        BY <3>2 DEF InLine
      <4>4. \A n \in start .. p - 1 : e.text[n + 1] # NL
        BY <4>1, <4>3
      <4> QED BY <3>3, <4>2, <4>4 DEF InLine
    <3>5. e.line = Count(e.text, start) + 1 /\ Count(e.text, start) \in Nat
      <4>1. /\ InLine(e.text, PrevLine(e.text, e.linepos), e.linepos - 1)
            /\ Count(e.text, e.linepos) = Count(e.text, PrevLine(e.text, e.linepos)) + 1
        BY <2>2, <3>1, PrevIs
      <4>2. e.linepos - 1 = p /\ p \in 0 .. Len(e.text)
        <5>1. e.linepos = p + 1 /\ p + 1 <= Len(e.text) /\ Len(e.text) \in Nat /\ p \in Nat
          BY <2>2, <3>1
        <5> HIDE DEF j
        <5> QED BY <5>1
      <4>3. start = LineStart(e.text, p) /\ PrevLine(e.text, e.linepos) = LineStart(e.text, p)
        BY <2>2, <3>4, <4>1, <4>2, InLineOnce
      <4> QED BY <2>2, <3>3, <4>1, <4>3, LinesInOrder
    <3>6. /\ g \in Editors /\ g.text = j.text /\ g.recs = j.recs /\ g.at = j.at /\ g.linepos = start
          /\ g.line = e.line - 1 /\ g.col = p - start /\ g.toppos = e.toppos /\ g.topline = e.topline
      <4>1. e.line - 1 \in Int /\ start \in Int /\ p - start \in Int
        BY <2>2, <3>2
      <4>2. j.toppos = e.toppos /\ j.topline = e.topline
        BY <2>4 DEF SameScreen
      <4>3. g \in Editors
        BY <2>4, <4>1 DEF Editors
      <4> QED BY <2>4, <4>2, <4>3 DEF Editors
    <3> HIDE DEF g
    <3>7. Clear(e.text, start)
      BY <2>2, <3>1, <3>2 DEF Clear
    <3>8. Count(j.text, start) = e.line - 1
      BY <2>2, <3>3, <3>5
    <3>9. Lined(g)
      BY <2>4, <3>2, <3>3, <3>6, <3>7, <3>8 DEF Lined, LineAt
    <3>10. g.topline <= g.line => TopAt(g.text, g.toppos, g.topline)
      <4> SUFFICES ASSUME e.topline <= e.line - 1 PROVE TopAt(j.text, e.toppos, e.topline)
        BY <3>6
      <4>1. e.toppos \in 0 .. p
        BY <2>1, <2>2, <3>1
      <4>2. /\ IsLine(e.text, e.toppos) <=> IsLine(j.text, e.toppos)
            /\ Count(e.text, e.toppos) = Count(j.text, e.toppos)
        BY <2>2, <2>4, <4>1, AgreeSame
      <4> QED BY <2>2, <4>2, ViewedIs DEF TopAt
    <3>11. g.line < g.topline + Lines
      BY <2>2, <3>6
    <3>12. MaybeAbove(g)
      BY <3>9, <3>10, <3>11 DEF MaybeAbove
    <3>13. Viewed(ScrollUp(g)) /\ ScrollUp(g).col = p - start /\ p - start \in Nat
      BY <3>2, <3>6, <3>12, ScrollUpView DEF SameCursor
    <3>14. Good(Sideways(ScrollUp(g), ScrollUp(g).col))
      BY <3>13, SidewaysGood
    <3> QED BY <2>5, <2>7, <3>14
  <2> QED BY <2>6, <2>7
<1> QED BY <1>1, <1>2, <1>3, <1>4

-----------------------------------------------------------------------------
(* The specification.                                                      *)

\* What copy_selection copies is text.
LEMMA SelectedIs ==
  ASSUME NEW e, Good(e), HasSelection(e), ~ Stray(e)
  PROVE  Selected(e) \in Seq(Char)
<1>1. e.text \in Seq(Char) /\ SelStart(e) \in Nat /\ SelEnd(e) \in Nat /\ SelEnd(e) <= Len(e.text)
  <2>1. Pos(e) \in Nat /\ e.text \in Seq(Char)
    BY PosIs
  <2>2. SelStart(e) \in 0 .. Pos(e) /\ SelEnd(e) \in Nat /\ (Stray(e) <=> SelEnd(e) > Len(e.text))
    BY SelectionIs
  <2>3. Len(e.text) \in Nat
    BY <2>1
  <2> QED BY <2>1, <2>2, <2>3
<1> QED BY <1>1 DEF Selected

\* The editor a session begins with.
LEMMA NewEdGood ==
  ASSUME NEW t \in Seq(Char)
  PROVE  Good(NewEd(t)) /\ NewEd(t).text = t
<1>1. PICK e : e = NewEd(t)
  OBVIOUS
<1>2. /\ e \in Editors /\ e.text = t /\ e.recs = <<>> /\ e.at = 0
      /\ e.linepos = 0 /\ e.line = 0 /\ e.col = 0 /\ e.toppos = 0 /\ e.topline = 0
  <2>1. <<>> \in Seq(Recs) /\ 0 \in Int /\ 0 \in Nat /\ -1 \in Nat \cup {-1}
    OBVIOUS
  <2> QED BY <1>1, <2>1 DEF NewEd, Editors
<1>3. IsLine(t, 0) /\ Clear(t, 0) /\ Count(t, 0) = 0 /\ CursorAt(t, 0, 0)
  BY NoneBefore
<1>4. Undoable(Len(t), e.recs, e.at)
  <2>1. Len(t) \in Nat /\ e.recs \in Seq(Recs)
    BY <1>2 DEF Editors
  <2> QED BY <1>2, <2>1, UndoableNone
<1>5. Recorded(e.text, e.recs, e.at)
  BY <1>2, <1>4 DEF Recorded
<1>6. Lines \in Nat /\ Lines > 0
  BY EditorAssumption DEF EditorAssumption
<1>7. Viewed(e)
  BY <1>2, <1>3, <1>5, <1>6 DEF Viewed, Lined, LineAt, TopAt
<1> QED BY <1>1, <1>2, <1>3, <1>7 DEF Good

\* A session without the commands of Overshooting.
Counting == session.commands \cap Overshooting = {}

\* Everything is as it should be in such a session.
EditorInv ==
  session \in Sessions /\ (Counting => Good(ed) /\ clip \in Seq(Char) /\ Len(ed.text) <= MaxText)

\* A command that leaves the editor good.
LEMMA CommandGood ==
  ASSUME EditorInv, Counting, NEW name, NEW e, Command(name, e),
         name \notin Overshooting => Good(e)
  PROVE  Good(ed)' /\ (Len(ed.text) <= MaxText)' /\ name \notin Overshooting
<1>1. /\ name \in session.commands /\ session' = session /\ Len(e.text) <= MaxText
      /\ ed' = IF e.toppos < 0 THEN Undefined(e) ELSE e
  BY DEF Command
<1>2. name \notin Overshooting
  BY <1>1 DEF Counting
<1>3. Good(e)
  BY <1>2
<1>4. ~ e.toppos < 0
  <2>1. e.toppos \in 0 .. e.linepos
    BY <1>3, ViewedIs DEF Good
  <2> QED BY <2>1
<1>5. ed' = e
  BY <1>1, <1>4
<1> QED BY <1>1, <1>2, <1>3, <1>5 DEF Good, Viewed, Lined, Recorded

\* A command that leaves the clipboard alone.
LEMMA DoGood ==
  ASSUME EditorInv, Counting, NEW name, NEW e, Do(name, e), name \notin Overshooting => Good(e)
  PROVE  Good(ed)' /\ (clip \in Seq(Char))' /\ (Len(ed.text) <= MaxText)'
<1>1. clip' = clip /\ Command(name, e)
  BY DEF Do
<1>2. clip \in Seq(Char)
  BY DEF EditorInv
<1>3. Good(ed)' /\ (Len(ed.text) <= MaxText)'
  BY <1>1, CommandGood
<1> QED BY <1>1, <1>2, <1>3

\* copy_selection and cut_selection.
LEMMA CopyGood ==
  ASSUME EditorInv, Counting, NEW name, NEW e, Copy(name, e), Good(e)
  PROVE  Good(ed)' /\ (clip \in Seq(Char))' /\ (Len(ed.text) <= MaxText)'
<1>1. Good(ed) /\ clip \in Seq(Char)
  BY DEF EditorInv
<1>2. PICK f : f = IF Stray(ed) THEN Undefined(ed) ELSE e
  OBVIOUS
<1>3. Good(f)
  BY <1>1, <1>2, UndefinedGood
<1>4. Command(name, f) /\ clip' = IF HasSelection(ed) /\ ~Stray(ed) THEN Selected(ed) ELSE clip
  BY <1>2 DEF Copy
<1>5. Good(ed)' /\ (Len(ed.text) <= MaxText)'
  BY <1>3, <1>4, CommandGood
<1>6. clip' \in Seq(Char)
  BY <1>1, <1>4, SelectedIs
<1> QED BY <1>5, <1>6

\* The editor stays good: one case per command.
LEMMA EditorStep ==
  ASSUME EditorInv, [Next]_edVars
  PROVE  EditorInv'
<1> DEFINE Kept == Good(ed)' /\ (clip \in Seq(Char))' /\ (Len(ed.text) <= MaxText)'
<1>1. CASE UNCHANGED edVars
  BY <1>1 DEF EditorInv, edVars, Counting, Good, Viewed, Lined, Recorded
<1>2. CASE Next
  <2>1. session' = session
    BY <1>2 DEF Next, Move, Do, Copy, Command
  <2>2. CASE ~ Counting
    BY <2>1, <2>2 DEF EditorInv, Counting
  <2>3. CASE Counting
    <3>1. Good(ed) /\ clip \in Seq(Char)
      BY <2>3 DEF EditorInv
    <3> SUFFICES Kept
      BY <2>1, <2>3 DEF EditorInv, Counting
    <3>2. CASE Move("up", Up)
      <4>1. PICK select \in BOOLEAN : Do("up", Up(ed, select))
        BY <3>2 DEF Move, Do
      <4>2. Good(Up(ed, select))
        BY <3>1, UpGood
      <4> QED BY <2>3, <4>1, <4>2, DoGood
    <3>3. CASE Move("down", Down)
      <4>1. PICK select \in BOOLEAN : Do("down", Down(ed, select))
        BY <3>3 DEF Move, Do
      <4>2. Good(Down(ed, select))
        BY <3>1, DownGood
      <4> QED BY <2>3, <4>1, <4>2, DoGood
    <3>4. CASE Move("left", Left)
      <4>1. PICK select \in BOOLEAN : Do("left", Left(ed, select))
        BY <3>4 DEF Move, Do
      <4>2. Good(Left(ed, select))
        BY <3>1, LeftGood
      <4> QED BY <2>3, <4>1, <4>2, DoGood
    <3>5. CASE Move("right", Right)
      <4>1. PICK select \in BOOLEAN : Do("right", Right(ed, select))
        BY <3>5 DEF Move, Do
      <4>2. Good(Right(ed, select))
        BY <3>1, RightGood
      <4> QED BY <2>3, <4>1, <4>2, DoGood
    <3>6. CASE Move("wordleft", WordLeft)
      <4>1. PICK select \in BOOLEAN : Do("wordleft", WordLeft(ed, select))
        BY <3>6 DEF Move, Do
      <4>2. Good(WordLeft(ed, select))
        BY <3>1, WordLeftGood
      <4> QED BY <2>3, <4>1, <4>2, DoGood
    <3>7. CASE Move("wordright", WordRight)
      <4>1. PICK select \in BOOLEAN : Do("wordright", WordRight(ed, select))
        BY <3>7 DEF Move, Do
      <4>2. "wordright" \in Overshooting
        BY DEF Overshooting, Miscounting
      <4> QED BY <2>3, <4>1, <4>2, DoGood
    <3>8. CASE Move("home", Home)
      <4>1. PICK select \in BOOLEAN : Do("home", Home(ed, select))
        BY <3>8 DEF Move, Do
      <4>2. Good(Home(ed, select))
        BY <3>1, HomeGood
      <4> QED BY <2>3, <4>1, <4>2, DoGood
    <3>9. CASE Move("end", End)
      <4>1. PICK select \in BOOLEAN : Do("end", End(ed, select))
        BY <3>9 DEF Move, Do
      <4>2. Good(End(ed, select))
        BY <3>1, HomeGood
      <4> QED BY <2>3, <4>1, <4>2, DoGood
    <3>10. CASE Move("top", Top)
      <4>1. PICK select \in BOOLEAN : Do("top", Top(ed, select))
        BY <3>10 DEF Move, Do
      <4>2. Good(Top(ed, select))
        BY <3>1, TopGood
      <4> QED BY <2>3, <4>1, <4>2, DoGood
    <3>11. CASE Move("bottom", Bottom)
      <4>1. PICK select \in BOOLEAN : Do("bottom", Bottom(ed, select))
        BY <3>11 DEF Move, Do
      <4>2. Good(Bottom(ed, select))
        BY <3>1, BottomGood
      <4> QED BY <2>3, <4>1, <4>2, DoGood
    <3>12. CASE Move("pageup", PageUp)
      <4>1. PICK select \in BOOLEAN : Do("pageup", PageUp(ed, select))
        BY <3>12 DEF Move, Do
      <4>2. Good(PageUp(ed, select))
        BY <3>1, PageUpGood
      <4> QED BY <2>3, <4>1, <4>2, DoGood
    <3>13. CASE Move("pagedown", PageDown)
      <4>1. PICK select \in BOOLEAN : Do("pagedown", PageDown(ed, select))
        BY <3>13 DEF Move, Do
      <4>2. Good(PageDown(ed, select))
        BY <3>1, PageDownGood
      <4> QED BY <2>3, <4>1, <4>2, DoGood
    <3>14. CASE \E ch \in Typed : Do("insert_char", InsertChar(ed, ch))
      <4>1. PICK ch \in Typed : Do("insert_char", InsertChar(ed, ch))
        BY <3>14
      <4>2. ch \in Char
        BY EditorAssumption DEF EditorAssumption
      <4>3. Good(InsertChar(ed, ch))
        BY <3>1, <4>2, InsertCharGood
      <4> QED BY <2>3, <4>1, <4>3, DoGood
    <3>15. CASE Do("newline", Newline(ed))
      <4>1. Good(Newline(ed))
        BY <3>1, NewlineGood
      <4> QED BY <2>3, <3>15, <4>1, DoGood
    <3>16. CASE Do("backspace", Backspace(ed))
      <4>1. Good(Backspace(ed))
        BY <3>1, BackspaceGood
      <4> QED BY <2>3, <3>16, <4>1, DoGood
    <3>17. CASE Do("del", Del(ed))
      <4>1. Good(Del(ed))
        BY <3>1, DelGood
      <4> QED BY <2>3, <3>17, <4>1, DoGood
    <3>18. CASE Do("indent", Indent(ed))
      <4>1. "indent" \in Overshooting
        BY DEF Overshooting, Miscounting
      <4> QED BY <2>3, <3>18, <4>1, DoGood
    <3>19. CASE Do("unindent", Unindent(ed))
      <4>1. "unindent" \in Overshooting
        BY DEF Overshooting, Miscounting
      <4> QED BY <2>3, <3>19, <4>1, DoGood
    <3>20. CASE Do("select_all", SelectAll(ed))
      <4>1. Good(SelectAll(ed))
        BY <3>1, SelectAllGood
      <4> QED BY <2>3, <3>20, <4>1, DoGood
    <3>21. CASE Copy("copy", ed)
      BY <2>3, <3>1, <3>21, CopyGood
    <3>22. CASE Copy("cut", EraseSelection(ed))
      <4>1. Good(EraseSelection(ed))
        BY <3>1, EraseSelectionGood
      <4> QED BY <2>3, <3>22, <4>1, CopyGood
    <3>23. CASE Do("paste", Paste(ed, clip))
      <4>1. Good(Paste(ed, clip))
        BY <3>1, PasteGood
      <4> QED BY <2>3, <3>23, <4>1, DoGood
    <3>24. CASE ed.at # 0 /\ Do("undo", UndoEd(ed))
      <4>1. "undo" \in Overshooting
        BY DEF Overshooting
      <4> QED BY <2>3, <3>24, <4>1, DoGood
    <3>25. CASE CanRedo(ed) /\ Do("redo", RedoEd(ed))
      <4>1. "redo" \in Overshooting
        BY DEF Overshooting, Miscounting
      <4> QED BY <2>3, <3>25, <4>1, DoGood
    <3>26. CASE \E search \in Searches : Do("find_text", FindText(ed, search))
      <4>1. PICK search \in Searches : Do("find_text", FindText(ed, search))
        BY <3>26
      <4>2. search \in Seq(Char)
        BY EditorAssumption DEF EditorAssumption
      <4>3. Good(FindText(ed, search))
        BY <3>1, <4>2, FindTextGood
      <4> QED BY <2>3, <4>1, <4>3, DoGood
    <3>27. CASE \E lineno \in 0 .. MaxText + 2 : Do("goto_line", GotoLine(ed, lineno))
      <4>1. PICK lineno \in 0 .. MaxText + 2 : Do("goto_line", GotoLine(ed, lineno))
        BY <3>27
      <4>2. lineno \in Nat
        OBVIOUS
      <4>3. Good(GotoLine(ed, lineno))
        BY <3>1, <4>2, GotoLineGood
      <4> QED BY <2>3, <4>1, <4>3, DoGood
    <3> HIDE DEF Kept
    <3> QED BY <1>2, <3>2, <3>3, <3>4, <3>5, <3>6, <3>7, <3>8, <3>9, <3>10, <3>11,
           <3>12, <3>13, <3>14, <3>15, <3>16, <3>17, <3>18, <3>19, <3>20, <3>21,
           <3>22, <3>23, <3>24, <3>25, <3>26, <3>27 DEF Next
  <2> QED BY <2>2, <2>3
<1> QED BY <1>1, <1>2

\* The fields have their types, and what is kept of lines is what counting gives.
LEMMA GoodIsCounted ==
  ASSUME EditorInv, Counting
  PROVE  LinesAreCounted
<1>1. Good(ed) /\ clip \in Seq(Char) /\ Len(ed.text) <= MaxText
  BY DEF EditorInv
<1>2. /\ ed \in Editors /\ ed.text \in Seq(Char) /\ ed.linepos \in 0 .. Len(ed.text)
      /\ IsLine(ed.text, ed.linepos) /\ ed.line = Count(ed.text, ed.linepos) /\ ed.line \in Nat
      /\ IsLine(ed.text, ed.toppos) /\ ed.topline = Count(ed.text, ed.toppos)
      /\ ed.toppos \in 0 .. ed.linepos
  BY <1>1, ViewedIs DEF Good
<1>3. ed.col \in Nat /\ Pos(ed) \in 0 .. Len(ed.text)
  BY <1>1, PosIs
<1>4. EdOK
  <2>1. ed.lastcol \in Nat /\ ed.anchor \in Nat \cup {-1} /\ ed.margin \in Nat
    BY <1>2 DEF Editors
  <2> QED BY <1>1, <1>2, <1>3, <2>1 DEF EdOK
<1>5. CursorOK
  <2>1. ed.linepos = LineStart(ed.text, ed.linepos)
    BY <1>2, LineIsStart
  <2> QED BY <1>2, <2>1 DEF CursorOK, Count
<1>6. ViewOK
  <2>1. ed.toppos \in 0 .. Len(ed.text)
    BY <1>2 DEF IsLine
  <2>2. ed.toppos = LineStart(ed.text, ed.toppos)
    BY <1>2, <2>1, LineIsStart
  <2>3. ed.topline <= ed.line /\ ed.line < ed.topline + Lines
    BY <1>1 DEF Good, Viewed
  <2> QED BY <1>2, <2>1, <2>2, <2>3 DEF ViewOK, Count
<1>7. ed.col <= LineLength(ed.text, ed.linepos)
  <2>1. CursorAt(ed.text, ed.linepos, ed.col)
    BY <1>1 DEF Good
  <2> QED BY <1>2, <1>3, <2>1, CursorInLength
<1> QED BY <1>4, <1>5, <1>6, <1>7 DEF LinesAreCounted

\* It begins good.
LEMMA EditorInit ==
  ASSUME Init
  PROVE  EditorInv
<1>1. PICK t \in Files : ed = NewEd(t)
  BY DEF Init
<1>2. t \in Seq(Char) /\ Len(t) <= MaxText
  BY EditorAssumption DEF EditorAssumption
<1>3. Good(ed) /\ ed.text = t
  BY <1>1, <1>2, NewEdGood
<1>4. clip \in Seq(Char) /\ session \in Sessions
  BY DEF Init
<1> QED BY <1>2, <1>3, <1>4 DEF EditorInv

\* In a session without the commands of Overshooting, the editor is good.
THEOREM EditorInvariant == Spec => []EditorInv
<1>1. Init => EditorInv
  BY EditorInit
<1>2. EditorInv /\ [Next]_edVars => EditorInv'
  BY EditorStep
<1> QED BY <1>1, <1>2, PTL DEF Spec

\* What the editor keeps of lines instead of counting them (the position and the
\* number of the cursor's line and of the first on the screen) is what counting
\* them would give, and the cursor is in its line, through every command not in
\* Overshooting, in any order.
THEOREM CountedAlways ==
  Spec => [](session.commands \cap Overshooting = {} => LinesAreCounted)
<1>1. EditorInv => (Counting => LinesAreCounted)
  BY GoodIsCounted
<1> QED BY <1>1, EditorInvariant, PTL DEF Counting

-----------------------------------------------------------------------------
(* Commands one after the other.                                           *)

\* down and then up: adjust_layout puts the cursor into the column of the last
\* sideways move again.
LEMMA DownUp ==
  ASSUME NEW e, Good(e), ~ AtLastLine(e),
         e.col = IF e.lastcol > LineLength(e.text, e.linepos)
                 THEN LineLength(e.text, e.linepos) ELSE e.lastcol
  PROVE  LET u == Up(Down(e, FALSE), FALSE)
         IN  Pos(u) = Pos(e) /\ u.line = e.line
<1>0. /\ e.text \in Seq(Char) /\ IsLine(e.text, e.linepos) /\ e.linepos \in Nat /\ e.line \in Nat
  <2>1. Viewed(e)
    BY DEF Good
  <2> QED BY <2>1, ViewedIs
<1>1. PICK n \in Nat : /\ n = NextLine(e.text, e.linepos) /\ n \in e.linepos + 1 .. Len(e.text)
                       /\ IsLine(e.text, n) /\ n # -1
                       /\ \A k \in e.linepos .. n - 2 : ~ Stops(e.text, k)
  <2>1. NextLine(e.text, e.linepos) # -1
    BY DEF AtLastLine
  <2>2. NextLine(e.text, e.linepos) \in e.linepos + 1 .. Len(e.text)
    BY <1>0, <2>1, NextIs
  <2>3. /\ IsLine(e.text, NextLine(e.text, e.linepos))
        /\ \A k \in e.linepos .. NextLine(e.text, e.linepos) - 2 : ~ Stops(e.text, k)
    BY <1>0, <2>1, NextIs
  <2>4. NextLine(e.text, e.linepos) \in Nat
    BY <1>0, <2>2
  <2> QED BY <2>1, <2>2, <2>3, <2>4
<1>2. PrevLine(e.text, n) = e.linepos
  <2>1. n > 0 /\ n - 1 \in 0 .. Len(e.text)
    BY <1>0, <1>1
  <2>2. InLine(e.text, PrevLine(e.text, n), n - 1)
    BY <1>0, <1>1, <2>1, PrevIs
  <2>3. InLine(e.text, e.linepos, n - 1)
    <3>1. \A k \in e.linepos .. (n - 1) - 1 : e.text[k + 1] # NL
      <4>1. (n - 1) - 1 = n - 2
        BY <1>1
      <4> QED BY <1>1, <4>1 DEF Stops
    <3>2. e.linepos <= n - 1 /\ n - 1 <= Len(e.text)
      BY <1>0, <1>1, <2>1
    <3> QED BY <1>0, <3>1, <3>2 DEF InLine
  <2> QED BY <1>0, <2>1, <2>2, <2>3, InLineOnce
<1>3. PICK a : a = UpdateSelection(e, FALSE)
  OBVIOUS
<1>4. /\ Good(a) /\ Viewed(a) /\ SameText(e, a) /\ a.linepos = e.linepos /\ a.line = e.line
      /\ a.lastcol = e.lastcol
  BY <1>3, UpdateSelectionGood, PosIs
<1>5. PICK b : b = LineBelow(a)
  OBVIOUS
<1>6. NextLine(a.text, a.linepos) = n
  BY <1>1, <1>4 DEF SameText
<1>7. /\ Viewed(b) /\ b.text = e.text /\ b.linepos = n /\ b.line = e.line + 1
      /\ b.lastcol = e.lastcol
  BY <1>1, <1>4, <1>5, <1>6, LineBelowView DEF SameText
<1>8. PICK d : d = AdjustLayout(b)
  OBVIOUS
<1>9. Down(e, FALSE) = d
  <2>1. ~ AtLastLine(a)
    BY <1>1, <1>6 DEF AtLastLine
  <2> QED BY <1>3, <1>5, <1>8, <2>1 DEF Down
<1>10. Good(d) /\ d.text = e.text /\ d.linepos = n /\ d.line = e.line + 1 /\ d.lastcol = e.lastcol
  BY <1>7, <1>8, AdjustLayoutGood DEF SameText, SameLine
<1>11. PICK x : x = UpdateSelection(d, FALSE)
  OBVIOUS
<1>12. /\ Good(x) /\ Viewed(x) /\ x.text = e.text /\ x.linepos = n /\ x.line = e.line + 1
       /\ x.lastcol = e.lastcol
  BY <1>10, <1>11, UpdateSelectionGood, PosIs DEF SameText
<1>13. PICK y : y = ScrollUp(LineAbove(x))
  OBVIOUS
<1>14. /\ Viewed(y) /\ y.text = e.text /\ y.linepos = e.linepos /\ y.line = e.line
       /\ y.lastcol = e.lastcol
  <2>1. x.linepos > 0
    BY <1>0, <1>1, <1>12
  <2>2. /\ Viewed(y) /\ y.text = x.text /\ y.lastcol = x.lastcol
        /\ y.linepos = PrevLine(x.text, x.linepos) /\ y.line = x.line - 1
    BY <1>12, <1>13, <2>1, UpView DEF SameText
  <2>3. (e.line + 1) - 1 = e.line
    BY <1>0
  <2> QED BY <1>2, <1>12, <2>2, <2>3
<1>15. Up(d, FALSE) = AdjustLayout(y)
  <2>1. ~ AtFirstLine(x)
    <3>1. PrevLine(x.text, x.linepos) = e.linepos /\ ~ e.linepos < 0
      BY <1>0, <1>2, <1>12
    <3> QED BY <3>1 DEF AtFirstLine
  <2> QED BY <1>11, <1>13, <2>1 DEF Up
<1>16. PICK u : u = AdjustLayout(y)
  OBVIOUS
<1>17. u.linepos = e.linepos /\ u.line = e.line /\ u.col = e.col
  <2>1. /\ SameLine(y, u)
        /\ u.col = IF y.lastcol > LineLength(y.text, y.linepos)
                   THEN LineLength(y.text, y.linepos) ELSE y.lastcol
    BY <1>14, <1>16, AdjustLayoutGood
  <2> QED BY <1>14, <2>1 DEF SameLine
<1> QED BY <1>9, <1>15, <1>16, <1>17 DEF Pos

\* find_text: the anchor is where the match begins, and the cursor lands at its end.
LEMMA FoundSelected ==
  ASSUME NEW e, Good(e), Clear(e.text, Len(e.text)), NEW search \in Seq(Char),
         search # <<>>, Found(e, search) # {}
  PROVE  LET f == FindText(e, search)
         IN  /\ f.anchor >= Pos(e) /\ Holds(f.text, f.anchor, search)
             /\ Pos(f) = Landing(e.text, Pos(e), f.anchor + Len(search))
<1>1. PICK p \in Nat : p = Min(Found(e, search)) /\ p \in Found(e, search)
  BY FoundIs
<1>2. PICK k \in Nat : k = Len(search) /\ k > 0
  OBVIOUS
<1>3. /\ e.text \in Seq(Char) /\ Len(e.text) \in Nat /\ Pos(e) \in Nat
      /\ p >= Pos(e) /\ Holds(e.text, p, search) /\ p + k <= Len(e.text) /\ Pos(e) <= Len(e.text)
  <2>1. e.text \in Seq(Char) /\ Len(e.text) \in Nat /\ Pos(e) \in Nat /\ Pos(e) <= Len(e.text)
    BY PosIs
  <2>2. p >= Pos(e) /\ Holds(e.text, p, search)
    BY <1>1, <2>1 DEF Found
  <2> QED BY <1>2, <2>1, <2>2 DEF Holds
<1>4. PICK q \in Nat : q = p + k /\ q \in 0 .. Len(e.text)
  BY <1>2, <1>3
<1>5. PICK a : a = [e EXCEPT !.anchor = p]
  OBVIOUS
<1>6. Good(a) /\ a.text = e.text /\ a.anchor = p /\ Pos(a) = Pos(e)
  <2>1. Good(a) /\ a.text = e.text /\ a.anchor = p
    BY <1>5, AnchorGood DEF SameText
  <2>2. Pos(a) = Pos(e)
    BY <1>5, PosIs DEF Pos, Editors
  <2> QED BY <2>1, <2>2
<1>7. PICK f : f = Moveto(a, q, TRUE)
  OBVIOUS
<1>8. f.text = e.text /\ f.anchor = p /\ Pos(f) = Landing(e.text, Pos(e), q)
  <2>1. SameRest(a, f)
    BY <1>6, <1>7, MovetoGood
  <2>2. Pos(f) = Landing(a.text, Pos(a), q)
    BY <1>4, <1>6, <1>7, MovetoLands
  <2> QED BY <1>6, <2>1, <2>2 DEF SameRest, SameText
<1>9. FindText(e, search) = f
  <2>1. ~ Pos(e) > Len(e.text)
    BY <1>3
  <2> QED BY <1>1, <1>2, <1>4, <1>5, <1>7, <2>1 DEF FindText
<1> QED BY <1>2, <1>3, <1>4, <1>8, <1>9

\* A part replaced, and put back.
LEMMA SplicedBack ==
  ASSUME NEW t \in Seq(Char), NEW s \in Nat, NEW len \in Nat, s + len <= Len(t),
         NEW buf \in Seq(Char), NEW u, SpliceIs(u, t, s, len, buf),
         NEW v, SpliceIs(v, u, s, Len(buf), SubSeq(t, s + 1, s + len))
  PROVE  v = t
<1>1. PICK n \in Nat, b \in Nat : n = Len(t) /\ b = Len(buf)
  OBVIOUS
<1>2. PICK c : /\ c = SubSeq(t, s + 1, s + len) /\ c \in Seq(Char) /\ Len(c) = len
               /\ \A i \in 1 .. len : c[i] = t[s + i]
  <2>1. SubSeq(t, s + 1, s + len) \in Seq(Char) /\ Len(SubSeq(t, s + 1, s + len)) = len
    BY <1>1
  <2>2. \A i \in 1 .. len : SubSeq(t, s + 1, s + len)[i] = t[s + i]
    BY <1>1
  <2> QED BY <2>1, <2>2
<1>3. /\ u \in Seq(Char) /\ Len(u) = n - len + b
      /\ \A i \in 1 .. s : u[i] = t[i]
      /\ \A i \in s + len + 1 .. n : u[i - len + b] = t[i]
  BY <1>1 DEF SpliceIs, Agree
<1>4. /\ v \in Seq(Char) /\ Len(v) = n
      /\ \A i \in 1 .. s : v[i] = u[i]
      /\ \A i \in 1 .. len : v[s + i] = c[i]
      /\ \A i \in s + b + 1 .. n - len + b : v[i - b + len] = u[i]
  <2>1. SpliceIs(v, u, s, b, c)
    BY <1>1, <1>2
  <2>2. /\ v \in Seq(Char) /\ Len(v) = (n - len + b) - b + len
        /\ \A i \in 1 .. s : v[i] = u[i]
        /\ \A i \in 1 .. len : v[s + i] = c[i]
        /\ \A i \in s + b + 1 .. n - len + b : v[i - b + len] = u[i]
    BY <1>2, <1>3, <2>1 DEF SpliceIs, Agree
  <2>3. (n - len + b) - b + len = n
    BY <1>1
  <2> QED BY <2>2, <2>3
<1>5. \A i \in 1 .. n : v[i] = t[i]
  <2> TAKE i \in 1 .. n
  <2>1. CASE i <= s
    <3>1. i \in 1 .. s
      BY <2>1
    <3> QED BY <1>3, <1>4, <3>1
  <2>2. CASE s < i /\ i <= s + len
    <3>1. PICK k \in 1 .. len : s + k = i
      <4>1. i - s \in 1 .. len /\ s + (i - s) = i
        BY <2>2
      <4> QED BY <4>1
    <3> QED BY <1>2, <1>4, <3>1
  <2>3. CASE s + len < i
    <3>1. PICK k \in s + b + 1 .. n - len + b : k - b + len = i /\ k = i - len + b
      <4>1. i - len + b \in s + b + 1 .. n - len + b /\ (i - len + b) - b + len = i
        BY <1>1, <2>3
      <4> QED BY <4>1
    <3>2. i \in s + len + 1 .. n
      BY <1>1, <2>3
    <3>3. v[i] = u[k] /\ u[k] = t[i]
      BY <1>3, <1>4, <3>1, <3>2
    <3> QED BY <3>3
  <2> QED BY <2>1, <2>2, <2>3
<1>6. Len(v) = Len(t) /\ \A i \in 1 .. Len(v) : v[i] = t[i]
  BY <1>1, <1>4, <1>5
<1> QED BY <1>4, <1>6, SeqEqual

\* cut and paste: the text is as it was, and the cursor lands behind what was cut.
LEMMA CutPaste ==
  ASSUME NEW e, Good(e), Clear(e.text, Len(e.text)), HasSelection(e), ~ Stray(e)
  PROVE  LET p == Paste(EraseSelection(e), Selected(e))
         IN  p.text = e.text /\ Pos(p) = Landing(e.text, SelStart(e), SelEnd(e))
<1>1. PICK s \in Nat, len \in Nat :
        /\ s = SelStart(e) /\ len = SelEnd(e) - SelStart(e) /\ s + len = SelEnd(e)
        /\ s + len <= Len(e.text) /\ s <= Pos(e)
  <2>1. /\ SelStart(e) \in 0 .. Pos(e) /\ SelEnd(e) - SelStart(e) \in Nat
        /\ SelStart(e) + (SelEnd(e) - SelStart(e)) = SelEnd(e) /\ SelEnd(e) \in Nat
        /\ (Stray(e) <=> SelEnd(e) > Len(e.text))
    BY SelectionIs
  <2>2. Len(e.text) \in Nat /\ Pos(e) \in Nat
    BY PosIs
  <2>3. SelEnd(e) <= Len(e.text) /\ SelStart(e) \in Nat
    BY <2>1, <2>2
  <2> QED BY <2>1, <2>3
<1>2. e.text \in Seq(Char) /\ Len(e.text) \in Nat
  BY PosIs
<1>4. PICK m : m = Moveto(e, s, FALSE)
  OBVIOUS
<1>5. Good(m) /\ m.text = e.text /\ Pos(m) = s
  BY <1>1, <1>4, MovetoGood DEF SameRest, SameText
<1>6. PICK r : r = ReplaceEd(m, s, len, <<>>)
  OBVIOUS
<1>7. Good(r) /\ SpliceIs(r.text, e.text, s, len, <<>>) /\ Pos(r) = s
  <2>1. <<>> \in Seq(Char) /\ Pos(m) <= s /\ s + len <= Len(m.text)
    BY <1>1, <1>5
  <2>2. /\ Good(r) /\ r.linepos = m.linepos /\ r.col = m.col
        /\ Replaced(m, r, s, len, <<>>)
    BY <1>5, <1>6, <2>1, ReplaceGood
  <2>3. Pos(r) = s
    BY <1>5, <2>2 DEF Pos
  <2> QED BY <1>5, <2>2, <2>3 DEF Replaced
<1>8. PICK x : x = [r EXCEPT !.anchor = -1]
  OBVIOUS
<1>9. Good(x) /\ x.text = r.text /\ x.anchor = -1 /\ Pos(x) = s
  <2>1. -1 \in Nat \cup {-1}
    OBVIOUS
  <2> QED BY <1>7, <1>8, <2>1, AnchorGood DEF SameText
<1>10. EraseSelection(e) = x /\ EraseSelection(x) = x
  <2>1. EraseSelection(e) = x
    BY <1>1, <1>4, <1>6, <1>8 DEF EraseSelection
  <2>2. ~ HasSelection(x)
    BY <1>9 DEF HasSelection
  <2> QED BY <2>1, <2>2 DEF EraseSelection
<1>11. PICK c : c = Selected(e) /\ c \in Seq(Char) /\ c = SubSeq(e.text, s + 1, s + len) /\ Len(c) = len
  <2>1. Selected(e) \in Seq(Char)
    BY SelectedIs
  <2>2. Selected(e) = SubSeq(e.text, s + 1, s + len)
    BY <1>1 DEF Selected
  <2>3. Len(SubSeq(e.text, s + 1, s + len)) = len
    BY <1>1, <1>2
  <2> QED BY <2>1, <2>2, <2>3
<1>12. PICK i : i = InsertAt(x, c)
  OBVIOUS
<1>13. Good(i) /\ Pos(i) = s /\ SpliceIs(i.text, r.text, s, 0, c)
  <2>1. Good(i) /\ Replaced(x, i, s, 0, c) /\ i.linepos = x.linepos /\ i.col = x.col
    BY <1>9, <1>11, <1>12, InsertAtGood
  <2>2. Pos(i) = s
    BY <1>9, <2>1 DEF Pos
  <2> QED BY <1>9, <2>1, <2>2 DEF Replaced
<1>14. i.text = e.text
  <2>1. <<>> \in Seq(Char) /\ Len(<<>>) = 0
    OBVIOUS
  <2>2. SpliceIs(i.text, r.text, s, Len(<<>>), SubSeq(e.text, s + 1, s + len))
    BY <1>11, <1>13, <2>1
  <2> QED BY <1>1, <1>2, <1>7, <2>1, <2>2, SplicedBack
<1>15. PICK q \in Nat : q = s + len /\ q \in 0 .. Len(i.text)
  <2>1. s + len \in 0 .. Len(i.text)
    BY <1>1, <1>2, <1>14
  <2> QED BY <2>1
<1>16. PICK p : p = Moveto(i, q, FALSE)
  OBVIOUS
<1>17. p.text = e.text /\ Pos(p) = Landing(e.text, s, q)
  <2>1. SameRest(i, p)
    BY <1>13, <1>16, MovetoGood
  <2>2. Clear(i.text, Len(i.text))
    BY <1>14
  <2>3. Pos(p) = Landing(i.text, Pos(i), q)
    BY <1>13, <1>15, <1>16, <2>2, MovetoLands
  <2> QED BY <1>13, <1>14, <2>1, <2>3 DEF SameRest, SameText
<1>18. Paste(EraseSelection(e), Selected(e)) = p
  BY <1>10, <1>11, <1>12, <1>13, <1>15, <1>16 DEF Paste
<1> QED BY <1>1, <1>15, <1>17, <1>18

\* Moving down a line and up again returns to the same character, through lines
\* shorter than the column: the column last reached by the other commands is kept.
THEOREM DownThenUpAlways ==
  Spec => [](session.commands \cap Overshooting = {} => DownThenUp)
<1>1. EditorInv => (Counting => DownThenUp)
  <2> SUFFICES ASSUME EditorInv, Counting, ~AtLastLine(ed),
                      ed.col = Min({ed.lastcol, LineLength(ed.text, ed.linepos)})
               PROVE  LET u == Up(Down(ed, FALSE), FALSE)
                      IN  Pos(u) = Pos(ed) /\ u.line = ed.line
    BY DEF DownThenUp
  <2>1. Good(ed)
    BY DEF EditorInv
  <2>2. ed.text \in Seq(Char) /\ IsLine(ed.text, ed.linepos) /\ ed \in Editors
    BY <2>1, ViewedIs DEF Good
  <2>3. PICK a \in Nat, b \in Nat : a = ed.lastcol /\ b = LineLength(ed.text, ed.linepos)
    <3>1. LineLength(ed.text, ed.linepos) \in Nat
      BY <2>2, LengthIs
    <3>2. ed.lastcol \in Nat
      BY <2>2 DEF Editors
    <3> QED BY <3>1, <3>2
  <2>4. Min({a, b}) = IF a > b THEN b ELSE a
    <3>1. {a, b} \in SUBSET Nat /\ {a, b} # {}
      OBVIOUS
    <3>2. Min({a, b}) \in {a, b} /\ \A y \in {a, b} : Min({a, b}) <= y
      BY <3>1, MinIs
    <3> QED BY <3>2
  <2>5. ed.col = IF ed.lastcol > LineLength(ed.text, ed.linepos)
                 THEN LineLength(ed.text, ed.linepos) ELSE ed.lastcol
    BY <2>3, <2>4
  <2> QED BY <2>1, <2>5, DownUp
<1> QED BY <1>1, EditorInvariant, PTL DEF Counting

\* In a text without negative characters (moveto stops at one), find_text selects
\* from the start of a match at or after the cursor to its end, or to the end of
\* the last line if the match ends there.
THEOREM FoundAlways ==
  Spec => [](Clear(ed.text, Len(ed.text)) /\ session.commands \cap Overshooting = {}
               => FoundIsSelected)
<1>1. EditorInv => (Clear(ed.text, Len(ed.text)) /\ Counting => FoundIsSelected)
  <2> SUFFICES ASSUME EditorInv, Clear(ed.text, Len(ed.text)), Counting,
                      NEW search \in Searches, search # <<>>, Found(ed, search) # {}
               PROVE  LET f == FindText(ed, search)
                      IN  /\ f.anchor >= Pos(ed) /\ Holds(f.text, f.anchor, search)
                          /\ Pos(f) = Landing(ed.text, Pos(ed), f.anchor + Len(search))
    BY DEF FoundIsSelected
  <2>1. Good(ed) /\ search \in Seq(Char)
    BY EditorAssumption DEF EditorInv, EditorAssumption
  <2> QED BY <2>1, FoundSelected
<1> QED BY <1>1, EditorInvariant, PTL DEF Counting

\* In such a text, cutting a selection and pasting it at once gives the text back,
\* with the cursor at the end of what was selected, or of the last line if that is
\* there.
THEOREM CutThenPasteAlways ==
  Spec => [](Clear(ed.text, Len(ed.text)) /\ session.commands \cap Overshooting = {}
               => CutThenPaste)
<1>1. EditorInv => (Clear(ed.text, Len(ed.text)) /\ Counting => CutThenPaste)
  <2> SUFFICES ASSUME EditorInv, Clear(ed.text, Len(ed.text)), Counting,
                      HasSelection(ed), ~ Stray(ed)
               PROVE  LET p == Paste(EraseSelection(ed), Selected(ed))
                      IN  p.text = ed.text /\ Pos(p) = Landing(ed.text, SelStart(ed), SelEnd(ed))
    BY DEF CutThenPaste
  <2>1. Good(ed)
    BY DEF EditorInv
  <2> QED BY <2>1, CutPaste
<1> QED BY <1>1, EditorInvariant, PTL DEF Counting
-----------------------------------------------------------------------------
(* Indenting.                                                              *)

\* The text selected, and where.
Selects(e, t, s, n) ==
  /\ t = e.text /\ t \in Seq(Char) /\ s \in Nat /\ n \in Nat /\ s < n /\ n <= Len(t)
  /\ s = SelStart(e) /\ n = SelEnd(e)

\* How many of its lines begin before q.
LinesTo(e, q) == Cardinality({p \in SelectedLines(e) : p < q})

\* They are counted one by one.
LEMMA LinesToIs ==
  ASSUME NEW e, NEW t, NEW s, NEW n, Selects(e, t, s, n)
  PROVE  /\ \A q \in s .. n : LinesTo(e, q) \in Nat /\ LinesTo(e, q) <= LinesTo(e, n)
         /\ LinesTo(e, s) = 0
         /\ \A q \in s .. n - 1 :
              LinesTo(e, q + 1) = IF q \in SelectedLines(e) THEN LinesTo(e, q) + 1 ELSE LinesTo(e, q)
         /\ LinesTo(e, n) = Cardinality(SelectedLines(e)) /\ LinesTo(e, n) # 0
<1> DEFINE L == SelectedLines(e)
           B(q) == {p \in L : p < q}
<1>1. /\ s \in Nat /\ n \in Nat /\ s < n /\ L \subseteq s .. n - 1 /\ s \in L
      /\ \A p \in L : p \in Int /\ s <= p /\ p < n
  <2>1. s = SelStart(e) /\ n = SelEnd(e) /\ s \in Nat /\ n \in Nat /\ s < n
    BY DEF Selects
  <2>2. s \in s .. n - 1
    BY <2>1
  <2>3. L \subseteq s .. n - 1 /\ s \in L
    BY <2>1, <2>2 DEF SelectedLines
  <2>4. \A p \in s .. n - 1 : p \in Int /\ s <= p /\ p < n
    BY <2>1
  <2> HIDE DEF L
  <2> QED BY <2>1, <2>3, <2>4
<1> HIDE DEF L
<1>2. IsFiniteSet(L)
  <2>1. IsFiniteSet(s .. n - 1)
    BY <1>1, FS_Interval
  <2> QED BY <1>1, <2>1, FS_Subset
<1>3. \A q : IsFiniteSet(B(q)) /\ Cardinality(B(q)) \in Nat
  <2> TAKE q
  <2>1. B(q) \in SUBSET L
    OBVIOUS
  <2>2. IsFiniteSet(B(q))
    BY <1>2, <2>1, FS_Subset
  <2> QED BY <2>2, FS_CardinalityType
<1>4. \A q \in s .. n : Cardinality(B(q)) <= Cardinality(B(n))
  <2> TAKE q \in s .. n
  <2>1. B(q) \in SUBSET B(n)
    BY <1>1
  <2> QED BY <1>3, <2>1, FS_Subset
<1>5. Cardinality(B(s)) = 0
  <2>1. \A p \in L : ~ p < s
    BY <1>1
  <2>2. B(s) = {}
    BY <2>1
  <2> QED BY <2>2, FS_EmptySet
<1>6. \A q \in s .. n - 1 :
        Cardinality(B(q + 1)) = IF q \in L THEN Cardinality(B(q)) + 1 ELSE Cardinality(B(q))
  <2> TAKE q \in s .. n - 1
  <2>1. CASE q \in L
    <3>0. (\A p \in L : p < q + 1 <=> p < q \/ p = q) /\ ~ q < q
      BY <1>1
    <3>1. B(q + 1) = B(q) \cup {q} /\ q \notin B(q)
      BY <2>1, <3>0
    <3> HIDE DEF B
    <3> QED BY <1>3, <2>1, <3>1, FS_AddElement
  <2>2. CASE q \notin L
    <3>0. \A p \in L : p < q + 1 <=> p < q \/ p = q
      BY <1>1
    <3>1. B(q + 1) = B(q)
      BY <2>2, <3>0
    <3> HIDE DEF B
    <3> QED BY <2>2, <3>1
  <2> QED BY <2>1, <2>2
<1>7. B(n) = L
  BY <1>1
<1>8. Cardinality(L) # 0
  BY <1>1, <1>2, FS_EmptySet
<1>9. \A q : LinesTo(e, q) = Cardinality(B(q))
  BY DEF LinesTo, L
<1> HIDE DEF B
<1> QED BY <1>3, <1>4, <1>5, <1>6, <1>7, <1>8, <1>9 DEF L

\* One more character of the selection, indented if a line begins before it.
IndentStep(e, q, x) ==
  x \o (IF q \in SelectedLines(e) THEN INDENT ELSE <<>>) \o <<e.text[q + 1]>>

\* The indented text, character by character of the selection.
IndentedBy(e, f, s, n) ==
  /\ f \in [s .. n -> Seq(Char)] /\ f[s] = <<>>
  /\ \A q \in s .. n - 1 : f[q + 1] = IndentStep(e, q, f[q])

\* There is one.
LEMMA IndentedIs ==
  ASSUME NEW e, NEW t, NEW s, NEW n, Selects(e, t, s, n)
  PROVE  \E f : IndentedBy(e, f, s, n) /\ Indented(e, n) = f[n]
<1> DEFINE L == SelectedLines(e)
           More(q, x) == x \o (IF q - 1 \in L THEN INDENT ELSE <<>>) \o <<t[q]>>
           At(f, m) == f = [q \in s .. m |-> IF q = s THEN <<>> ELSE More(q, f[q - 1])]
           S == {k \in Nat : s + k <= n => \E f \in [s .. s + k -> Seq(Char)] : At(f, s + k)}
<1>1. /\ t = e.text /\ t \in Seq(Char) /\ s \in Nat /\ n \in Nat /\ s < n /\ n <= Len(t)
      /\ s = SelStart(e) /\ n = SelEnd(e) /\ Len(t) \in Nat
  BY DEF Selects
<1>2. ASSUME NEW q \in s + 1 .. n, NEW x \in Seq(Char) PROVE More(q, x) \in Seq(Char)
  <2>1. t[q] \in Char
    <3>1. q \in 1 .. Len(t)
      BY <1>1
    <3> QED BY <1>1, <3>1
  <2>2. INDENT \in Seq(Char) /\ <<>> \in Seq(Char) /\ <<t[q]>> \in Seq(Char)
    <3>1. SPACE \in Char
      BY EditorAssumption DEF EditorAssumption
    <3> QED BY <2>1, <3>1 DEF INDENT
  <2>3. PICK i \in Seq(Char) : i = IF q - 1 \in L THEN INDENT ELSE <<>>
    <3> HIDE DEF L
    <3> QED BY <2>2
  <2>4. x \o i \in Seq(Char)
    OBVIOUS
  <2>5. (x \o i) \o <<t[q]>> \in Seq(Char)
    BY <2>2, <2>4
  <2> QED BY <2>3, <2>5
<1> HIDE DEF L, More
<1>3. 0 \in S
  <2> DEFINE f == [q \in s .. s |-> <<>>]
  <2>1. f \in [s .. s + 0 -> Seq(Char)]
    BY <1>1
  <2>2. At(f, s + 0)
    BY <1>1
  <2> HIDE DEF f, At
  <2> QED BY <2>1, <2>2
<1>4. ASSUME NEW k \in Nat, k \in S PROVE k + 1 \in S
  <2> SUFFICES ASSUME s + (k + 1) <= n
               PROVE  \E f \in [s .. s + (k + 1) -> Seq(Char)] : At(f, s + (k + 1))
    OBVIOUS
  <2>1. PICK m \in Nat : m = s + k /\ m + 1 = s + (k + 1) /\ m < n
    BY <1>1
  <2>2. PICK g \in [s .. m -> Seq(Char)] : At(g, m)
    <3> HIDE DEF At
    <3>1. s + k <= n
      BY <1>1, <2>1
    <3> QED BY <1>4, <2>1, <3>1
  <2> DEFINE f == [q \in s .. m + 1 |-> IF q = s THEN <<>> ELSE More(q, g[q - 1])]
  <2>3. \A q \in s .. m : f[q] = g[q]
    <3>1. \A q \in s .. m : q \in s .. m + 1
      BY <1>1, <2>1
    <3>2. \A q \in s .. m : g[q] = IF q = s THEN <<>> ELSE More(q, g[q - 1])
      BY <2>2
    <3> QED BY <3>1, <3>2
  <2>4. f \in [s .. m + 1 -> Seq(Char)]
    <3>1. \A q \in s .. m + 1 : q # s => q \in s + 1 .. n /\ q - 1 \in s .. m
      BY <1>1, <2>1
    <3>2. \A q \in s .. m + 1 : q # s => More(q, g[q - 1]) \in Seq(Char)
      BY <1>2, <3>1
    <3>3. <<>> \in Seq(Char)
      OBVIOUS
    <3> QED BY <3>2, <3>3
  <2>5. At(f, m + 1)
    <3>1. \A q \in s .. m + 1 : q # s => q - 1 \in s .. m
      BY <1>1, <2>1
    <3>2. \A q \in s .. m + 1 : q # s => f[q - 1] = g[q - 1]
      BY <2>3, <3>1
    <3> QED BY <3>2
  <2> HIDE DEF f, At
  <2> QED BY <2>1, <2>4, <2>5
<1>5. \A k \in Nat : k \in S
  <2> HIDE DEF S
  <2> QED BY <1>3, <1>4, NatSetInduction
<1>6. PICK f \in [s .. n -> Seq(Char)] : At(f, n)
  <2>1. n - s \in Nat /\ s + (n - s) = n
    BY <1>1
  <2> HIDE DEF At
  <2>2. PICK k \in Nat : k = n - s /\ s + k = n /\ n <= n
    BY <1>1, <2>1
  <2>3. k \in S
    BY <1>5
  <2> QED BY <2>2, <2>3
<1> DEFINE u == CHOOSE f1 : At(f1, n)
<1>7. At(u, n)
  <2> HIDE DEF At
  <2> QED BY <1>6
<1>8. u \in [s .. n -> Seq(Char)] /\ u[s] = <<>> /\ \A q \in s .. n - 1 : u[q + 1] = More(q + 1, u[q])
  <2> HIDE DEF u
  <2>1. \A q \in s .. n : u[q] = IF q = s THEN <<>> ELSE More(q, u[q - 1])
    BY <1>7
  <2>2. \A q \in s .. n - 1 : q + 1 \in s .. n /\ q + 1 # s /\ (q + 1) - 1 = q /\ q + 1 \in s + 1 .. n
    BY <1>1
  <2>3. \A q \in s .. n - 1 : u[q + 1] = More(q + 1, u[q])
    BY <2>1, <2>2
  <2>4. u[s] = <<>>
    <3>1. s \in s .. n
      BY <1>1
    <3> QED BY <2>1, <3>1
  <2> DEFINE R == {k \in Nat : s + k <= n => u[s + k] \in Seq(Char)}
  <2>5. 0 \in R
    <3>1. s + 0 = s /\ <<>> \in Seq(Char)
      BY <1>1
    <3> QED BY <2>4, <3>1
  <2>6. ASSUME NEW k \in Nat, k \in R PROVE k + 1 \in R
    <3> SUFFICES ASSUME s + (k + 1) <= n PROVE u[s + (k + 1)] \in Seq(Char)
      OBVIOUS
    <3>1. s + k <= n /\ s + k \in s .. n - 1 /\ s + (k + 1) = (s + k) + 1
      BY <1>1
    <3>2. u[s + k] \in Seq(Char)
      BY <2>6, <3>1
    <3> QED BY <1>2, <2>2, <2>3, <3>1, <3>2
  <2>7. \A k \in Nat : k \in R
    <3> HIDE DEF R
    <3> QED BY <2>5, <2>6, NatSetInduction
  <2>8. \A q \in s .. n : u[q] \in Seq(Char)
    <3> TAKE q \in s .. n
    <3>1. q - s \in Nat /\ s + (q - s) = q /\ q <= n
      BY <1>1
    <3> QED BY <2>7, <3>1
  <2>9. u = [q \in s .. n |-> u[q]]
    BY <1>7
  <2> QED BY <2>3, <2>4, <2>8, <2>9
<1>9. Indented(e, n) = u[n]
  BY <1>1 DEF Indented, More, L
<1>10. \A q \in s .. n - 1 : More(q + 1, u[q]) = IndentStep(e, q, u[q])
  <2> TAKE q \in s .. n - 1
  <2>1. (q + 1) - 1 = q
    BY <1>1
  <2> HIDE DEF u
  <2> QED BY <1>1, <2>1 DEF More, IndentStep, L
<1> HIDE DEF u
<1> QED BY <1>8, <1>9, <1>10 DEF IndentedBy

\* Where the characters before q are in the indented text.
Place(e, q) == q + 2 * LinesTo(e, q)

\* A text as indent leaves it: at the place of each character of the selection
\* the character, behind two blanks if it is the first of a line.
IsIndented(e, t, u, s, n) ==
  /\ u \in Seq(Char) /\ Place(e, n) <= Len(u)
  /\ \A q \in s .. n - 1 :
       IF q \in SelectedLines(e)
       THEN /\ Place(e, q + 1) = Place(e, q) + 3
            /\ u[Place(e, q) + 1] = SPACE /\ u[Place(e, q) + 2] = SPACE
            /\ u[Place(e, q) + 3] = t[q + 1]
       ELSE /\ Place(e, q + 1) = Place(e, q) + 1
            /\ u[Place(e, q) + 1] = t[q + 1]

\* What is known of one step.
LEMMA IndentStepIs ==
  ASSUME NEW e, NEW t, NEW s, NEW n, Selects(e, t, s, n), NEW q \in s .. n - 1, NEW x \in Seq(Char)
  PROVE  LET y == IndentStep(e, q, x)
         IN  /\ \A i \in 1 .. Len(x) : y[i] = x[i]
             /\ IF q \in SelectedLines(e)
                THEN /\ Len(y) = Len(x) + 3 /\ y[Len(x) + 1] = SPACE /\ y[Len(x) + 2] = SPACE
                     /\ y[Len(x) + 3] = t[q + 1]
                ELSE Len(y) = Len(x) + 1 /\ y[Len(x) + 1] = t[q + 1]
<1>1. t = e.text /\ t[q + 1] \in Char /\ SPACE \in Char
  <2>1. t = e.text /\ t \in Seq(Char) /\ q + 1 \in 1 .. Len(t)
    BY DEF Selects
  <2> QED BY <2>1, EditorAssumption DEF EditorAssumption
<1>2. PICK c \in Char : c = t[q + 1]
  BY <1>1
<1>3. PICK l \in Nat : l = Len(x)
  OBVIOUS
<1>4. CASE q \in SelectedLines(e)
  <2> DEFINE z == x \o <<SPACE, SPACE>>
             y == z \o <<c>>
  <2>1. IndentStep(e, q, x) = y
    BY <1>1, <1>2, <1>4 DEF IndentStep, INDENT
  <2>2. /\ z \in Seq(Char) /\ Len(z) = l + 2 /\ z[l + 1] = SPACE /\ z[l + 2] = SPACE
        /\ \A i \in 1 .. l : z[i] = x[i]
    BY <1>1, <1>3
  <2> HIDE DEF z
  <2>3. /\ Len(y) = l + 3 /\ y[l + 3] = c /\ \A i \in 1 .. l + 2 : y[i] = z[i]
    BY <1>3, <2>2
  <2> HIDE DEF y
  <2>4. (\A i \in 1 .. l : i \in 1 .. l + 2) /\ l + 1 \in 1 .. l + 2 /\ l + 2 \in 1 .. l + 2
    OBVIOUS
  <2> QED BY <1>2, <1>3, <1>4, <2>1, <2>2, <2>3, <2>4
<1>5. CASE q \notin SelectedLines(e)
  <2> DEFINE y == x \o <<c>>
  <2>1. IndentStep(e, q, x) = y
    <3>1. (x \o <<>>) \o <<c>> = x \o <<c>>
      OBVIOUS
    <3> QED BY <1>1, <1>2, <1>5, <3>1 DEF IndentStep
  <2>2. Len(y) = l + 1 /\ y[l + 1] = c /\ \A i \in 1 .. l : y[i] = x[i]
    BY <1>3
  <2> HIDE DEF y
  <2> QED BY <1>2, <1>3, <1>5, <2>1, <2>2
<1> QED BY <1>4, <1>5

\* The places, and that the characters lie at them.
LEMMA IndentedPlaces ==
  ASSUME NEW e, NEW t, NEW s, NEW n, Selects(e, t, s, n), NEW f, IndentedBy(e, f, s, n)
  PROVE  /\ \A q \in s .. n : Place(e, q) \in Nat /\ s + Len(f[q]) = Place(e, q)
         /\ \A q \in s .. n - 1 : Place(e, q) < Place(e, n)
         /\ Place(e, s) = s
         /\ \A q \in s .. n : \A i \in 1 .. Len(f[q]) : f[n][i] = f[q][i]
<1>1. s \in Nat /\ n \in Nat /\ s < n
  BY DEF Selects
<1>2. /\ \A q \in s .. n : LinesTo(e, q) \in Nat /\ LinesTo(e, q) <= LinesTo(e, n)
      /\ LinesTo(e, s) = 0
      /\ \A q \in s .. n - 1 :
           LinesTo(e, q + 1) = IF q \in SelectedLines(e) THEN LinesTo(e, q) + 1 ELSE LinesTo(e, q)
  BY LinesToIs
<1>3. /\ \A q \in s .. n : f[q] \in Seq(Char) /\ Len(f[q]) \in Nat
      /\ f[s] = <<>>
      /\ \A q \in s .. n - 1 : f[q + 1] = IndentStep(e, q, f[q])
  BY DEF IndentedBy
<1>4. \A q \in s .. n - 1 :
        /\ q \in s .. n /\ q + 1 \in s .. n
        /\ \A i \in 1 .. Len(f[q]) : f[q + 1][i] = f[q][i]
        /\ Len(f[q + 1]) = Len(f[q]) + (IF q \in SelectedLines(e) THEN 3 ELSE 1)
  <2> TAKE q \in s .. n - 1
  <2>1. q \in s .. n /\ q + 1 \in s .. n
    BY <1>1
  <2>2. f[q] \in Seq(Char) /\ f[q + 1] = IndentStep(e, q, f[q])
    BY <1>3, <2>1
  <2>3. PICK x \in Seq(Char) : x = f[q]
    BY <2>2
  <2>4. /\ \A i \in 1 .. Len(x) : f[q + 1][i] = x[i]
        /\ Len(f[q + 1]) = Len(x) + (IF q \in SelectedLines(e) THEN 3 ELSE 1)
    <3>1. PICK y : y = IndentStep(e, q, x)
      OBVIOUS
    <3>2. /\ \A i \in 1 .. Len(x) : y[i] = x[i]
          /\ IF q \in SelectedLines(e) THEN Len(y) = Len(x) + 3 ELSE Len(y) = Len(x) + 1
      BY <3>1, IndentStepIs
    <3> QED BY <2>2, <2>3, <3>1, <3>2
  <2> QED BY <2>1, <2>3, <2>4
<1>5. \A q \in s .. n : Place(e, q) \in Nat
  BY <1>1, <1>2 DEF Place
<1>6. Place(e, s) = s /\ Len(f[s]) = 0
  BY <1>1, <1>2, <1>3 DEF Place
<1>7. \A q \in s .. n - 1 : Place(e, q) < Place(e, n)
  <2> TAKE q \in s .. n - 1
  <2>1. PICK a \in Nat, b \in Nat : a = LinesTo(e, q) /\ b = LinesTo(e, n) /\ a <= b
    <3>1. q \in s .. n /\ n \in s .. n
      BY <1>1
    <3> QED BY <1>2, <3>1
  <2>2. q + 2 * a < n + 2 * b
    BY <1>1, <2>1
  <2> QED BY <2>1, <2>2 DEF Place
<1>8. \A q \in s .. n : s + Len(f[q]) = Place(e, q)
  <2> DEFINE S == {k \in Nat : s + k <= n => s + Len(f[s + k]) = Place(e, s + k)}
  <2>1. 0 \in S
    <3>1. s + 0 = s
      BY <1>1
    <3> QED BY <1>1, <1>6, <3>1
  <2>2. ASSUME NEW k \in Nat, k \in S PROVE k + 1 \in S
    <3> SUFFICES ASSUME s + (k + 1) <= n
                 PROVE  s + Len(f[s + (k + 1)]) = Place(e, s + (k + 1))
      OBVIOUS
    <3>1. PICK q \in s .. n - 1 : q = s + k /\ q + 1 = s + (k + 1) /\ s + k <= n
      <4>1. s + k \in s .. n - 1 /\ (s + k) + 1 = s + (k + 1) /\ s + k <= n
        BY <1>1
      <4> QED BY <4>1
    <3>2. s + Len(f[q]) = Place(e, q)
      BY <2>2, <3>1
    <3>3. PICK l \in Nat, a \in Nat :
            /\ l = Len(f[q]) /\ a = LinesTo(e, q)
            /\ Len(f[q + 1]) = l + (IF q \in SelectedLines(e) THEN 3 ELSE 1)
            /\ LinesTo(e, q + 1) = IF q \in SelectedLines(e) THEN a + 1 ELSE a
      <4>1. q \in s .. n
        BY <1>1
      <4>2. Len(f[q]) \in Nat /\ LinesTo(e, q) \in Nat
        BY <1>2, <1>3, <4>1
      <4> QED BY <1>2, <1>4, <4>2
    <3>4. s + l = q + 2 * a
      BY <3>2, <3>3 DEF Place
    <3>5. s + (l + 3) = (q + 1) + 2 * (a + 1) /\ s + (l + 1) = (q + 1) + 2 * a
      BY <1>1, <3>4
    <3> QED BY <3>1, <3>3, <3>5 DEF Place
  <2>3. \A k \in Nat : k \in S
    <3> HIDE DEF S
    <3> QED BY <2>1, <2>2, NatSetInduction
  <2> TAKE q \in s .. n
  <2>4. q - s \in Nat /\ s + (q - s) = q /\ q <= n
    BY <1>1
  <2> QED BY <2>3, <2>4
<1>9. \A q \in s .. n : \A i \in 1 .. Len(f[q]) : f[n][i] = f[q][i]
  <2> DEFINE S == {k \in Nat : s <= n - k => \A i \in 1 .. Len(f[n - k]) : f[n][i] = f[n - k][i]}
  <2>1. 0 \in S
    <3>1. n - 0 = n
      BY <1>1
    <3> QED BY <3>1
  <2>2. ASSUME NEW k \in Nat, k \in S PROVE k + 1 \in S
    <3> SUFFICES ASSUME s <= n - (k + 1), NEW i \in 1 .. Len(f[n - (k + 1)])
                 PROVE  f[n][i] = f[n - (k + 1)][i]
      OBVIOUS
    <3>1. PICK q \in s .. n - 1 : q = n - (k + 1) /\ q + 1 = n - k /\ s <= n - k
      <4>1. n - (k + 1) \in s .. n - 1 /\ (n - (k + 1)) + 1 = n - k /\ s <= n - k
        BY <1>1
      <4> QED BY <4>1
    <3>2. i \in 1 .. Len(f[q]) /\ f[q + 1][i] = f[q][i]
      BY <1>4, <3>1
    <3>3. i \in 1 .. Len(f[q + 1])
      <4>1. Len(f[q]) \in Nat /\ Len(f[q + 1]) = Len(f[q]) + (IF q \in SelectedLines(e) THEN 3 ELSE 1)
        BY <1>3, <1>4
      <4>2. PICK l \in Nat : l = Len(f[q])
        BY <4>1
      <4>3. Len(f[q + 1]) = l + 3 \/ Len(f[q + 1]) = l + 1
        BY <4>1, <4>2
      <4>4. \A j \in 1 .. l : j \in 1 .. l + 3 /\ j \in 1 .. l + 1
        OBVIOUS
      <4> QED BY <3>2, <4>2, <4>3, <4>4
    <3>4. \A j \in 1 .. Len(f[q + 1]) : f[n][j] = f[q + 1][j]
      BY <2>2, <3>1
    <3> QED BY <3>1, <3>2, <3>3, <3>4
  <2>3. \A k \in Nat : k \in S
    <3> HIDE DEF S
    <3> QED BY <2>1, <2>2, NatSetInduction
  <2> TAKE q \in s .. n
  <2>4. n - q \in Nat /\ n - (n - q) = q /\ s <= q
    BY <1>1
  <2> QED BY <2>3, <2>4
<1> QED BY <1>5, <1>6, <1>7, <1>8, <1>9

\* The text with the selection replaced by the indented one.
LEMMA IndentedText ==
  ASSUME NEW e, NEW t, NEW s, NEW n, Selects(e, t, s, n), NEW f, IndentedBy(e, f, s, n),
         NEW u, SpliceIs(u, t, s, n - s, f[n])
  PROVE  IsIndented(e, t, u, s, n)
<1>1. s \in Nat /\ n \in Nat /\ s < n /\ n <= Len(t) /\ Len(t) \in Nat
  BY DEF Selects
<1>2. /\ \A q \in s .. n : Place(e, q) \in Nat /\ s + Len(f[q]) = Place(e, q)
      /\ \A q \in s .. n : \A i \in 1 .. Len(f[q]) : f[n][i] = f[q][i]
  BY IndentedPlaces
<1>3. /\ \A q \in s .. n : f[q] \in Seq(Char) /\ Len(f[q]) \in Nat
      /\ \A q \in s .. n - 1 : f[q + 1] = IndentStep(e, q, f[q])
  BY DEF IndentedBy
<1>4. /\ u \in Seq(Char) /\ Len(u) = Len(t) - (n - s) + Len(f[n])
      /\ \A i \in 1 .. Len(f[n]) : u[s + i] = f[n][i]
  BY DEF SpliceIs
<1>5. n \in s .. n /\ \A q \in s .. n - 1 : q \in s .. n /\ q + 1 \in s .. n
  BY <1>1
<1>6. Place(e, n) <= Len(u)
  <2>1. PICK l \in Nat : l = Len(f[n]) /\ s + l = Place(e, n)
    BY <1>2, <1>3, <1>5
  <2>2. PICK z \in Nat : z = Len(t)
    BY <1>1
  <2>3. s + l <= z - (n - s) + l
    BY <1>1, <2>2
  <2> QED BY <1>4, <2>1, <2>2, <2>3
<1>7. ASSUME NEW q \in s .. n, NEW i \in 1 .. Len(f[q]) PROVE u[s + i] = f[q][i]
  <2>1. PICK l \in Nat, m \in Nat : /\ l = Len(f[q]) /\ m = Len(f[n])
                                    /\ s + l = Place(e, q) /\ s + m = Place(e, n)
    BY <1>2, <1>3, <1>5
  <2>2. l <= m
    <3>1. CASE q = n
      BY <2>1, <3>1
    <3>2. CASE q # n
      <4>1. q \in s .. n - 1
        BY <1>1, <3>2
      <4>2. Place(e, q) < Place(e, n)
        BY <4>1, IndentedPlaces
      <4> QED BY <1>1, <2>1, <4>2
    <3> QED BY <3>1, <3>2
  <2>3. i \in 1 .. m
    BY <2>1, <2>2
  <2>4. f[n][i] = f[q][i] /\ u[s + i] = f[n][i]
    BY <1>2, <1>4, <2>1, <2>3
  <2> QED BY <2>4
<1>8. ASSUME NEW q \in s .. n - 1
      PROVE  IF q \in SelectedLines(e)
             THEN /\ Place(e, q + 1) = Place(e, q) + 3
                  /\ u[Place(e, q) + 1] = SPACE /\ u[Place(e, q) + 2] = SPACE
                  /\ u[Place(e, q) + 3] = t[q + 1]
             ELSE /\ Place(e, q + 1) = Place(e, q) + 1
                  /\ u[Place(e, q) + 1] = t[q + 1]
  <2>1. PICK x \in Seq(Char), y \in Seq(Char) :
          x = f[q] /\ y = f[q + 1] /\ y = IndentStep(e, q, x)
    <3>1. f[q] \in Seq(Char) /\ f[q + 1] \in Seq(Char) /\ f[q + 1] = IndentStep(e, q, f[q])
      BY <1>3, <1>5
    <3> QED BY <3>1
  <2>2. IF q \in SelectedLines(e)
        THEN /\ Len(y) = Len(x) + 3 /\ y[Len(x) + 1] = SPACE /\ y[Len(x) + 2] = SPACE
             /\ y[Len(x) + 3] = t[q + 1]
        ELSE Len(y) = Len(x) + 1 /\ y[Len(x) + 1] = t[q + 1]
    BY <2>1, IndentStepIs
  <2>3. PICK l \in Nat : l = Len(x)
    OBVIOUS
  <2>4. s + l = Place(e, q) /\ s + Len(y) = Place(e, q + 1) /\ q + 1 \in s .. n
    BY <1>2, <1>5, <2>1, <2>3
  <2>5. \A i \in 1 .. Len(y) : u[s + i] = y[i]
    BY <1>7, <2>1, <2>4
  <2>6. s + (l + 1) = (s + l) + 1 /\ s + (l + 2) = (s + l) + 2 /\ s + (l + 3) = (s + l) + 3
    BY <1>1
  <2>7. CASE q \in SelectedLines(e)
    <3>1. Len(y) = l + 3 /\ y[l + 1] = SPACE /\ y[l + 2] = SPACE /\ y[l + 3] = t[q + 1]
      BY <2>2, <2>3, <2>7
    <3>2. l + 1 \in 1 .. l + 3 /\ l + 2 \in 1 .. l + 3 /\ l + 3 \in 1 .. l + 3
      OBVIOUS
    <3>3. u[s + (l + 1)] = SPACE /\ u[s + (l + 2)] = SPACE /\ u[s + (l + 3)] = t[q + 1]
      BY <2>5, <3>1, <3>2
    <3> QED BY <2>4, <2>6, <2>7, <3>1, <3>3
  <2>8. CASE q \notin SelectedLines(e)
    <3>1. Len(y) = l + 1 /\ y[l + 1] = t[q + 1]
      BY <2>2, <2>3, <2>8
    <3>2. l + 1 \in 1 .. l + 1
      OBVIOUS
    <3>3. u[s + (l + 1)] = t[q + 1]
      BY <2>5, <3>1, <3>2
    <3> QED BY <2>4, <2>6, <2>8, <3>1, <3>3
  <2> QED BY <2>7, <2>8
<1> QED BY <1>4, <1>6, <1>8 DEF IsIndented

-----------------------------------------------------------------------------
(* Unindenting what was indented.                                          *)

\* The state of the loop of unindent.
Loops == [i : Nat, newline : BOOLEAN, buffer : Seq(Char), shrinkage : Nat, topofs : Int]

\* Before the character at q of the text that was indented; and behind its
\* indentation.
Before(e, t, s, n, q, st) ==
  /\ q \in s .. n
  /\ st.i = Place(e, q) /\ st.newline = (q = s \/ t[q] = NL)
  /\ st.buffer = SubSeq(t, s + 1, q) /\ st.shrinkage = 2 * LinesTo(e, q)
Behind(e, t, s, n, q, st) ==
  /\ q \in s .. n - 1 /\ q \in SelectedLines(e)
  /\ st.i = Place(e, q) + 2 /\ st.newline = FALSE
  /\ st.buffer = SubSeq(t, s + 1, q) /\ st.shrinkage = 2 * LinesTo(e, q) + 2

\* One character more.
LEMMA OneMore ==
  ASSUME NEW t \in Seq(Char), NEW s \in Nat, NEW q \in Nat, s <= q, q < Len(t)
  PROVE  Append(SubSeq(t, s + 1, q), t[q + 1]) = SubSeq(t, s + 1, q + 1)
<1>1. PICK k \in Nat : k = q - s /\ q = s + k
  <2>1. q - s \in Nat /\ q = s + (q - s)
    OBVIOUS
  <2> QED BY <2>1
<1>2. PICK a : /\ a = SubSeq(t, s + 1, q) /\ a \in Seq(Char) /\ Len(a) = k
               /\ \A i \in 1 .. k : a[i] = t[s + i]
  <2>1. SubSeq(t, s + 1, q) \in Seq(Char) /\ Len(SubSeq(t, s + 1, q)) = k
    BY <1>1
  <2>2. \A i \in 1 .. k : SubSeq(t, s + 1, q)[i] = t[s + i]
    BY <1>1
  <2> QED BY <2>1, <2>2
<1>3. PICK b : /\ b = SubSeq(t, s + 1, q + 1) /\ b \in Seq(Char) /\ Len(b) = k + 1
               /\ \A i \in 1 .. k + 1 : b[i] = t[s + i]
  <2>1. SubSeq(t, s + 1, q + 1) \in Seq(Char) /\ Len(SubSeq(t, s + 1, q + 1)) = k + 1
    BY <1>1
  <2>2. \A i \in 1 .. k + 1 : SubSeq(t, s + 1, q + 1)[i] = t[s + i]
    BY <1>1
  <2> QED BY <2>1, <2>2
<1>4. PICK c : c = Append(a, t[q + 1]) /\ c \in Seq(Char) /\ Len(c) = k + 1
               /\ (\A i \in 1 .. k : c[i] = a[i]) /\ c[k + 1] = t[q + 1]
  <2>1. t[q + 1] \in Char
    OBVIOUS
  <2>2. Append(a, t[q + 1]) \in Seq(Char) /\ Len(Append(a, t[q + 1])) = k + 1
    BY <1>2, <2>1
  <2>3. (\A i \in 1 .. k : Append(a, t[q + 1])[i] = a[i]) /\ Append(a, t[q + 1])[k + 1] = t[q + 1]
    BY <1>2, <2>1
  <2> QED BY <2>2, <2>3
<1>5. \A i \in 1 .. k + 1 : c[i] = b[i]
  <2> TAKE i \in 1 .. k + 1
  <2>1. CASE i = k + 1
    BY <1>1, <1>3, <1>4, <2>1
  <2>2. CASE i # k + 1
    <3>1. i \in 1 .. k
      BY <2>2
    <3> QED BY <1>2, <1>3, <1>4, <3>1
  <2> QED BY <2>1, <2>2
<1>6. c = b
  <2>1. Len(c) = Len(b) /\ \A i \in 1 .. Len(c) : c[i] = b[i]
    BY <1>3, <1>4, <1>5
  <2> QED BY <1>3, <1>4, <2>1, SeqEqual
<1> QED BY <1>2, <1>3, <1>4, <1>6

\* Two blanks.
LEMMA TwoBlanks ==
  ASSUME NEW t \in Seq(Char), NEW i \in Nat, i + 2 <= Len(t), t[i + 1] = SPACE, t[i + 2] = SPACE
  PROVE  SubSeq(t, i + 1, i + 2) = <<SPACE, SPACE>>
<1>1. PICK a : a = SubSeq(t, i + 1, i + 2) /\ a \in Seq(Char) /\ Len(a) = 2 /\ a[1] = SPACE /\ a[2] = SPACE
  <2>1. SubSeq(t, i + 1, i + 2) \in Seq(Char) /\ Len(SubSeq(t, i + 1, i + 2)) = 2
    OBVIOUS
  <2>2. SubSeq(t, i + 1, i + 2)[1] = t[i + 1] /\ SubSeq(t, i + 1, i + 2)[2] = t[i + 2]
    OBVIOUS
  <2> QED BY <2>1, <2>2, Zenon
<1>2. PICK b : b = <<SPACE, SPACE>> /\ b \in Seq(Char) /\ Len(b) = 2 /\ b[1] = SPACE /\ b[2] = SPACE
  <2>1. <<SPACE, SPACE>> \in Seq(Char)
    BY EditorAssumption DEF EditorAssumption
  <2>2. Len(<<SPACE, SPACE>>) = 2 /\ <<SPACE, SPACE>>[1] = SPACE /\ <<SPACE, SPACE>>[2] = SPACE
    OBVIOUS
  <2> QED BY <2>1, <2>2, Zenon
<1>3. \A j \in 1 .. 2 : j = 1 \/ j = 2
  OBVIOUS
<1>4. \A j \in 1 .. Len(a) : a[j] = b[j]
  BY <1>1, <1>2, <1>3
<1> QED BY <1>1, <1>2, <1>4, SeqEqual

\* One iteration of the loop.
LEMMA UnindentStepIs ==
  ASSUME NEW e, NEW t, NEW s, NEW n, Selects(e, t, s, n),
         NEW f, IndentedBy(e, f, s, n),
         NEW d, IsIndented(e, t, d.text, s, n), SelEnd(d) = Place(e, n), d.toppos \in Int,
         NEW st \in Loops, NEW q, Before(e, t, s, n, q, st) \/ Behind(e, t, s, n, q, st)
  PROVE  LET v == UnindentStep(d, st)
         IN  /\ v \in Loops
             /\ \E p : Before(e, t, s, n, p, v) \/ Behind(e, t, s, n, p, v)
             /\ st.i >= SelEnd(d) => v = st /\ Before(e, t, s, n, n, st)
             /\ st.i < SelEnd(d) => v.i > st.i
<1>1. /\ t = e.text /\ t \in Seq(Char) /\ s \in Nat /\ n \in Nat /\ s < n /\ n <= Len(t)
      /\ s = SelStart(e) /\ n = SelEnd(e) /\ Len(t) \in Nat
  BY DEF Selects
<1>2. /\ \A p \in s .. n : Place(e, p) \in Nat
      /\ \A p \in s .. n - 1 : Place(e, p) < Place(e, n)
      /\ \A p \in s .. n : LinesTo(e, p) \in Nat
      /\ \A p \in s .. n - 1 :
           LinesTo(e, p + 1) = IF p \in SelectedLines(e) THEN LinesTo(e, p) + 1 ELSE LinesTo(e, p)
  BY IndentedPlaces, LinesToIs
<1>3. PICK z \in Nat : z = SelEnd(d) /\ z = Place(e, n) /\ z <= Len(d.text)
  <2>1. n \in s .. n
    BY <1>1
  <2> QED BY <1>2, <2>1 DEF IsIndented
<1>4. /\ st.i \in Nat /\ st.newline \in BOOLEAN /\ st.buffer \in Seq(Char)
      /\ st.shrinkage \in Nat /\ st.topofs \in Int
  BY DEF Loops
<1>5. Width = 2 /\ d.text \in Seq(Char) /\ Len(d.text) \in Nat
  <2>1. Len(<<SPACE, SPACE>>) = 2
    OBVIOUS
  <2> QED BY <2>1 DEF Width, INDENT, IsIndented
<1> DEFINE v == UnindentStep(d, st)
<1>6. CASE Before(e, t, s, n, q, st) /\ q = n
  <2>1. st.i = z
    BY <1>3, <1>6 DEF Before
  <2>2. v = st
    BY <1>3, <2>1 DEF UnindentStep
  <2>3. \E p : Before(e, t, s, n, p, v) \/ Behind(e, t, s, n, p, v)
    BY <1>6, <2>2
  <2>4. ~ st.i < SelEnd(d)
    BY <1>3, <2>1
  <2> HIDE DEF v
  <2> QED BY <1>6, <2>2, <2>3, <2>4 DEF v
<1>7. ASSUME NEW p \in s .. n - 1, NEW new,
             new = [st EXCEPT !.newline = (t[p + 1] = NL), !.i = st.i + 1,
                              !.buffer = Append(st.buffer, t[p + 1])],
             st.buffer = SubSeq(t, s + 1, p), st.i + 1 = Place(e, p + 1),
             st.shrinkage = 2 * LinesTo(e, p + 1)
      PROVE  new \in Loops /\ Before(e, t, s, n, p + 1, new) /\ new.i > st.i
  <2>1. t[p + 1] \in Char
    <3>1. p + 1 \in 1 .. Len(t)
      BY <1>1
    <3> QED BY <1>1, <3>1
  <2>2. st.i + 1 \in Nat /\ Append(st.buffer, t[p + 1]) \in Seq(Char) /\ (t[p + 1] = NL) \in BOOLEAN
    BY <1>4, <2>1
  <2>3. new \in Loops
    BY <1>7, <2>2 DEF Loops
  <2>4. /\ new.i = st.i + 1 /\ new.newline = (t[p + 1] = NL)
        /\ new.buffer = Append(st.buffer, t[p + 1]) /\ new.shrinkage = st.shrinkage
    BY <1>7 DEF Loops
  <2>5. p + 1 \in s .. n /\ p + 1 # s /\ s <= p /\ p < Len(t) /\ p \in Nat
    BY <1>1
  <2>6. Append(st.buffer, t[p + 1]) = SubSeq(t, s + 1, p + 1)
    <3>1. s \in Nat /\ p \in Nat /\ t \in Seq(Char) /\ s <= p /\ p < Len(t)
      BY <1>1, <2>5
    <3>2. Append(SubSeq(t, s + 1, p), t[p + 1]) = SubSeq(t, s + 1, p + 1)
      BY <3>1, OneMore
    <3> QED BY <1>7, <3>2
  <2>7. Before(e, t, s, n, p + 1, new)
    BY <1>7, <2>4, <2>5, <2>6 DEF Before
  <2> QED BY <1>4, <2>3, <2>4, <2>7
<1>8. CASE Before(e, t, s, n, q, st) /\ q # n
  <2>1. /\ q \in s .. n - 1 /\ q \in s .. n /\ st.i = Place(e, q) /\ st.newline = (q = s \/ t[q] = NL)
        /\ st.buffer = SubSeq(t, s + 1, q) /\ st.shrinkage = 2 * LinesTo(e, q)
    BY <1>1, <1>8 DEF Before
  <2>2. st.i < z
    BY <1>2, <1>3, <2>1
  <2>3. st.newline <=> q \in SelectedLines(e)
    BY <1>1, <2>1 DEF SelectedLines
  <2>4. CASE q \in SelectedLines(e)
    <3>1. /\ Place(e, q + 1) = st.i + 3 /\ d.text[st.i + 1] = SPACE /\ d.text[st.i + 2] = SPACE
      BY <2>1, <2>4 DEF IsIndented
    <3>2. st.i + 3 <= z
      <4>1. CASE q + 1 = n
        BY <1>3, <3>1, <4>1
      <4>2. CASE q + 1 # n
        <5>1. q + 1 \in s .. n - 1
          BY <1>1, <2>1, <4>2
        <5>2. Place(e, q + 1) < Place(e, n)
          BY <1>2, <5>1
        <5> QED BY <1>3, <1>4, <3>1, <5>2
      <4> QED BY <4>1, <4>2
    <3>3. Holds(d.text, st.i, INDENT)
      <4>1. Len(INDENT) = 2 /\ INDENT = <<SPACE, SPACE>>
        BY <1>5 DEF Width, INDENT
      <4>2. st.i + 2 <= Len(d.text)
        BY <1>3, <1>4, <1>5, <3>2
      <4>3. SubSeq(d.text, st.i + 1, st.i + 2) = <<SPACE, SPACE>>
        <5>1. st.i \in Nat /\ d.text \in Seq(Char) /\ d.text[st.i + 1] = SPACE /\ d.text[st.i + 2] = SPACE
          BY <1>4, <1>5, <3>1
        <5> QED BY <4>2, <5>1, TwoBlanks
      <4> QED BY <4>1, <4>2, <4>3 DEF Holds
    <3> DEFINE to == IF st.i + Width < d.toppos THEN st.topofs - Width ELSE st.topofs
               new == [st EXCEPT !.newline = FALSE, !.i = st.i + Width,
                                 !.shrinkage = st.shrinkage + Width, !.topofs = to]
    <3>4. v = new
      BY <1>3, <1>4, <2>2, <2>3, <2>4, <3>3 DEF UnindentStep
    <3>5. to \in Int
      BY <1>4, <1>5
    <3> HIDE DEF to
    <3>6. new \in Loops
      <4>1. st.i + Width \in Nat /\ st.shrinkage + Width \in Nat
        BY <1>4, <1>5
      <4> QED BY <3>5, <4>1 DEF Loops
    <3>7. /\ new.i = st.i + 2 /\ new.newline = FALSE /\ new.buffer = st.buffer
          /\ new.shrinkage = st.shrinkage + 2
      BY <1>5 DEF Loops
    <3> HIDE DEF new
    <3>8. Behind(e, t, s, n, q, new)
      BY <2>1, <2>4, <3>7 DEF Behind
    <3>9. new.i > st.i /\ ~ st.i >= SelEnd(d)
      BY <1>3, <1>4, <2>2, <3>7
    <3> HIDE DEF v
    <3> QED BY <3>4, <3>6, <3>8, <3>9 DEF v
  <2>5. CASE q \notin SelectedLines(e)
    <3> DEFINE new == [st EXCEPT !.newline = (t[q + 1] = NL), !.i = st.i + 1,
                                 !.buffer = Append(st.buffer, t[q + 1])]
    <3>1. Place(e, q + 1) = st.i + 1 /\ d.text[st.i + 1] = t[q + 1]
      BY <2>1, <2>5 DEF IsIndented
    <3>2. v = new
      BY <1>3, <1>4, <2>2, <2>3, <2>5, <3>1 DEF UnindentStep
    <3>3. st.shrinkage = 2 * LinesTo(e, q + 1)
      BY <1>2, <2>1, <2>5
    <3> HIDE DEF new
    <3>4. new \in Loops /\ Before(e, t, s, n, q + 1, new) /\ new.i > st.i
      BY <1>7, <2>1, <3>1, <3>3 DEF new
    <3>5. ~ st.i >= SelEnd(d)
      BY <1>3, <1>4, <2>2
    <3> HIDE DEF v
    <3> QED BY <3>2, <3>4, <3>5 DEF v
  <2> QED BY <2>4, <2>5
<1>9. CASE Behind(e, t, s, n, q, st)
  <2>1. /\ q \in s .. n - 1 /\ q \in s .. n /\ q \in SelectedLines(e)
        /\ st.i = Place(e, q) + 2 /\ st.newline = FALSE
        /\ st.buffer = SubSeq(t, s + 1, q) /\ st.shrinkage = 2 * LinesTo(e, q) + 2
    BY <1>1, <1>9 DEF Behind
  <2>2. Place(e, q) \in Nat /\ LinesTo(e, q) \in Nat /\ LinesTo(e, q + 1) = LinesTo(e, q) + 1
    BY <1>2, <2>1
  <2>3. Place(e, q + 1) = Place(e, q) + 3 /\ d.text[Place(e, q) + 3] = t[q + 1]
    BY <2>1 DEF IsIndented
  <2>4. Place(e, q + 1) = st.i + 1 /\ d.text[st.i + 1] = t[q + 1]
    <3>1. (Place(e, q) + 2) + 1 = Place(e, q) + 3
      BY <2>2
    <3> QED BY <2>1, <2>3, <3>1
  <2>5. st.i < z
    <3>1. CASE q + 1 = n
      BY <1>3, <1>4, <2>4, <3>1
    <3>2. CASE q + 1 # n
      <4>0. q \in s .. n - 1 /\ q + 1 # n /\ s \in Nat /\ n \in Nat
        BY <1>1, <2>1, <3>2
      <4>1. q + 1 \in s .. n - 1
        BY <4>0
      <4>2. Place(e, q + 1) < Place(e, n)
        BY <1>2, <4>1
      <4> QED BY <1>3, <1>4, <2>4, <4>2
    <3> QED BY <3>1, <3>2
  <2> DEFINE new == [st EXCEPT !.newline = (t[q + 1] = NL), !.i = st.i + 1,
                               !.buffer = Append(st.buffer, t[q + 1])]
  <2>6. v = new
    BY <1>3, <1>4, <2>1, <2>4, <2>5 DEF UnindentStep
  <2>7. st.shrinkage = 2 * LinesTo(e, q + 1)
    BY <2>1, <2>2
  <2> HIDE DEF new
  <2>8. new \in Loops /\ Before(e, t, s, n, q + 1, new) /\ new.i > st.i
    BY <1>7, <2>1, <2>4, <2>7 DEF new
  <2>9. ~ st.i >= SelEnd(d)
    BY <1>3, <1>4, <2>5
  <2> HIDE DEF v
  <2> QED BY <2>6, <2>8, <2>9 DEF v
<1> QED BY <1>6, <1>8, <1>9

\* What the loop of unindent leaves.
Unindented(d) ==
  LET step(st) == UnindentStep(d, st)
  IN  Iterate(step, [i |-> SelStart(d), newline |-> TRUE, buffer |-> <<>>,
                     shrinkage |-> 0, topofs |-> 0], Len(d.text))

\* What it finds after indent, and leaves then.
Finds(e, t, s, n, d) ==
  /\ IsIndented(e, t, d.text, s, n) /\ SelStart(d) = s /\ SelEnd(d) = Place(e, n)
  /\ d.toppos \in Int
Leaves(e, t, s, n, st) ==
  st.buffer = SubSeq(t, s + 1, n) /\ st.shrinkage = 2 * LinesTo(e, n) /\ st.topofs \in Int

\* Of an indented text, the one that was indented.
LEMMA UnindentedIs ==
  ASSUME NEW e, NEW t, NEW s, NEW n, Selects(e, t, s, n),
         NEW f, IndentedBy(e, f, s, n), NEW d, Finds(e, t, s, n, d)
  PROVE  Leaves(e, t, s, n, Unindented(d))
<1> /\ IsIndented(e, t, d.text, s, n) /\ SelStart(d) = s /\ SelEnd(d) = Place(e, n)
    /\ d.toppos \in Int
  BY DEF Finds
<1>1. /\ t = e.text /\ t \in Seq(Char) /\ s \in Nat /\ n \in Nat /\ s < n /\ n <= Len(t)
      /\ s = SelStart(e) /\ n = SelEnd(e) /\ Len(t) \in Nat /\ s \in s .. n /\ n \in s .. n
  BY DEF Selects
<1>2. Place(e, s) = s /\ LinesTo(e, s) = 0 /\ Place(e, n) \in Nat
  BY <1>1, IndentedPlaces, LinesToIs
<1>3. PICK l \in Nat, z \in Nat : l = Len(d.text) /\ z = SelEnd(d) /\ z = Place(e, n) /\ z <= l
  BY <1>2 DEF IsIndented
<1>0. PICK start : start = [i |-> s, newline |-> TRUE, buffer |-> <<>>, shrinkage |-> 0, topofs |-> 0]
  OBVIOUS
<1> DEFINE On(st) == \E q : Before(e, t, s, n, q, st) \/ Behind(e, t, s, n, q, st)
           V == {st \in Loops : On(st)}
           G == [st \in V |-> UnindentStep(d, st)]
           Runs(w) == w = [k \in 0 .. l |-> IF k = 0 THEN start ELSE UnindentStep(d, w[k - 1])]
           u == CHOOSE w : Runs(w)
<1>4. start \in V
  <2>1. start \in Loops
    BY <1>0, <1>1 DEF Loops
  <2>2. SubSeq(t, s + 1, s) = <<>>
    BY <1>1
  <2>3. Before(e, t, s, n, s, start)
    <3>1. /\ start.i = s /\ start.newline = TRUE /\ start.buffer = <<>>
          /\ start.shrinkage = 0
      BY <1>0
    <3>2. start.newline = (s = s \/ t[s] = NL)
      BY <3>1
    <3>3. start.shrinkage = 2 * LinesTo(e, s)
      BY <1>2, <3>1
    <3> QED BY <1>1, <1>2, <2>2, <3>1, <3>2, <3>3 DEF Before
  <2> QED BY <2>1, <2>3
<1>5. ASSUME NEW st \in V
      PROVE  /\ UnindentStep(d, st) \in V
             /\ st.i >= z => UnindentStep(d, st) = st /\ Before(e, t, s, n, n, st)
             /\ st.i < z => UnindentStep(d, st).i > st.i
             /\ st.i \in Nat /\ UnindentStep(d, st).i \in Nat
  <2>1. PICK q : Before(e, t, s, n, q, st) \/ Behind(e, t, s, n, q, st)
    OBVIOUS
  <2>2. st \in Loops
    OBVIOUS
  <2>3. PICK v : v = UnindentStep(d, st)
    OBVIOUS
  <2>4. /\ v \in Loops
        /\ \E p : Before(e, t, s, n, p, v) \/ Behind(e, t, s, n, p, v)
        /\ st.i >= SelEnd(d) => v = st /\ Before(e, t, s, n, n, st)
        /\ st.i < SelEnd(d) => v.i > st.i
    <3> HIDE DEF V
    <3> QED BY <1>3, <2>1, <2>2, <2>3, UnindentStepIs
  <2>5. st.i \in Nat /\ v.i \in Nat
    BY <2>2, <2>4 DEF Loops
  <2> QED BY <1>3, <2>3, <2>4, <2>5
<1> HIDE DEF On
<1>6. Runs(u)
  <2>1. G \in [V -> V]
    <3> HIDE DEF V
    <3> QED BY <1>5
  <2>2. PICK w : w \in [0 .. l -> V] /\ w[0] = start /\ \A k \in 0 .. l - 1 : w[k + 1] = G[w[k]]
    <3> HIDE DEF V, G, Runs, u
    <3>1. l \in Nat
      BY <1>3
    <3>2. PICK w : Steps(w, l, V, start, G)
      BY <1>4, <2>1, <3>1, StepsExist
    <3> QED BY <3>2 DEF Steps
  <2>3. \A k \in 0 .. l : w[k] = IF k = 0 THEN start ELSE UnindentStep(d, w[k - 1])
    <3> HIDE DEF V, Runs, u
    <3> TAKE k \in 0 .. l
    <3>1. CASE k = 0
      BY <2>2, <3>1
    <3>2. CASE k # 0
      <4>1. k - 1 \in 0 .. l - 1 /\ k - 1 \in 0 .. l /\ (k - 1) + 1 = k
        BY <1>3, <3>2
      <4>2. w[k - 1] \in V
        BY <2>2, <4>1
      <4> QED BY <2>2, <3>2, <4>1, <4>2
    <3> QED BY <3>1, <3>2
  <2>4. w = [k \in 0 .. l |-> IF k = 0 THEN start ELSE UnindentStep(d, w[k - 1])]
    <3>1. w = [k \in 0 .. l |-> w[k]]
      BY <2>2
    <3> HIDE DEF V, G, Runs, u
    <3> QED BY <2>3, <3>1
  <2>5. Runs(w)
    BY <2>4
  <2> HIDE DEF Runs
  <2> QED BY <2>5
<1>7. Unindented(d) = u[l]
  BY <1>0, <1>3 DEF Unindented, Iterate, UnindentStep
<1> HIDE DEF u
<1>8. u[0] = start /\ \A k \in 0 .. l - 1 : u[k + 1] = UnindentStep(d, u[k])
  <2>1. \A k \in 0 .. l - 1 : k + 1 \in 0 .. l /\ k + 1 # 0 /\ (k + 1) - 1 = k
    OBVIOUS
  <2>2. 0 \in 0 .. l
    OBVIOUS
  <2> QED BY <1>6, <2>1, <2>2
<1>9. \A k \in 0 .. l : u[k] \in V
  <2>1. \A k \in 0 .. l - 1 : u[k] \in V => u[k + 1] \in V
    <3> HIDE DEF V
    <3> QED BY <1>5, <1>8
  <2> HIDE DEF V
  <2> QED BY <1>4, <1>8, <2>1, StepsStay
<1> HIDE DEF V
<1> DEFINE S == {k \in Nat : k <= l => u[k].i >= s + k \/ u[k].i >= z}
<1>10. 0 \in S
  <2>1. u[0].i = s
    BY <1>0, <1>8
  <2> QED BY <1>1, <2>1
<1>11. ASSUME NEW k \in Nat, k \in S PROVE k + 1 \in S
  <2> SUFFICES ASSUME k + 1 <= l PROVE u[k + 1].i >= s + (k + 1) \/ u[k + 1].i >= z
    OBVIOUS
  <2>1. k <= l /\ k \in 0 .. l /\ k \in 0 .. l - 1
    OBVIOUS
  <2>2. PICK a \in Nat, b \in Nat : /\ a = u[k].i /\ b = u[k + 1].i
                                    /\ a >= z => b = a
                                    /\ a < z => b > a
    <3>1. u[k] \in V /\ u[k + 1] = UnindentStep(d, u[k])
      BY <1>8, <1>9, <2>1
    <3> QED BY <1>5, <3>1
  <2>3. a >= s + k \/ a >= z
    BY <1>11, <2>1, <2>2
  <2> QED BY <1>1, <2>2, <2>3
<1>12. l \in S
  <2>1. \A k \in Nat : k \in S
    <3> HIDE DEF S
    <3> QED BY <1>10, <1>11, NatSetInduction
  <2> QED BY <2>1
<1>13. u[l] \in V /\ u[l].i \in Nat
  <2>1. l \in 0 .. l
    OBVIOUS
  <2>2. u[l] \in V
    BY <1>9, <2>1
  <2> QED BY <1>5, <2>2
<1>14. u[l].i >= z
  <2>1. u[l].i >= s + l \/ u[l].i >= z
    BY <1>12
  <2> QED BY <1>1, <1>3, <1>13, <2>1
<1>15. Before(e, t, s, n, n, u[l]) /\ u[l] \in Loops
  BY <1>5, <1>13, <1>14 DEF V
<1> QED BY <1>7, <1>15 DEF Before, Loops, Leaves


\* Where the end of the selection and the anchor are after it grew.
GrownPos(e, by) == IF e.anchor < Pos(e) THEN Pos(e) + by ELSE Pos(e)
GrownAnchor(e, by) == IF e.anchor < Pos(e) THEN e.anchor ELSE e.anchor + by

\* The cursor and the anchor go there, if they can.
LEMMA GrownIs ==
  ASSUME NEW e \in Editors, NEW by, GrownPos(e, by) \in 0 .. Len(e.text),
         GrownAnchor(e, by) \in Nat, Clear(e.text, GrownPos(e, by))
  PROVE  LET f == Grown(e, by)
         IN  /\ f \in Editors /\ SameText(e, f) /\ f.toppos = e.toppos
             /\ Pos(f) = GrownPos(e, by) /\ f.anchor = GrownAnchor(e, by)
<1>1. e.text \in Seq(Char) /\ Len(e.text) \in Nat
  BY DEF Editors
<1>2. PICK p \in Nat, a \in Nat, l \in Nat :
        p = GrownPos(e, by) /\ a = GrownAnchor(e, by) /\ l = Len(e.text) /\ p <= l
  BY <1>1
<1>3. PICK start \in Nat : /\ start = LineStart(e.text, p) /\ start <= p /\ IsLine(e.text, start)
                           /\ \A n \in start .. p - 1 : e.text[n + 1] # NL
  <2>1. p \in 0 .. Len(e.text)
    BY <1>2
  <2>2. InLine(e.text, LineStart(e.text, p), p)
    BY <1>1, <2>1, LineStartIs
  <2>3. LineStart(e.text, p) \in 0 .. l
    BY <1>2, <2>2 DEF InLine, IsLine
  <2> QED BY <2>2, <2>3 DEF InLine
<1>4. PICK col \in Nat : col = p - start /\ start + col = p
  <2>1. p - start \in Nat /\ start + (p - start) = p
    BY <1>2, <1>3
  <2> QED BY <2>1
<1> DEFINE g == [e EXCEPT !.anchor = a, !.linepos = start, !.col = col, !.lastcol = col]
<1>5. Grown(e, by) = AdjustLayout(g)
  <2>1. a = IF e.anchor < Pos(e) THEN e.anchor ELSE e.anchor + by
    BY <1>2 DEF GrownAnchor
  <2>2. p = IF e.anchor < Pos(e) THEN Pos(e) + by ELSE Pos(e)
    BY <1>2 DEF GrownPos
  <2> HIDE DEF g
  <2>3. g = [e EXCEPT !.anchor = IF e.anchor < Pos(e) THEN @ ELSE @ + by,
                      !.linepos = LineStart(e.text, p), !.col = p - LineStart(e.text, p),
                      !.lastcol = p - LineStart(e.text, p)]
    BY <1>3, <1>4, <2>1 DEF g
  <2> QED BY <2>2, <2>3 DEF Grown
<1>6. g \in Editors
  <2>1. start \in Int /\ col \in Int
    BY <1>3, <1>4
  <2> QED BY <1>2, <1>4, <2>1 DEF Editors
<1>7. /\ SameText(e, g) /\ g.toppos = e.toppos /\ g.linepos = start /\ g.lastcol = col
      /\ g.anchor = a
  BY DEF Editors, SameText
<1> HIDE DEF g
<1>8. IsLine(g.text, g.linepos)
  BY <1>3, <1>7 DEF SameText
<1>9. PICK f : f = AdjustLayout(g)
  OBVIOUS
<1>10. /\ f \in Editors /\ SameText(g, f) /\ SameLine(g, f)
       /\ f.col = IF col > LineLength(e.text, start) THEN LineLength(e.text, start) ELSE col
  <2>1. g.text = e.text
    BY <1>7 DEF SameText
  <2> QED BY <1>6, <1>7, <1>8, <1>9, <2>1, AdjustLayoutIs
<1>11. CursorAt(e.text, start, col)
  <2>1. \A n \in start .. start + col - 1 : ~ Stops(e.text, n)
    <3> TAKE n \in start .. start + col - 1
    <3>1. n \in start .. p - 1 /\ n \in 0 .. p - 1
      BY <1>3, <1>4
    <3> QED BY <1>2, <1>3, <3>1 DEF Clear, Stops
  <2>2. start + col <= Len(e.text)
    BY <1>2, <1>4
  <2> QED BY <1>4, <2>1, <2>2 DEF CursorAt
<1>12. PICK ll \in Nat : ll = LineLength(e.text, start) /\ col <= ll
  <2>1. LineLength(e.text, start) \in Nat
    BY <1>1, <1>3, LengthIs
  <2>2. col <= LineLength(e.text, start)
    BY <1>1, <1>3, <1>4, <1>11, CursorInLength
  <2> QED BY <2>1, <2>2
<1>13. f.col = col
  BY <1>4, <1>10, <1>12
<1>14. f.linepos = start /\ f.anchor = a /\ f.toppos = e.toppos /\ SameText(e, f)
  BY <1>7, <1>10 DEF SameLine, SameText
<1>15. Pos(f) = p
  BY <1>4, <1>13, <1>14 DEF Pos
<1> QED BY <1>2, <1>5, <1>9, <1>10, <1>14, <1>15


-----------------------------------------------------------------------------
(* Indenting, and unindenting at once.                                     *)

\* What indents a line is not negative: get_char goes through the indented text
\* if it went through the selection.
LEMMA IndentedClear ==
  ASSUME NEW e, NEW t, NEW s, NEW n, Selects(e, t, s, n), NEW f, IndentedBy(e, f, s, n),
         Clear(t, n), NEW u, SpliceIs(u, t, s, n - s, f[n])
  PROVE  Clear(u, Place(e, n))
<1> DEFINE P == Char \ Negative
           S == {k \in Nat : s + k <= n => f[s + k] \in Seq(P)}
<1>1. /\ t = e.text /\ t \in Seq(Char) /\ s \in Nat /\ n \in Nat /\ s < n /\ n <= Len(t)
      /\ Len(t) \in Nat
  BY DEF Selects
<1>2. f[s] = <<>> /\ \A q \in s .. n - 1 : f[q + 1] = IndentStep(e, q, f[q])
  BY DEF IndentedBy
<1>3. SPACE \in P
  BY EditorAssumption DEF EditorAssumption
<1>4. \A q \in s .. n - 1 : t[q + 1] \in P
  <2> TAKE q \in s .. n - 1
  <2>1. q \in 0 .. n - 1 /\ q + 1 \in 1 .. Len(t)
    BY <1>1
  <2>2. t[q + 1] \notin Negative
    BY <2>1 DEF Clear
  <2>3. t[q + 1] \in Char
    BY <1>1, <2>1
  <2> QED BY <2>2, <2>3
<1> HIDE DEF P
<1>5. ASSUME NEW q \in s .. n - 1, NEW x \in Seq(P) PROVE IndentStep(e, q, x) \in Seq(P)
  <2>1. PICK c \in P : c = e.text[q + 1]
    BY <1>1, <1>4
  <2>2. PICK i \in Seq(P) : i = IF q \in SelectedLines(e) THEN INDENT ELSE <<>>
    <3>1. <<>> \in Seq(P) /\ INDENT \in Seq(P)
      BY <1>3 DEF INDENT
    <3> QED BY <3>1
  <2>3. x \o i \in Seq(P)
    OBVIOUS
  <2>4. (x \o i) \o <<c>> \in Seq(P)
    BY <2>3
  <2> QED BY <2>1, <2>2, <2>4 DEF IndentStep
<1>6. 0 \in S
  <2>1. s + 0 = s /\ <<>> \in Seq(P)
    BY <1>1
  <2> QED BY <1>2, <2>1
<1>7. ASSUME NEW k \in Nat, k \in S PROVE k + 1 \in S
  <2> SUFFICES ASSUME s + (k + 1) <= n PROVE f[s + (k + 1)] \in Seq(P)
    OBVIOUS
  <2>1. PICK q \in s .. n - 1 : q = s + k /\ q + 1 = s + (k + 1) /\ s + k <= n
    <3>1. s + k \in s .. n - 1 /\ (s + k) + 1 = s + (k + 1) /\ s + k <= n
      BY <1>1
    <3> QED BY <3>1
  <2>2. f[q] \in Seq(P)
    BY <1>7, <2>1
  <2>3. f[q + 1] \in Seq(P)
    BY <1>2, <1>5, <2>2
  <2> QED BY <2>1, <2>3
<1>8. f[n] \in Seq(P)
  <2>1. \A k \in Nat : k \in S
    <3> HIDE DEF S
    <3> QED BY <1>6, <1>7, NatSetInduction
  <2>2. PICK k \in Nat : s + k = n
    <3>1. n - s \in Nat /\ s + (n - s) = n
      BY <1>1
    <3> QED BY <3>1
  <2>3. k \in S /\ s + k <= n
    BY <1>1, <2>1, <2>2
  <2> QED BY <2>2, <2>3
<1>9. PICK g \in Seq(P), l \in Nat : g = f[n] /\ l = Len(g)
  BY <1>8
<1>10. s + l = Place(e, n)
  <2>1. n \in s .. n
    BY <1>1
  <2> QED BY <1>9, <2>1, IndentedPlaces
<1>11. /\ \A i \in 1 .. s : u[i] = t[i]
       /\ \A i \in 1 .. l : u[s + i] = g[i]
  BY <1>1, <1>9 DEF SpliceIs, Agree
<1>12. \A m \in 0 .. s + l - 1 : u[m + 1] \notin Negative
  <2> TAKE m \in 0 .. s + l - 1
  <2>1. CASE m < s
    <3>1. m + 1 \in 1 .. s /\ m \in 0 .. n - 1
      BY <1>1, <2>1
    <3>2. t[m + 1] \notin Negative
      BY <3>1 DEF Clear
    <3> QED BY <1>11, <3>1, <3>2
  <2>2. CASE ~ m < s
    <3>1. PICK i \in 1 .. l : s + i = m + 1
      <4>1. m + 1 - s \in 1 .. l /\ s + (m + 1 - s) = m + 1
        BY <1>1, <1>9, <2>2
      <4> QED BY <4>1
    <3>2. g[i] \in P
      BY <1>9, <3>1
    <3> QED BY <1>11, <3>1, <3>2 DEF P
  <2> QED BY <2>1, <2>2
<1>13. \A m \in 0 .. Place(e, n) - 1 : u[m + 1] \notin Negative
  <2> TAKE m \in 0 .. Place(e, n) - 1
  <2>1. m \in 0 .. s + l - 1
    BY <1>1, <1>9, <1>10
  <2> QED BY <1>12, <2>1
<1> QED BY <1>13 DEF Clear


\* d is e after indent: lines s to n of e, one selection, have become f[n] in d, and
\* the two ends of the selection are where those of e have gone.
IndentedTo(e, d, s, n, f) ==
  /\ Selects(e, e.text, s, n) /\ IndentedBy(e, f, s, n) /\ f[n] \in Seq(Char)
  /\ s + Len(f[n]) = Place(e, n)
  /\ d \in Editors /\ Recorded(d.text, d.recs, d.at)
  /\ SpliceIs(d.text, e.text, s, n - s, f[n])
  /\ IF e.anchor < Pos(e)
     THEN e.anchor = s /\ Pos(e) = n /\ d.anchor = s /\ Pos(d) = Place(e, n)
     ELSE Pos(e) = s /\ e.anchor = n /\ Pos(d) = s /\ d.anchor = Place(e, n)

\* indent, when lines are selected.
LEMMA IndentIs ==
  ASSUME NEW e, Good(e), HasSelection(e), ~ Stray(e)
  PROVE  \E s \in Nat, n \in Nat : \E f : IndentedTo(e, Indent(e), s, n, f)
<1>1. /\ e \in Editors /\ e.text \in Seq(Char) /\ Pos(e) \in 0 .. Len(e.text)
      /\ Clear(e.text, Pos(e)) /\ Recorded(e.text, e.recs, e.at)
  BY PosIs DEF Viewed, Lined
<1>2. PICK l \in Nat, p \in Nat, a \in Nat :
        l = Len(e.text) /\ p = Pos(e) /\ a = e.anchor /\ a # p /\ p <= l
  <2>1. e.anchor \in Nat \cup {-1} /\ e.anchor # -1 /\ e.anchor # Pos(e)
    BY <1>1 DEF Editors, HasSelection
  <2> QED BY <1>1, <2>1
<1>3. PICK s \in Nat, n \in Nat :
        /\ s = SelStart(e) /\ n = SelEnd(e) /\ s < n /\ n <= l
        /\ s = (IF a < p THEN a ELSE p) /\ n = (IF a < p THEN p ELSE a)
  <2>1. SelStart(e) = (IF p < a THEN p ELSE a) /\ SelEnd(e) = (IF p < a THEN a ELSE p)
    BY <1>2 DEF SelStart, SelEnd
  <2>2. SelEnd(e) <= l
    BY <1>2, <2>1 DEF Stray
  <2> QED BY <1>2, <2>1, <2>2
<1>4. Selects(e, e.text, s, n)
  BY <1>1, <1>2, <1>3 DEF Selects
<1>5. PICK f : IndentedBy(e, f, s, n) /\ Indented(e, n) = f[n]
  BY <1>4, IndentedIs
<1>6. PICK buf \in Seq(Char) : buf = f[n]
  <2>1. n \in s .. n
    BY <1>3
  <2> QED BY <1>5, <2>1 DEF IndentedBy
<1>7. PICK c \in Nat : /\ c = LinesTo(e, n) /\ c = Cardinality(SelectedLines(e))
                       /\ Place(e, n) = n + 2 * c /\ s + Len(buf) = Place(e, n)
  <2>1. n \in s .. n
    BY <1>3
  <2>2. LinesTo(e, n) \in Nat /\ LinesTo(e, n) = Cardinality(SelectedLines(e))
    BY <1>4, <2>1, LinesToIs
  <2>3. s + Len(f[n]) = Place(e, n)
    BY <1>4, <1>5, <2>1, IndentedPlaces
  <2> QED BY <1>6, <2>2, <2>3 DEF Place
<1>8. PICK top \in Nat :
        top = IF e.toppos \in SelStart(e) .. SelEnd(e) - 1
              THEN Cardinality({q \in SelectedLines(e) : q < e.toppos}) ELSE 0
  <2>1. IsFiniteSet(SelectedLines(e))
    <3>1. IsFiniteSet(s .. n - 1)
      BY FS_Interval
    <3>2. SelectedLines(e) \in SUBSET (s .. n - 1)
      BY <1>3 DEF SelectedLines
    <3> QED BY <3>1, <3>2, FS_Subset
  <2>2. {q \in SelectedLines(e) : q < e.toppos} \in SUBSET SelectedLines(e)
    OBVIOUS
  <2>3. Cardinality({q \in SelectedLines(e) : q < e.toppos}) \in Nat
    BY <2>1, <2>2, FS_Subset, FS_CardinalityType
  <2> QED BY <2>3
<1>9. PICK r : r = ReplaceEd(e, s, n - s, buf)
  OBVIOUS
<1>10. Replaced(e, r, s, n - s, buf)
  <2>1. n - s \in Nat /\ s + (n - s) <= Len(e.text)
    <3>1. n - s \in Nat /\ s + (n - s) = n
      BY <1>3
    <3> QED BY <1>2, <1>3, <3>1
  <2> QED BY <1>1, <1>9, <2>1, ReplaceEdIs
<1>11. PICK g : g = [r EXCEPT !.toppos = @ + 2 * top]
  OBVIOUS
<1>12. /\ g \in Editors /\ g.text = r.text /\ g.recs = r.recs /\ g.at = r.at
       /\ g.anchor = a /\ Pos(g) = p
  <2>1. r \in Editors /\ r.linepos = e.linepos /\ r.col = e.col /\ r.anchor = e.anchor
    BY <1>10 DEF Replaced, SameScreen
  <2>2. r.toppos + 2 * top \in Int
    <3>1. r.toppos \in Int
      BY <2>1 DEF Editors
    <3> QED BY <3>1
  <2>3. g \in Editors
    BY <1>11, <2>1, <2>2 DEF Editors
  <2>4. /\ g.text = r.text /\ g.recs = r.recs /\ g.at = r.at
        /\ g.anchor = r.anchor /\ g.linepos = r.linepos /\ g.col = r.col
    BY <1>11, <2>1 DEF Editors
  <2> QED BY <1>2, <2>1, <2>3, <2>4 DEF Pos
<1>13. Indent(e) = Grown(g, 2 * c)
  <2>1. Width = 2
    <3>1. Len(<<SPACE, SPACE>>) = 2
      OBVIOUS
    <3> QED BY <3>1 DEF Width, INDENT
  <2> QED BY <1>3, <1>5, <1>6, <1>7, <1>8, <1>9, <1>11, <2>1 DEF Indent
<1>14. /\ r.text \in Seq(Char) /\ Place(e, n) \in Nat /\ Place(e, n) <= Len(r.text)
       /\ Agree(e.text, r.text, s) /\ SpliceIs(r.text, e.text, s, n - s, f[n])
  <2>1. SpliceIs(r.text, e.text, s, n - s, buf)
    BY <1>10 DEF Replaced
  <2>2. Place(e, n) \in Nat
    BY <1>7
  <2>3. Len(r.text) = l - (n - s) + Len(buf)
    BY <1>2, <2>1 DEF SpliceIs
  <2>4. Place(e, n) <= Len(r.text)
    <3>1. PICK b \in Nat : b = Len(buf) /\ s + b = Place(e, n)
      BY <1>7
    <3>0. s \in Nat /\ n \in Nat /\ l \in Nat /\ n <= l
      BY <1>2, <1>3
    <3>2. s + b <= l - (n - s) + b
      BY <3>0, <3>1
    <3> QED BY <2>3, <3>1, <3>2
  <2> QED BY <1>6, <2>1, <2>2, <2>4 DEF SpliceIs
<1>15. /\ GrownPos(g, 2 * c) = IF a < p THEN Place(e, n) ELSE s
       /\ GrownAnchor(g, 2 * c) = IF a < p THEN s ELSE Place(e, n)
  BY <1>3, <1>7, <1>12 DEF GrownPos, GrownAnchor
<1>16. Clear(g.text, GrownPos(g, 2 * c)) /\ GrownPos(g, 2 * c) \in 0 .. Len(g.text)
  <2>1. CASE a < p
    <3>1. Clear(e.text, n)
      BY <1>1, <1>2, <1>3, <2>1
    <3>2. Clear(r.text, Place(e, n))
      BY <1>4, <1>5, <1>14, <3>1, IndentedClear
    <3>3. Place(e, n) \in 0 .. Len(r.text)
      <4>1. Len(r.text) \in Nat
        BY <1>14
      <4> QED BY <1>14, <4>1
    <3> QED BY <1>12, <1>15, <2>1, <3>2, <3>3
  <2>2. CASE ~ a < p
    <3>1. Clear(e.text, s) /\ s \in 0 .. s
      BY <1>1, <1>2, <1>3, <2>2
    <3>2. Clear(r.text, s)
      BY <1>1, <1>14, <3>1, AgreeSame
    <3>3. s \in 0 .. Len(r.text)
      <4>1. Len(r.text) \in Nat /\ s <= Len(r.text)
        BY <1>14 DEF Agree
      <4> QED BY <4>1
    <3> QED BY <1>12, <1>15, <2>2, <3>2, <3>3
  <2> QED BY <2>1, <2>2
<1>17. PICK d : d = Indent(e)
  OBVIOUS
<1>18. /\ d \in Editors /\ SameText(g, d)
       /\ Pos(d) = GrownPos(g, 2 * c) /\ d.anchor = GrownAnchor(g, 2 * c)
  <2>1. GrownAnchor(g, 2 * c) \in Nat
    BY <1>14, <1>15
  <2> QED BY <1>12, <1>13, <1>16, <1>17, <2>1, GrownIs
<1>19. d.text = r.text /\ Recorded(d.text, d.recs, d.at)
  BY <1>10, <1>12, <1>18 DEF SameText, Replaced
<1>20. IF e.anchor < Pos(e)
       THEN e.anchor = s /\ Pos(e) = n /\ d.anchor = s /\ Pos(d) = Place(e, n)
       ELSE Pos(e) = s /\ e.anchor = n /\ Pos(d) = s /\ d.anchor = Place(e, n)
  BY <1>2, <1>3, <1>15, <1>18
<1>21. IndentedTo(e, d, s, n, f)
  <2>1. SpliceIs(d.text, e.text, s, n - s, f[n])
    BY <1>14, <1>19
  <2> QED BY <1>4, <1>5, <1>6, <1>7, <1>18, <1>19, <1>20, <2>1 DEF IndentedTo
<1> QED BY <1>17, <1>21


\* unindent, right after: the selection is as it was.
LEMMA UnindentIndent ==
  ASSUME NEW e, Good(e), HasSelection(e), ~ Stray(e)
  PROVE  LET u == Unindent(Indent(e))
         IN  u.text = e.text /\ Pos(u) = Pos(e) /\ u.anchor = e.anchor
<1>1. e.text \in Seq(Char) /\ Len(e.text) \in Nat /\ Pos(e) \in 0 .. Len(e.text) /\ Clear(e.text, Pos(e))
  BY PosIs
<1>2. PICK d : d = Indent(e)
  OBVIOUS
<1>sn. PICK s \in Nat, n \in Nat : \E f : IndentedTo(e, d, s, n, f)
  BY <1>2, IndentIs
<1>f. PICK f : IndentedTo(e, d, s, n, f)
  BY <1>sn
<1>3. /\ Selects(e, e.text, s, n) /\ IndentedBy(e, f, s, n) /\ f[n] \in Seq(Char)
      /\ s + Len(f[n]) = Place(e, n)
      /\ d \in Editors /\ Recorded(d.text, d.recs, d.at)
      /\ SpliceIs(d.text, e.text, s, n - s, f[n])
      /\ IF e.anchor < Pos(e)
         THEN e.anchor = s /\ Pos(e) = n /\ d.anchor = s /\ Pos(d) = Place(e, n)
         ELSE Pos(e) = s /\ e.anchor = n /\ Pos(d) = s /\ d.anchor = Place(e, n)
  BY <1>f DEF IndentedTo
<1>4. s < n /\ n <= Len(e.text) /\ n \in s .. n
  BY <1>3 DEF Selects
<1>5. PICK c \in Nat, z \in Nat, b \in Nat :
        /\ c = LinesTo(e, n) /\ c # 0 /\ z = Place(e, n) /\ z = n + 2 * c
        /\ b = Len(f[n]) /\ s + b = z
  <2>1. LinesTo(e, n) \in Nat /\ LinesTo(e, n) # 0
    BY <1>3, <1>4, LinesToIs
  <2>2. Len(f[n]) \in Nat
    BY <1>3
  <2> QED BY <1>3, <2>1, <2>2 DEF Place
<1>6. /\ s < z /\ 2 * c # 0 /\ z - 2 * c = n /\ ~ z < 2 * c /\ z - s \in Nat /\ z - s = b
      /\ s + (z - s) = z /\ 2 * c \in Nat
  <2>1. /\ s \in Nat /\ n \in Nat /\ c \in Nat /\ z \in Nat /\ b \in Nat
        /\ s < n /\ c # 0 /\ z = n + 2 * c /\ s + b = z
    BY <1>3, <1>4, <1>5
  <2> QED BY <2>1
<1>7. IsIndented(e, e.text, d.text, s, n)
  BY <1>3, IndentedText
<1>8. z <= Len(d.text) /\ Len(d.text) \in Nat
  BY <1>5, <1>7 DEF IsIndented
<1>9. /\ IF e.anchor < Pos(e) THEN d.anchor = s /\ Pos(d) = z ELSE Pos(d) = s /\ d.anchor = z
      /\ d.anchor < Pos(d) <=> e.anchor < Pos(e)
  <2>1. s \in Nat /\ z \in Nat /\ s < z /\ Place(e, n) = z
    BY <1>3, <1>5, <1>6
  <2>2. CASE e.anchor < Pos(e)
    BY <1>3, <2>1, <2>2
  <2>3. CASE ~ e.anchor < Pos(e)
    <3>1. Pos(d) = s /\ d.anchor = z
      BY <1>3, <2>1, <2>3
    <3>2. ~ d.anchor < Pos(d)
      BY <2>1, <3>1
    <3> QED BY <2>3, <3>1, <3>2
  <2> QED BY <2>2, <2>3
<1>10. SelStart(d) = s /\ SelEnd(d) = z /\ HasSelection(d) /\ ~ Stray(d)
  <2>1. CASE e.anchor < Pos(e)
    <3>1. d.anchor = s /\ Pos(d) = z
      BY <1>9, <2>1
    <3> QED BY <1>6, <1>8, <3>1 DEF SelStart, SelEnd, HasSelection, Stray
  <2>2. CASE ~ e.anchor < Pos(e)
    <3>1. Pos(d) = s /\ d.anchor = z
      BY <1>9, <2>2
    <3> QED BY <1>6, <1>8, <3>1 DEF SelStart, SelEnd, HasSelection, Stray
  <2> QED BY <2>1, <2>2
<1>11. PICK w : w = Unindented(d)
  OBVIOUS
<1>12. w.buffer = SubSeq(e.text, s + 1, n) /\ w.shrinkage = 2 * c /\ w.topofs \in Int
  <2>1. d.toppos \in Int
    BY <1>3 DEF Editors
  <2>2. SelStart(d) = s /\ SelEnd(d) = Place(e, n)
    BY <1>5, <1>10
  <2>3. /\ w.buffer = SubSeq(e.text, s + 1, n)
        /\ w.shrinkage = 2 * LinesTo(e, n)
        /\ w.topofs \in Int
    <3>1. Selects(e, e.text, s, n) /\ IndentedBy(e, f, s, n)
      BY <1>3
    <3>2. PICK t : t = e.text /\ Selects(e, t, s, n) /\ IsIndented(e, t, d.text, s, n)
      BY <1>7, <3>1
    <3>3. Finds(e, t, s, n, d)
      BY <2>1, <2>2, <3>2 DEF Finds
    <3>4. Leaves(e, t, s, n, w)
      BY <1>11, <3>1, <3>2, <3>3, UnindentedIs
    <3> QED BY <3>2, <3>4 DEF Leaves
  <2> QED BY <1>5, <1>11, <2>3
<1>13. PICK r : r = ReplaceEd(d, s, z - s, w.buffer)
  OBVIOUS
<1>14. Replaced(d, r, s, z - s, w.buffer)
  <2>1. SubSeq(e.text, s + 1, n) \in Seq(Char)
    BY <1>1, <1>3, <1>4
  <2>2. s + (z - s) <= Len(d.text)
    BY <1>6, <1>8
  <2> QED BY <1>3, <1>6, <1>12, <1>13, <2>1, <2>2, ReplaceEdIs
<1>15. r.text = e.text
  <2>1. PICK len \in Nat : len = n - s /\ s + len = n
    <3>1. n - s \in Nat /\ s + (n - s) = n
      BY <1>4
    <3> QED BY <3>1
  <2>2. SpliceIs(r.text, d.text, s, Len(f[n]), SubSeq(e.text, s + 1, s + len))
    BY <1>5, <1>6, <1>12, <1>14, <2>1 DEF Replaced
  <2>3. SpliceIs(d.text, e.text, s, len, f[n]) /\ s + len <= Len(e.text)
    BY <1>3, <1>4, <2>1
  <2> QED BY <1>1, <1>3, <2>2, <2>3, SplicedBack
<1>16. PICK g : g = [r EXCEPT !.toppos = @ + w.topofs]
  OBVIOUS
<1>17. g \in Editors /\ g.text = e.text /\ g.anchor = d.anchor /\ Pos(g) = Pos(d)
  <2>1. r \in Editors /\ r.linepos = d.linepos /\ r.col = d.col /\ r.anchor = d.anchor
    BY <1>14 DEF Replaced, SameScreen
  <2>2. r.toppos + w.topofs \in Int
    <3>1. r.toppos \in Int
      BY <2>1 DEF Editors
    <3> QED BY <1>12, <3>1
  <2>3. g \in Editors
    BY <1>16, <2>1, <2>2 DEF Editors
  <2>4. g.text = r.text /\ g.anchor = r.anchor /\ g.linepos = r.linepos /\ g.col = r.col
    BY <1>16, <2>1 DEF Editors
  <2> QED BY <1>15, <2>1, <2>3, <2>4 DEF Pos
<1>18. Unindent(d) = Grown(g, -(2 * c))
  <2>1. ~ (~HasSelection(d) \/ w.shrinkage = 0) /\ ~ (d.anchor < Pos(d) /\ Pos(d) < w.shrinkage)
    BY <1>6, <1>9, <1>10, <1>12
  <2>2. Unindent(d) = IF Stray(d) THEN Undefined(d)
                      ELSE IF ~HasSelection(d) \/ w.shrinkage = 0 THEN d
                      ELSE IF d.anchor < Pos(d) /\ Pos(d) < w.shrinkage THEN Undefined(d)
                      ELSE Grown(g, -w.shrinkage)
    BY <1>10, <1>11, <1>13, <1>16 DEF Unindent, Unindented
  <2> QED BY <1>10, <1>12, <2>1, <2>2
<1>19. GrownPos(g, -(2 * c)) = Pos(e) /\ GrownAnchor(g, -(2 * c)) = e.anchor
  <2>1. z + -(2 * c) = n
    BY <1>5
  <2>2. CASE e.anchor < Pos(e)
    BY <1>3, <1>9, <1>17, <2>1, <2>2 DEF GrownPos, GrownAnchor
  <2>3. CASE ~ e.anchor < Pos(e)
    BY <1>3, <1>9, <1>17, <2>1, <2>3 DEF GrownPos, GrownAnchor
  <2> QED BY <2>2, <2>3
<1>20. e.anchor \in Nat
  BY <1>3
<1>21. PICK u : u = Grown(g, -(2 * c))
  OBVIOUS
<1>22. SameText(g, u) /\ Pos(u) = Pos(e) /\ u.anchor = e.anchor
  BY <1>1, <1>17, <1>19, <1>20, <1>21, GrownIs
<1> QED BY <1>2, <1>17, <1>18, <1>21, <1>22 DEF SameText

\* Indenting the selected lines and unindenting them at once gives the text back,
\* and the cursor and the anchor, through every command not in Overshooting.
THEOREM IndentThenUnindentAlways ==
  Spec => [](session.commands \cap Overshooting = {} => IndentThenUnindent)
<1>1. EditorInv => (Counting => IndentThenUnindent)
  <2> SUFFICES ASSUME EditorInv, Counting, HasSelection(ed), ~ Stray(ed)
               PROVE  LET u == Unindent(Indent(ed))
                      IN  u.text = ed.text /\ Pos(u) = Pos(ed) /\ u.anchor = ed.anchor
    BY DEF IndentThenUnindent
  <2>1. Good(ed)
    BY DEF EditorInv
  <2> QED BY <2>1, UnindentIndent
<1> QED BY <1>1, EditorInvariant, PTL DEF Counting
=============================================================================
