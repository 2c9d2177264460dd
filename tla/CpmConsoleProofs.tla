-------------------------- MODULE CpmConsoleProofs --------------------------
(***************************************************************************)
(* What CpmConsole says of the console, the host's files and the clock     *)
(* holds whatever is typed, written, opened and asked, for every size of   *)
(* the queue and of the table of files.                                    *)
(***************************************************************************)
EXTENDS CpmConsole, SetInduction, SequenceTheorems, FiniteSetTheorems, TLAPS

-----------------------------------------------------------------------------
(* Readings.                                                               *)

\* The bytes of the terminal and the keys given for them.
Key == Typing \cup {"^E", "^Q", "s", "INTR", "^G"}

\* Short tuples are sequences.
LEMMA PairIsSeq ==
  ASSUME NEW A, NEW a \in A, NEW b \in A
  PROVE  <<a, b>> \in Seq(A)
<1> DEFINE p == <<a, b>>
<1>1. p \in [1 .. 2 -> A]
  OBVIOUS
<1> HIDE DEF p
<1>2. p \in Seq(A)
  BY <1>1, SeqDef
<1> QED BY <1>2 DEF p

\* Induction from the end of a sequence to its start.
LEMMA FromTheEnd ==
  ASSUME NEW n \in Nat, NEW A, n + 1 \in A,
         \A j \in 1 .. n : (\A k \in j + 1 .. n + 1 : k \in A) => j \in A
  PROVE  1 .. n + 1 \subseteq A
<1> DEFINE T == {k \in Nat : \A j \in 1 .. n + 1 : n + 1 - j <= k => j \in A}
<1>1. 0 \in T
  <2>1. \A j \in 1 .. n + 1 : n + 1 - j <= 0 => j = n + 1
    OBVIOUS
  <2> QED BY <2>1
<1>2. ASSUME NEW k \in Nat, k \in T PROVE k + 1 \in T
  <2> SUFFICES ASSUME NEW j \in 1 .. n + 1, n + 1 - j <= k + 1 PROVE j \in A
    OBVIOUS
  <2>1. \A l \in j + 1 .. n + 1 : l \in 1 .. n + 1 /\ n + 1 - l <= k
    OBVIOUS
  <2>2. \A l \in j + 1 .. n + 1 : l \in A
    BY <2>1, <1>2
  <2> QED BY <2>2
<1>3. Nat \subseteq T
  <2> HIDE DEF T
  <2> QED BY <1>1, <1>2, NatSetInduction
<1>4. \A j \in 1 .. n + 1 : n + 1 \in Nat /\ n + 1 - j <= n + 1
  OBVIOUS
<1> QED BY <1>3, <1>4

\* What G makes of a function at i comes from the function's values behind i.
LooksAhead(n, V, G) ==
  /\ G \in [1 .. n + 1 -> [[1 .. n + 1 -> V] -> V]]
  /\ \A i \in 1 .. n + 1 : \A g, h \in [1 .. n + 1 -> V] :
       (\A k \in i + 1 .. n + 1 : g[k] = h[k]) => G[i][g] = G[i][h]

IsSolution(n, V, G, f) == f \in [1 .. n + 1 -> V] /\ \A i \in 1 .. n + 1 : f[i] = G[i][f]

\* A function on 1 .. n + 1 may be defined from its last value to its first.
LEMMA RecursionFromTheEnd ==
  ASSUME NEW n \in Nat, NEW V, V # {}, NEW G, LooksAhead(n, V, G)
  PROVE  \E f : IsSolution(n, V, G, f)
<1> DEFINE D == [1 .. n + 1 -> V]
           Solves(f, k) == \A i \in 1 .. n + 1 : n + 1 - i < k => f[i] = G[i][f]
           T == {k \in Nat : \E f \in D : Solves(f, k)}
<1>1. 0 \in T
  <2>1. PICK v \in V : TRUE
    OBVIOUS
  <2> DEFINE f == [i \in 1 .. n + 1 |-> v]
  <2>2. f \in D
    OBVIOUS
  <2>3. \A i \in 1 .. n + 1 : ~ (n + 1 - i < 0)
    OBVIOUS
  <2> HIDE DEF f, D
  <2> QED BY <2>2, <2>3, Zenon
<1>2. ASSUME NEW k \in Nat, k \in T PROVE k + 1 \in T
  <2>0. k + 1 \in Nat
    OBVIOUS
  <2>1. PICK g \in D : Solves(g, k)
    BY <1>2
  <2>2. CASE k > n
    <3>1. \A i \in 1 .. n + 1 : n + 1 - i < k
      BY <2>2
    <3>2. Solves(g, k + 1)
      BY <2>1, <3>1
    <3> HIDE DEF Solves, D
    <3> QED BY <3>2, <2>0
  <2>3. CASE k <= n
    <3>1. PICK j \in 1 .. n + 1 : j = n + 1 - k
      BY <2>3
    <3> DEFINE h == [i \in 1 .. n + 1 |-> IF i = j THEN G[j][g] ELSE g[i]]
    <3>2. h \in D
      BY DEF LooksAhead
    <3>3. \A i \in 1 .. n + 1 : h[i] = IF i = j THEN G[j][g] ELSE g[i]
      OBVIOUS
    <3> HIDE DEF h
    <3>4. ASSUME NEW i \in 1 .. n + 1, n + 1 - i < k + 1
          PROVE  h[i] = G[i][h]
      <4>1. i >= j
        BY <3>1, <3>4
      <4>2. \A m \in i + 1 .. n + 1 : m \in 1 .. n + 1 /\ m # j
        BY <4>1, <3>1
      <4>3. \A m \in i + 1 .. n + 1 : g[m] = h[m]
        BY <4>2, <3>3
      <4>4. G[i][g] = G[i][h]
        <5> HIDE DEF T, Solves
        <5> QED BY <4>3, <3>2, Zenon DEF LooksAhead
      <4>5. CASE i = j
        BY <4>4, <4>5, <3>3
      <4>6. CASE i # j
        <5>1. n + 1 - i < k
          BY <4>1, <4>6, <3>1
        <5>2. g[i] = G[i][g]
          BY <5>1, <2>1
        <5> QED BY <5>2, <4>4, <4>6, <3>3
      <4> QED BY <4>5, <4>6
    <3>5. Solves(h, k + 1)
      BY <3>4
    <3> HIDE DEF Solves, D
    <3> QED BY <3>2, <3>5, <2>0
  <2>4. k > n \/ k <= n
    OBVIOUS
  <2> HIDE DEF T
  <2> QED BY <2>2, <2>3, <2>4, Zenon
<1>3. n + 1 \in T
  <2> HIDE DEF T
  <2>1. Nat \subseteq T
    BY <1>1, <1>2, NatSetInduction
  <2> QED BY <2>1
<1>4. PICK f \in D : Solves(f, n + 1)
  BY <1>3
<1>5. \A i \in 1 .. n + 1 : n + 1 - i < n + 1
  OBVIOUS
<1> QED BY <1>4, <1>5 DEF IsSolution

\* The readings of s from its i-th byte on, when g holds those of what follows.
ReadingsStep(s, g, i) ==
  IF i > Len(s) THEN {<<>>}
  ELSE {<<s[i]>> \o r : r \in g[i + 1]}
       \cup (IF i + 2 <= Len(s) /\ s[i] = "esc" /\ s[i + 1] \in {"[", "O"}
             THEN {Key3(SubSeq(s, i, i + 2)) \o r : r \in g[i + 3]} ELSE {})
       \cup (IF i + 3 <= Len(s) /\ SubSeq(s, i, i + 2) = <<"esc", "[", "3">>
             THEN {<<"^G">> \o r : r \in g[i + 4]} ELSE {})

IsReadings(s, g) == g = [i \in 1 .. Len(s) + 1 |-> ReadingsStep(s, g, i)]

\* Keys put one after the other.
LEMMA KeysRegroup ==
  \A a, b, c \in Seq(Key) : (a \o b) \o c = a \o (b \o c)
BY ConcatAssociative

\* Key3 of a sequence of three bytes is a sequence of keys.
LEMMA Key3Keys ==
  ASSUME NEW t \in Seq(Key)
  PROVE  Key3(t) \in Seq(Key)
<1>1. /\ <<"^E">> \in Seq(Key) /\ <<"INTR">> \in Seq(Key)
      /\ <<"^Q", "s">> \in Seq(Key)
  BY PairIsSeq DEF Key
<1>2. Key3(t) \in {<<"^E">>, <<"^Q", "s">>, <<"INTR">>, t}
  BY Zenon DEF Key3
<1> QED BY <1>1, <1>2

\* A step adds keys to keys.
LEMMA ReadingsStepKeys ==
  ASSUME NEW s \in Seq(Key), NEW g \in [1 .. Len(s) + 1 -> SUBSET Seq(Key)],
         NEW i \in 1 .. Len(s) + 1
  PROVE  ReadingsStep(s, g, i) \in SUBSET Seq(Key)
<1> DEFINE m == Len(s)
<1>0. m \in Nat /\ \A j \in 1 .. m : s[j] \in Key
  OBVIOUS
<1>1. CASE i > m
  <2>1. ReadingsStep(s, g, i) = {<<>>}
    BY <1>1 DEF ReadingsStep
  <2>2. <<>> \in Seq(Key)
    OBVIOUS
  <2> QED BY <2>1, <2>2
<1>2. CASE i <= m
  <2>1. /\ i \in 1 .. m /\ ~ i > m
        /\ g[i + 1] \subseteq Seq(Key)
        /\ i + 2 <= m => g[i + 3] \subseteq Seq(Key)
        /\ i + 3 <= m => g[i + 4] \subseteq Seq(Key)
    BY <1>0, <1>2
  <2>2. i + 2 <= m => SubSeq(s, i, i + 2) \in Seq(Key)
    BY <2>1, <1>0
  <2>3. /\ <<s[i]>> \in Seq(Key) /\ <<"^G">> \in Seq(Key)
        /\ i + 2 <= m => Key3(SubSeq(s, i, i + 2)) \in Seq(Key)
    <3>1. <<"^G">> \in Seq(Key) /\ <<s[i]>> \in Seq(Key)
      BY <1>0, <2>1 DEF Key
    <3> QED BY <3>1, <2>2, Key3Keys, Zenon
  <2> HIDE DEF m
  <2>4. SUFFICES ASSUME NEW r \in ReadingsStep(s, g, i) PROVE r \in Seq(Key)
    OBVIOUS
  <2>5. CASE r \in {<<s[i]>> \o q : q \in g[i + 1]}
    <3>1. PICK q \in g[i + 1] : r = <<s[i]>> \o q
      BY <2>5
    <3> QED BY <3>1, <2>1, <2>3
  <2>6. CASE i + 2 <= m /\ r \in {Key3(SubSeq(s, i, i + 2)) \o q : q \in g[i + 3]}
    <3>1. PICK q \in g[i + 3] : r = Key3(SubSeq(s, i, i + 2)) \o q
      BY <2>6
    <3>2. q \in Seq(Key) /\ Key3(SubSeq(s, i, i + 2)) \in Seq(Key)
      BY <2>1, <2>3, <2>6
    <3> QED BY <3>1, <3>2, ConcatProperties
  <2>7. CASE i + 3 <= m /\ r \in {<<"^G">> \o q : q \in g[i + 4]}
    <3>1. PICK q \in g[i + 4] : r = <<"^G">> \o q
      BY <2>7
    <3> QED BY <3>1, <2>1, <2>3, <2>7
  <2> QED BY <2>4, <2>1, <2>5, <2>6, <2>7, Zenon DEF ReadingsStep, m
<1> QED BY <1>0, <1>1, <1>2

\* A step looks at later bytes only.
LEMMA ReadingsStepLocal ==
  ASSUME NEW s \in Seq(Key), NEW g, NEW h, NEW i \in 1 .. Len(s) + 1,
         \A k \in i + 1 .. Len(s) + 1 : g[k] = h[k]
  PROVE  ReadingsStep(s, g, i) = ReadingsStep(s, h, i)
<1>1. CASE i > Len(s)
  BY <1>1 DEF ReadingsStep
<1>2. CASE i <= Len(s)
  <2>1. g[i + 1] = h[i + 1]
    BY <1>2
  <2>2. i + 2 <= Len(s) => g[i + 3] = h[i + 3]
    BY <1>2
  <2>3. i + 3 <= Len(s) => g[i + 4] = h[i + 4]
    BY <1>2
  <2>4. ~ i > Len(s)
    BY <1>2
  <2> QED BY <2>1, <2>2, <2>3, <2>4, Zenon DEF ReadingsStep
<1> QED BY <1>1, <1>2

\* The recursion of Readings has a solution, and Readings is its first value.
LEMMA ReadingsFunction ==
  ASSUME NEW s \in Seq(Key)
  PROVE  \E g \in [1 .. Len(s) + 1 -> SUBSET Seq(Key)] : IsReadings(s, g) /\ Readings(s) = g[1]
<1> DEFINE n == Len(s)
           V == SUBSET Seq(Key)
           G == [i \in 1 .. n + 1 |-> [g \in [1 .. n + 1 -> V] |-> ReadingsStep(s, g, i)]]
<1>0. n \in Nat /\ V # {}
  OBVIOUS
<1>1. G \in [1 .. n + 1 -> [[1 .. n + 1 -> V] -> V]]
  BY ReadingsStepKeys
<1>2. LooksAhead(n, V, G)
  BY <1>1, ReadingsStepLocal DEF LooksAhead
<1>3. PICK f \in [1 .. n + 1 -> V] : \A i \in 1 .. n + 1 : f[i] = G[i][f]
  <2> HIDE DEF G, V, n
  <2>1. \E f : IsSolution(n, V, G, f)
    BY <1>0, <1>2, RecursionFromTheEnd, Zenon
  <2> QED BY <2>1 DEF IsSolution
<1>4. \A i \in 1 .. n + 1 : G[i][f] = ReadingsStep(s, f, i)
  OBVIOUS
<1> HIDE DEF G
<1>5. f = [i \in 1 .. n + 1 |-> f[i]]
  OBVIOUS
<1>6. IsReadings(s, f)
  BY <1>3, <1>4, <1>5, Zenon DEF IsReadings
<1> DEFINE r == CHOOSE from : IsReadings(s, from)
<1>7. IsReadings(s, r)
  BY <1>6
<1>8. Readings(s) = r[1]
  BY DEF Readings, IsReadings, ReadingsStep
<1> HIDE DEF r
<1>9. \A i \in 1 .. n + 1 : r[i] = f[i]
  <2> DEFINE S == {i \in 1 .. n + 1 : r[i] = f[i]}
  <2>1. \A i \in 1 .. n + 1 :
          /\ r[i] = ReadingsStep(s, r, i) /\ f[i] = ReadingsStep(s, f, i)
          /\ i > n => r[i] = f[i]
    <3>1. \A i \in 1 .. n + 1 : r[i] = ReadingsStep(s, r, i) /\ f[i] = ReadingsStep(s, f, i)
      BY <1>3, <1>4, <1>7 DEF IsReadings
    <3>2. \A i \in 1 .. n + 1 : i > n => ReadingsStep(s, r, i) = ReadingsStep(s, f, i)
      BY DEF ReadingsStep
    <3> HIDE DEF n
    <3> QED BY <3>1, <3>2
  <2> HIDE DEF n
  <2>2. n + 1 \in S
    <3>1. n + 1 \in 1 .. n + 1 /\ n + 1 > n
      BY <1>0
    <3> QED BY <3>1, <2>1
  <2>3. ASSUME NEW j \in 1 .. n, \A k \in j + 1 .. n + 1 : k \in S PROVE j \in S
    <3>1. j \in 1 .. n + 1
      BY <1>0
    <3>2. ReadingsStep(s, r, j) = ReadingsStep(s, f, j)
      <4>1. \A k \in j + 1 .. n + 1 : r[k] = f[k]
        BY <2>3
      <4> QED BY <3>1, <4>1, ReadingsStepLocal DEF n
    <3> QED BY <3>1, <3>2, <2>1
  <2>4. 1 .. n + 1 \subseteq S
    <3> HIDE DEF S
    <3> QED BY <1>0, <2>2, <2>3, FromTheEnd
  <2> QED BY <2>4
<1>10. 1 \in 1 .. n + 1
  BY <1>0
<1> QED BY <1>6, <1>8, <1>9, <1>10

\* What can be read from s \o u from within u on is what can be read from u.
LEMMA ReadingsShift ==
  ASSUME NEW s \in Seq(Key), NEW u \in Seq(Key), NEW G, NEW H,
         IsReadings(s \o u, G), IsReadings(u, H), NEW i \in 1 .. Len(u) + 1
  PROVE  H[i] \subseteq G[Len(s) + i]
<1> DEFINE m == Len(s)
           n == Len(u)
           w == s \o u
           S == {j \in 1 .. n + 1 : H[j] \subseteq G[m + j]}
<1>0. /\ m \in Nat /\ n \in Nat /\ w \in Seq(Key) /\ Len(w) = m + n
      /\ \A j \in 1 .. n : w[m + j] = u[j]
  OBVIOUS
<1>1. \A j \in 1 .. n + 1 : H[j] = ReadingsStep(u, H, j) /\ G[m + j] = ReadingsStep(w, G, m + j)
  <2>1. \A j \in 1 .. n + 1 : m + j \in 1 .. Len(w) + 1
    BY <1>0
  <2> HIDE DEF w, m
  <2> QED BY <2>1 DEF IsReadings, w
<1> HIDE DEF m, n, w
<1>2. ASSUME NEW j \in 1 .. n, \A k \in j + 1 .. n + 1 : H[k] \subseteq G[m + k]
      PROVE  H[j] \subseteq G[m + j]
  <2>1. /\ m + j <= Len(w) /\ w[m + j] = u[j] /\ j <= n
        /\ (j + 1 <= n) => w[m + j + 1] = u[j + 1]
        /\ (j + 2 <= n) => /\ m + j + 2 <= Len(w)
                           /\ SubSeq(w, m + j, m + j + 2) = SubSeq(u, j, j + 2)
        /\ (j + 3 <= n) => m + j + 3 <= Len(w)
    <3>1. m + j <= Len(w) /\ w[m + j] = u[j] /\ j <= n
      BY <1>0
    <3>2. (j + 1 <= n) => w[m + j + 1] = u[j + 1]
      <4>1. SUFFICES ASSUME j + 1 <= n PROVE w[m + (j + 1)] = u[j + 1]
        BY <1>0
      <4> QED BY <1>0, <4>1
    <3>3. ASSUME j + 2 <= n
          PROVE  m + j + 2 <= Len(w) /\ SubSeq(w, m + j, m + j + 2) = SubSeq(u, j, j + 2)
      <4>1. m + j + 2 <= Len(w)
        BY <1>0, <3>3
      <4>2. SubSeq(w, m + j, m + j + 2) = SubSeq(u, j, j + 2)
        <5> DEFINE a == SubSeq(w, m + j, m + j + 2)
                   b == SubSeq(u, j, j + 2)
        <5>1. a = [k \in 1 .. 3 |-> w[k + (m + j) - 1]]
          BY <1>0, <3>3, <4>1
        <5>2. b = [k \in 1 .. 3 |-> u[k + j - 1]]
          BY <1>0, <3>3 DEF n
        <5>3. ASSUME NEW k \in 1 .. 3 PROVE w[k + (m + j) - 1] = u[k + j - 1]
          <6>1. k + j - 1 \in 1 .. n /\ k + (m + j) - 1 = m + (k + j - 1)
            BY <1>0, <3>3
          <6> QED BY <6>1, <1>0
        <5> HIDE DEF a, b
        <5>4. a = b
          BY <5>1, <5>2, <5>3
        <5> QED BY <5>4 DEF a, b
      <4> QED BY <4>1, <4>2
    <3>4. j + 3 <= n => m + j + 3 <= Len(w)
      BY <1>0
    <3> QED BY <3>1, <3>2, <3>3, <3>4
  <2>2. /\ H[j + 1] \subseteq G[(m + j) + 1]
        /\ j + 2 <= n => H[j + 3] \subseteq G[(m + j) + 3]
        /\ j + 3 <= n => H[j + 4] \subseteq G[(m + j) + 4]
    <3>1. /\ m + (j + 1) = (m + j) + 1 /\ m + (j + 3) = (m + j) + 3 /\ m + (j + 4) = (m + j) + 4
          /\ j + 1 \in j + 1 .. n + 1
          /\ j + 2 <= n => j + 3 \in j + 1 .. n + 1
          /\ j + 3 <= n => j + 4 \in j + 1 .. n + 1
      BY <1>0
    <3> QED BY <3>1, <1>2
  <2>3. j \in 1 .. n + 1 /\ ~ j > n /\ ~ m + j > Len(w)
    BY <1>0
  <2>4. SUFFICES ASSUME NEW q \in ReadingsStep(u, H, j) PROVE q \in ReadingsStep(w, G, m + j)
    BY <2>3, <1>1
  <2>5. CASE q \in {<<u[j]>> \o r : r \in H[j + 1]}
    BY <2>5, <2>1, <2>2, <2>3, Zenon DEF ReadingsStep
  <2>6. CASE /\ j + 2 <= n /\ u[j] = "esc" /\ u[j + 1] \in {"[", "O"}
             /\ q \in {Key3(SubSeq(u, j, j + 2)) \o r : r \in H[j + 3]}
    <3>1. j + 1 <= n
      BY <2>6, <1>0
    <3> QED BY <3>1, <2>6, <2>1, <2>2, <2>3, Zenon DEF ReadingsStep
  <2>7. CASE /\ j + 3 <= n /\ SubSeq(u, j, j + 2) = <<"esc", "[", "3">>
             /\ q \in {<<"^G">> \o r : r \in H[j + 4]}
    <3>1. j + 2 <= n
      BY <2>7, <1>0
    <3> QED BY <3>1, <2>7, <2>1, <2>2, <2>3, Zenon DEF ReadingsStep
  <2> QED BY <2>4, <2>3, <2>5, <2>6, <2>7, Zenon DEF ReadingsStep, n
<1>3. n + 1 \in S
  <2>1. n + 1 \in 1 .. n + 1 /\ n + 1 > n /\ m + (n + 1) > Len(w)
    BY <1>0
  <2>2. ReadingsStep(u, H, n + 1) = {<<>>} /\ ReadingsStep(w, G, m + (n + 1)) = {<<>>}
    BY <2>1 DEF ReadingsStep, n
  <2> QED BY <2>1, <2>2, <1>1
<1>4. ASSUME NEW j \in 1 .. n, \A k \in j + 1 .. n + 1 : k \in S PROVE j \in S
  <2>1. j \in 1 .. n + 1
    BY <1>0
  <2> QED BY <2>1, <1>2, <1>4
<1>5. 1 .. n + 1 \subseteq S
  <2> HIDE DEF S
  <2> QED BY <1>0, <1>3, <1>4, FromTheEnd
<1> QED BY <1>5 DEF m, n

\* What is read is keys.
LEMMA ReadingsAreKeys ==
  ASSUME NEW s \in Seq(Key), NEW F, IsReadings(s, F), NEW i \in 1 .. Len(s) + 1
  PROVE  F[i] \subseteq Seq(Key)
<1> DEFINE m == Len(s)
           S == {j \in 1 .. m + 1 : F[j] \subseteq Seq(Key)}
<1>0. m \in Nat /\ \A j \in 1 .. m : s[j] \in Key
  OBVIOUS
<1>1. \A j \in 1 .. m + 1 : F[j] = ReadingsStep(s, F, j)
  BY DEF IsReadings
<1>2. m + 1 \in S
  <2>1. m + 1 \in 1 .. m + 1 /\ m + 1 > m
    BY <1>0
  <2>2. F[m + 1] = {<<>>}
    BY <2>1, <1>1, Zenon DEF ReadingsStep
  <2>3. <<>> \in Seq(Key)
    OBVIOUS
  <2> HIDE DEF m
  <2> QED BY <2>1, <2>2, <2>3
<1> HIDE DEF m
<1>3. ASSUME NEW j \in 1 .. m, \A k \in j + 1 .. m + 1 : k \in S PROVE j \in S
  <2>1. /\ j \in 1 .. m + 1 /\ ~ j > m
        /\ F[j + 1] \subseteq Seq(Key)
        /\ j + 2 <= m => F[j + 3] \subseteq Seq(Key) /\ SubSeq(s, j, j + 2) \in Seq(Key)
        /\ j + 3 <= m => F[j + 4] \subseteq Seq(Key)
    <3>1. /\ j \in 1 .. m + 1 /\ ~ j > m /\ j + 1 \in j + 1 .. m + 1
          /\ j + 2 <= m => j + 3 \in j + 1 .. m + 1 /\ j + 2 \in Nat
          /\ j + 3 <= m => j + 4 \in j + 1 .. m + 1
      BY <1>0
    <3>2. j + 2 <= m => SubSeq(s, j, j + 2) \in Seq(Key)
      BY <3>1, <1>0 DEF m
    <3> QED BY <3>1, <3>2, <1>3
  <2>2. /\ <<s[j]>> \in Seq(Key) /\ <<"^G">> \in Seq(Key)
        /\ j + 2 <= m => Key3(SubSeq(s, j, j + 2)) \in Seq(Key)
    <3>1. <<"^G">> \in Seq(Key) /\ <<s[j]>> \in Seq(Key)
      BY <1>0 DEF Key
    <3> QED BY <3>1, <2>1, Key3Keys, Zenon
  <2>3. SUFFICES ASSUME NEW r \in ReadingsStep(s, F, j) PROVE r \in Seq(Key)
    BY <1>1, <2>1
  <2>4. CASE r \in {<<s[j]>> \o q : q \in F[j + 1]}
    <3>1. PICK q \in F[j + 1] : r = <<s[j]>> \o q
      BY <2>4
    <3> QED BY <3>1, <2>1, <2>2
  <2>5. CASE j + 2 <= m /\ r \in {Key3(SubSeq(s, j, j + 2)) \o q : q \in F[j + 3]}
    <3>1. PICK q \in F[j + 3] : r = Key3(SubSeq(s, j, j + 2)) \o q
      BY <2>5
    <3>2. q \in Seq(Key) /\ Key3(SubSeq(s, j, j + 2)) \in Seq(Key)
      BY <2>1, <2>2, <2>5
    <3> HIDE DEF S
    <3> QED BY <3>1, <3>2, ConcatProperties
  <2>6. CASE j + 3 <= m /\ r \in {<<"^G">> \o q : q \in F[j + 4]}
    <3>1. PICK q \in F[j + 4] : r = <<"^G">> \o q
      BY <2>6
    <3> QED BY <3>1, <2>1, <2>2, <2>6
  <2> QED BY <2>3, <2>1, <2>4, <2>5, <2>6, Zenon DEF ReadingsStep, m
<1>4. 1 .. m + 1 \subseteq S
  <2> HIDE DEF S
  <2> QED BY <1>0, <1>2, <1>3, FromTheEnd
<1> QED BY <1>4 DEF m

\* A reading of s and one of u make one of s \o u.
LEMMA ReadingsJoin ==
  ASSUME NEW s \in Seq(Key), NEW u \in Seq(Key),
         NEW p \in Readings(s), NEW q \in Readings(u)
  PROVE  p \o q \in Readings(s \o u)
<1> DEFINE m == Len(s)
           w == s \o u
<1>0. /\ m \in Nat /\ w \in Seq(Key) /\ Len(w) = m + Len(u) /\ Len(u) \in Nat
      /\ \A j \in 1 .. m : w[j] = s[j] /\ s[j] \in Key
      /\ Len(u) + 1 \in Nat /\ 1 \in 1 .. Len(u) + 1 /\ 1 \in 1 .. m + 1
  OBVIOUS
<1>1. PICK F : IsReadings(s, F) /\ Readings(s) = F[1]
  BY ReadingsFunction
<1>2. PICK H : IsReadings(u, H) /\ Readings(u) = H[1]
  BY ReadingsFunction
<1>3. PICK G : IsReadings(w, G) /\ Readings(w) = G[1]
  BY <1>0, ReadingsFunction
<1>4. q \in G[m + 1] /\ q \in Seq(Key)
  BY <1>2, <1>3, <1>0, ReadingsShift, ReadingsAreKeys
<1>5. /\ \A j \in 1 .. m + 1 : F[j] = ReadingsStep(s, F, j) /\ F[j] \subseteq Seq(Key)
      /\ \A j \in 1 .. m : G[j] = ReadingsStep(w, G, j)
  <2>1. \A j \in 1 .. m : j \in 1 .. Len(w) + 1
    BY <1>0
  <2>2. \A j \in 1 .. m + 1 : F[j] \subseteq Seq(Key)
    BY <1>1, ReadingsAreKeys
  <2> HIDE DEF w
  <2> QED BY <2>1, <2>2, <1>1, <1>3 DEF IsReadings
<1> DEFINE S == {j \in 1 .. m + 1 : \A r \in F[j] : r \o q \in G[j]}
<1>6. m + 1 \in S
  <2>1. m + 1 \in 1 .. m + 1 /\ m + 1 > m
    BY <1>0
  <2>2. F[m + 1] = {<<>>}
    BY <2>1, <1>5, Zenon DEF ReadingsStep
  <2>3. <<>> \o q = q
    BY <1>4
  <2> HIDE DEF w, m
  <2> QED BY <2>1, <2>2, <2>3, <1>4
<1>7. ASSUME NEW j \in 1 .. m, \A k \in j + 1 .. m + 1 : k \in S PROVE j \in S
  <2>1. /\ j <= m /\ ~ j > m /\ ~ j > Len(w) /\ j \in 1 .. m + 1 /\ w[j] = s[j]
        /\ j + 1 \in j + 1 .. m + 1
    BY <1>0
  <2>2. j + 2 <= m => /\ j + 3 \in j + 1 .. m + 1 /\ j + 2 <= Len(w) /\ w[j + 1] = s[j + 1]
                      /\ SubSeq(w, j, j + 2) = SubSeq(s, j, j + 2)
                      /\ SubSeq(s, j, j + 2) \in Seq(Key)
    <3> SUFFICES ASSUME j + 2 <= m
                 PROVE  /\ j + 3 \in j + 1 .. m + 1 /\ j + 2 <= Len(w) /\ w[j + 1] = s[j + 1]
                        /\ SubSeq(w, j, j + 2) = SubSeq(s, j, j + 2)
                        /\ SubSeq(s, j, j + 2) \in Seq(Key)
      OBVIOUS
    <3>1. j + 3 \in j + 1 .. m + 1 /\ j + 2 <= Len(w) /\ w[j + 1] = s[j + 1]
      BY <1>0
    <3>2. SubSeq(s, j, j + 2) \in Seq(Key)
      BY <1>0
    <3>3. SubSeq(w, j, j + 2) = SubSeq(s, j, j + 2)
      <4>1. \A k \in j .. j + 2 : w[k] = s[k]
        BY <1>0
      <4>2. j \in Nat /\ j + 2 \in Nat
        BY <1>0
      <4> HIDE DEF w
      <4>3. SubSeq(w, j, j + 2) = [k \in 1 .. 3 |-> w[k + j - 1]]
        BY <3>1, <1>0
      <4>4. SubSeq(s, j, j + 2) = [k \in 1 .. 3 |-> s[k + j - 1]]
        BY <3>1, <1>0
      <4>5. \A k \in 1 .. 3 : k + j - 1 \in j .. j + 2
        BY <4>2
      <4> QED BY <4>1, <4>3, <4>4, <4>5
    <3> QED BY <3>1, <3>2, <3>3
  <2>3. j + 3 <= m => j + 4 \in j + 1 .. m + 1 /\ j + 3 <= Len(w) /\ j + 2 <= m
    BY <1>0
  <2> HIDE DEF w, m
  <2>4. SUFFICES ASSUME NEW r \in ReadingsStep(s, F, j) PROVE r \o q \in ReadingsStep(w, G, j)
    BY <1>5, <2>1
  <2>5. CASE r \in {<<s[j]>> \o x : x \in F[j + 1]}
    <3>1. PICK x \in F[j + 1] : r = <<s[j]>> \o x
      BY <2>5
    <3>2. x \in Seq(Key) /\ <<s[j]>> \in Seq(Key) /\ x \o q \in G[j + 1]
      <4>1. j + 1 \in 1 .. m + 1 /\ s[j] \in Key
        BY <1>0
      <4> QED BY <4>1, <2>1, <1>5, <1>7
    <3>3. r \o q = <<s[j]>> \o (x \o q)
      BY <3>1, <3>2, <1>4, ConcatAssociative
    <3> QED BY <3>2, <3>3, <2>1, Zenon DEF ReadingsStep
  <2>6. CASE /\ j + 2 <= m /\ s[j] = "esc" /\ s[j + 1] \in {"[", "O"}
             /\ r \in {Key3(SubSeq(s, j, j + 2)) \o x : x \in F[j + 3]}
    <3>0. PICK key \in Seq(Key) : key = Key3(SubSeq(s, j, j + 2))
      BY <2>2, <2>6, Key3Keys
    <3>1. PICK x \in F[j + 3] : r = key \o x
      BY <2>6, <3>0
    <3>2. x \in Seq(Key) /\ key \in Seq(Key) /\ x \o q \in G[j + 3]
      <4>1. j + 3 \in 1 .. m + 1
        BY <2>6, <1>0
      <4> QED BY <4>1, <2>2, <2>6, <1>5, <1>7
    <3>3. r \o q = key \o (x \o q)
      <4>1. PICK y \in Seq(Key), z \in Seq(Key) : y = x /\ z = q
        BY <3>2, <1>4
      <4>2. (key \o y) \o z = key \o (y \o z)
        BY KeysRegroup, Zenon
      <4>3. key \in Seq(Key)
        OBVIOUS
      <4>4. r \o q = (key \o y) \o z
        BY <4>1, <3>1
      <4> QED BY <4>1, <3>1, <4>2, <4>4, Zenon
    <3>4. key = Key3(SubSeq(w, j, j + 2))
      BY <2>2, <2>6, <3>0
    <3> QED BY <3>2, <3>3, <3>4, <2>1, <2>2, <2>6, Zenon DEF ReadingsStep
  <2>7. CASE /\ j + 3 <= m /\ SubSeq(s, j, j + 2) = <<"esc", "[", "3">>
             /\ r \in {<<"^G">> \o x : x \in F[j + 4]}
    <3>1. PICK x \in F[j + 4] : r = <<"^G">> \o x
      BY <2>7
    <3>2. x \in Seq(Key) /\ <<"^G">> \in Seq(Key) /\ x \o q \in G[j + 4]
      <4>1. j + 4 \in 1 .. m + 1
        BY <2>7, <1>0
      <4>2. <<"^G">> \in Seq(Key)
        BY DEF Key
      <4> QED BY <4>1, <4>2, <2>3, <2>7, <1>5, <1>7
    <3>3. r \o q = <<"^G">> \o (x \o q)
      BY <3>1, <3>2, <1>4, ConcatAssociative
    <3> QED BY <3>2, <3>3, <2>1, <2>2, <2>3, <2>7, Zenon DEF ReadingsStep
  <2> QED BY <2>4, <2>1, <2>5, <2>6, <2>7, Zenon DEF ReadingsStep, m
<1>8. 1 .. m + 1 \subseteq S
  <2> HIDE DEF S
  <2> QED BY <1>0, <1>6, <1>7, FromTheEnd
<1> QED BY <1>0, <1>1, <1>3, <1>8

\* Every byte may have been meant as itself.
LEMMA ReadingsItself ==
  ASSUME NEW s \in Seq(Key)
  PROVE  s \in Readings(s)
<1> DEFINE m == Len(s)
<1>0. m \in Nat /\ \A j \in 1 .. m : s[j] \in Key
  OBVIOUS
<1>1. PICK F : IsReadings(s, F) /\ Readings(s) = F[1]
  BY ReadingsFunction
<1>2. \A j \in 1 .. m + 1 : F[j] = ReadingsStep(s, F, j)
  BY <1>1 DEF IsReadings
<1> DEFINE R == {j \in 1 .. m + 1 : SubSeq(s, j, m) \in F[j]}
<1>3. m + 1 \in R
  <2>1. m + 1 \in 1 .. m + 1 /\ m + 1 > m
    BY <1>0
  <2>2. F[m + 1] = {<<>>}
    BY <2>1, <1>2, Zenon DEF ReadingsStep
  <2>3. SubSeq(s, m + 1, m) = <<>>
    BY <1>0
  <2> HIDE DEF m
  <2> QED BY <2>1, <2>2, <2>3
<1>4. ASSUME NEW j \in 1 .. m, \A k \in j + 1 .. m + 1 : k \in R PROVE j \in R
  <2>1. j \in 1 .. m + 1 /\ ~ j > m /\ j + 1 \in j + 1 .. m + 1
    BY <1>0
  <2>2. SubSeq(s, j, m) = <<s[j]>> \o SubSeq(s, j + 1, m)
    BY <1>0
  <2>3. SubSeq(s, j + 1, m) \in F[j + 1]
    BY <2>1, <1>4
  <2>4. SubSeq(s, j, m) \in ReadingsStep(s, F, j)
    BY <2>1, <2>2, <2>3, Zenon DEF ReadingsStep
  <2> HIDE DEF m
  <2> QED BY <2>1, <2>4, <1>2
<1>5. 1 .. m + 1 \subseteq R
  <2> HIDE DEF R
  <2> QED BY <1>0, <1>3, <1>4, FromTheEnd
<1>6. 1 \in 1 .. m + 1 /\ SubSeq(s, 1, m) = s
  BY <1>0
<1> HIDE DEF m
<1> QED BY <1>1, <1>5, <1>6

\* A sequence of three bytes may have been meant as its keys.
LEMMA ReadingsOfThree ==
  ASSUME NEW s \in Seq(Key), Len(s) = 3, s[1] = "esc", s[2] \in {"[", "O"}
  PROVE  Key3(s) \in Readings(s)
<1>1. PICK F : IsReadings(s, F) /\ Readings(s) = F[1]
  BY ReadingsFunction
<1>2. F[1] = ReadingsStep(s, F, 1) /\ F[4] = ReadingsStep(s, F, 4)
  BY <1>1 DEF IsReadings
<1>3. <<>> \in F[4]
  BY <1>2 DEF ReadingsStep
<1>4. SubSeq(s, 1, 1 + 2) = s
  OBVIOUS
<1>5. Key3(s) = Key3(SubSeq(s, 1, 1 + 2)) \o <<>>
  <2>1. PICK k \in Seq(Key) : k = Key3(s)
    BY Key3Keys
  <2>2. k = k \o <<>>
    OBVIOUS
  <2>3. Key3(SubSeq(s, 1, 1 + 2)) = k
    BY <2>1, <1>4
  <2> QED BY <2>1, <2>2, <2>3
<1>6. ~ 1 > Len(s) /\ 1 + 2 <= Len(s) /\ s[1 + 1] \in {"[", "O"} /\ <<>> \in F[1 + 3]
  BY <1>3
<1>7. Key3(s) \in ReadingsStep(s, F, 1)
  BY <1>5, <1>6, Zenon DEF ReadingsStep
<1> QED BY <1>1, <1>2, <1>7

\* A delete key is four bytes, whatever the last one.
LEMMA ReadingsOfFour ==
  ASSUME NEW s \in Seq(Key), Len(s) = 4, s[1] = "esc", s[2] = "[", s[3] = "3"
  PROVE  <<"^G">> \in Readings(s)
<1>1. PICK F : IsReadings(s, F) /\ Readings(s) = F[1]
  BY ReadingsFunction
<1>2. F[1] = ReadingsStep(s, F, 1) /\ F[5] = ReadingsStep(s, F, 5)
  BY <1>1 DEF IsReadings
<1>3. <<>> \in F[5]
  BY <1>2 DEF ReadingsStep
<1>4. SubSeq(s, 1, 1 + 2) = <<"esc", "[", "3">>
  <2> DEFINE p == SubSeq(s, 1, 1 + 2)
             q == <<"esc", "[", "3">>
  <2>1. p = [k \in 1 .. 3 |-> s[k]]
    OBVIOUS
  <2>2. q = [k \in 1 .. 3 |-> q[k]]
    OBVIOUS
  <2>3. \A k \in 1 .. 3 : s[k] = q[k]
    OBVIOUS
  <2> HIDE DEF p, q
  <2>4. p = q
    BY <2>1, <2>2, <2>3
  <2> QED BY <2>4 DEF p, q
<1>5. <<"^G">> = <<"^G">> \o <<>>
  OBVIOUS
<1>6. ~ 1 > Len(s) /\ 1 + 3 <= Len(s) /\ <<>> \in F[1 + 4]
  BY <1>3
<1>7. <<"^G">> \in ReadingsStep(s, F, 1)
  BY <1>4, <1>5, <1>6, Zenon DEF ReadingsStep
<1> QED BY <1>1, <1>2, <1>7

-----------------------------------------------------------------------------
(* Input.                                                                  *)

\* The bytes read from the terminal, and the one of them kept for later.
Consumed == SubSeq(conTyped, 1, conRead)
Kept == IF conLast = "none" THEN <<>> ELSE <<conLast>>

\* Where kget waits for another byte.
Waiting == {<<>>, <<"esc">>, <<"esc", "[">>, <<"esc", "O">>, <<"esc", "[", "3">>}

\* The bytes read begin with some whose reading is what the guest has and what
\* waits for it in stuff; the others are the sequence under way and last.
ReadSoFar(s) ==
  /\ Consumed = (s \o conAt) \o Kept
  /\ conGiven \o conStuff \in Readings(s)

ConInv ==
  /\ conTyped \in Seq(Typing) /\ conRead \in 0 .. Len(conTyped)
  /\ conLast \in Typing \cup {"none"} /\ conAt \in Waiting
  /\ conGiven \in Seq(Key) /\ conStuff \in Seq(Key)
  /\ conAt # <<>> => conStuff = <<>>
  /\ \E s \in Seq(Key) : ReadSoFar(s)

\* The sequences of kget are keys.
LEMMA WaitingKeys ==
  ASSUME NEW w \in Waiting
  PROVE  w \in Seq(Key)
<1>1. "esc" \in Key /\ "[" \in Key /\ "O" \in Key /\ "3" \in Key
  BY DEF Key, Typing
<1>2. <<"esc">> \in Seq(Key) /\ <<"esc", "[">> \in Seq(Key) /\ <<"esc", "O">> \in Seq(Key)
  BY <1>1, PairIsSeq
<1>3. <<"esc", "[", "3">> \in Seq(Key)
  <2>1. <<"esc", "[", "3">> = Append(<<"esc", "[">>, "3")
    OBVIOUS
  <2> QED BY <2>1, <1>1, <1>2
<1>4. <<>> \in Seq(Key)
  OBVIOUS
<1> QED BY <1>2, <1>3, <1>4 DEF Waiting

\* One more key, behind the others.
LEMMA AppendKey ==
  \A w \in Seq(Key), b \in Key :
    /\ Append(w, b) \in Seq(Key) /\ Len(Append(w, b)) = Len(w) + 1
    /\ \A i \in 1 .. Len(w) : Append(w, b)[i] = w[i]
OBVIOUS

\* Two and three bytes, one behind the other.
LEMMA AppendSecond ==
  ASSUME NEW a \in Key, NEW b \in Key
  PROVE  Append(<<a>>, b) = <<a, b>>
<1> DEFINE p == Append(<<a>>, b)
           q == <<a, b>>
<1>1. p = [k \in 1 .. 2 |-> p[k]]
  OBVIOUS
<1>2. q = [k \in 1 .. 2 |-> q[k]]
  OBVIOUS
<1>3. \A k \in 1 .. 2 : p[k] = q[k]
  OBVIOUS
<1> HIDE DEF p, q
<1>4. p = q
  BY <1>1, <1>2, <1>3
<1> QED BY <1>4 DEF p, q

\* Three bytes, one behind the others.
LEMMA ThirdOfThree == Append(<<"esc", "[">>, "3") = <<"esc", "[", "3">>
<1> DEFINE p == Append(<<"esc", "[">>, "3")
           q == <<"esc", "[", "3">>
<1>1. p = [k \in 1 .. 3 |-> p[k]]
  OBVIOUS
<1>2. q = [k \in 1 .. 3 |-> q[k]]
  OBVIOUS
<1>3. \A k \in 1 .. 3 : p[k] = q[k]
  OBVIOUS
<1> HIDE DEF p, q
<1>4. p = q
  BY <1>1, <1>2, <1>3
<1> QED BY <1>4 DEF p, q

\* The third byte of a sequence.
LEMMA AppendThird ==
  ASSUME NEW w \in Waiting, Len(w) = 2, NEW b \in Key
  PROVE  /\ w \in {<<"esc", "[">>, <<"esc", "O">>}
         /\ Append(w, b) \in Seq(Key) /\ Len(Append(w, b)) = 3
         /\ Append(w, b)[1] = "esc" /\ Append(w, b)[2] \in {"[", "O"}
         /\ w[2] = "[" /\ b = "3" => Append(w, b) = <<"esc", "[", "3">>
<1>1. w \in Seq(Key)
  BY WaitingKeys
<1>2. Len(<<>>) = 0 /\ Len(<<"esc">>) = 1 /\ Len(<<"esc", "[", "3">>) = 3
  OBVIOUS
<1>3. w \in {<<"esc", "[">>, <<"esc", "O">>}
  BY <1>2 DEF Waiting
<1>4. w[1] = "esc" /\ w[2] \in {"[", "O"}
  <2>1. CASE w = <<"esc", "[">>
    BY <2>1
  <2>2. CASE w = <<"esc", "O">>
    BY <2>2
  <2> QED BY <1>3, <2>1, <2>2
<1>5. /\ Append(w, b) \in Seq(Key) /\ Len(Append(w, b)) = 3
      /\ Append(w, b)[1] = "esc" /\ Append(w, b)[2] \in {"[", "O"}
  <2>1. 1 \in 1 .. Len(w) /\ 2 \in 1 .. Len(w) /\ Len(w) + 1 = 3
    OBVIOUS
  <2>2. /\ Append(w, b) \in Seq(Key) /\ Len(Append(w, b)) = Len(w) + 1
        /\ \A i \in 1 .. Len(w) : Append(w, b)[i] = w[i]
    BY <1>1, AppendKey, Zenon
  <2>3. Append(w, b)[1] = "esc" /\ Append(w, b)[2] \in {"[", "O"}
    BY <2>1, <2>2, <1>4, Zenon
  <2> QED BY <2>1, <2>2, <2>3, Zenon
<1>6. ASSUME w[2] = "[", b = "3" PROVE Append(w, b) = <<"esc", "[", "3">>
  <2>1. w = <<"esc", "[">>
    <3>1. CASE w = <<"esc", "O">>
      BY <3>1, <1>6
    <3> QED BY <1>3, <3>1
  <2> QED BY <1>6, <2>1, ThirdOfThree
<1> QED BY <1>3, <1>5, <1>6

\* The fourth.
LEMMA AppendFourth ==
  ASSUME NEW w \in Waiting, Len(w) = 3, NEW b \in Key
  PROVE  /\ w # <<>>
         /\ Append(w, b) \in Seq(Key) /\ Len(Append(w, b)) = 4
         /\ Append(w, b)[1] = "esc" /\ Append(w, b)[2] = "[" /\ Append(w, b)[3] = "3"
<1>1. w \in Seq(Key)
  BY WaitingKeys
<1>2. /\ Len(<<>>) = 0 /\ Len(<<"esc">>) = 1 /\ Len(<<"esc", "[">>) = 2 /\ Len(<<"esc", "O">>) = 2
  OBVIOUS
<1>3. w = <<"esc", "[", "3">>
  BY <1>2 DEF Waiting
<1>4. w[1] = "esc" /\ w[2] = "[" /\ w[3] = "3"
  BY <1>3
<1>5. 1 \in 1 .. Len(w) /\ 2 \in 1 .. Len(w) /\ 3 \in 1 .. Len(w) /\ Len(w) + 1 = 4 /\ w # <<>>
  BY <1>2
<1>6. /\ Append(w, b) \in Seq(Key) /\ Len(Append(w, b)) = Len(w) + 1
      /\ \A i \in 1 .. Len(w) : Append(w, b)[i] = w[i]
  BY <1>1, AppendKey, Zenon
<1> QED BY <1>4, <1>5, <1>6, Zenon

\* With nothing typed and nothing given, nothing is to be read.
LEMMA ConInitInv == ConInit => ConInv
<1> SUFFICES ASSUME ConInit PROVE ConInv
  OBVIOUS
<1>1. /\ <<>> \in Seq(Key) /\ <<>> \in Seq(Typing) /\ Len(<<>>) = 0
      /\ SubSeq(<<>>, 1, 0) = <<>> /\ <<>> \o <<>> = <<>>
  OBVIOUS
<1>2. <<>> \in Readings(<<>>)
  BY <1>1, ReadingsItself
<1>3. ReadSoFar(<<>>)
  BY <1>1, <1>2 DEF ConInit, ReadSoFar, Consumed, Kept
<1>4. /\ conTyped \in Seq(Typing) /\ conRead \in 0 .. Len(conTyped)
      /\ conGiven \in Seq(Key) /\ conStuff \in Seq(Key)
  BY <1>1 DEF ConInit
<1>5. conLast \in Typing \cup {"none"} /\ conAt \in Waiting /\ conStuff = <<>>
  BY DEF ConInit, Waiting
<1> QED BY <1>1, <1>3, <1>4, <1>5, Zenon DEF ConInv

\* The invariant says that the guest reads what was typed.
LEMMA ConInvReads == ConInv => InputIsReading
<1> SUFFICES ASSUME ConInv PROVE InputIsReading
  OBVIOUS
<1>1. PICK s \in Seq(Key) : ReadSoFar(s)
  BY DEF ConInv
<1>2. conAt \in Seq(Key) /\ conAt \in Readings(conAt)
  BY WaitingKeys, ReadingsItself DEF ConInv
<1>3. Kept \in Seq(Key) /\ Kept \in Readings(Kept)
  <2>1. Kept \in Seq(Key)
    <3>1. CASE conLast = "none"
      BY <3>1 DEF Kept
    <3>2. CASE conLast # "none"
      <4>1. conLast \in Key
        BY <3>2 DEF ConInv, Key
      <4>2. <<conLast>> \in Seq(Key)
        BY <4>1
      <4> QED BY <3>2, <4>2 DEF Kept
    <3> QED BY <3>1, <3>2
  <2> QED BY <2>1, ReadingsItself
<1>4. (conGiven \o conStuff) \o conAt \in Readings(s \o conAt)
  BY <1>1, <1>2, ReadingsJoin DEF ReadSoFar
<1>5. s \o conAt \in Seq(Key)
  BY <1>2, ConcatProperties
<1>6. ((conGiven \o conStuff) \o conAt) \o Kept \in Readings((s \o conAt) \o Kept)
  BY <1>3, <1>4, <1>5, ReadingsJoin
<1> QED BY <1>6, <1>1 DEF InputIsReading, ReadSoFar, Kept, Consumed

\* A byte read, from last or from the terminal, is the next of those typed.
LEMMA TakeReads ==
  ASSUME ConInv, NEW s \in Seq(Key), ReadSoFar(s), Ready, Take, conTyped' = conTyped
  PROVE  /\ NextByte \in Key /\ NextByte \in Typing
         /\ Consumed' = s \o Append(conAt, NextByte)
         /\ conLast' = "none" /\ conRead' \in 0 .. Len(conTyped)
<1>1. PICK a \in Seq(Key) : a = conAt
  BY WaitingKeys DEF ConInv
<1>2. /\ conTyped \in Seq(Typing) /\ conRead \in 0 .. Len(conTyped) /\ Len(conTyped) \in Nat
      /\ conLast \in Typing \cup {"none"}
  BY DEF ConInv
<1>3. Typing \subseteq Key /\ "none" \notin Typing
  BY DEF Key, Typing
<1>4. ASSUME NEW b \in Key PROVE (s \o a) \o <<b>> = s \o Append(a, b)
  OBVIOUS
<1>5. CASE conLast = "none"
  <2>1. conRead < Len(conTyped) /\ NextByte = conTyped[conRead + 1] /\ conRead' = conRead + 1
        /\ conLast' = "none"
    BY <1>5 DEF Ready, NextByte, Take
  <2>2. NextByte \in Typing
    BY <2>1, <1>2
  <2>3. SubSeq(conTyped, 1, conRead + 1) = SubSeq(conTyped, 1, conRead) \o <<conTyped[conRead + 1]>>
    BY <2>1, <1>2
  <2>4. Consumed = s \o a
    <3>1. Consumed = (s \o a) \o <<>>
      BY <1>1, <1>5 DEF ReadSoFar, Kept
    <3>2. s \o a \in Seq(Key)
      BY ConcatProperties
    <3> QED BY <3>1, <3>2
  <2>5. Consumed' = (s \o a) \o <<NextByte>>
    BY <2>1, <2>3, <2>4 DEF Consumed
  <2>6. conRead' \in 0 .. Len(conTyped)
    BY <2>1, <1>2
  <2>7. NextByte \in Key
    BY <2>2, <1>3
  <2>8. Consumed' = s \o Append(conAt, NextByte)
    BY <2>5, <2>7, <1>4, <1>1
  <2> QED BY <2>1, <2>2, <2>6, <2>7, <2>8
<1>6. CASE conLast # "none"
  <2>1. NextByte = conLast /\ conRead' = conRead /\ conLast' = "none"
    BY <1>6 DEF NextByte, Take
  <2>2. Consumed' = (s \o a) \o <<NextByte>>
    BY <2>1, <1>1, <1>6 DEF ReadSoFar, Kept, Consumed
  <2> QED BY <2>1, <2>2, <1>1, <1>2, <1>3, <1>4, <1>6
<1> QED BY <1>5, <1>6

\* What kget gives and pushes stands behind what was given before.
LEMMA GiveKeys ==
  ASSUME NEW keys \in Seq(Key), 1 <= Len(keys), Len(keys) <= 3, conStuff = <<>>, conGiven \in Seq(Key),
         Give(keys)
  PROVE  /\ conGiven' \in Seq(Key) /\ conStuff' \in Seq(Key)
         /\ conGiven' \o conStuff' = conGiven \o keys
<1>1. Tail(keys) \in Seq(Key) /\ Len(Tail(keys)) <= 2 /\ Head(keys) \in Key
  <2>1. keys # <<>>
    OBVIOUS
  <2>2. Len(keys) - 1 <= 2
    OBVIOUS
  <2> QED BY <2>1, <2>2, HeadTailProperties
<1>2. conStuff' = Tail(keys)
  <2>1. <<>> \o Tail(keys) = Tail(keys)
    BY <1>1
  <2>2. ~ Len(Tail(keys)) > FifoSize
    BY <1>1, ConsoleAssumption DEF ConsoleAssumption
  <2> QED BY <2>1, <2>2 DEF Give, Pushed
<1>3. conGiven' = Append(conGiven, Head(keys))
  BY DEF Give
<1>4. PICK g \in Seq(Key) : g = conGiven
  OBVIOUS
<1>5. Append(g, Head(keys)) \o Tail(keys) = g \o keys
  BY <1>1
<1> QED BY <1>1, <1>2, <1>3, <1>4, <1>5

\* A sequence that ends gives its keys.
LEMMA FinishInv ==
  ASSUME ConInv, NEW s \in Seq(Key), ReadSoFar(s), conStuff = <<>>,
         NEW w \in Seq(Key), NEW keys \in Readings(w), keys \in Seq(Key), 1 <= Len(keys), Len(keys) <= 3,
         Consumed' = s \o w, conLast' = "none", conRead' \in 0 .. Len(conTyped),
         conTyped' = conTyped, Give(keys)
  PROVE  ConInv'
<1>1. /\ conGiven' \in Seq(Key) /\ conStuff' \in Seq(Key)
      /\ conGiven' \o conStuff' = conGiven \o keys
  BY GiveKeys DEF ConInv
<1>2. conGiven \o keys \in Readings(s \o w)
  <2>1. conGiven = conGiven \o conStuff
    BY DEF ConInv
  <2>2. conGiven \in Readings(s)
    BY <2>1 DEF ReadSoFar
  <2> QED BY <2>2, ReadingsJoin
<1>3. s \o w \in Seq(Key)
  BY ConcatProperties
<1>4. ReadSoFar(s \o w)'
  <2>1. PICK x \in Seq(Key) : x = s \o w
    BY <1>3
  <2>2. conAt' = <<>> /\ Kept' = <<>>
    BY DEF Give, Kept
  <2>3. x = (x \o <<>>) \o <<>>
    OBVIOUS
  <2>4. Consumed' = (x \o conAt') \o Kept'
    BY <2>1, <2>2, <2>3
  <2>5. (conGiven \o conStuff)' \in Readings(x)
    BY <1>1, <1>2, <2>1
  <2> QED BY <2>1, <2>4, <2>5 DEF ReadSoFar
<1>5. conAt' = <<>> /\ conAt' \in Waiting
  BY DEF Give, Waiting
<1>6. conTyped' \in Seq(Typing) /\ conRead' \in 0 .. Len(conTyped') /\ conLast' \in Typing \cup {"none"}
  BY DEF ConInv
<1> QED BY <1>1, <1>3, <1>4, <1>5, <1>6 DEF ConInv

\* A sequence that goes on waits for its next byte.
LEMMA WaitInv ==
  ASSUME ConInv, NEW s \in Seq(Key), ReadSoFar(s), conStuff = <<>>,
         conAt' \in Waiting, Consumed' = s \o conAt',
         conLast' = "none", conRead' \in 0 .. Len(conTyped),
         UNCHANGED <<conTyped, conStuff, conGiven>>
  PROVE  ConInv'
<1>1. ReadSoFar(s)'
  <2>1. PICK a \in Seq(Key) : a = conAt'
    BY WaitingKeys
  <2>2. s \o a \in Seq(Key)
    BY ConcatProperties
  <2>3. s \o a = (s \o a) \o <<>>
    BY <2>2
  <2>4. Kept' = <<>>
    BY DEF Kept
  <2> QED BY <2>1, <2>3, <2>4 DEF ReadSoFar
<1>2. conTyped' \in Seq(Typing) /\ conRead' \in 0 .. Len(conTyped') /\ conLast' \in Typing \cup {"none"}
  BY DEF ConInv
<1>3. conGiven' \in Seq(Key) /\ conStuff' \in Seq(Key) /\ conStuff' = <<>>
  BY DEF ConInv
<1> QED BY <1>1, <1>2, <1>3 DEF ConInv

\* A typed key is put behind the bytes that wait.
LEMMA TypeInv == ConInv /\ Type => ConInv'
<1> SUFFICES ASSUME ConInv, Type PROVE ConInv'
  OBVIOUS
<1>1. PICK b \in Typing : conTyped' = Append(conTyped, b)
  BY DEF Type
<1>2. UNCHANGED <<conRead, conLast, conStuff, conAt, conGiven>>
  BY DEF Type
<1>3. conTyped \in Seq(Typing) /\ conRead \in 0 .. Len(conTyped)
  BY DEF ConInv
<1>4. conTyped' \in Seq(Typing) /\ conRead' \in 0 .. Len(conTyped')
  BY <1>1, <1>2, <1>3
<1>5. Consumed' = Consumed
  <2>1. SubSeq(Append(conTyped, b), 1, conRead) = SubSeq(conTyped, 1, conRead)
    BY <1>3
  <2> QED BY <2>1, <1>1, <1>2 DEF Consumed
<1>6. Kept' = Kept
  BY <1>2 DEF Kept
<1>7. PICK s \in Seq(Key) : ReadSoFar(s)
  BY DEF ConInv
<1>8. ReadSoFar(s)'
  BY <1>2, <1>5, <1>6, <1>7 DEF ReadSoFar
<1> QED BY <1>2, <1>4, <1>8 DEF ConInv

\* ConStat takes bytes up and queues what it made of them: the reading goes on where it was.
LEMMA ConStatInv == ConInv /\ ConStat => ConInv'
<1> SUFFICES ASSUME ConInv, ConStat PROVE ConInv'
  OBVIOUS
<1>1. /\ conAt = <<>> /\ conLast = "none" /\ conRead < Len(conTyped)
      /\ conLast' = conTyped[conRead + 1] /\ conRead' = conRead + 1
      /\ UNCHANGED <<conTyped, conStuff, conAt, conGiven>>
  BY DEF ConStat, NextByte
<1>2. conTyped \in Seq(Typing) /\ conRead \in 0 .. Len(conTyped)
  BY DEF ConInv
<1>3. conLast' \in Typing /\ conRead' \in 0 .. Len(conTyped')
  BY <1>1, <1>2
<1>4. PICK s \in Seq(Key) : ReadSoFar(s)
  BY DEF ConInv
<1>5. Consumed' = (s \o conAt') \o Kept'
  <2>1. SubSeq(conTyped, 1, conRead + 1) = SubSeq(conTyped, 1, conRead) \o <<conTyped[conRead + 1]>>
    BY <1>1, <1>2
  <2>2. Consumed = s
    BY <1>1, <1>4 DEF ReadSoFar, Kept
  <2>3. "none" \notin Typing
    BY DEF Typing
  <2>4. Kept' = <<conTyped[conRead + 1]>>
    BY <1>1, <1>3, <2>3 DEF Kept
  <2>5. Consumed' = s \o <<conTyped[conRead + 1]>>
    BY <2>1, <2>2, <1>1 DEF Consumed
  <2>6. s \o conAt' = s
    BY <1>1
  <2> QED BY <2>4, <2>5, <2>6
<1>6. ReadSoFar(s)'
  BY <1>1, <1>4, <1>5 DEF ReadSoFar
<1>7. conAt' \in Waiting
  BY <1>1 DEF ConInv
<1> QED BY <1>1, <1>3, <1>6, <1>7 DEF ConInv

\* A queued key is the first of what was read and not yet given.
LEMMA GetStuffedInv == ConInv /\ GetStuffed => ConInv'
<1> SUFFICES ASSUME ConInv, GetStuffed PROVE ConInv'
  OBVIOUS
<1>1. /\ conStuff \in Seq(Key) /\ conGiven \in Seq(Key) /\ conStuff # <<>> /\ conAt = <<>>
      /\ conGiven' = Append(conGiven, Head(conStuff)) /\ conStuff' = Tail(conStuff)
      /\ UNCHANGED <<conTyped, conRead, conLast, conAt>>
  BY DEF ConInv, GetStuffed
<1>2. /\ conGiven' \in Seq(Key) /\ conStuff' \in Seq(Key)
      /\ conGiven' \o conStuff' = conGiven \o conStuff
  BY <1>1
<1>3. PICK s \in Seq(Key) : ReadSoFar(s)
  BY DEF ConInv
<1>4. ReadSoFar(s)'
  BY <1>1, <1>2, <1>3 DEF ReadSoFar, Consumed, Kept
<1>5. conAt' = <<>>
  BY <1>1
<1>6. /\ conTyped' \in Seq(Typing) /\ conRead' \in 0 .. Len(conTyped')
      /\ conLast' \in Typing \cup {"none"} /\ conAt' \in Waiting
  BY <1>1 DEF ConInv
<1> QED BY <1>2, <1>4, <1>5, <1>6 DEF ConInv

\* A byte that starts no sequence is given as the key that is meant.
LEMMA GetPlainInv == ConInv /\ GetPlain => ConInv'
<1> SUFFICES ASSUME ConInv, GetPlain PROVE ConInv'
  OBVIOUS
<1>1. PICK s \in Seq(Key) : ReadSoFar(s)
  BY DEF ConInv
<1>2. conStuff = <<>> /\ conAt = <<>> /\ Ready /\ Take /\ Give(<<NextByte>>) /\ conTyped' = conTyped
  BY DEF GetPlain
<1>3. /\ NextByte \in Key /\ Consumed' = s \o Append(conAt, NextByte)
      /\ conLast' = "none" /\ conRead' \in 0 .. Len(conTyped)
  BY <1>1, <1>2, TakeReads
<1>4. <<NextByte>> \in Seq(Key) /\ 1 <= Len(<<NextByte>>) /\ Len(<<NextByte>>) <= 3
  BY <1>3
<1>5. <<NextByte>> \in Readings(<<NextByte>>)
  BY <1>4, ReadingsItself
<1>6. Append(conAt, NextByte) = <<NextByte>>
  BY <1>2
<1> QED BY <1>1, <1>2, <1>3, <1>4, <1>5, <1>6, FinishInv

\* ESC is taken up as the start of a sequence.
LEMMA GetEscInv == ConInv /\ GetEsc => ConInv'
<1> SUFFICES ASSUME ConInv, GetEsc PROVE ConInv'
  OBVIOUS
<1>1. PICK s \in Seq(Key) : ReadSoFar(s)
  BY DEF ConInv
<1>2. /\ conStuff = <<>> /\ conAt = <<>> /\ Ready /\ Take /\ NextByte = "esc" /\ conAt' = <<"esc">>
      /\ UNCHANGED <<conTyped, conStuff, conGiven>>
  BY DEF GetEsc
<1>3. /\ Consumed' = s \o Append(conAt, NextByte)
      /\ conLast' = "none" /\ conRead' \in 0 .. Len(conTyped)
  BY <1>1, <1>2, TakeReads
<1>4. Append(conAt, NextByte) = conAt' /\ conAt' \in Waiting
  BY <1>2 DEF Waiting
<1> QED BY <1>1, <1>2, <1>3, <1>4, WaitInv

\* ESC with nothing behind it is given as itself.
LEMMA LoneEscInv == ConInv /\ LoneEsc => ConInv'
<1> SUFFICES ASSUME ConInv, LoneEsc PROVE ConInv'
  OBVIOUS
<1>1. PICK s \in Seq(Key) : ReadSoFar(s)
  BY DEF ConInv
<1>2. /\ conAt = <<"esc">> /\ conLast = "none" /\ Give(<<"esc">>)
      /\ UNCHANGED <<conTyped, conRead, conLast>>
  BY DEF LoneEsc, Ready
<1>3. <<"esc">> \in Seq(Key) /\ 1 <= Len(<<"esc">>) /\ Len(<<"esc">>) <= 3 /\ conStuff = <<>>
  BY <1>2 DEF Key, Typing, ConInv
<1>4. <<"esc">> \in Readings(<<"esc">>)
  BY <1>3, ReadingsItself
<1>5. Consumed' = s \o <<"esc">>
  <2>1. s \o <<"esc">> \in Seq(Key)
    BY <1>3, ConcatProperties
  <2>2. (s \o <<"esc">>) \o <<>> = s \o <<"esc">>
    BY <2>1
  <2> QED BY <2>2, <1>1, <1>2 DEF ReadSoFar, Kept, Consumed
<1>6. conRead' \in 0 .. Len(conTyped)
  BY <1>2 DEF ConInv
<1> QED BY <1>1, <1>2, <1>3, <1>4, <1>5, <1>6, FinishInv

\* The second byte of a sequence.
LEMMA AfterEscInv == ConInv /\ AfterEsc => ConInv'
<1> SUFFICES ASSUME ConInv, AfterEsc PROVE ConInv'
  OBVIOUS
<1>1. PICK s \in Seq(Key) : ReadSoFar(s)
  BY DEF ConInv
<1>2. conAt = <<"esc">> /\ Ready /\ Take /\ conTyped' = conTyped /\ conStuff = <<>>
  BY DEF AfterEsc, ConInv
<1>3. PICK b \in Key : b = NextByte
  BY <1>1, <1>2, TakeReads
<1>4. Append(conAt, b) = <<"esc", b>>
  <2>1. "esc" \in Key
    BY DEF Key, Typing
  <2>2. Append(<<"esc">>, b) = <<"esc", b>>
    BY <2>1, AppendSecond
  <2> QED BY <2>2, <1>2
<1>5. /\ Consumed' = s \o <<"esc", b>>
      /\ conLast' = "none" /\ conRead' \in 0 .. Len(conTyped)
  BY <1>1, <1>2, <1>3, <1>4, TakeReads
<1>6. CASE b \in {"[", "O"}
  <2>1. conAt' = <<"esc", b>> /\ UNCHANGED <<conStuff, conGiven>>
    BY <1>3, <1>6 DEF AfterEsc
  <2>2. conAt' \in Waiting
    BY <2>1, <1>6 DEF Waiting
  <2> QED BY <2>1, <2>2, <1>1, <1>2, <1>5, WaitInv
<1>7. CASE b \notin {"[", "O"}
  <2>1. Give(<<"esc", b>>)
    BY <1>3, <1>7 DEF AfterEsc
  <2>2. <<"esc", b>> \in Seq(Key) /\ 1 <= Len(<<"esc", b>>) /\ Len(<<"esc", b>>) <= 3
    <3>1. "esc" \in Key
      BY DEF Key, Typing
    <3> QED BY <3>1, PairIsSeq
  <2>3. <<"esc", b>> \in Readings(<<"esc", b>>)
    BY <2>2, ReadingsItself
  <2> QED BY <2>1, <2>2, <2>3, <1>1, <1>2, <1>5, FinishInv
<1> QED BY <1>6, <1>7

\* The third byte of a sequence.
LEMMA ThirdByteInv == ConInv /\ ThirdByte => ConInv'
<1> SUFFICES ASSUME ConInv, ThirdByte PROVE ConInv'
  OBVIOUS
<1>1. PICK s \in Seq(Key) : ReadSoFar(s)
  BY DEF ConInv
<1>2. PICK w \in Waiting : w = conAt /\ Len(w) = 2
  BY DEF ThirdByte, ConInv
<1>3. Ready /\ Take /\ conTyped' = conTyped
  BY DEF ThirdByte
<1>4. PICK b \in Key : b = NextByte
  BY <1>1, <1>3, TakeReads
<1> DEFINE t == Append(w, b)
<1>5. /\ Consumed' = s \o t
      /\ conLast' = "none" /\ conRead' \in 0 .. Len(conTyped)
  BY <1>1, <1>2, <1>3, <1>4, TakeReads
<1>6. /\ w # <<>> /\ t \in Seq(Key) /\ Len(t) = 3 /\ t[1] = "esc" /\ t[2] \in {"[", "O"}
      /\ w[2] = "[" /\ b = "3" => t = <<"esc", "[", "3">>
  BY <1>2, AppendThird
<1>7. conStuff = <<>>
  BY <1>2, <1>6 DEF ConInv
<1> HIDE DEF t
<1>8. CASE w[2] = "[" /\ b = "3"
  <2>1. conAt' = t /\ UNCHANGED <<conStuff, conGiven>>
    BY <1>2, <1>4, <1>8 DEF ThirdByte, t
  <2>2. conAt' \in Waiting
    BY <2>1, <1>6, <1>8 DEF Waiting
  <2> QED BY <2>1, <2>2, <1>1, <1>3, <1>5, <1>7, WaitInv
<1>9. CASE ~ (w[2] = "[" /\ b = "3")
  <2>1. Give(Key3(t))
    BY <1>2, <1>4, <1>9 DEF ThirdByte, t
  <2>2. Key3(t) \in Readings(t) /\ Key3(t) \in Seq(Key)
    BY <1>6, ReadingsOfThree, Key3Keys
  <2>3. 1 <= Len(Key3(t)) /\ Len(Key3(t)) <= 3
    <3>1. Len(<<"^E">>) = 1 /\ Len(<<"^Q", "s">>) = 2 /\ Len(<<"INTR">>) = 1
      OBVIOUS
    <3>2. Key3(t) \in {<<"^E">>, <<"^Q", "s">>, <<"INTR">>, t}
      BY Zenon DEF Key3
    <3>3. Len(Key3(t)) \in {1, 2, 3}
      BY <3>1, <3>2, <1>6, Zenon
    <3>4. \A k \in {1, 2, 3} : 1 <= k /\ k <= 3
      OBVIOUS
    <3> QED BY <3>3, <3>4, Zenon
  <2> QED BY <2>1, <2>2, <2>3, <1>1, <1>3, <1>5, <1>6, <1>7, FinishInv
<1> QED BY <1>8, <1>9

\* The fourth byte of a sequence, behind a digit.
LEMMA FourthByteInv == ConInv /\ FourthByte => ConInv'
<1> SUFFICES ASSUME ConInv, FourthByte PROVE ConInv'
  OBVIOUS
<1>1. PICK s \in Seq(Key) : ReadSoFar(s)
  BY DEF ConInv
<1>2. PICK w \in Waiting : w = conAt /\ Len(w) = 3
  BY DEF FourthByte, ConInv
<1>3. Ready /\ Take /\ Give(<<"^G">>) /\ conTyped' = conTyped
  BY DEF FourthByte
<1>4. PICK b \in Key : b = NextByte
  BY <1>1, <1>3, TakeReads
<1> DEFINE t == Append(w, b)
<1>5. /\ Consumed' = s \o t
      /\ conLast' = "none" /\ conRead' \in 0 .. Len(conTyped)
  BY <1>1, <1>2, <1>3, <1>4, TakeReads
<1>6. w # <<>> /\ t \in Seq(Key) /\ Len(t) = 4 /\ t[1] = "esc" /\ t[2] = "[" /\ t[3] = "3"
  BY <1>2, AppendFourth
<1>7. conStuff = <<>>
  BY <1>2, <1>6 DEF ConInv
<1> HIDE DEF t
<1>8. <<"^G">> \in Readings(t)
  BY <1>6, ReadingsOfFour
<1>9. <<"^G">> \in Seq(Key) /\ 1 <= Len(<<"^G">>) /\ Len(<<"^G">>) <= 3
  BY DEF Key
<1> QED BY <1>1, <1>3, <1>5, <1>6, <1>7, <1>8, <1>9, FinishInv

\* Every step of the console's input keeps the invariant.
LEMMA ConNextInv == ConInv /\ ([ConNext]_consoleVars) => ConInv'
<1> SUFFICES ASSUME ConInv, [ConNext]_consoleVars PROVE ConInv'
  OBVIOUS
<1>1. CASE UNCHANGED conVars
  BY <1>1 DEF conVars, ConInv, ReadSoFar, Consumed, Kept
<1>2. CASE ConNext
  BY <1>1, <1>2, TypeInv, ConStatInv, GetStuffedInv, GetPlainInv, GetEscInv, LoneEscInv,
     AfterEscInv, ThirdByteInv, FourthByteInv DEF ConNext, Get, Write
<1>3. CASE UNCHANGED consoleVars
  BY <1>1, <1>3 DEF consoleVars
<1> QED BY <1>2, <1>3

-----------------------------------------------------------------------------
(* Output.                                                                 *)

\* What goes to the terminal.
Shown == Writing \cup {"home", "clear", "line", "pos", "attr"}

\* The text read from byte i on, when g holds what is read from later bytes on.
ReadByte(s, g, i, open) ==
  IF i > Len(s) THEN <<>>
  ELSE LET c == s[i]
           end == i + Arguments(c)
       IN  CASE ~open /\ c = "esc" -> g[i + 1][TRUE]
             [] ~open /\ c = "cls" -> <<"home", "clear">> \o g[i + 1][FALSE]
             [] ~open /\ c \notin {"esc", "cls"} -> <<c>> \o g[i + 1][FALSE]
             [] open /\ c \in Commands ->
                  IF end > Len(s) THEN <<>> ELSE Meaning(c, s[end]) \o g[end + 1][FALSE]
             [] open /\ c = "esc" -> <<"esc">> \o g[i + 1][TRUE]
             [] open /\ c = "E" -> <<"line">> \o g[i + 1][TRUE]
             [] open /\ c \notin Commands \cup {"esc", "E"} ->
                  <<"esc", c>> \o g[i + 1][FALSE]

ReadStep(s, g, i) == [open \in BOOLEAN |-> ReadByte(s, g, i, open)]

IsRead(s, g) == g = [i \in 1 .. Len(s) + 1 |-> ReadStep(s, g, i)]

\* The byte at i outside a sequence, and behind an escape.
ReadPlain(s, g, i) ==
  /\ s[i] = "esc" => ReadStep(s, g, i)[FALSE] = g[i + 1][TRUE]
  /\ s[i] = "cls" => ReadStep(s, g, i)[FALSE] = <<"home", "clear">> \o g[i + 1][FALSE]
  /\ s[i] \notin {"esc", "cls"} => ReadStep(s, g, i)[FALSE] = <<s[i]>> \o g[i + 1][FALSE]

ReadOpen(s, g, i) ==
  /\ s[i] = "esc" => ReadStep(s, g, i)[TRUE] = <<"esc">> \o g[i + 1][TRUE]
  /\ s[i] = "E" => ReadStep(s, g, i)[TRUE] = <<"line">> \o g[i + 1][TRUE]
  /\ s[i] \notin Commands \cup {"esc", "E"} =>
        ReadStep(s, g, i)[TRUE] = <<"esc", s[i]>> \o g[i + 1][FALSE]
  /\ s[i] \in Commands /\ i + Arguments(s[i]) > Len(s) => ReadStep(s, g, i)[TRUE] = <<>>
  /\ s[i] \in Commands /\ ~ i + Arguments(s[i]) > Len(s) =>
        ReadStep(s, g, i)[TRUE] = Meaning(s[i], s[i + Arguments(s[i])])
                                    \o g[(i + Arguments(s[i])) + 1][FALSE]

\* What a step of the reading does, outside and inside a sequence.
LEMMA ReadStepCases ==
  ASSUME NEW s, NEW g, NEW i, ~ i > Len(s)
  PROVE  ReadPlain(s, g, i) /\ ReadOpen(s, g, i)
<1>1. ReadPlain(s, g, i)
  BY Zenon DEF ReadPlain, ReadStep, ReadByte
<1>2. ReadOpen(s, g, i)
  BY Zenon DEF ReadOpen, ReadStep, ReadByte, Commands
<1> QED BY <1>1, <1>2

\* Commands take bytes.
LEMMA ArgumentsTaken ==
  ASSUME NEW c
  PROVE  Arguments(c) \in {1, 2, 4}
BY DEF Arguments

\* A step looks at later bytes only.
LEMMA ReadStepLocal ==
  ASSUME NEW s \in Seq(Writing), NEW g, NEW h, NEW i \in 1 .. Len(s) + 1,
         \A k \in i + 1 .. Len(s) + 1 : g[k] = h[k]
  PROVE  ReadStep(s, g, i) = ReadStep(s, h, i)
<1>1. CASE i > Len(s)
  BY <1>1 DEF ReadStep, ReadByte
<1>2. CASE i <= Len(s)
  <2>1. g[i + 1] = h[i + 1] /\ ~ i > Len(s)
    BY <1>2
  <2>2. ~ i + Arguments(s[i]) > Len(s) =>
           g[(i + Arguments(s[i])) + 1] = h[(i + Arguments(s[i])) + 1]
    <3>1. PICK a \in {1, 2, 4} : a = Arguments(s[i])
      BY ArgumentsTaken
    <3>2. ~ i + a > Len(s) => (i + a) + 1 \in i + 1 .. Len(s) + 1
      BY <1>2
    <3> QED BY <3>1, <3>2
  <2>3. /\ ReadPlain(s, g, i) /\ ReadOpen(s, g, i)
        /\ ReadPlain(s, h, i) /\ ReadOpen(s, h, i)
    BY <2>1, ReadStepCases
  <2>4. ReadStep(s, g, i)[FALSE] = ReadStep(s, h, i)[FALSE]
    BY <2>1, <2>3, Zenon DEF ReadPlain
  <2>5. ReadStep(s, g, i)[TRUE] = ReadStep(s, h, i)[TRUE]
    BY <2>1, <2>2, <2>3, Zenon DEF ReadOpen
  <2> DEFINE a == ReadStep(s, g, i)
             b == ReadStep(s, h, i)
  <2>6. a = [open \in BOOLEAN |-> a[open]] /\ b = [open \in BOOLEAN |-> b[open]]
    BY DEF ReadStep
  <2>7. \A open \in BOOLEAN : a[open] = b[open]
    <3> HIDE DEF a, b
    <3> QED BY <2>4, <2>5 DEF a, b
  <2> HIDE DEF a, b
  <2>8. a = b
    BY <2>6, <2>7
  <2> QED BY <2>8 DEF a, b
<1> QED BY <1>1, <1>2

\* Two things shown are a sequence.
LEMMA PairShown ==
  \A a, b \in Shown : <<a, b>> \in Seq(Shown)
BY PairIsSeq

\* Concatenation of what is shown is associative.
LEMMA ShownRegroup ==
  \A a, b, c \in Seq(Shown) : a \o (b \o c) = (a \o b) \o c
BY ConcatAssociative

\* What is shown in two parts is shown.
LEMMA ConcatShown ==
  \A p, q \in Seq(Shown) : p \o q \in Seq(Shown)
OBVIOUS

\* A command means what is shown.
LEMMA MeaningShown ==
  ASSUME NEW c \in Writing, NEW last \in Writing
  PROVE  Meaning(c, last) \in Seq(Shown)
<1>1. /\ <<"pos">> \in Seq(Shown) /\ <<"attr">> \in Seq(Shown) /\ <<>> \in Seq(Shown)
  BY DEF Shown
<1>2. <<"esc", "B", last>> \in Seq(Shown)
  <2> DEFINE p == <<"esc", "B", last>>
  <2>1. p \in [1 .. 3 -> Shown]
    BY DEF Shown, Writing
  <2> HIDE DEF p
  <2>2. p \in Seq(Shown)
    BY <2>1, SeqDef
  <2> QED BY <2>2 DEF p
<1>3. Meaning(c, last) \in {<<"pos">>, <<"attr">>, <<>>, <<"esc", "B", last>>}
  BY Zenon DEF Meaning
<1> QED BY <1>1, <1>2, <1>3

\* A step adds what is shown to what is shown.
LEMMA ReadStepShown ==
  ASSUME NEW s \in Seq(Writing), NEW g \in [1 .. Len(s) + 1 -> [BOOLEAN -> Seq(Shown)]],
         NEW i \in 1 .. Len(s) + 1
  PROVE  ReadStep(s, g, i) \in [BOOLEAN -> Seq(Shown)]
<1>1. CASE i > Len(s)
  <2>1. <<>> \in Seq(Shown)
    OBVIOUS
  <2> QED BY <1>1, <2>1 DEF ReadStep, ReadByte
<1>2. CASE i <= Len(s)
  <2>1. /\ g[i + 1][TRUE] \in Seq(Shown) /\ g[i + 1][FALSE] \in Seq(Shown)
        /\ s[i] \in Writing /\ ~ i > Len(s)
    <3>1. i + 1 \in 1 .. Len(s) + 1 /\ i \in 1 .. Len(s)
      BY <1>2
    <3>2. g[i + 1] \in [BOOLEAN -> Seq(Shown)]
      BY <3>1
    <3>3. g[i + 1][TRUE] \in Seq(Shown) /\ g[i + 1][FALSE] \in Seq(Shown)
      BY <3>2
    <3>4. s[i] \in Writing
      BY <3>1
    <3>5. ~ i > Len(s)
      BY <1>2
    <3> QED BY <3>3, <3>4, <3>5, Zenon
  <2>2. ~ i + Arguments(s[i]) > Len(s) =>
           /\ g[(i + Arguments(s[i])) + 1][FALSE] \in Seq(Shown)
           /\ Meaning(s[i], s[i + Arguments(s[i])]) \in Seq(Shown)
    <3>1. PICK a \in {1, 2, 4} : a = Arguments(s[i])
      BY ArgumentsTaken
    <3>2. SUFFICES ASSUME ~ i + a > Len(s)
                   PROVE  /\ g[(i + a) + 1][FALSE] \in Seq(Shown)
                          /\ Meaning(s[i], s[i + a]) \in Seq(Shown)
      BY <3>1
    <3>3. (i + a) + 1 \in 1 .. Len(s) + 1 /\ i + a \in 1 .. Len(s)
      BY <1>2, <3>2
    <3>4. g[(i + a) + 1] \in [BOOLEAN -> Seq(Shown)]
      BY <3>3
    <3>5. s[i + a] \in Writing
      BY <3>3
    <3>6. s[i] \in Writing
      BY <2>1
    <3>7. g[(i + a) + 1][FALSE] \in Seq(Shown)
      BY <3>4
    <3> QED BY <3>5, <3>6, <3>7, MeaningShown, Zenon
  <2>3. ReadPlain(s, g, i) /\ ReadOpen(s, g, i)
    BY <2>1, ReadStepCases
  <2>4. ReadStep(s, g, i)[FALSE] \in Seq(Shown)
    <3>1. <<"home", "clear">> \in Seq(Shown) /\ <<s[i]>> \in Seq(Shown)
      BY <2>1, PairShown DEF Shown
    <3> QED BY <3>1, <2>1, <2>3, ConcatShown, Zenon DEF ReadPlain
  <2>5. ReadStep(s, g, i)[TRUE] \in Seq(Shown)
    <3>1. /\ <<"esc">> \in Seq(Shown) /\ <<"line">> \in Seq(Shown) /\ <<>> \in Seq(Shown)
      BY DEF Shown, Writing
    <3>2. <<"esc", s[i]>> \in Seq(Shown)
      BY <2>1, PairShown DEF Shown, Writing
    <3>3. CASE s[i] \notin Commands
      BY <3>1, <3>2, <3>3, <2>1, <2>3, ConcatShown, Zenon DEF ReadOpen
    <3>4. CASE s[i] \in Commands
      BY <3>1, <3>4, <2>2, <2>3, ConcatShown, Zenon DEF ReadOpen
    <3> QED BY <3>3, <3>4
  <2> DEFINE a == ReadStep(s, g, i)
  <2>6. a = [open \in BOOLEAN |-> a[open]]
    BY DEF ReadStep
  <2> HIDE DEF a
  <2>7. \A open \in BOOLEAN : a[open] \in Seq(Shown)
    BY <2>4, <2>5 DEF a
  <2>8. a \in [BOOLEAN -> Seq(Shown)]
    BY <2>6, <2>7
  <2> QED BY <2>8 DEF a
<1> QED BY <1>1, <1>2

\* The text has one reading.
LEMMA ReadOnce ==
  ASSUME NEW s \in Seq(Writing), NEW g, NEW h, IsRead(s, g), IsRead(s, h)
  PROVE  \A i \in 1 .. Len(s) + 1 : g[i] = h[i]
<1> DEFINE n == Len(s)
           S == {i \in 1 .. n + 1 : g[i] = h[i]}
<1>0. n \in Nat
  OBVIOUS
<1>1. \A i \in 1 .. n + 1 :
        /\ g[i] = ReadStep(s, g, i) /\ h[i] = ReadStep(s, h, i)
        /\ i > n => g[i] = h[i]
  <2>1. \A i \in 1 .. n + 1 : g[i] = ReadStep(s, g, i) /\ h[i] = ReadStep(s, h, i)
    BY DEF IsRead
  <2>2. \A i \in 1 .. n + 1 : i > n => ReadStep(s, g, i) = ReadStep(s, h, i)
    BY DEF ReadStep, ReadByte
  <2> HIDE DEF n
  <2> QED BY <2>1, <2>2
<1> HIDE DEF n
<1>2. n + 1 \in S
  <2>1. n + 1 \in 1 .. n + 1 /\ n + 1 > n
    BY <1>0
  <2> QED BY <2>1, <1>1
<1>3. ASSUME NEW j \in 1 .. n, \A k \in j + 1 .. n + 1 : k \in S PROVE j \in S
  <2>1. j \in 1 .. n + 1
    BY <1>0
  <2>2. ReadStep(s, g, j) = ReadStep(s, h, j)
    <3>1. \A k \in j + 1 .. n + 1 : g[k] = h[k]
      BY <1>3
    <3> QED BY <2>1, <3>1, ReadStepLocal DEF n
  <2> QED BY <2>1, <2>2, <1>1
<1>4. 1 .. n + 1 \subseteq S
  <2> HIDE DEF S
  <2> QED BY <1>0, <1>2, <1>3, FromTheEnd
<1> QED BY <1>4 DEF n

\* The recursion of Read has one solution, and Read is its first value.
LEMMA ReadFunction ==
  ASSUME NEW s \in Seq(Writing)
  PROVE  \E g \in [1 .. Len(s) + 1 -> [BOOLEAN -> Seq(Shown)]] :
            IsRead(s, g) /\ Read(s) = g[1][FALSE]
<1> DEFINE n == Len(s)
           V == [BOOLEAN -> Seq(Shown)]
           G == [i \in 1 .. n + 1 |-> [g \in [1 .. n + 1 -> V] |-> ReadStep(s, g, i)]]
<1>0. n \in Nat /\ V # {}
  <2>1. <<>> \in Seq(Shown)
    OBVIOUS
  <2>2. [open \in BOOLEAN |-> <<>>] \in V
    BY <2>1
  <2>3. n \in Nat
    OBVIOUS
  <2> QED BY <2>2, <2>3
<1>1. G \in [1 .. n + 1 -> [[1 .. n + 1 -> V] -> V]]
  BY ReadStepShown
<1>2. LooksAhead(n, V, G)
  BY <1>1, ReadStepLocal DEF LooksAhead
<1>3. PICK f \in [1 .. n + 1 -> V] : \A i \in 1 .. n + 1 : f[i] = G[i][f]
  <2> HIDE DEF G, V, n
  <2>1. \E f : IsSolution(n, V, G, f)
    BY <1>0, <1>2, RecursionFromTheEnd, Zenon
  <2> QED BY <2>1 DEF IsSolution
<1>4. \A i \in 1 .. n + 1 : G[i][f] = ReadStep(s, f, i)
  OBVIOUS
<1> HIDE DEF G
<1>5. f = [i \in 1 .. n + 1 |-> f[i]]
  OBVIOUS
<1>6. IsRead(s, f)
  BY <1>3, <1>4, <1>5, Zenon DEF IsRead
<1> DEFINE r == CHOOSE from : IsRead(s, from)
<1>7. IsRead(s, r)
  BY <1>6
<1>8. Read(s) = r[1][FALSE]
  BY DEF Read, IsRead, ReadStep, ReadByte
<1> HIDE DEF r
<1>9. \A i \in 1 .. n + 1 : r[i] = f[i]
  BY <1>6, <1>7, ReadOnce
<1>10. 1 \in 1 .. n + 1
  BY <1>0
<1> QED BY <1>6, <1>8, <1>9, <1>10


ReadAll(s) == CHOOSE g : IsRead(s, g)

\* There is a function that reads every suffix of what is written, and Read is its value at the start.
LEMMA ReadAllRead ==
  ASSUME NEW s \in Seq(Writing)
  PROVE  /\ Read(s) = ReadAll(s)[1][FALSE]
         /\ \A i \in 1 .. Len(s) + 1 :
              /\ ReadAll(s)[i] = ReadStep(s, ReadAll(s), i)
              /\ ReadAll(s)[i][TRUE] \in Seq(Shown) /\ ReadAll(s)[i][FALSE] \in Seq(Shown)
<1>1. PICK g \in [1 .. Len(s) + 1 -> [BOOLEAN -> Seq(Shown)]] :
         IsRead(s, g) /\ Read(s) = g[1][FALSE]
  BY ReadFunction
<1>2. IsRead(s, ReadAll(s))
  BY <1>1 DEF ReadAll
<1>3. \A i \in 1 .. Len(s) + 1 : ReadAll(s)[i] = g[i]
  BY <1>1, <1>2, ReadOnce
<1>4. 1 \in 1 .. Len(s) + 1
  OBVIOUS
<1>5. Read(s) = ReadAll(s)[1][FALSE]
  BY <1>1, <1>3, <1>4
<1>6. \A i \in 1 .. Len(s) + 1 : ReadAll(s)[i] = ReadStep(s, ReadAll(s), i)
  BY <1>2 DEF IsRead
<1>7. \A i \in 1 .. Len(s) + 1 : g[i][TRUE] \in Seq(Shown) /\ g[i][FALSE] \in Seq(Shown)
  OBVIOUS
<1>8. \A i \in 1 .. Len(s) + 1 :
         ReadAll(s)[i][TRUE] \in Seq(Shown) /\ ReadAll(s)[i][FALSE] \in Seq(Shown)
  BY <1>3, <1>7, Zenon
<1> QED BY <1>5, <1>6, <1>8

\* Whatever is written next, the terminal was shown what is read before byte i.
Resumes(i, open) ==
  \A u \in Seq(Writing) : Read(vtSent \o u) = vtShown \o ReadAll(vtSent \o u)[i][open]

\* The bytes a state of vt52 still waits for, and the commands that lead to it.
Missing(st) == CASE st = 6 -> 4 [] st = 7 -> 3 [] st \in {2, 8} -> 2 [] OTHER -> 1
Leading(st) == CASE st \in {2, 3} -> {"Y"}
                 [] st = 4 -> {"B"}
                 [] st \in {6, 7} -> {"L"}
                 [] OTHER -> {"L", "*"}

\* Between sequences and behind an escape vt52 has shown all; within one, all
\* before its command.
AtText(i, open) == vtState = 0 /\ i = Len(vtSent) + 1 /\ open = FALSE
AtEscape(i, open) == vtState = 1 /\ i = Len(vtSent) + 1 /\ open = TRUE
AtArgument(i, open) ==
  /\ vtState \in {2, 3, 4, 6, 7, 8, 9} /\ open = TRUE
  /\ i \in 1 .. Len(vtSent) /\ vtSent[i] \in Leading(vtState)
  /\ i + Arguments(vtSent[i]) = Len(vtSent) + Missing(vtState)

ScreenInv ==
  /\ vtSent \in Seq(Writing) /\ vtShown \in Seq(Shown)
  /\ \E i \in 1 .. Len(vtSent) + 1, open \in BOOLEAN :
       /\ Resumes(i, open)
       /\ AtText(i, open) \/ AtEscape(i, open) \/ AtArgument(i, open)

\* With nothing written, nothing is shown.
LEMMA ScreenInitInv == ConInit => ScreenInv
<1> SUFFICES ASSUME ConInit PROVE ScreenInv
  OBVIOUS
<1>1. vtState = 0 /\ vtSent = <<>> /\ vtShown = <<>>
  BY DEF ConInit
<1>2. <<>> \in Seq(Writing) /\ <<>> \in Seq(Shown) /\ Len(<<>>) = 0 /\ 1 \in 1 .. 0 + 1 /\ 0 + 1 = 1
  OBVIOUS
<1>3. Resumes(1, FALSE)
  <2> SUFFICES ASSUME NEW u \in Seq(Writing)
               PROVE  Read(<<>> \o u) = <<>> \o ReadAll(<<>> \o u)[1][FALSE]
    BY <1>1 DEF Resumes
  <2>1. <<>> \o u = u /\ 1 \in 1 .. Len(u) + 1
    OBVIOUS
  <2>2. PICK x \in Seq(Shown) : x = ReadAll(u)[1][FALSE]
    BY <2>1, ReadAllRead
  <2>3. <<>> \o x = x
    OBVIOUS
  <2> QED BY <2>1, <2>2, <2>3, ReadAllRead
<1>4. AtText(1, FALSE)
  BY <1>1, <1>2 DEF AtText
<1>5. vtSent \in Seq(Writing) /\ vtShown \in Seq(Shown) /\ 1 \in 1 .. Len(vtSent) + 1
  BY <1>1, <1>2
<1> QED BY <1>3, <1>4, <1>5, Zenon DEF ScreenInv

\* The invariant says that the terminal is sent what the text means.
LEMMA ScreenInvText == ScreenInv => ScreenIsText
<1> SUFFICES ASSUME ScreenInv PROVE ScreenIsText
  OBVIOUS
<1>1. PICK i \in 1 .. Len(vtSent) + 1, open \in BOOLEAN :
         /\ Resumes(i, open)
         /\ AtText(i, open) \/ AtEscape(i, open) \/ AtArgument(i, open)
  BY DEF ScreenInv
<1> DEFINE g == ReadAll(vtSent)
<1>2. vtSent \in Seq(Writing) /\ vtShown \in Seq(Shown)
  BY DEF ScreenInv
<1>3. Read(vtSent) = vtShown \o g[i][open]
  <2>1. <<>> \in Seq(Writing) /\ vtSent \o <<>> = vtSent
    BY <1>2
  <2> QED BY <1>1, <2>1 DEF Resumes
<1>4. g[i] = ReadStep(vtSent, g, i)
  BY <1>2, ReadAllRead
<1> HIDE DEF g
<1>5. g[i][open] = <<>>
  <2>1. CASE i > Len(vtSent)
    BY <2>1, <1>4 DEF ReadStep, ReadByte
  <2>2. CASE ~ i > Len(vtSent)
    <3>1. AtArgument(i, open)
      BY <2>2, <1>1, <1>2 DEF AtText, AtEscape
    <3>2. ReadOpen(vtSent, g, i)
      BY <2>2, ReadStepCases
    <3>3. vtSent[i] \in Commands
      BY <3>1 DEF AtArgument, Leading, Commands
    <3>4. i + Arguments(vtSent[i]) > Len(vtSent)
      <4>1. Missing(vtState) \in {1, 2, 3, 4}
        BY DEF Missing
      <4> QED BY <4>1, <3>1, <1>2 DEF AtArgument
    <3> QED BY <3>1, <3>2, <3>3, <3>4, <1>4, Zenon DEF ReadOpen, AtArgument
  <2> QED BY <2>1, <2>2
<1>6. vtShown \o <<>> = vtShown
  BY <1>2
<1> QED BY <1>3, <1>5, <1>6 DEF ScreenIsText

\* Texts that begin with what was written and c.
GoesOn(w, c) ==
  /\ Len(w) > Len(vtSent) /\ w[Len(vtSent) + 1] = c
  /\ \A k \in 1 .. Len(vtSent) : w[k] = vtSent[k]

\* Such texts read from i on give out, then what they give from j on.
Gives(c, i, open, out, j, o) ==
  \A w \in Seq(Writing) : GoesOn(w, c) => ReadAll(w)[i][open] = out \o ReadAll(w)[j][o]

\* What was shown for c is what such texts read between i and j.
LEMMA ResumesOn ==
  ASSUME vtSent \in Seq(Writing), vtShown \in Seq(Shown), NEW c \in Writing, NEW out \in Seq(Shown),
         vtSent' = Append(vtSent, c), vtShown' = vtShown \o out,
         NEW i, NEW open, Resumes(i, open), NEW j \in 1 .. Len(vtSent) + 2, NEW o \in BOOLEAN,
         Gives(c, i, open, out, j, o)
  PROVE  Resumes(j, o)'
<1> SUFFICES ASSUME NEW u \in Seq(Writing)
             PROVE  Read(vtSent' \o u) = vtShown' \o ReadAll(vtSent' \o u)[j][o]
  BY DEF Resumes
<1> DEFINE v == <<c>> \o u
           w == vtSent \o v
<1>1. v \in Seq(Writing) /\ Len(v) = Len(u) + 1 /\ v[1] = c /\ Len(u) \in Nat
  OBVIOUS
<1>2. w = vtSent' \o u
  OBVIOUS
<1>3. w \in Seq(Writing) /\ Len(w) = Len(vtSent) + Len(v)
  BY <1>1, ConcatProperties
<1>4. GoesOn(w, c)
  <2>1. Len(w) > Len(vtSent)
    BY <1>1, <1>3
  <2>2. w[Len(vtSent) + 1] = c
    BY <1>1
  <2>3. \A k \in 1 .. Len(vtSent) : w[k] = vtSent[k]
    BY <1>1
  <2> QED BY <2>1, <2>2, <2>3 DEF GoesOn
<1>5. Read(w) = vtShown \o ReadAll(w)[i][open]
  <2> HIDE DEF v
  <2> QED BY <1>1 DEF Resumes
<1> HIDE DEF w
<1>6. ReadAll(w)[i][open] = out \o ReadAll(w)[j][o]
  BY <1>3, <1>4 DEF Gives
<1>7. PICK x \in Seq(Shown) : x = ReadAll(w)[j][o]
  <2>1. j \in 1 .. Len(w) + 1
    BY <1>1, <1>3
  <2>2. ReadAll(w)[j][TRUE] \in Seq(Shown) /\ ReadAll(w)[j][FALSE] \in Seq(Shown)
    BY <2>1, <1>3, ReadAllRead
  <2> QED BY <2>2
<1>8. vtShown \o (out \o x) = (vtShown \o out) \o x
  BY ShownRegroup, Zenon
<1> QED BY <1>2, <1>5, <1>6, <1>7, <1>8

\* The texts that go on are read at i by ReadPlain and ReadOpen.
LEMMA GoesOnReads ==
  ASSUME vtSent \in Seq(Writing), NEW c, NEW w \in Seq(Writing), GoesOn(w, c),
         NEW i \in 1 .. Len(vtSent) + 1
  PROVE  /\ ReadAll(w)[i] = ReadStep(w, ReadAll(w), i)
         /\ ReadPlain(w, ReadAll(w), i) /\ ReadOpen(w, ReadAll(w), i)
<1>1. i \in 1 .. Len(w) + 1 /\ ~ i > Len(w)
  BY DEF GoesOn
<1> QED BY <1>1, ReadAllRead, ReadStepCases

\* Texts are read from i as from j when nothing stands between them.
LEMMA NothingRead ==
  ASSUME vtSent \in Seq(Writing), NEW c, NEW i \in 1 .. Len(vtSent) + 1, NEW open \in BOOLEAN,
         NEW w \in Seq(Writing), GoesOn(w, c)
  PROVE  ReadAll(w)[i][open] = <<>> \o ReadAll(w)[i][open]
<1>1. i \in 1 .. Len(w) + 1
  BY DEF GoesOn
<1>2. ReadAll(w)[i][TRUE] \in Seq(Shown) /\ ReadAll(w)[i][FALSE] \in Seq(Shown)
  BY <1>1, ReadAllRead
<1>3. PICK x \in Seq(Shown) : x = ReadAll(w)[i][open]
  BY <1>2
<1>4. x = <<>> \o x
  OBVIOUS
<1> QED BY <1>3, <1>4

\* The invariant goes over to where reading goes on.
LEMMA WriteOn ==
  ASSUME ScreenInv, NEW c \in Writing, NEW i \in 1 .. Len(vtSent) + 1, NEW open \in BOOLEAN,
         Resumes(i, open), NEW out \in Seq(Shown),
         vtSent' = Append(vtSent, c), vtShown' = vtShown \o out,
         NEW j \in 1 .. Len(vtSent) + 2, NEW o \in BOOLEAN, Gives(c, i, open, out, j, o),
         (AtText(j, o) \/ AtEscape(j, o) \/ AtArgument(j, o))'
  PROVE  ScreenInv'
<1>1. vtSent \in Seq(Writing) /\ vtShown \in Seq(Shown) /\ Len(vtSent) \in Nat
  BY DEF ScreenInv
<1>2. vtSent' \in Seq(Writing) /\ Len(vtSent') = Len(vtSent) + 1 /\ j \in 1 .. Len(vtSent') + 1
  BY <1>1
<1>3. Resumes(j, o)'
  BY <1>1, ResumesOn, Zenon
<1>4. vtShown' \in Seq(Shown)
  BY <1>1, ConcatShown
<1> QED BY <1>2, <1>3, <1>4 DEF ScreenInv

\* A byte outside sequences.
LEMMA WriteText ==
  ASSUME ScreenInv, NEW c \in Writing, NEW i \in 1 .. Len(vtSent) + 1, NEW open \in BOOLEAN,
         Resumes(i, open), AtText(i, open),
         vtState' = Vt(vtState, c).st, vtSent' = Append(vtSent, c),
         vtShown' = vtShown \o Vt(vtState, c).out
  PROVE  ScreenInv'
<1>1. vtSent \in Seq(Writing) /\ vtShown \in Seq(Shown) /\ Len(vtSent) \in Nat
  BY DEF ScreenInv
<1>2. vtState = 0 /\ i = Len(vtSent) + 1 /\ open = FALSE
  BY DEF AtText
<1>3. PICK j \in 1 .. Len(vtSent) + 2 : j = Len(vtSent) + 2
  BY <1>1
<1>4. /\ vtSent' \in Seq(Writing) /\ Len(vtSent') = Len(vtSent) + 1
      /\ j \in 1 .. Len(vtSent') + 1 /\ j = Len(vtSent') + 1 /\ j = i + 1
  BY <1>1, <1>2, <1>3
<1>5. ASSUME NEW out \in Seq(Shown), NEW o \in BOOLEAN, Vt(vtState, c).out = out,
             Gives(c, i, open, out, j, o), AtText(j, o)' \/ AtEscape(j, o)'
      PROVE  ScreenInv'
  <2>1. vtShown' = vtShown \o out
    BY <1>5
  <2> QED BY <1>5, <2>1, WriteOn, Zenon
<1>6. CASE c = "esc"
  <2>1. Vt(vtState, c) = To(1, <<>>)
    BY <1>2, <1>6 DEF Vt
  <2>2. vtState' = 1 /\ Vt(vtState, c).out = <<>> /\ <<>> \in Seq(Shown)
    BY <2>1 DEF To
  <2>3. ASSUME NEW w \in Seq(Writing), GoesOn(w, c)
        PROVE  ReadAll(w)[i][open] = <<>> \o ReadAll(w)[j][TRUE]
    <3>1. ReadAll(w)[i][open] = ReadAll(w)[j][TRUE]
      BY <1>1, <1>2, <1>4, <1>6, <2>3, GoesOnReads, Zenon DEF GoesOn, ReadPlain
    <3>2. j \in 1 .. Len(w) + 1
      BY <2>3, <1>1, <1>3 DEF GoesOn
    <3>3. PICK x \in Seq(Shown) : x = ReadAll(w)[j][TRUE]
      BY <3>2, ReadAllRead
    <3>4. x = <<>> \o x
      OBVIOUS
    <3> QED BY <3>1, <3>3, <3>4
  <2>4. AtEscape(j, TRUE)'
    BY <2>2, <1>4 DEF AtEscape
  <2> QED BY <2>2, <2>3, <2>4, <1>5 DEF Gives
<1>7. CASE c = "cls"
  <2>1. Vt(vtState, c) = To(0, <<"home", "clear">>)
    BY <1>2, <1>7 DEF Vt
  <2>2. vtState' = 0 /\ Vt(vtState, c).out = <<"home", "clear">> /\ <<"home", "clear">> \in Seq(Shown)
    BY <2>1, PairShown DEF To, Shown
  <2>3. ASSUME NEW w \in Seq(Writing), GoesOn(w, c)
        PROVE  ReadAll(w)[i][open] = <<"home", "clear">> \o ReadAll(w)[j][FALSE]
    BY <1>1, <1>2, <1>4, <1>7, <2>3, GoesOnReads, Zenon DEF GoesOn, ReadPlain
  <2>4. AtText(j, FALSE)'
    BY <2>2, <1>4 DEF AtText
  <2> QED BY <2>2, <2>3, <2>4, <1>5 DEF Gives
<1>8. CASE c \notin {"esc", "cls"}
  <2>1. Vt(vtState, c) = To(0, <<c>>)
    BY <1>2, <1>8 DEF Vt
  <2>2. vtState' = 0 /\ Vt(vtState, c).out = <<c>> /\ <<c>> \in Seq(Shown)
    BY <2>1 DEF To, Shown
  <2>3. ASSUME NEW w \in Seq(Writing), GoesOn(w, c)
        PROVE  ReadAll(w)[i][open] = <<c>> \o ReadAll(w)[j][FALSE]
    <3>1. w[i] \notin {"esc", "cls"} /\ w[i] = c
      BY <1>2, <1>8, <2>3 DEF GoesOn
    <3>2. ReadAll(w)[i] = ReadStep(w, ReadAll(w), i) /\ ReadPlain(w, ReadAll(w), i)
      BY <1>1, <2>3, GoesOnReads, Zenon
    <3> QED BY <1>2, <1>4, <3>1, <3>2, Zenon DEF ReadPlain
  <2>4. AtText(j, FALSE)'
    BY <2>2, <1>4 DEF AtText
  <2> QED BY <2>2, <2>3, <2>4, <1>5 DEF Gives
<1> QED BY <1>6, <1>7, <1>8

\* A byte behind an escape.
LEMMA WriteEscape ==
  ASSUME ScreenInv, NEW c \in Writing, NEW i \in 1 .. Len(vtSent) + 1, NEW open \in BOOLEAN,
         Resumes(i, open), AtEscape(i, open),
         vtState' = Vt(vtState, c).st, vtSent' = Append(vtSent, c),
         vtShown' = vtShown \o Vt(vtState, c).out
  PROVE  ScreenInv'
<1>1. vtSent \in Seq(Writing) /\ vtShown \in Seq(Shown) /\ Len(vtSent) \in Nat
  BY DEF ScreenInv
<1>2. vtState = 1 /\ i = Len(vtSent) + 1 /\ open = TRUE
  BY DEF AtEscape
<1>3. PICK j \in 1 .. Len(vtSent) + 2 : j = Len(vtSent) + 2
  BY <1>1
<1>4. /\ vtSent' \in Seq(Writing) /\ Len(vtSent') = Len(vtSent) + 1
      /\ j = Len(vtSent') + 1 /\ j = i + 1 /\ i \in 1 .. Len(vtSent) + 2
      /\ i \in 1 .. Len(vtSent') /\ vtSent'[i] = c
  BY <1>1, <1>2, <1>3
<1>5. Vt(vtState, c) = VtEscape(c)
  BY <1>2 DEF Vt
<1>6. ASSUME NEW out \in Seq(Shown), NEW o \in BOOLEAN, Vt(vtState, c).out = out,
             Gives(c, i, open, out, j, o), AtText(j, o)' \/ AtEscape(j, o)'
      PROVE  ScreenInv'
  <2>1. vtShown' = vtShown \o out
    BY <1>6
  <2> QED BY <1>6, <2>1, WriteOn, Zenon
<1>7. ASSUME NEW w \in Seq(Writing), GoesOn(w, c)
      PROVE  /\ ReadAll(w)[i] = ReadStep(w, ReadAll(w), i) /\ ReadOpen(w, ReadAll(w), i)
             /\ w[i] = c
  BY <1>1, <1>2, <1>7, GoesOnReads, Zenon DEF GoesOn
<1>8. CASE c = "esc"
  <2>1. VtEscape(c) = To(1, <<"esc">>)
    BY <1>8 DEF VtEscape
  <2>2. vtState' = 1 /\ Vt(vtState, c).out = <<"esc">> /\ <<"esc">> \in Seq(Shown)
    BY <1>5, <2>1 DEF To, Shown, Writing
  <2>3. ASSUME NEW w \in Seq(Writing), GoesOn(w, c)
        PROVE  ReadAll(w)[i][open] = <<"esc">> \o ReadAll(w)[j][TRUE]
    BY <1>2, <1>4, <1>7, <1>8, <2>3, Zenon DEF ReadOpen
  <2>4. AtEscape(j, TRUE)'
    BY <2>2, <1>4 DEF AtEscape
  <2> QED BY <2>2, <2>3, <2>4, <1>6 DEF Gives
<1>9. CASE c = "E"
  <2>1. VtEscape(c) = To(1, <<"line">>)
    BY <1>9 DEF VtEscape
  <2>2. vtState' = 1 /\ Vt(vtState, c).out = <<"line">> /\ <<"line">> \in Seq(Shown)
    BY <1>5, <2>1 DEF To, Shown
  <2>3. ASSUME NEW w \in Seq(Writing), GoesOn(w, c)
        PROVE  ReadAll(w)[i][open] = <<"line">> \o ReadAll(w)[j][TRUE]
    BY <1>2, <1>4, <1>7, <1>9, <2>3, Zenon DEF ReadOpen
  <2>4. AtEscape(j, TRUE)'
    BY <2>2, <1>4 DEF AtEscape
  <2> QED BY <2>2, <2>3, <2>4, <1>6 DEF Gives
<1>10. CASE c \notin Commands \cup {"esc", "E"}
  <2>1. VtEscape(c) = To(0, <<"esc", c>>)
    BY <1>10 DEF VtEscape, Commands
  <2>2. vtState' = 0 /\ Vt(vtState, c).out = <<"esc", c>> /\ <<"esc", c>> \in Seq(Shown)
    <3>1. "esc" \in Shown /\ c \in Shown
      BY DEF Shown, Writing
    <3>2. <<"esc", c>> \in Seq(Shown)
      BY <3>1, PairShown
    <3> QED BY <1>5, <2>1, <3>2 DEF To
  <2>3. ASSUME NEW w \in Seq(Writing), GoesOn(w, c)
        PROVE  ReadAll(w)[i][open] = <<"esc", c>> \o ReadAll(w)[j][FALSE]
    <3>1. w[i] \notin Commands \cup {"esc", "E"} /\ w[i] = c
      BY <1>7, <1>10, <2>3
    <3>2. ReadAll(w)[i] = ReadStep(w, ReadAll(w), i) /\ ReadOpen(w, ReadAll(w), i)
      BY <1>7, <2>3
    <3> QED BY <1>2, <1>4, <3>1, <3>2, Zenon DEF ReadOpen
  <2>4. AtText(j, FALSE)'
    BY <2>2, <1>4 DEF AtText
  <2> QED BY <2>2, <2>3, <2>4, <1>6 DEF Gives
<1>11. CASE c \in Commands
  <2>1. /\ c = "Y" => VtEscape(c) = To(2, <<>>)
        /\ c = "B" => VtEscape(c) = To(4, <<>>)
        /\ c = "L" => VtEscape(c) = To(6, <<>>)
        /\ c = "*" => VtEscape(c) = To(8, <<>>)
    BY DEF VtEscape
  <2>2. /\ c = "Y" => vtState' = 2
        /\ c = "B" => vtState' = 4
        /\ c = "L" => vtState' = 6
        /\ c = "*" => vtState' = 8
        /\ Vt(vtState, c).out = <<>> /\ <<>> \in Seq(Shown)
    BY <1>5, <1>11, <2>1 DEF To, Commands
  <2>3. Gives(c, i, open, <<>>, i, open)
    BY <1>1, NothingRead DEF Gives
  <2>4. AtArgument(i, open)'
    <3>1. vtState' \in {2, 4, 6, 8} /\ Missing(vtState') = Arguments(c) /\ c \in Leading(vtState')
      BY <1>11, <2>2 DEF Missing, Leading, Arguments, Commands
    <3>2. i + Arguments(c) = Len(vtSent') + Missing(vtState')
      <4>1. PICK a \in {1, 2, 4} : a = Arguments(c)
        BY ArgumentsTaken
      <4> QED BY <4>1, <3>1, <1>1, <1>2, <1>4
    <3> QED BY <3>1, <3>2, <1>2, <1>4 DEF AtArgument
  <2>5. vtShown' = vtShown \o <<>>
    BY <2>2
  <2> QED BY <2>2, <2>3, <2>4, <2>5, <1>4, WriteOn, Zenon
<1> QED BY <1>8, <1>9, <1>10, <1>11


\* A byte behind a command.
LEMMA WriteArgument ==
  ASSUME ScreenInv, NEW c \in Writing, NEW i \in 1 .. Len(vtSent) + 1, NEW open \in BOOLEAN,
         Resumes(i, open), AtArgument(i, open),
         vtState' = Vt(vtState, c).st, vtSent' = Append(vtSent, c),
         vtShown' = vtShown \o Vt(vtState, c).out
  PROVE  ScreenInv'
<1>1. vtSent \in Seq(Writing) /\ vtShown \in Seq(Shown) /\ Len(vtSent) \in Nat
  BY DEF ScreenInv
<1>2. /\ vtState \in {2, 3, 4, 6, 7, 8, 9} /\ open = TRUE
      /\ i \in 1 .. Len(vtSent) /\ vtSent[i] \in Leading(vtState)
  BY DEF AtArgument
<1>3. PICK a \in {1, 2, 4} : a = Arguments(vtSent[i]) /\ i + a = Len(vtSent) + Missing(vtState)
  BY ArgumentsTaken DEF AtArgument
<1>4. /\ vtSent' \in Seq(Writing) /\ Len(vtSent') = Len(vtSent) + 1
      /\ i \in 1 .. Len(vtSent') /\ vtSent'[i] = vtSent[i] /\ i \in 1 .. Len(vtSent) + 2
  BY <1>1, <1>2
<1>5. Vt(vtState, c) = VtArgument(vtState, c)
  BY <1>2 DEF Vt
<1>6. CASE vtState \in {2, 6, 7, 8}
  <2>1. VtArgument(vtState, c) = To(vtState + 1, <<>>)
    BY <1>6 DEF VtArgument
  <2>2. vtState' = vtState + 1 /\ Vt(vtState, c).out = <<>> /\ <<>> \in Seq(Shown)
    BY <1>5, <2>1 DEF To
  <2>3. Gives(c, i, open, <<>>, i, open)
    BY <1>1, NothingRead DEF Gives
  <2>4. AtArgument(i, open)'
    <3>1. vtState' \in {3, 7, 8, 9} /\ Missing(vtState) = Missing(vtState') + 1
          /\ Missing(vtState') \in {1, 2, 3}
      BY <1>6, <2>2 DEF Missing
    <3>2. vtSent[i] \in Leading(vtState')
      BY <1>2, <1>6, <2>2 DEF Leading
    <3>3. i + a = Len(vtSent') + Missing(vtState')
      BY <1>1, <1>3, <1>4, <3>1
    <3> QED BY <3>1, <3>2, <3>3, <1>2, <1>3, <1>4 DEF AtArgument
  <2>5. vtShown' = vtShown \o <<>>
    BY <2>2
  <2> QED BY <2>2, <2>3, <2>4, <2>5, <1>4, WriteOn, Zenon
<1>7. CASE vtState \in {3, 4, 9}
  <2>1. VtArgument(vtState, c) = To(0, Meaning(vtSent[i], c))
    <3>1. CASE vtState = 3
      BY <3>1, <1>2 DEF VtArgument, Meaning, Leading
    <3>2. CASE vtState = 4
      BY <3>2, <1>2 DEF VtArgument, Meaning, Leading
    <3>3. CASE vtState = 9
      BY <3>3, <1>2 DEF VtArgument, Meaning, Leading
    <3> QED BY <1>7, <3>1, <3>2, <3>3
  <2> DEFINE out == Meaning(vtSent[i], c)
  <2>2. vtState' = 0 /\ Vt(vtState, c).out = out
    BY <1>5, <2>1 DEF To
  <2>3. out \in Seq(Shown)
    <3>1. vtSent[i] \in Writing
      BY <1>1, <1>2
    <3> QED BY <3>1, MeaningShown
  <2>4. PICK j \in 1 .. Len(vtSent) + 2 : j = Len(vtSent) + 2
    BY <1>1
  <2>5. i + a = Len(vtSent) + 1 /\ j = (i + a) + 1 /\ j = Len(vtSent') + 1
    <3>1. Missing(vtState) = 1
      BY <1>7 DEF Missing
    <3> QED BY <3>1, <1>1, <1>3, <1>4, <2>4
  <2>6. vtSent[i] \in Commands
    BY <1>2 DEF Leading, Commands
  <2>7. ASSUME NEW w \in Seq(Writing), GoesOn(w, c)
        PROVE  ReadAll(w)[i][open] = out \o ReadAll(w)[j][FALSE]
    <3>1. ReadAll(w)[i] = ReadStep(w, ReadAll(w), i) /\ ReadOpen(w, ReadAll(w), i)
      BY <1>1, <2>7, GoesOnReads, Zenon
    <3>2. w[i] = vtSent[i] /\ w[i + a] = c /\ ~ i + a > Len(w)
      BY <1>1, <1>2, <2>5, <2>7 DEF GoesOn
    <3>3. ReadStep(w, ReadAll(w), i)[TRUE] = Meaning(w[i], w[i + a]) \o ReadAll(w)[(i + a) + 1][FALSE]
      BY <3>1, <3>2, <2>6, <1>3, Zenon DEF ReadOpen
    <3> QED BY <3>1, <3>2, <3>3, <1>2, <2>5, Zenon
  <2>8. AtText(j, FALSE)'
    BY <2>2, <2>5 DEF AtText
  <2>9. Gives(c, i, open, out, j, FALSE)
    BY <2>7 DEF Gives
  <2>10. vtShown' = vtShown \o out
    BY <2>2
  <2> HIDE DEF out
  <2> QED BY <2>3, <2>8, <2>9, <2>10, WriteOn, Zenon
<1> QED BY <1>2, <1>6, <1>7

\* vt52 takes a byte in each of its states as the reference reads it.
LEMMA WriteInv == ScreenInv /\ Write => ScreenInv'
<1> SUFFICES ASSUME ScreenInv, Write PROVE ScreenInv'
  OBVIOUS
<1>1. PICK c \in Writing :
        /\ vtState' = Vt(vtState, c).st /\ vtSent' = Append(vtSent, c)
        /\ vtShown' = vtShown \o Vt(vtState, c).out
  BY DEF Write
<1>2. PICK i \in 1 .. Len(vtSent) + 1, open \in BOOLEAN :
         /\ Resumes(i, open)
         /\ AtText(i, open) \/ AtEscape(i, open) \/ AtArgument(i, open)
  BY DEF ScreenInv
<1> QED BY <1>1, <1>2, WriteText, WriteEscape, WriteArgument, Zenon

\* Every step keeps the invariant of the screen.
LEMMA ScreenNextInv == ScreenInv /\ ([ConNext]_consoleVars) => ScreenInv'
<1> SUFFICES ASSUME ScreenInv, [ConNext]_consoleVars PROVE ScreenInv'
  OBVIOUS
<1>1. CASE UNCHANGED vtVars
  BY <1>1 DEF vtVars, ScreenInv, Resumes, AtText, AtEscape, AtArgument
<1>2. CASE ConNext
  BY <1>1, <1>2, WriteInv DEF ConNext, Type, ConStat, Get, GetStuffed, GetPlain, GetEsc, LoneEsc,
     AfterEsc, ThirdByte, FourthByte
<1>3. CASE UNCHANGED consoleVars
  BY <1>1, <1>3 DEF consoleVars
<1> QED BY <1>2, <1>3

-----------------------------------------------------------------------------
(* Files of the host.                                                      *)

OpenFcbs == {f \in UnixFcbs : unixOwn[f] # "none"}

FilesTyped ==
  /\ unixTable \in [0 .. CpmFiles - 1 -> UnixNames \cup {"free"}]
  /\ unixOwn \in [UnixFcbs -> UnixNames \cup {"none"}]
  /\ unixFcb \in [UnixFcbs -> [fd : Int, blk : Nat]]
  /\ unixLen \in [UnixNames -> Int]

\* An open FCB has an entry of its own with its file, and every entry in use is
\* that of an open FCB.
EntryOf(f) ==
  unixFcb[f].fd \in 0 .. CpmFiles - 1 /\ unixTable[unixFcb[f].fd] = unixOwn[f]

FilesInv ==
  /\ FilesTyped
  /\ \A f \in OpenFcbs : EntryOf(f)
  /\ \A f, g \in OpenFcbs : unixFcb[f].fd = unixFcb[g].fd => f = g
  /\ \A i \in 0 .. CpmFiles - 1 :
       unixTable[i] # "free" => \E f \in OpenFcbs : unixFcb[f].fd = i

\* No file is open at first.
LEMMA UnixInitInv == UnixInit => FilesInv
<1> SUFFICES ASSUME UnixInit PROVE FilesInv
  OBVIOUS
<1>1. OpenFcbs = {}
  BY DEF UnixInit, OpenFcbs
<1>2. FilesTyped
  BY DEF UnixInit, FilesTyped, Block
<1>3. \A i \in 0 .. CpmFiles - 1 : unixTable[i] = "free"
  BY DEF UnixInit
<1> QED BY <1>1, <1>2, <1>3 DEF FilesInv

\* cpm_file_alloc finds a free entry, if there is one.
LEMMA EntryFree ==
  ASSUME FilesTyped, Entry # -1
  PROVE  Entry \in 0 .. CpmFiles - 1 /\ unixTable[Entry] = "free"
<1>1. FreeEntries # {} /\ FreeEntries \in SUBSET Nat
  BY HostAssumption DEF Entry, FreeEntries, FilesTyped, HostAssumption
<1>2. \E i \in FreeEntries : \A j \in FreeEntries : i <= j
  BY <1>1, NatLeast
<1>3. Entry \in FreeEntries
  BY <1>1, <1>2 DEF Entry
<1> QED BY <1>3 DEF FreeEntries, FilesTyped

\* An entry taken for an FCB stays its own.
LEMMA AssignInv ==
  ASSUME FilesInv, NEW f \in UnixFcbs, NEW name \in UnixNames, unixOwn[f] = "none",
         Assign(f, name), unixLen' \in [UnixNames -> Int]
  PROVE  FilesInv'
<1>0. FilesTyped /\ name # "free" /\ name # "none"
  BY HostAssumption DEF FilesInv, HostAssumption
<1>1. f \notin OpenFcbs
  BY DEF OpenFcbs
<1>2. PICK e \in Int : e = Entry /\ (e # -1 => e \in 0 .. CpmFiles - 1 /\ unixTable[e] = "free")
  <2>1. CASE Entry = -1
    BY <2>1
  <2>2. CASE Entry # -1
    BY <2>2, <1>0, EntryFree
  <2> QED BY <2>1, <2>2
<1>3. /\ unixFcb' \in [UnixFcbs -> [fd : Int, blk : Nat]]
      /\ unixFcb'[f].fd = e
      /\ \A g \in UnixFcbs : g # f => unixFcb'[g] = unixFcb[g]
  BY <1>0, <1>2 DEF Assign, FilesTyped
<1>4. CASE e = -1
  <2>1. unixTable' = unixTable /\ unixOwn' = unixOwn
    BY <1>2, <1>4 DEF Assign
  <2>2. OpenFcbs' = OpenFcbs /\ \A g \in OpenFcbs : g \in UnixFcbs /\ g # f
    BY <2>1, <1>1 DEF OpenFcbs
  <2>3. FilesTyped'
    BY <2>1, <1>0, <1>3 DEF FilesTyped
  <2>4. \A g \in OpenFcbs : unixFcb'[g] = unixFcb[g]
    BY <2>2, <1>3
  <2> QED BY <2>1, <2>2, <2>3, <2>4 DEF FilesInv, EntryOf
<1>5. CASE e # -1
  <2>1. unixTable' = [unixTable EXCEPT ![e] = name] /\ unixOwn' = [unixOwn EXCEPT ![f] = name]
    BY <1>2, <1>5 DEF Assign
  <2>2. /\ unixTable' \in [0 .. CpmFiles - 1 -> UnixNames \cup {"free"}]
        /\ unixOwn' \in [UnixFcbs -> UnixNames \cup {"none"}]
        /\ unixTable'[e] = name /\ unixOwn'[f] = name
        /\ \A i \in 0 .. CpmFiles - 1 : i # e => unixTable'[i] = unixTable[i]
        /\ \A g \in UnixFcbs : g # f => unixOwn'[g] = unixOwn[g]
    BY <2>1, <1>0, <1>2, <1>5 DEF FilesTyped
  <2>3. OpenFcbs' = OpenFcbs \cup {f} /\ OpenFcbs \subseteq UnixFcbs
    BY <2>2, <1>0, <1>1 DEF OpenFcbs
  <2>4. FilesTyped'
    BY <2>2, <1>3 DEF FilesTyped
  <2>5. \A g \in OpenFcbs : /\ unixFcb'[g] = unixFcb[g] /\ unixOwn'[g] = unixOwn[g]
                            /\ unixFcb[g].fd \in 0 .. CpmFiles - 1 /\ unixFcb[g].fd # e
                            /\ unixTable[unixFcb[g].fd] = unixOwn[g]
    <3> SUFFICES ASSUME NEW g \in OpenFcbs
                 PROVE  /\ unixFcb'[g] = unixFcb[g] /\ unixOwn'[g] = unixOwn[g]
                        /\ unixFcb[g].fd \in 0 .. CpmFiles - 1 /\ unixFcb[g].fd # e
                        /\ unixTable[unixFcb[g].fd] = unixOwn[g]
      OBVIOUS
    <3>1. g \in UnixFcbs /\ g # f
      BY <1>1, <2>3
    <3>2. unixFcb[g].fd \in 0 .. CpmFiles - 1 /\ unixTable[unixFcb[g].fd] = unixOwn[g]
      BY DEF FilesInv, EntryOf
    <3>3. unixOwn[g] # "free"
      <4>1. unixOwn[g] \in UnixNames
        BY <3>1, <1>0 DEF FilesTyped, OpenFcbs
      <4> QED BY <4>1, HostAssumption DEF HostAssumption
    <3> QED BY <3>1, <3>2, <3>3, <1>2, <1>3, <1>5, <2>2
  <2>6. \A g \in OpenFcbs' : EntryOf(g)'
    <3> SUFFICES ASSUME NEW g \in OpenFcbs' PROVE EntryOf(g)'
      OBVIOUS
    <3>1. CASE g = f
      BY <3>1, <1>2, <1>3, <1>5, <2>2 DEF EntryOf
    <3>2. CASE g # f
      <4>1. g \in OpenFcbs
        BY <3>2, <2>3
      <4> QED BY <4>1, <2>2, <2>5 DEF EntryOf
    <3> QED BY <3>1, <3>2
  <2>7. \A g, h \in OpenFcbs' : unixFcb'[g].fd = unixFcb'[h].fd => g = h
    BY <1>3, <2>3, <2>5 DEF FilesInv
  <2>8. \A i \in 0 .. CpmFiles - 1 :
          unixTable'[i] # "free" => \E g \in OpenFcbs' : unixFcb'[g].fd = i
    <3> SUFFICES ASSUME NEW i \in 0 .. CpmFiles - 1, unixTable'[i] # "free"
                 PROVE  \E g \in OpenFcbs' : unixFcb'[g].fd = i
      OBVIOUS
    <3>1. CASE i = e
      BY <3>1, <1>3, <2>3
    <3>2. CASE i # e
      <4>1. PICK g \in OpenFcbs : unixFcb[g].fd = i
        BY <3>2, <2>2 DEF FilesInv
      <4> QED BY <4>1, <2>3, <2>5
    <3> QED BY <3>1, <3>2
  <2> QED BY <2>4, <2>6, <2>7, <2>8 DEF FilesInv
<1> QED BY <1>4, <1>5

\* Opening takes a free entry or fails.
LEMMA OpenUnixInv ==
  ASSUME FilesInv, NEW f \in UnixFcbs, NEW name \in UnixNames, OpenUnix(f, name)
  PROVE  FilesInv'
<1>1. CASE unixLen[name] = -1
  BY <1>1 DEF OpenUnix, FilesInv, FilesTyped, OpenFcbs, EntryOf
<1>2. CASE unixLen[name] # -1
  BY <1>2, AssignInv DEF OpenUnix, FilesInv, FilesTyped
<1> QED BY <1>1, <1>2

\* Creating takes a free entry or fails.
LEMMA CreateUnixInv ==
  ASSUME FilesInv, NEW f \in UnixFcbs, NEW name \in UnixNames, CreateUnix(f, name)
  PROVE  FilesInv'
<1>1. unixLen' \in [UnixNames -> Int]
  BY DEF CreateUnix, FilesInv, FilesTyped
<1> QED BY <1>1, AssignInv DEF CreateUnix

\* A block read or written moves an FCB on and leaves its number.
LEMMA MoveOnInv ==
  ASSUME FilesInv, NEW f \in UnixFcbs, unixLen' \in [UnixNames -> Int],
         UNCHANGED <<unixTable, unixOwn>>,
         UNCHANGED unixFcb \/ unixFcb' = [unixFcb EXCEPT ![f].blk = unixFcb[f].blk + 1]
  PROVE  FilesInv'
<1>1. /\ unixFcb' \in [UnixFcbs -> [fd : Int, blk : Nat]]
      /\ \A g \in UnixFcbs : unixFcb'[g].fd = unixFcb[g].fd
  <2>1. unixFcb \in [UnixFcbs -> [fd : Int, blk : Nat]]
    BY DEF FilesInv, FilesTyped
  <2>2. unixFcb[f] \in [fd : Int, blk : Nat]
    BY <2>1
  <2>3. unixFcb[f].blk + 1 \in Nat
    BY <2>2
  <2>4. CASE unixFcb' = [unixFcb EXCEPT ![f].blk = unixFcb[f].blk + 1]
    <3> DEFINE b == unixFcb[f].blk + 1
    <3>1. unixFcb' = [unixFcb EXCEPT ![f].blk = b] /\ b \in Nat
      BY <2>3, <2>4
    <3> HIDE DEF b
    <3> QED BY <2>1, <3>1
  <2> QED BY <2>1, <2>4
<1>2. OpenFcbs' = OpenFcbs /\ OpenFcbs \subseteq UnixFcbs
  BY DEF OpenFcbs
<1>3. FilesTyped'
  BY <1>1 DEF FilesInv, FilesTyped
<1>4. \A g \in OpenFcbs : EntryOf(g)'
  BY <1>1, <1>2 DEF FilesInv, EntryOf
<1>5. /\ \A g, h \in OpenFcbs : unixFcb'[g].fd = unixFcb'[h].fd => g = h
      /\ \A i \in 0 .. CpmFiles - 1 :
           unixTable'[i] # "free" => \E g \in OpenFcbs : unixFcb'[g].fd = i
  BY <1>1, <1>2 DEF FilesInv
<1> QED BY <1>2, <1>3, <1>4, <1>5 DEF FilesInv

\* Reading uses the FCB's own entry.
LEMMA ReadUnixInv ==
  ASSUME FilesInv, NEW f \in UnixFcbs, ReadUnix(f)
  PROVE  FilesInv'
BY MoveOnInv DEF ReadUnix, FilesInv, FilesTyped

\* Writing uses the FCB's own entry.
LEMMA WriteUnixInv ==
  ASSUME FilesInv, NEW f \in UnixFcbs, WriteUnix(f)
  PROVE  FilesInv'
<1>1. unixLen \in [UnixNames -> Int] /\ unixFcb[f].blk \in Nat
  <2>1. unixFcb[f] \in [fd : Int, blk : Nat] /\ unixLen \in [UnixNames -> Int]
    BY DEF FilesInv, FilesTyped
  <2> QED BY <2>1
<1>2. unixLen' \in [UnixNames -> Int]
  BY <1>1 DEF WriteUnix, Block
<1> QED BY <1>2, MoveOnInv DEF WriteUnix

\* Closing frees the FCB's own entry and no other.
LEMMA CloseUnixInv ==
  ASSUME FilesInv, NEW f \in UnixFcbs, CloseUnix(f)
  PROVE  FilesInv'
<1>0. FilesTyped
  BY DEF FilesInv
<1>1. f \in OpenFcbs /\ OpenFcbs \subseteq UnixFcbs
  BY DEF CloseUnix, OpenFcbs
<1>2. PICK e \in 0 .. CpmFiles - 1 : e = unixFcb[f].fd
  BY <1>1 DEF FilesInv, EntryOf
<1>3. /\ unixTable' = [unixTable EXCEPT ![e] = "free"] /\ unixOwn' = [unixOwn EXCEPT ![f] = "none"]
      /\ unixFcb' = unixFcb /\ unixLen' = unixLen
  BY <1>2 DEF CloseUnix
<1>4. /\ unixTable' \in [0 .. CpmFiles - 1 -> UnixNames \cup {"free"}]
      /\ unixOwn' \in [UnixFcbs -> UnixNames \cup {"none"}]
      /\ unixTable'[e] = "free" /\ unixOwn'[f] = "none"
      /\ \A i \in 0 .. CpmFiles - 1 : i # e => unixTable'[i] = unixTable[i]
      /\ \A g \in UnixFcbs : g # f => unixOwn'[g] = unixOwn[g]
  BY <1>0, <1>3 DEF FilesTyped
<1>5. OpenFcbs' = OpenFcbs \ {f}
  BY <1>4 DEF OpenFcbs
<1>6. FilesTyped'
  BY <1>0, <1>3, <1>4 DEF FilesTyped
<1>7. \A g \in OpenFcbs' : EntryOf(g)'
  <2> SUFFICES ASSUME NEW g \in OpenFcbs' PROVE EntryOf(g)'
    OBVIOUS
  <2>1. g \in OpenFcbs /\ g \in UnixFcbs /\ g # f
    BY <1>1, <1>5
  <2>2. EntryOf(g) /\ unixFcb[g].fd # e
    BY <2>1, <1>1, <1>2 DEF FilesInv
  <2> QED BY <2>1, <2>2, <1>3, <1>4 DEF EntryOf
<1>8. \A g, h \in OpenFcbs' : unixFcb'[g].fd = unixFcb'[h].fd => g = h
  BY <1>3, <1>5 DEF FilesInv
<1>9. \A i \in 0 .. CpmFiles - 1 :
        unixTable'[i] # "free" => \E g \in OpenFcbs' : unixFcb'[g].fd = i
  <2> SUFFICES ASSUME NEW i \in 0 .. CpmFiles - 1, unixTable'[i] # "free"
               PROVE  \E g \in OpenFcbs' : unixFcb'[g].fd = i
    OBVIOUS
  <2>1. i # e
    BY <1>4
  <2>2. PICK g \in OpenFcbs : unixFcb[g].fd = i
    BY <2>1, <1>4 DEF FilesInv
  <2>3. g # f
    BY <2>1, <2>2, <1>2
  <2> QED BY <2>2, <2>3, <1>3, <1>5
<1> QED BY <1>6, <1>7, <1>8, <1>9 DEF FilesInv

\* FilesInv is inductive.
LEMMA UnixNextInv == FilesInv /\ ([UnixNext]_unixVars) => FilesInv'
<1> SUFFICES ASSUME FilesInv, [UnixNext]_unixVars PROVE FilesInv'
  OBVIOUS
<1>1. CASE UNCHANGED <<unixLen, unixTable, unixFcb, unixOwn>>
  BY <1>1 DEF FilesInv, FilesTyped, OpenFcbs, EntryOf
<1>2. CASE FilesNext
  BY <1>2, OpenUnixInv, CreateUnixInv, ReadUnixInv, WriteUnixInv, CloseUnixInv DEF FilesNext
<1> QED BY <1>1, <1>2 DEF UnixNext, DoTime, unixVars

\* The FCBs that are open and the entries in use are as many.
LEMMA FilesInvOwn == FilesInv => FilesAreOwn
<1> SUFFICES ASSUME FilesInv PROVE FilesAreOwn
  OBVIOUS
<1> DEFINE used == DOMAIN unixTable \ FreeEntries
           fd == [f \in OpenFcbs |-> unixFcb[f].fd]
<1>0. DOMAIN unixTable = 0 .. CpmFiles - 1
  BY DEF FilesInv, FilesTyped
<1>1. used = {i \in 0 .. CpmFiles - 1 : unixTable[i] # "free"}
  BY <1>0 DEF FreeEntries
<1>2. \A f \in OpenFcbs : unixFcb[f].fd \in used
  <2> SUFFICES ASSUME NEW f \in OpenFcbs PROVE unixFcb[f].fd \in used
    OBVIOUS
  <2>1. EntryOf(f) /\ unixOwn[f] \in UnixNames
    BY DEF FilesInv, FilesTyped, OpenFcbs
  <2>2. unixOwn[f] # "free"
    BY <2>1, HostAssumption DEF HostAssumption
  <2> QED BY <2>1, <2>2, <1>1 DEF EntryOf
<1>3. \A i \in used : \E f \in OpenFcbs : unixFcb[f].fd = i
  BY <1>1 DEF FilesInv
<1>4. fd \in Bijection(OpenFcbs, used)
  <2>1. fd \in [OpenFcbs -> used]
    BY <1>2
  <2>2. \A f, g \in OpenFcbs : fd[f] = fd[g] => f = g
    BY DEF FilesInv
  <2>3. \A i \in used : \E f \in OpenFcbs : fd[f] = i
    BY <1>3
  <2> HIDE DEF used, fd
  <2>4. fd \in Injection(OpenFcbs, used)
    <3>1. DOMAIN fd = OpenFcbs
      BY <2>1
    <3> QED BY <2>1, <2>2, <3>1, Zenon DEF Injection, IsInjective
  <2>5. fd \in Surjection(OpenFcbs, used)
    BY <2>1, <2>3, Zenon DEF Surjection
  <2> QED BY <2>4, <2>5 DEF Bijection
<1>5. ExistsBijection(OpenFcbs, used)
  BY <1>4 DEF ExistsBijection
<1>6. IsFiniteSet(OpenFcbs)
  <2>1. OpenFcbs \in SUBSET UnixFcbs
    BY DEF OpenFcbs
  <2> QED BY <2>1, HostAssumption, FS_Subset DEF HostAssumption
<1>7. Cardinality(used) = Cardinality(OpenFcbs)
  <2> HIDE DEF used
  <2> QED BY <1>5, <1>6, FS_Bijection
<1>8. /\ \A f \in OpenFcbs : /\ unixFcb[f].fd \in DOMAIN unixTable
                             /\ unixTable[unixFcb[f].fd] = unixOwn[f]
      /\ \A f, g \in OpenFcbs : unixFcb[f].fd = unixFcb[g].fd => f = g
  BY <1>0 DEF FilesInv, EntryOf
<1> QED BY <1>7, <1>8, Zenon DEF FilesAreOwn, OpenFcbs

\* A step that reads or writes a block moves its FCB alone, and not beyond the
\* block that holds the end of the file the FCB was opened on.
LEMMA BlocksEnd ==
  ASSUME FilesInv, UnixNext, NEW g \in UnixFcbs, unixA' = Ok,
         unixFcb'[g].blk = unixFcb[g].blk + 1
  PROVE  unixFcb'[g].blk <= Blocks128(unixLen'[unixOwn[g]])
<1>1. /\ FilesTyped
      /\ \A f \in UnixFcbs : unixFcb[f].blk \in Nat
  <2>1. FilesTyped
    BY DEF FilesInv
  <2>2. \A f \in UnixFcbs : unixFcb[f] \in [fd : Int, blk : Nat]
    BY <2>1 DEF FilesTyped
  <2> QED BY <2>1, <2>2
<1>2. unixFcb' # unixFcb
  <2>1. unixFcb[g].blk # unixFcb[g].blk + 1
    BY <1>1
  <2> QED BY <2>1
<1>3. PICK f \in UnixFcbs :
        \/ \E n \in UnixNames : OpenUnix(f, n) \/ CreateUnix(f, n)
        \/ ReadUnix(f) \/ WriteUnix(f) \/ CloseUnix(f)
  BY <1>2 DEF UnixNext, FilesNext, DoTime
<1>4. ASSUME NEW n \in UnixNames, Assign(f, n) PROVE FALSE
  <2>1. unixFcb' = [unixFcb EXCEPT ![f] = [fd |-> Entry, blk |-> 0]]
    BY <1>4 DEF Assign
  <2>2. unixFcb'[g].blk = 0 \/ unixFcb'[g] = unixFcb[g]
    BY <2>1, <1>1 DEF FilesTyped
  <2>3. unixFcb[g].blk \in Nat
    BY <1>1
  <2> QED BY <2>2, <2>3
<1>5. ~ (\E n \in UnixNames : OpenUnix(f, n) \/ CreateUnix(f, n)) /\ ~ CloseUnix(f)
  BY <1>2, <1>4 DEF OpenUnix, CreateUnix, CloseUnix
<1>6. PICK b \in Nat : b = unixFcb[f].blk
  BY <1>1
<1>7. ReadUnix(f) \/ WriteUnix(f)
  BY <1>3, <1>5
<1>8. /\ unixOwn[f] # "none" /\ unixFcb' = [unixFcb EXCEPT ![f].blk = b + 1]
  BY <1>2, <1>6, <1>7 DEF ReadUnix, WriteUnix
<1>9. g = f /\ unixFcb'[g].blk = b + 1
  <2>1. g # f => unixFcb'[g] = unixFcb[g]
    BY <1>1, <1>8 DEF FilesTyped
  <2>2. unixFcb[g].blk \in Nat
    BY <1>1
  <2>3. g = f
    BY <2>1, <2>2
  <2> QED BY <2>3, <1>6
<1>10. PICK name \in UnixNames : name = unixOwn[f] /\ unixTable[unixFcb[f].fd] = name
  <2>1. f \in OpenFcbs
    BY <1>8 DEF OpenFcbs
  <2>2. unixOwn[f] \in UnixNames
    BY <1>1, <1>8 DEF FilesTyped
  <2> QED BY <2>1, <2>2 DEF FilesInv, EntryOf
<1>11. unixLen' \in [UnixNames -> Int] /\ unixLen'[name] > 128 * b
  <2>1. unixLen \in [UnixNames -> Int]
    BY <1>1 DEF FilesTyped
  <2>2. CASE ReadUnix(f)
    <3>1. unixLen' = unixLen /\ unixLen[name] - (128 * b) > 0
      BY <2>1, <2>2, <1>2, <1>6, <1>10 DEF ReadUnix, Block
    <3> QED BY <2>1, <3>1
  <2>3. CASE WriteUnix(f)
    <3>1. unixLen' = [unixLen EXCEPT ![name] = IF @ > 128 * (b + 1) THEN @ ELSE 128 * (b + 1)]
      BY <2>3, <1>2, <1>6, <1>10 DEF WriteUnix, Block
    <3>2. unixLen'[name] = IF unixLen[name] > 128 * (b + 1) THEN unixLen[name] ELSE 128 * (b + 1)
      BY <2>1, <3>1
    <3>3. unixLen' \in [UnixNames -> Int]
      BY <2>1, <3>1
    <3> QED BY <2>1, <3>2, <3>3
  <2> QED BY <1>7, <2>2, <2>3
<1>12. PICK l \in Int : l = unixLen'[name]
  BY <1>11
<1>13. b + 1 <= (l + 128 - 1) \div 128
  BY <1>11, <1>12
<1> QED BY <1>9, <1>10, <1>12, <1>13 DEF Blocks128, Block

\* Every step of a program that reads or writes the host's files.
LEMMA ReadsEndStep ==
  FilesInv /\ ([UnixNext]_unixVars) =>
    ([\A f \in UnixFcbs : (unixA' = Ok /\ unixFcb'[f].blk = unixFcb[f].blk + 1) =>
         unixFcb'[f].blk <= Blocks128(unixLen'[unixOwn[f]])]_unixVars)
BY BlocksEnd

-----------------------------------------------------------------------------
(* Time.                                                                   *)

\* The leap years before a year, in the calendar and in the code.
CalendarLeaps(year) == Cardinality({y \in 1978 .. 1899 + year : Leap(y)})
CodeLeaps(year) == Cardinality({y \in 78 .. year - 1 : LeapTest(y)})

\* A part of an interval is finite.
LEMMA IntervalPart ==
  ASSUME NEW a \in Int, NEW b \in Int, NEW S \in SUBSET (a .. b)
  PROVE  IsFiniteSet(S) /\ Cardinality(S) \in Nat
<1>1. IsFiniteSet(a .. b)
  BY FS_Interval
<1>2. IsFiniteSet(S)
  BY <1>1, FS_Subset
<1> QED BY <1>2, FS_CardinalityType

\* A set counted without one thing.
LEMMA Without ==
  ASSUME NEW S, IsFiniteSet(S), NEW x
  PROVE  Cardinality(S \ {x}) = IF x \in S THEN Cardinality(S) - 1 ELSE Cardinality(S)
BY FS_RemoveElement

\* The calendar's leap years from 1978 on are the years the code takes for leap
\* years, and 2000.
LEMMA LeapYears ==
  ASSUME NEW year \in 78 .. 400
  PROVE  CalendarLeaps(year) = CodeLeaps(year) + (IF year > 100 THEN 1 ELSE 0)
<1> DEFINE S == {y \in 78 .. year - 1 : LeapTest(y)}
           T == {y \in 1978 .. 1899 + year : Leap(y)}
           U == T \ {2000}
           m == [y \in S |-> y + 1900]
<1>1. \A y \in 78 .. 399 : Leap(y + 1900) <=> (LeapTest(y) \/ y = 100)
  BY DEF Leap, LeapTest
<1>2. ~ LeapTest(100) /\ Leap(2000)
  BY DEF LeapTest, Leap
<1>3. \A y \in 78 .. year - 1 : y \in 78 .. 399
  OBVIOUS
<1>4. /\ IsFiniteSet(S) /\ Cardinality(S) \in Nat
      /\ IsFiniteSet(T) /\ Cardinality(T) \in Nat
  <2>1. PICK a \in Int : a = 1978
    OBVIOUS
  <2>2. PICK b \in Int : b = 1899 + year
    OBVIOUS
  <2>3. S \in SUBSET (78 .. year - 1) /\ T \in SUBSET (a .. b) /\ 78 \in Int /\ year - 1 \in Int
    BY <2>1, <2>2
  <2> HIDE DEF S, T
  <2> QED BY <2>3, IntervalPart
<1>5. \A y \in S : y + 1900 \in U /\ y \in Int
  <2> SUFFICES ASSUME NEW y \in 78 .. year - 1, LeapTest(y) PROVE y + 1900 \in U /\ y \in Int
    OBVIOUS
  <2>1. Leap(y + 1900)
    BY <1>1, <1>3
  <2>2. y # 100
    BY <1>2
  <2>3. y + 1900 \in 1978 .. 1899 + year /\ y + 1900 # 2000 /\ y \in Int
    BY <2>2
  <2> QED BY <2>1, <2>3
<1>6. \A z \in U : \E y \in S : z = y + 1900
  <2> SUFFICES ASSUME NEW z \in 1978 .. 1899 + year, Leap(z), z # 2000
               PROVE  \E y \in S : z = y + 1900
    OBVIOUS
  <2>1. PICK y \in 78 .. year - 1 : z = y + 1900
    <3>1. z - 1900 \in 78 .. year - 1 /\ z = (z - 1900) + 1900
      OBVIOUS
    <3> QED BY <3>1
  <2>2. LeapTest(y)
    <3>1. Leap(y + 1900)
      BY <2>1
    <3>2. y # 100
      BY <2>1
    <3> QED BY <3>1, <3>2, <1>1, <1>3
  <2> QED BY <2>1, <2>2
<1>7. m \in Bijection(S, U)
  <2>1. m \in [S -> U]
    BY <1>5
  <2>2. \A x, y \in S : m[x] = m[y] => x = y
    BY <1>5
  <2>3. \A z \in U : \E y \in S : m[y] = z
    BY <1>6
  <2> HIDE DEF S, T, U, m
  <2>4. m \in Injection(S, U)
    <3>1. DOMAIN m = S
      BY <2>1
    <3> QED BY <2>1, <2>2, <3>1, Zenon DEF Injection, IsInjective
  <2>5. m \in Surjection(S, U)
    BY <2>1, <2>3, Zenon DEF Surjection
  <2> QED BY <2>4, <2>5 DEF Bijection
<1>8. Cardinality(U) = Cardinality(S)
  <2>1. ExistsBijection(S, U)
    BY <1>7 DEF ExistsBijection
  <2> HIDE DEF S, U
  <2> QED BY <1>4, <2>1, FS_Bijection
<1>9. 2000 \in T <=> year > 100
  BY <1>2
<1> HIDE DEF S, T
<1>10. Cardinality(U) = IF 2000 \in T THEN Cardinality(T) - 1 ELSE Cardinality(T)
  <2>1. PICK x : x = 2000
    OBVIOUS
  <2>2. Cardinality(T \ {x}) = IF x \in T THEN Cardinality(T) - 1 ELSE Cardinality(T)
    BY <1>4, Without
  <2> QED BY <2>1, <2>2
<1>11. Cardinality(T) = Cardinality(S) + (IF year > 100 THEN 1 ELSE 0)
  <2> HIDE DEF U
  <2> QED BY <1>4, <1>8, <1>9, <1>10
<1> QED BY <1>11 DEF S, T, CalendarLeaps, CodeLeaps

DateInv ==
  \/ unixTime.days = 0
  \/ /\ unixTime.year \in 78 .. 400 /\ unixTime.yday \in Nat
     /\ unixTime.days = DaysSince1978(unixTime.year, unixTime.yday)

\* DateInv is inductive.
LEMMA DateInvInductive ==
  /\ UnixInit => DateInv
  /\ DateInv /\ ([UnixNext]_unixVars) => DateInv'
<1>1. UnixInit => DateInv
  BY DEF UnixInit, DateInv
<1>2. ASSUME DateInv, DoTime PROVE DateInv'
  <2>1. PICK year \in Years, yday \in {0, 58, 59, 60, 364} :
           unixTime' = [year |-> year, yday |-> yday, days |-> DaysSince1978(year, yday)]
    BY <1>2 DEF DoTime
  <2>2. year \in 78 .. 400 /\ yday \in Nat
    BY HostAssumption DEF HostAssumption
  <2> QED BY <2>1, <2>2 DEF DateInv
<1>3. ASSUME DateInv, UNCHANGED unixTime PROVE DateInv'
  BY <1>3 DEF DateInv
<1>4. ASSUME DateInv, [UnixNext]_unixVars PROVE DateInv'
  BY <1>2, <1>3, <1>4 DEF UnixNext, FilesNext, OpenUnix, CreateUnix, ReadUnix, WriteUnix, CloseUnix,
     unixVars
<1> QED BY <1>1, <1>4

\* The date CP/M is told is right whenever DateInv holds.
LEMMA DateInvRight == DateInv => DateIsRight
<1> SUFFICES ASSUME DateInv, unixTime.days > 0
             PROVE  unixTime.days = (TrueDays(unixTime.year, unixTime.yday)
                                       - (IF unixTime.year > 100 THEN 1 ELSE 0)) % 65536
  BY DEF DateIsRight
<1>1. CASE unixTime.days = 0
  BY <1>1
<1>2. CASE unixTime.days # 0
  <2>1. PICK y \in 78 .. 400, d \in Nat :
           y = unixTime.year /\ d = unixTime.yday /\ unixTime.days = DaysSince1978(y, d)
    BY <1>2 DEF DateInv
  <2> DEFINE k == IF y > 100 THEN 1 ELSE 0
  <2>2. CalendarLeaps(y) = CodeLeaps(y) + k
    BY LeapYears
  <2>3. CodeLeaps(y) \in Nat
    <3> DEFINE S == {x \in 78 .. y - 1 : LeapTest(x)}
    <3>1. S \in SUBSET (78 .. y - 1) /\ 78 \in Int /\ y - 1 \in Int
      OBVIOUS
    <3> HIDE DEF S
    <3>2. Cardinality(S) \in Nat
      BY <3>1, IntervalPart
    <3> QED BY <3>2 DEF S, CodeLeaps
  <2>4. DaysSince1978(y, d) = (((y - 78) * 365) + d + 1 + CodeLeaps(y)) % 65536
    BY SMT DEF DaysSince1978, CodeLeaps
  <2>5. TrueDays(y, d) = ((y - 78) * 365) + d + 1 + CalendarLeaps(y)
    BY Zenon DEF TrueDays, CalendarLeaps
  <2>6. TrueDays(y, d) - k = ((y - 78) * 365) + d + 1 + CodeLeaps(y)
    BY <2>2, <2>3, <2>5
  <2> QED BY <2>1, <2>4, <2>6
<1> QED BY <1>1, <1>2


-----------------------------------------------------------------------------
(* The console and the host's files.                                       *)

HostInv == ConInv /\ ScreenInv /\ FilesInv /\ DateInv

\* All that the host answers together: the invariant is inductive.
LEMMA HostInvInductive ==
  /\ HostInit => HostInv
  /\ HostInv /\ ([HostNext]_<<consoleVars, unixVars>>) => HostInv'
  /\ HostInv => HostAnswers
<1>1. HostInit => HostInv
  BY ConInitInv, ScreenInitInv, UnixInitInv, DateInvInductive DEF HostInit, HostInv
<1>2. ASSUME HostInv, [HostNext]_<<consoleVars, unixVars>> PROVE HostInv'
  <2>1. ([ConNext]_consoleVars) /\ ([UnixNext]_unixVars)
    BY <1>2 DEF HostNext
  <2>2. ConInv' /\ ScreenInv'
    BY <1>2, <2>1, ConNextInv, ScreenNextInv DEF HostInv
  <2>3. FilesInv' /\ DateInv'
    BY <1>2, <2>1, UnixNextInv, DateInvInductive DEF HostInv
  <2> QED BY <2>2, <2>3 DEF HostInv
<1>3. HostInv => HostAnswers
  BY ConInvReads, ScreenInvText, FilesInvOwn, DateInvRight DEF HostInv, HostAnswers
<1> QED BY <1>1, <1>2, <1>3

\* Whatever the terminal sends and whenever, whatever the guest writes, opens and
\* asks: what it was given is a reading of what was typed, the screen shows what
\* its text means, an FCB leads to its own file, and the date is right.
THEOREM HostAnswersInvariant == HostSpec => []HostAnswers
<1>1. HostInit => HostInv
  BY HostInvInductive
<1>2. HostInv /\ [HostNext]_<<consoleVars, unixVars>> => HostInv'
  BY HostInvInductive
<1>3. HostInv => HostAnswers
  BY HostInvInductive
<1> QED BY <1>1, <1>2, <1>3, PTL DEF HostSpec

\* No block is read or written beyond the end the file has then, whichever FCBs
\* have it open.
THEOREM ReadsEndAlways == HostSpec => ReadsEnd
<1>1. HostInit => HostInv
  BY HostInvInductive
<1>2. HostInv /\ [HostNext]_<<consoleVars, unixVars>> => HostInv'
  BY HostInvInductive
<1>3. HostInv /\ [HostNext]_<<consoleVars, unixVars>> =>
        [\A f \in UnixFcbs : (unixA' = Ok /\ unixFcb'[f].blk = unixFcb[f].blk + 1) =>
            unixFcb'[f].blk <= Blocks128(unixLen'[unixOwn[f]])]_unixVars
  <2> SUFFICES ASSUME HostInv, [HostNext]_<<consoleVars, unixVars>>
               PROVE  [\A f \in UnixFcbs : (unixA' = Ok /\ unixFcb'[f].blk = unixFcb[f].blk + 1) =>
                         unixFcb'[f].blk <= Blocks128(unixLen'[unixOwn[f]])]_unixVars
    OBVIOUS
  <2>1. FilesInv /\ ([UnixNext]_unixVars)
    BY DEF HostInv, HostNext
  <2> QED BY <2>1, ReadsEndStep
<1> QED BY <1>1, <1>2, <1>3, PTL DEF HostSpec, ReadsEnd
=============================================================================
