----------------------------- MODULE BcStorage -----------------------------
(***************************************************************************)
(* What bc keeps its names and arrays in.  The symbol table of the parser  *)
(* (bearos_bc/src/util.c) is a balanced tree of names, each with a number  *)
(* as variable, array and function, and the tables of storage.c grow with  *)
(* the numbers.  Names are integers; strcmp is their order.                *)
(* Arrays (storage.c) are trees of nodes that grow at the root with the    *)
(* largest index, copied for a call by value and freed after it.  Nodes    *)
(* are places of a heap; 0 is no node.                                     *)
(***************************************************************************)
EXTENDS Integers, Sequences, SequencesExt, FiniteSets
CONSTANTS
  IdUses,       \* pairs of a name and what it names: simple, array, funct, functdef
  MathNames,    \* the functions of the math library, in the order they are looked up
  MaxStore,     \* 32767
  StoreIncr     \* 32

VARIABLES idTree, idNext, idCount, idMath, idGiven
idVars == <<idTree, idNext, idCount, idMath, idGiven>>
\* idNext: next_var, next_array, next_func.  idCount: v_count, a_count, f_count.
\* idGiven: every number that was given so far, with the name it was given to.

Nil == <<>>
Leaf(r) == [id |-> r.id, v |-> r.v, a |-> r.a, f |-> r.f, balance |-> 0, left |-> Nil, right |-> Nil]

RECURSIVE FindId(_, _)
FindId(t, id) == IF t = Nil THEN Nil ELSE IF id = t.id THEN t ELSE FindId(IF id < t.id THEN t.left ELSE t.right, id)

-----------------------------------------------------------------------------
(* Insertion.  The result has the tree and whether it is higher.           *)

Grown(t, up) == [tree |-> t, up |-> up]

\* The left side is two higher: one rotation, or two.
RotateRight(t) ==
  LET A == t  B == t.left
      C == B.right
  IN  IF B.balance <= 0 THEN [B EXCEPT !.balance = 0, !.right = [A EXCEPT !.left = B.right, !.balance = 0]]
      ELSE [C EXCEPT !.balance = 0,
                     !.left = [B EXCEPT !.right = C.left, !.balance = IF C.balance = 1 THEN -1 ELSE 0],
                     !.right = [A EXCEPT !.left = C.right, !.balance = IF C.balance = -1 THEN 1 ELSE 0]]

\* Mutant of RotateLeft: the balances of a double rotation are swapped.
RotateLeftSwapped(t) ==
  LET A == t  B == t.right
      C == B.left
  IN  IF B.balance >= 0 THEN [B EXCEPT !.balance = 0, !.left = [A EXCEPT !.right = B.left, !.balance = 0]]
      ELSE [C EXCEPT !.balance = 0,
                     !.left = [A EXCEPT !.right = C.left, !.balance = IF C.balance = -1 THEN 1 ELSE 0],
                     !.right = [B EXCEPT !.left = C.right, !.balance = IF C.balance = 1 THEN -1 ELSE 0]]

RotateLeft(t) ==
  LET A == t  B == t.right
      C == B.left
  IN  IF B.balance >= 0 THEN [B EXCEPT !.balance = 0, !.left = [A EXCEPT !.right = B.left, !.balance = 0]]
      ELSE [C EXCEPT !.balance = 0,
                     !.left = [A EXCEPT !.right = C.left, !.balance = IF C.balance = 1 THEN -1 ELSE 0],
                     !.right = [B EXCEPT !.left = C.right, !.balance = IF C.balance = -1 THEN 1 ELSE 0]]

RECURSIVE InsertId(_, _)
InsertId(t, r) ==
  IF t = Nil THEN Grown(Leaf(r), TRUE)
  ELSE IF r.id < t.id
  THEN LET g == InsertId(t.left, r)
           s == [t EXCEPT !.left = g.tree, !.balance = IF g.up THEN @ - 1 ELSE @]
       IN  IF g.up /\ s.balance = -2 THEN Grown(RotateRight(s), FALSE) ELSE Grown(s, g.up /\ s.balance = -1)
  ELSE LET g == InsertId(t.right, r)
           s == [t EXCEPT !.right = g.tree, !.balance = IF g.up THEN @ + 1 ELSE @]
       IN  IF g.up /\ s.balance = 2 THEN Grown(RotateLeft(s), FALSE) ELSE Grown(s, g.up /\ s.balance = 1)

\* The node of r.id becomes r.
RECURSIVE SetId(_, _)
SetId(t, r) ==
  IF r.id = t.id THEN [t EXCEPT !.v = r.v, !.a = r.a, !.f = r.f]
  ELSE IF r.id < t.id THEN [t EXCEPT !.left = SetId(@, r)] ELSE [t EXCEPT !.right = SetId(@, r)]

-----------------------------------------------------------------------------
(* lookup.                                                                 *)

Field(kind) == CASE kind = "simple" -> "v" [] kind = "array" -> "a" [] kind \in {"funct", "functdef"} -> "f"
\* Where the number of a name ends the program.
TooMany(kind, n) == IF kind = "simple" THEN n > MaxStore ELSE n >= MaxStore

\* Mutant of More: the last place is not counted right.
MoreLate(field) == [idCount EXCEPT ![field] = IF idNext[field] > @ THEN @ + StoreIncr ELSE @]

\* more_variables, more_arrays, more_functions
More(field) == [idCount EXCEPT ![field] = IF idNext[field] >= @ THEN @ + StoreIncr ELSE @]

\* Mutant of FreshName: the node keeps its old number.
FreshNameNot(r, kind, tree) ==
  LET fd == Field(kind)
  IN  /\ idNext' = [idNext EXCEPT ![fd] = @ + 1] /\ idCount' = More(fd) /\ idTree' = tree
      /\ idGiven' = idGiven \cup {<<fd, idNext[fd], r.id>>}

\* A number that was never given.
FreshName(r, kind, tree) ==
  LET fd == Field(kind)
  IN  /\ ~TooMany(kind, idNext[fd])
      /\ idNext' = [idNext EXCEPT ![fd] = @ + 1]
      /\ idCount' = More(fd)
      /\ idTree' = SetId(tree, [r EXCEPT ![fd] = idNext[fd]])
      /\ idGiven' = idGiven \cup {<<fd, idNext[fd], r.id>>}

\* A function of the math library is defined anew: it has the next number, and
\* the tables stay as they are.
Redefine(r) ==
  /\ idTree' = SetId(idTree, [r EXCEPT !.f = idNext.f])
  /\ idNext' = [idNext EXCEPT !.f = @ + 1]
  /\ idGiven' = idGiven \cup {<<"f", idNext.f, r.id>>}
  /\ UNCHANGED idCount

Lookup(name, kind) ==
  LET old == FindId(idTree, name)
      r == IF old = Nil THEN Leaf([id |-> name, v |-> 0, a |-> 0, f |-> 0]) ELSE old
      tree == IF old = Nil THEN InsertId(idTree, r).tree ELSE idTree
  IN  CASE r[Field(kind)] = 0 -> FreshName(r, kind, tree)
        [] r[Field(kind)] # 0 /\ kind = "functdef" /\ idMath = Len(MathNames) /\ idMath > 0 /\ r.f <= Len(MathNames) -> Redefine(r)
        [] OTHER -> UNCHANGED <<idTree, idNext, idCount, idGiven>>

-----------------------------------------------------------------------------

\* init_tree and init_storage.  idMath counts the library's names looked up.
IdInit == /\ idTree = Nil /\ idNext = [v |-> 5, a |-> 1, f |-> 1] /\ idCount = [v |-> StoreIncr, a |-> StoreIncr, f |-> StoreIncr]
          /\ idMath = 0 /\ idGiven = {}

\* open_new_file, with -l: before anything else.
LoadMath == /\ idMath < Len(MathNames) /\ (idTree = Nil <=> idMath = 0)
            /\ Lookup(MathNames[idMath + 1], "funct") /\ idMath' = idMath + 1
IdUse == /\ idMath \in {0, Len(MathNames)}
         /\ \E u \in IdUses : Lookup(u[1], u[2])
         /\ UNCHANGED idMath
IdSpec == IdInit /\ [][LoadMath \/ IdUse]_idVars

-----------------------------------------------------------------------------
(* Properties.                                                             *)

RECURSIVE Nodes(_)
Nodes(t) == IF t = Nil THEN {} ELSE {t} \cup Nodes(t.left) \cup Nodes(t.right)
RECURSIVE Height(_)
Height(t) == IF t = Nil THEN 0
             ELSE LET l == Height(t.left)  r == Height(t.right) IN 1 + (IF l > r THEN l ELSE r)

\* The tree is balanced and every balance is the difference of the heights, and a
\* search finds every name that is in it, after any order of insertions.
TreeIsBalanced ==
  \A t \in Nodes(idTree) : /\ t.balance = Height(t.right) - Height(t.left) /\ t.balance \in -1 .. 1
                           /\ FindId(idTree, t.id) = t

\* No two names have one number, also after functions were defined anew, and a
\* name finds the number it was given last.
NumbersAreOwn ==
  /\ \A g, h \in idGiven : g[1] = h[1] /\ g[2] = h[2] => g = h
  /\ \A g \in idGiven : FindId(idTree, g[3]) # Nil /\
       FindId(idTree, g[3])[g[1]] = LET all == {h[2] : h \in {k \in idGiven : k[1] = g[1] /\ k[3] = g[3]}}
                                    IN  CHOOSE n \in all : \A k \in all : n >= k

\* Every number that was given has its place in its table.  Without the library,
\* as a redefinition does not look whether the table is large enough.
PlacesAreThere == idMath = 0 => \A g \in idGiven : g[2] < idCount[g[1]]

-----------------------------------------------------------------------------
(* The arrays.                                                             *)

CONSTANTS
  NodeSize,     \* 64
  NodeDepth,    \* 4
  HeapBound,    \* nodes that are made, at most
  ElementWrites \* pairs of an index and a value

VARIABLES arHeap, arOwn, arCopy, arHolds, arCopyHolds
arVars == <<arHeap, arOwn, arCopy, arHolds, arCopyHolds>>
\* arOwn and arCopy are the array and its copy, [depth, tree]; arHolds and
\* arCopyHolds the elements that were written to them.

ArrayMax == NodeSize ^ NodeDepth - 1
NoArray == [depth |-> 0, tree |-> 0]
Freed == <<>>

\* A new node, of NULL or of zeros: both are 0 here.
Malloc(h) == Append(h, [i \in 0 .. NodeSize - 1 |-> 0])

\* The subscripts of an index, the lowest first, at least as many as the depth.
RECURSIVE Subs(_, _)
Subs(ix, depth) ==
  <<ix % NodeSize>> \o (IF ix >= NodeSize \/ depth > 1 THEN Subs(ix \div NodeSize, depth - 1) ELSE <<>>)

\* Mutant of Grow: the tree so far is put in the wrong place of the new root.
RECURSIVE GrowLast(_, _, _)
GrowLast(h, a, log) ==
  IF log <= a.depth THEN [heap |-> h, ary |-> a]
  ELSE LET new == Malloc(h)
           root == IF a.depth = 0 THEN new ELSE [new EXCEPT ![Len(new)][NodeSize - 1] = a.tree]
       IN  GrowLast(root, [depth |-> a.depth + 1, tree |-> Len(new)], log)

RECURSIVE Grow(_, _, _)
Grow(h, a, log) ==
  IF log <= a.depth THEN [heap |-> h, ary |-> a]
  ELSE LET new == Malloc(h)
           root == IF a.depth = 0 THEN new ELSE [new EXCEPT ![Len(new)][0] = a.tree]
       IN  Grow(root, [depth |-> a.depth + 1, tree |-> Len(new)], log)

\* Down to the node of the element, making the nodes that are missing.
RECURSIVE Descend(_, _, _, _)
Descend(h, node, sub, log) ==
  IF log = 1 THEN [heap |-> h, node |-> node]
  ELSE LET down == h[node][sub[log]]
       IN  IF down # 0 THEN Descend(h, down, sub, log - 1)
           ELSE Descend([Malloc(h) EXCEPT ![node][sub[log]] = Len(h) + 1], Len(h) + 1, sub, log - 1)

\* get_array_num: the node and the place in it.
GetArrayNum(h, a, ix) ==
  LET sub == Subs(ix, a.depth)
      g == Grow(h, a, Len(sub))
      d == Descend(g.heap, g.ary.tree, sub, Len(sub))
  IN  [heap |-> d.heap, ary |-> g.ary, node |-> d.node, at |-> sub[1]]

\* Mutant of CopyTree: below the root the nodes are shared.
CopyTreeShared(h, node, depth) ==
  [heap |-> Append(h, h[node]), node |-> Len(h) + 1]

\* copy_tree
RECURSIVE CopyTree(_, _, _)
CopyTree(h, node, depth) ==
  LET new == Malloc(h)
      me == Len(new)
      one(g, i) == IF h[node][i - 1] = 0 THEN g
                   ELSE LET c == CopyTree(g, h[node][i - 1], depth - 1)
                        IN  [c.heap EXCEPT ![me][i - 1] = c.node]
  IN  [heap |-> IF depth <= 1 THEN [new EXCEPT ![me] = h[node]]
                ELSE FoldLeft(one, new, [i \in 1 .. NodeSize |-> i]),
       node |-> me]

\* free_a_tree
RECURSIVE FreeTree(_, _, _)
FreeTree(h, node, depth) ==
  IF node = 0 THEN h
  ELSE LET below == IF depth <= 1 THEN h
                    ELSE FoldLeft(LAMBDA g, i : FreeTree(g, h[node][i - 1], depth - 1), h, [i \in 1 .. NodeSize |-> i])
       IN  [below EXCEPT ![node] = Freed]

-----------------------------------------------------------------------------

NoElements == [i \in 0 .. ArrayMax |-> 0]
ArInit == arHeap = <<>> /\ arOwn = NoArray /\ arCopy = NoArray /\ arHolds = NoElements /\ arCopyHolds = NoElements
Room == Len(arHeap) < HeapBound

\* store_array and load_array.  A load makes nodes too.
StoreOwn == \E w \in ElementWrites :
  LET e == GetArrayNum(arHeap, arOwn, w[1])
  IN  /\ Room /\ arHeap' = [e.heap EXCEPT ![e.node][e.at] = w[2]] /\ arOwn' = e.ary
      /\ arHolds' = [arHolds EXCEPT ![w[1]] = w[2]] /\ UNCHANGED <<arCopy, arCopyHolds>>
StoreCopy == \E w \in ElementWrites :
  LET e == GetArrayNum(arHeap, arCopy, w[1])
  IN  /\ Room /\ arCopy # NoArray /\ arHeap' = [e.heap EXCEPT ![e.node][e.at] = w[2]] /\ arCopy' = e.ary
      /\ arCopyHolds' = [arCopyHolds EXCEPT ![w[1]] = w[2]] /\ UNCHANGED <<arOwn, arHolds>>
LoadOwn == \E w \in ElementWrites :
  LET e == GetArrayNum(arHeap, arOwn, w[1])
  IN  Room /\ arHeap' = e.heap /\ arOwn' = e.ary /\ UNCHANGED <<arCopy, arHolds, arCopyHolds>>

\* A call by value (process_params looks element 0 up first) and its end (pop_vars).
CallByValue ==
  LET e == GetArrayNum(arHeap, arOwn, 0)
      c == CopyTree(e.heap, e.ary.tree, e.ary.depth)
  IN  /\ Room /\ arCopy = NoArray /\ arHeap' = c.heap /\ arOwn' = e.ary
      /\ arCopy' = [depth |-> e.ary.depth, tree |-> c.node] /\ arCopyHolds' = arHolds /\ UNCHANGED arHolds
CallEnds == /\ arCopy # NoArray /\ arHeap' = FreeTree(arHeap, arCopy.tree, arCopy.depth)
            /\ arCopy' = NoArray /\ arCopyHolds' = NoElements /\ UNCHANGED <<arOwn, arHolds>>

ArNext == StoreOwn \/ StoreCopy \/ LoadOwn \/ CallByValue \/ CallEnds
ArSpec == ArInit /\ [][ArNext]_arVars

-----------------------------------------------------------------------------
(* Properties.                                                             *)

ElementOf(a, i) == LET e == GetArrayNum(arHeap, a, i) IN e.heap[e.node][e.at]
\* Every element has the value written last, in the array and in its copy, through
\* any growth of the tree and whatever is written to the other one.
ElementsAreKept ==
  \A i \in 0 .. ArrayMax : ElementOf(arOwn, i) = arHolds[i] /\ (arCopy # NoArray => ElementOf(arCopy, i) = arCopyHolds[i])

RECURSIVE TreeNodes(_, _)
TreeNodes(node, depth) ==
  IF node = 0 THEN {}
  ELSE {node} \cup (IF depth <= 1 THEN {} ELSE UNION {TreeNodes(arHeap[node][i], depth - 1) : i \in 0 .. NodeSize - 1})
\* What a call frees is nothing the array uses, and everything the copy had: the
\* nodes that are not free are those of the two trees.
NodesAreOwned ==
  LET own == TreeNodes(arOwn.tree, arOwn.depth)  copy == TreeNodes(arCopy.tree, arCopy.depth)
  IN  own \cap copy = {} /\ own \cup copy = {i \in DOMAIN arHeap : arHeap[i] # Freed}

=============================================================================
