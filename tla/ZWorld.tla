------------------------------- MODULE ZWorld -------------------------------
(***************************************************************************)
(* What the object table of a story promises: things inside things, the    *)
(* last one put in first; attributes that are set or not; properties with  *)
(* values.  Each operation changes the one thing it names.                 *)
(***************************************************************************)
EXTENDS Integers, Sequences, SequencesExt, FiniteSets

CONSTANTS Things, Attributes, Values,
          Limit       \* a property keeps values below its limit

VARIABLES kids,       \* [Things -> sequences of things]: what is inside, in order
          has,        \* [Things -> sets of attributes]
          prop        \* [Things -> functions from property numbers to values]
vars == <<kids, has, prop>>

Inside(t, p) == t \in Range(kids[p])
RECURSIVE Within(_, _)
Within(t, p) == t = p \/ \E q \in Range(kids[p]) : Within(t, q)
Without(t) == [p \in Things |-> SelectSeq(kids[p], LAMBDA q : q # t)]

\* Nothing is put into itself, nor into what is inside it.
PutIn(t, p) == /\ ~Within(p, t)
               /\ kids' = [Without(t) EXCEPT ![p] = <<t>> \o @]
               /\ UNCHANGED <<has, prop>>
TakeOut(t) == kids' = Without(t) /\ UNCHANGED <<has, prop>>
Set(t, a) == has' = [has EXCEPT ![t] = @ \cup {a}] /\ UNCHANGED <<kids, prop>>
Clear(t, a) == has' = [has EXCEPT ![t] = @ \ {a}] /\ UNCHANGED <<kids, prop>>
Put(t, n, v) == /\ n \in DOMAIN prop[t]
                /\ prop' = [prop EXCEPT ![t][n] = v % Limit[t][n]]
                /\ UNCHANGED <<kids, has>>

Next == \/ \E t \in Things : TakeOut(t) \/ \E p \in Things : PutIn(t, p)
        \/ \E t \in Things, a \in Attributes : Set(t, a) \/ Clear(t, a)
        \/ \E t \in Things : \E n \in DOMAIN prop[t], v \in Values : Put(t, n, v)

\* Everything is in one place, and nothing in itself.
Init == /\ \A t \in Things : Cardinality({p \in Things : Inside(t, p)}) <= 1
        /\ \A t, p \in Things : Inside(t, p) => ~Within(p, t)
Spec == Init /\ [][Next]_vars
=============================================================================
