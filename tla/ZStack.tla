------------------------------- MODULE ZStack -------------------------------
(***************************************************************************)
(* Routines as the Z-machine promises them: a stack of frames, each with   *)
(* its local variables and its own evaluation stack.  A routine may be     *)
(* called for its result (0), as a procedure (1), or by the interpreter    *)
(* itself while an instruction waits (2); that instruction then finds its  *)
(* operands as they were.                                                  *)
(***************************************************************************)
EXTENDS Integers, Sequences

CONSTANTS Values, Variable,  \* what words hold; the result variable at a pc
          Counts             \* how many local variables routines have

VARIABLES frames, pc, zargs, running

vars == <<frames, pc, zargs, running>>

N == Len(frames)
Current == frames[N]

Frame(ret, kind, args, count, waiting) ==
  [ret |-> ret, kind |-> kind, argc |-> Len(args),
   locals |-> [i \in 1 .. count |-> IF i <= Len(args) THEN args[i] ELSE 0],
   evals |-> <<>>, waiting |-> waiting]

\* The frame with a value stored in variable v.
Stored(f, v, value) ==
  IF v = 0 THEN [f EXCEPT !.evals = Append(@, value)]
  ELSE IF v \in DOMAIN f.locals THEN [f EXCEPT !.locals[v] = value]
  ELSE f

Pop(f) == [f EXCEPT !.evals = SubSeq(@, 1, Len(@) - 1)]
Under(n) == SubSeq(frames, 1, n)
With(n, f) == Append(Under(n - 1), f)

Init ==
  /\ frames = <<Frame(0, 1, <<>>, 0, <<>>)>>
  /\ pc \in DOMAIN Variable /\ zargs = <<>> /\ running = TRUE

\* The value of a variable, 0 for the top of the stack, is set.
Set ==
  /\ UNCHANGED <<pc, zargs>>
  /\ \E v \in 0 .. Len(Current.locals), value \in Values :
       frames' = With(N, Stored(Current, v, value))

Take ==
  /\ Current.evals # <<>> /\ frames' = With(N, Pop(Current))
  /\ UNCHANGED <<pc, zargs>>

Jump == pc' \in DOMAIN Variable /\ UNCHANGED <<frames, zargs>>

Call(kind, args, count, waiting) ==
  frames' = Append(frames, Frame(pc, kind, args, count, waiting))

\* The frame f above n others returns a value to the one below it.
Return(n, f, value) ==
  /\ pc' = IF f.kind = 0 THEN f.ret + 1 ELSE f.ret
  /\ frames' = IF f.kind = 0 THEN With(n, Stored(frames[n], Variable[f.ret], value))
               ELSE Under(n)
  /\ zargs' = IF f.kind = 2 THEN f.waiting ELSE zargs

\* The frame count, as catch stores it for throw.
Catch ==
  /\ pc \in DOMAIN Variable
  /\ frames' = With(N, Stored(Current, Variable[pc], N - 1))
  /\ pc' = pc + 1 /\ UNCHANGED zargs

Next ==
  /\ running
  /\ \/ Set /\ running'
     \/ Take /\ running'
     \/ Jump /\ running'
     \/ Catch /\ running'
     \/ \E kind \in {0, 1}, count \in Counts :
          Call(kind, zargs', count, <<>>) /\ pc' = pc /\ running'
     \/ \E count \in Counts :
          Call(2, <<>>, count, zargs) /\ UNCHANGED <<pc, zargs>> /\ running'
     \/ \E n \in 1 .. N - 1, value \in Values : Return(n, frames[n + 1], value) /\ running'
     \/ UNCHANGED <<frames, pc, zargs>> /\ ~running'

Spec == Init /\ [][Next]_vars
=============================================================================
