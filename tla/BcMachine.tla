----------------------------- MODULE BcMachine -----------------------------
(***************************************************************************)
(* The machine that runs the byte code of bc (bearos_bc/src/execute.c) on  *)
(* the stacks of storage.c, through a session of lines and definitions.  A *)
(* step is one instruction; an interrupt may come before any of them.      *)
(*                                                                         *)
(* Names keep their values on stacks, newest first.  An array is a place   *)
(* in a heap, or 0 before its first use.  Numbers are integers.            *)
(***************************************************************************)
EXTENDS BcMeaning

CONSTANTS
  Sessions,     \* sequences of items
  Interrupted,  \* lines during which an interrupt may come
  Endless,      \* lines that go on until they are interrupted
  Kept          \* variables that sessions use in functions only, but for their first item

VARIABLES
  bcItems,      \* the session
  bcPhase,      \* load, run, or done
  bcFuncs,      \* the functions, 0 the main program
  bcVm,         \* pc, stacks, variables, runtime_error and what was written
  bcSigint,     \* had_sigint
  bcBefore,     \* bcVm as the line began
  bcMeans       \* what the session means up to here

bcVars == <<bcItems, bcPhase, bcFuncs, bcVm, bcSigint, bcBefore, bcMeans>>

FuncNames == 0 .. 9
NoFunc == [defined |-> FALSE, void |-> FALSE, code |-> <<>>, labels |-> <<>>, params |-> <<>>, autos |-> <<>>,
           body |-> <<>>]
\* init_storage
VmInit == [func |-> 0, addr |-> 0, ex |-> <<>>, fn |-> <<>>, error |-> FALSE, out |-> <<>>,
           vars |-> [n \in VarNames |-> <<>>], arrs |-> [n \in ArrNames |-> <<>>], heap |-> <<>>,
           ibase |-> 10, obase |-> 10, scale |-> 0]

-----------------------------------------------------------------------------
(* Stacks.                                                                 *)

Top1(m) == m.ex[1]
Under(m) == m.ex[2]
Popped1(m) == [m EXCEPT !.ex = Tail(@)]
PushNum(m, x) == [m EXCEPT !.ex = <<x>> \o @]
SetTop(m, x) == [m EXCEPT !.ex[1] = x]
RtError(m) == [m EXCEPT !.error = TRUE]

\* get_var, get_array_num
GetVarRec(m, n) == IF m.vars[n] = <<>> THEN [m EXCEPT !.vars[n] = <<0>>] ELSE m
GetArray(m, n) ==
  LET h == IF m.arrs[n] = <<>> THEN [m EXCEPT !.arrs[n] = <<[at |-> 0, param |-> FALSE]>>] ELSE m
  IN  IF h.arrs[n][1].at # 0 THEN h
      ELSE [h EXCEPT !.heap = Append(@, Empty), !.arrs[n][1].at = Len(h.heap) + 1]

\* store_var and load_var, with the special variables and their limits.
StoreVar(m, n, x) ==
  IF n < 3 THEN [m EXCEPT ![Special[n + 1]] = Limited(n, x)] ELSE [GetVarRec(m, n) EXCEPT !.vars[n][1] = x]
LoadVar(m, n) ==
  IF n < 3 THEN m[Special[n + 1]] ELSE IF m.vars[n] = <<>> THEN 0 ELSE m.vars[n][1]
\* incr_var and decr_var
StepVar(m, n, d) ==
  IF n < 3 THEN [m EXCEPT ![Special[n + 1]] = Counted(n, @, d)]
  ELSE [GetVarRec(m, n) EXCEPT !.vars[n][1] = @ + d]

\* store_array, load_array, incr_array and decr_array check the subscript alike.
InBounds(i) == i \in 0 .. DimMax
StoreArray(m, n) ==
  IF ~InBounds(Under(m)) THEN RtError(m)
  ELSE LET w == GetArray(m, n)
       IN  [w EXCEPT !.heap[w.arrs[n][1].at][Under(m)] = Top1(m), !.ex = <<Top1(m)>> \o SubSeq(m.ex, 3, Len(m.ex))]
LoadArray(m, n) ==
  IF ~InBounds(Top1(m)) THEN RtError(m)
  ELSE LET w == GetArray(m, n) IN SetTop(w, w.heap[w.arrs[n][1].at][Top1(m)])
StepArray(m, n, d) ==
  IF ~InBounds(Top1(m)) THEN RtError(m)
  ELSE LET w == GetArray(m, n) IN [w EXCEPT !.heap[w.arrs[n][1].at][Top1(m)] = @ + d, !.ex = Tail(@)]

-----------------------------------------------------------------------------
(* Calls.                                                                  *)

\* auto_var
AutoVar(m, p) ==
  IF p.array THEN [m EXCEPT !.arrs[p.name] = <<[at |-> 0, param |-> FALSE]>> \o @]
  ELSE [m EXCEPT !.vars[p.name] = <<0>> \o @]

\* Mutant of PopVar: an array that came by reference is freed as well.
PopVarFrees(m, p) ==
  CASE ~p.array -> IF m.vars[p.name] = <<>> THEN m ELSE [m EXCEPT !.vars[p.name] = Tail(@)]
    [] p.array -> IF m.arrs[p.name] = <<>> THEN m
                  ELSE [m EXCEPT !.arrs[p.name] = Tail(@),
                                 !.heap = IF m.arrs[p.name][1].at = 0 THEN @
                                          ELSE [@ EXCEPT ![m.arrs[p.name][1].at] = <<>>]]

\* pop_vars, for one of its names.  An array that is freed holds nothing.
PopVar(m, p) ==
  CASE ~p.array -> IF m.vars[p.name] = <<>> THEN m ELSE [m EXCEPT !.vars[p.name] = Tail(@)]
    [] p.array ->
         IF m.arrs[p.name] = <<>> THEN m
         ELSE LET a == m.arrs[p.name][1]
              IN  [m EXCEPT !.arrs[p.name] = Tail(@),
                            !.heap = IF a.param \/ a.at = 0 THEN @ ELSE [@ EXCEPT ![a.at] = <<>>]]

\* One argument of process_params goes to the parameter p.  The place of the
\* source is looked up by its name now.  After an argument of the wrong kind the
\* code steps its pointer past the parameter before it follows it to the next
\* one, and what it reads there is undefined: no session makes such a call.
Argument(m, p, kind) ==
  LET n == Top1(m)
      src == GetArray(m, n)
      dest == AutoVar(src, p)
      from == (IF n = p.name THEN dest.arrs[n][2] ELSE dest.arrs[n][1]).at
      to(h, at, ref) == [h EXCEPT !.arrs[p.name][1] = [at |-> at, param |-> ref], !.ex = Tail(@)]
  IN  CASE kind = Zero1 /\ ~p.array -> [m EXCEPT !.vars[p.name] = <<Top1(m)>> \o @, !.ex = Tail(@)]
        [] kind = One1 /\ p.array /\ p.ref -> to(dest, from, TRUE)
        [] kind = One1 /\ p.array /\ ~p.ref ->
             to([dest EXCEPT !.heap = Append(@, dest.heap[from])], Len(dest.heap) + 1, FALSE)
        [] OTHER -> [RtError(m) EXCEPT !.ex = Tail(@)]

\* process_params: kinds has one character for an argument, the last one first,
\* and so has the list of the parameters.
ProcessParams(m, params, kinds) ==
  LET count == IF Len(kinds) < Len(params) THEN Len(kinds) ELSE Len(params)
      given == FoldLeft(LAMBDA h, i : Argument(h, params[Len(params) + 1 - i], kinds[i]), m,
                        [i \in 1 .. count |-> i])
  IN  IF Len(kinds) = Len(params) THEN given ELSE RtError(given)

PopFrame(m, fns) ==
  LET f == fns[m.func]
      popped == FoldLeft(PopVar, m, f.autos \o f.params)
  IN  [popped EXCEPT !.addr = m.fn[2], !.func = m.fn[3], !.fn = SubSeq(m.fn, 4, Len(m.fn))]

\* Mutant of Return1: the autos stay.
Return1Keeps(m, fns) ==
  IF m.func = 0 THEN RtError(m) ELSE PopFrame(m, [fns EXCEPT ![m.func].autos = <<>>])

Return1(m, fns) == IF m.func = 0 THEN RtError(m) ELSE PopFrame(m, fns)

Call1(m, fns, f, kinds) ==
  IF ~fns[f].defined THEN RtError(m)
  ELSE LET given == FoldLeft(AutoVar, ProcessParams(m, fns[f].params, kinds), fns[f].autos)
       IN  [given EXCEPT !.fn = <<m.ibase, m.addr, m.func>> \o @, !.func = f, !.addr = 0]

-----------------------------------------------------------------------------
(* Instructions.                                                           *)

Code(m, fns) == fns[m.func].code
ByteAt(m, fns, k) == Code(m, fns)[m.addr + k]

\* An operand that is a name, in one byte or two, and where the next byte is.
NameAt(m, fns) ==
  LET b == ByteAt(m, fns, 2)
  IN  IF b < ByteSize \div 2 THEN [name |-> b, size |-> 1]
      ELSE [name |-> (b - ByteSize \div 2) * ByteSize + ByteAt(m, fns, 3), size |-> 2]
LabelAt(m, fns) == ByteAt(m, fns, 2) + ByteAt(m, fns, 3) * ByteSize
\* The bytes from the k-th on up to a colon.
UpToColon(m, fns, k) ==
  LET c == Code(m, fns)
      end == CHOOSE j \in m.addr + k .. Len(c) :
               c[j] = ColonByte /\ \A i \in m.addr + k .. j - 1 : c[i] # ColonByte
  IN  SubSeq(c, m.addr + k, end - 1)
Past(m, size) == [m EXCEPT !.addr = @ + size]

Branches(m, inst) == inst = "J" \/ (inst = "B" /\ Top1(m) # 0) \/ (inst = "Z" /\ Top1(m) = 0)
Branch(m, fns, inst) ==
  LET h == IF inst = "J" THEN m ELSE Popped1(m)
  IN  IF Branches(m, inst) THEN [h EXCEPT !.addr = fns[m.func].labels[LabelAt(m, fns)]] ELSE Past(h, 3)

\* The base of a constant: that of the main program, or the one of the call.
ConstBase(m) == IF m.func = 0 THEN m.ibase ELSE m.fn[1]

OnName(m, inst, n) ==
  CASE inst = "l" -> PushNum(m, LoadVar(m, n)) [] inst = "s" -> StoreVar(m, n, Top1(m))
    [] inst = "i" -> StepVar(m, n, 1) [] inst = "d" -> StepVar(m, n, -1)
    [] inst = "L" -> LoadArray(m, n) [] inst = "S" -> StoreArray(m, n)
    [] inst = "A" -> StepArray(m, n, 1) [] inst = "M" -> StepArray(m, n, -1)

OnStack(m, inst) ==
  CASE inst = "0" -> PushNum(m, 0) [] inst = "1" -> PushNum(m, 1)
    [] inst = "D" -> PushNum(m, Top1(m)) [] inst = "p" -> Popped1(m)
    [] inst = "x" -> [m EXCEPT !.ex[1] = Under(m), !.ex[2] = Top1(m)]
    [] inst \in {"W", "P"} -> Popped1(StoreVar([m EXCEPT !.out = Append(@, Top1(m))], 4, Top1(m)))
    [] inst = "cR" /\ Top1(m) < 0 -> RtError(m)
    [] inst \in {"n", "!", "cL", "cS"} \/ (inst = "cR" /\ Top1(m) >= 0) -> SetTop(m, Apply1(inst, Top1(m)))
    [] inst \in {"+", "-", "*", "/", "%", "^"} \cup Comparisons ->
         IF Undefined(inst, Under(m), Top1(m)) THEN RtError(m)
         ELSE SetTop(Popped1(m), Apply(inst, Under(m), Top1(m)))

\* execute: one instruction.
Instruction(m, fns) ==
  LET inst == ByteAt(m, fns, 1)
      name == NameAt(m, fns)
      rest == UpToColon(m, fns, 2)
  IN  CASE inst \in {"B", "Z", "J"} -> Branch(m, fns, inst)
        [] inst = "C" -> LET kinds == UpToColon(m, fns, 2 + name.size)
                         IN  Call1(Past(m, 2 + name.size + Len(kinds)), fns, name.name, kinds)
        [] inst = "R" -> Return1(Past(m, 1), fns)
        [] inst = "K" -> PushNum(Past(m, Len(rest) + 2), DigitsValue(rest, ConstBase(m)))
        [] inst \in {"l", "s", "i", "d", "L", "S", "A", "M"} -> OnName(Past(m, 1 + name.size), inst, name.name)
        [] OTHER -> OnStack(Past(m, 1), inst)

\* Behind the loop of execute: the frames that are left, and the stack.
RECURSIVE CleanUp(_, _)
\* Mutant of CleanUp: the frames are dropped with what they hold.
CleanUpShort(m, fns) == [m EXCEPT !.func = 0, !.addr = 0, !.fn = <<>>, !.ex = <<>>]
CleanUp(m, fns) == IF m.func # 0 THEN CleanUp(PopFrame(m, fns), fns) ELSE [m EXCEPT !.ex = <<>>]

-----------------------------------------------------------------------------
(* Sessions.                                                               *)

BcInit == /\ bcItems \in Sessions /\ bcPhase = "load" /\ bcFuncs = [f \in FuncNames |-> NoFunc]
          /\ bcVm = VmInit /\ bcSigint = FALSE /\ bcBefore = VmInit /\ bcMeans = EnvInit

Item == Head(bcItems)
Voids == {f \in FuncNames : bcFuncs[f].void}
Next1 == bcItems' = Tail(bcItems)

\* A line is compiled into function 0 and run, unless it has an error.
LoadCode(g) ==
  IF g.err THEN Next1 /\ UNCHANGED <<bcPhase, bcFuncs, bcVm, bcSigint, bcBefore, bcMeans>>
  ELSE /\ bcFuncs' = [bcFuncs EXCEPT ![0].code = g.body, ![0].labels = g.labels]
       /\ bcVm' = [bcVm EXCEPT !.addr = 0, !.error = FALSE] /\ bcSigint' = FALSE
       /\ bcPhase' = "run" /\ bcBefore' = bcVm
       /\ UNCHANGED <<bcItems, bcMeans>>
LoadLine == bcPhase = "load" /\ bcItems # <<>> /\ Item.t = "line" /\ LoadCode(CompileLine(Item, Voids))

\* A definition: the function is cleared first, and defined at its closing brace.
FunctionOf(g) ==
  IF ParamsOk(Item.params, Item.autos)
  THEN [defined |-> ~g.err, void |-> Item.void, code |-> g.body, labels |-> g.labels,
        params |-> Item.params, autos |-> Item.autos, body |-> Item.body]
  ELSE [bcFuncs[Item.f] EXCEPT !.void = Item.void]
LoadFunction ==
  /\ bcPhase = "load" /\ bcItems # <<>> /\ Item.t = "define"
  /\ bcFuncs' = [bcFuncs EXCEPT ![Item.f] = FunctionOf(CompileFunction(Item, Voids))]
  /\ Next1 /\ UNCHANGED <<bcPhase, bcVm, bcSigint, bcBefore, bcMeans>>

\* Mutant of Runs: the loop does not look at had_sigint.
RunsOn == bcVm.addr < Len(bcFuncs[bcVm.func].code) /\ ~bcVm.error

Runs == bcVm.addr < Len(bcFuncs[bcVm.func].code) /\ ~bcVm.error /\ ~bcSigint

Execute == /\ bcPhase = "run" /\ Runs /\ bcVm' = Instruction(bcVm, bcFuncs)
           /\ UNCHANGED <<bcItems, bcPhase, bcFuncs, bcSigint, bcBefore, bcMeans>>

\* stop_execution: an interrupt, during some lines only to bound the model.
Sigint == /\ bcPhase = "run" /\ ~bcSigint /\ Item \in Interrupted /\ bcSigint' = TRUE
          /\ UNCHANGED <<bcItems, bcPhase, bcFuncs, bcVm, bcBefore, bcMeans>>

\* What the values of names mean after an interrupt is what they are.
AsItIs(m) == [EnvInit EXCEPT !.v = [n \in VarNames |-> LoadVar(m, n)],
                             !.a = [n \in ArrNames |-> IF m.arrs[n] = <<>> THEN 0 ELSE m.arrs[n][1].at],
                             !.heap = m.heap, !.out = m.out,
                             !.ibase = m.ibase, !.obase = m.obase, !.scale = m.scale]
Stopped == /\ bcPhase = "run" /\ ~Runs
           /\ bcVm' = CleanUp(bcVm, bcFuncs) /\ bcPhase' = "load" /\ Next1
           /\ bcMeans' = IF bcSigint THEN AsItIs(CleanUp(bcVm, bcFuncs))
                         ELSE MeaningOfLine(Item.body, bcMeans, bcFuncs)
           /\ UNCHANGED <<bcFuncs, bcSigint, bcBefore>>

BcRun == Execute \/ Stopped
BcNext == LoadLine \/ LoadFunction \/ BcRun \/ Sigint
\* Weak fairness of BcRun, with the states that enable it written out: nothing
\* else runs while execute does.
BcFair == []<><<BcRun>>_bcVars \/ []<>(bcPhase # "run")
BcSpec == BcInit /\ [][BcNext]_bcVars /\ BcFair

-----------------------------------------------------------------------------
(* Properties.                                                             *)

\* The value an array has, whether it has a place yet or not.
ArrayOf(heap, at) == IF at = 0 THEN Empty ELSE heap[at]
VmArray(m, n) == IF m.arrs[n] = <<>> THEN Empty ELSE ArrayOf(m.heap, m.arrs[n][1].at)

\* After every line the machine has written what the program means, and leaves the
\* variables and arrays with the values it means, whatever jumps, labels, stacks
\* and names of two bytes were between: also after an error at run time.
CodeIsMeaning ==
  bcPhase = "load" =>
    /\ bcVm.out = bcMeans.out
    /\ \A n \in VarNames : LoadVar(bcVm, n) = bcMeans.v[n]
    /\ \A n \in ArrNames : VmArray(bcVm, n) = ArrayOf(bcMeans.heap, bcMeans.a[n])
    /\ <<bcVm.ibase, bcVm.obase, bcVm.scale>> = <<bcMeans.ibase, bcMeans.obase, bcMeans.scale>>

\* A line that is interrupted has written the beginning of what it means.
InterruptedIsPrefix ==
  bcPhase = "run" /\ ~Runs /\ Item \notin Endless =>
    IsPrefix(bcVm.out, MeaningOfLine(Item.body, bcMeans, bcFuncs).out)

\* However a line ends, in whatever depth of calls: no frame, no operand and no
\* binding of a function is left.
FramesAreBack ==
  bcPhase = "load" =>
    /\ bcVm.func = 0 /\ bcVm.fn = <<>> /\ bcVm.ex = <<>>
    /\ \A n \in VarNames : Len(bcVm.vars[n]) <= 1
    /\ \A n \in ArrNames : Len(bcVm.arrs[n]) <= 1

\* A line that runs to its end has taken from the stack what it put there, before
\* anything is cleaned up.
NothingLeft ==
  bcPhase = "run" /\ ~Runs /\ ~bcVm.error /\ ~bcSigint => bcVm.func = 0 /\ bcVm.ex = <<>>

\* Variables that only functions bind keep their values, also over errors and
\* interrupts in the middle of a call.
KeptStay ==
  bcPhase = "load" =>
    \A n \in Kept : LoadVar(bcBefore, n) # 0 => LoadVar(bcVm, n) = LoadVar(bcBefore, n)

\* No name stands for an array whose storage was freed.
ArraysAreLive ==
  \A n \in ArrNames : \A i \in DOMAIN bcVm.arrs[n] :
    bcVm.arrs[n][i].at # 0 => bcVm.heap[bcVm.arrs[n][i].at] # <<>>

\* An interrupt brings every line to its end.
InterruptStops == (bcSigint /\ bcPhase = "run") ~> bcPhase = "load"

=============================================================================
