----------------------------- MODULE BcMeaning -----------------------------
(***************************************************************************)
(* What a program of bc means, told along its tree: values of expressions  *)
(* from left to right, statements one after another, and calls that bind   *)
(* parameters and autos over the names of the caller until they are back.  *)
(* Nothing here knows of stacks, labels or bytes.  Numbers are integers:   *)
(* scale is zero, as the arithmetic of bc has a specification of its own.  *)
(***************************************************************************)
EXTENDS BcCompile

CONSTANTS
  VarNames,    \* numbers of simple variables, 5 and up, and 4 for last
  ArrNames,    \* numbers of arrays
  DimMax,      \* BC_DIM_MAX
  BaseMax      \* BC_BASE_MAX and BC_SCALE_MAX

\* Division that cuts off, the root that does, and powers.
Sgn(v) == IF v < 0 THEN -1 ELSE IF v > 0 THEN 1 ELSE 0
Mag(v) == IF v < 0 THEN -v ELSE v
CutDiv(a, b) == Sgn(a) * Sgn(b) * (Mag(a) \div Mag(b))
Root(v) == CHOOSE r \in 0 .. v : r * r <= v /\ (r + 1) * (r + 1) > v
Pow(a, k) == IF k = 0 THEN 1 ELSE IF k > 0 THEN a ^ k ELSE CutDiv(1, a ^ (-k))
Digits10(v) == IF Mag(v) < 10 THEN 1 ELSE CHOOSE k \in 2 .. 9 : 10 ^ (k - 1) <= Mag(v) /\ Mag(v) < 10 ^ k
Truth(b) == IF b THEN 1 ELSE 0

\* A number that is written with digits: one digit is what it is, in a longer one
\* no digit counts for more than the base allows.
DigitsValue(digits, base) ==
  IF Len(digits) = 1 THEN digits[1]
  ELSE FoldLeft(LAMBDA v, d : v * base + (IF d < base THEN d ELSE base - 1), 0, digits)

\* Division by zero, remainder by zero, and a negative power of zero.
Undefined(op, a, b) == (op \in {"/", "%"} /\ b = 0) \/ (op = "^" /\ a = 0 /\ b < 0)
Apply(op, a, b) ==
  CASE op = "+" -> a + b [] op = "-" -> a - b [] op = "*" -> a * b
    [] op = "/" -> CutDiv(a, b) [] op = "%" -> a - b * CutDiv(a, b) [] op = "^" -> Pow(a, b)
    [] op = "=" -> Truth(a = b) [] op = "#" -> Truth(a # b)
    [] op = "<" -> Truth(a < b) [] op = "{" -> Truth(a <= b)
    [] op = ">" -> Truth(a > b) [] op = "}" -> Truth(a >= b)
Apply1(op, a) ==
  CASE op = "n" -> -a [] op = "!" -> Truth(a = 0) [] op = "cL" -> Digits10(a) [] op = "cS" -> 0
    [] op = "cR" -> Root(a)

\* What ibase, obase and scale become when x is stored.
Within(x, lo, hi) == IF x < lo THEN lo ELSE IF x > hi THEN hi ELSE x
Special == <<"ibase", "obase", "scale">>
Limited(n, x) == Within(x, IF n = 2 THEN 0 ELSE 2, IF n = 0 THEN 36 ELSE BaseMax)
\* ... and when they are stepped; ibase is not counted beyond 16.
Counted(n, old, d) == IF (n = 0 /\ d = 1 /\ old >= 16) \/ Limited(n, old + d) # old + d THEN old ELSE old + d

-----------------------------------------------------------------------------
(* The state of a program: variables, arrays (numbers of places in a heap, *)
(* 0 where there is none), what was written, how the last statement ended, *)
(* the value of the last expression, and ibase when a function was called. *)

Empty == [i \in 0 .. DimMax |-> 0]
EnvInit == [v |-> [n \in VarNames |-> 0], a |-> [n \in ArrNames |-> 0], heap |-> <<>>,
            ibase |-> 10, obase |-> 10, scale |-> 0, out |-> <<>>, base |-> 0, ctl |-> "go", val |-> 0]

Value(e, x) == [e EXCEPT !.val = x]
Stop(e, how) == [e EXCEPT !.ctl = how]
Says(e, x) == [e EXCEPT !.out = Append(@, x), !.v[4] = x]

GetVar(e, n) == IF n = 0 THEN e.ibase ELSE IF n = 1 THEN e.obase ELSE IF n = 2 THEN e.scale ELSE e.v[n]
SetVar(e, n, x) ==
  IF n < 3 THEN [e EXCEPT ![Special[n + 1]] = Limited(n, x)] ELSE [e EXCEPT !.v[n] = x]
WithArray(e, n) ==
  IF e.a[n] # 0 THEN e ELSE [e EXCEPT !.heap = Append(@, Empty), !.a[n] = Len(e.heap) + 1]
Element(e, n, i) == WithArray(e, n).heap[WithArray(e, n).a[n]][i]
SetElement(e, n, i, x) == LET w == WithArray(e, n) IN [w EXCEPT !.heap[w.a[n]][i] = x]

\* The variable or element x is, its value, and with another one; i is its index.
Get(e, x, i) == IF x.t = "var" THEN GetVar(e, x.name) ELSE Element(e, x.name, i)
Set(e, x, i, y) == IF x.t = "var" THEN SetVar(e, x.name, y) ELSE SetElement(e, x.name, i, y)
SetStepped(e, x, i, d) ==
  IF x.t = "var" /\ x.name < 3
  THEN [e EXCEPT ![Special[x.name + 1]] = Counted(x.name, @, d)] ELSE Set(e, x, i, Get(e, x, i) + d)

-----------------------------------------------------------------------------
(* Expressions and statements.  fns says what a function is.               *)

RECURSIVE Eval(_, _, _)
RECURSIVE EvalArgs(_, _, _, _)
RECURSIVE Exec(_, _, _)
RECURSIVE ExecAll(_, _, _)
RECURSIVE Repeat(_, _, _)

\* The index of x, as the value; beyond the bounds there is an error.
Beyond(x, i) == x.t = "arr" /\ i \notin 0 .. DimMax
IndexChecked(x, i) == IF i.ctl = "go" /\ Beyond(x, i.val) THEN Stop(i, "error") ELSE i
EvalIndex(x, e, fns) ==
  IF x.t = "var" THEN Value(e, 0) ELSE IndexChecked(x, Eval(x.index, e, fns))

\* The index is looked at when the element is read, or at last.
AssignTo(x, at, r, y) ==
  IF Beyond(x.x, at.val) THEN Stop(r, "error") ELSE Value(Set(r, x.x, at.val, y), y)
AssignOp(x, at, r, old) ==
  CASE r.ctl # "go" -> r
    [] r.ctl = "go" /\ x.op # "=" /\ Undefined(x.op, old, r.val) -> Stop(r, "error")
    [] OTHER -> AssignTo(x, at, r, IF x.op = "=" THEN r.val ELSE Apply(x.op, old, r.val))
AssignAt(x, at, fns) ==
  CASE at.ctl # "go" -> at
    [] at.ctl = "go" /\ x.op # "=" /\ Beyond(x.x, at.val) -> Stop(at, "error")
    [] OTHER -> AssignOp(x, at, Eval(x.e, at, fns), Get(at, x.x, at.val))
EvalAssign(x, e, fns) ==
  AssignAt(x, Eval(IF x.x.t = "var" THEN Const(<<0>>) ELSE x.x.index, e, fns), fns)

StepTo(x, at, new) == Value(new, Get(IF x.post THEN at ELSE new, x.x, at.val))
StepAt(x, at) ==
  IF at.ctl # "go" THEN at ELSE StepTo(x, at, SetStepped(at, x.x, at.val, IF x.op = "+" THEN 1 ELSE -1))
EvalStep(x, e, fns) == StepAt(x, EvalIndex(x.x, e, fns))

\* Arguments are what they are in the caller: numbers, or places of arrays.
ArgsFrom(args, f, fns, done) ==
  EvalArgs(Tail(args), f, fns, Append(done, IF Head(args).t = "array" THEN f.a[Head(args).name] ELSE f.val))
EvalArgs(args, e, fns, done) ==
  IF args = <<>> \/ e.ctl # "go" THEN [env |-> e, vals |-> done]
  ELSE ArgsFrom(args, IF Head(args).t = "array" THEN WithArray(e, Head(args).name) ELSE Eval(Head(args), e, fns),
                fns, done)

\* The parameters stand for the arguments, autos are new, and behind the call the
\* names mean what they meant before.
Bind(e, p, x) ==
  CASE ~p.array -> [e EXCEPT !.v[p.name] = x]
    [] p.array /\ p.ref -> [e EXCEPT !.a[p.name] = x]
    [] p.array /\ ~p.ref -> [e EXCEPT !.heap = Append(@, e.heap[x]), !.a[p.name] = Len(e.heap) + 1]
Fresh(e, p) == IF p.array THEN [e EXCEPT !.a[p.name] = 0] ELSE [e EXCEPT !.v[p.name] = 0]

Fits(fn, args) == /\ Len(fn.params) = Len(args)
                  /\ \A i \in DOMAIN args : fn.params[i].array = (args[i].t = "array")
Bound(fn, r) ==
  FoldLeft(Fresh, FoldLeft(LAMBDA f, i : Bind(f, fn.params[i], r.vals[i]),
                           [r.env EXCEPT !.base = r.env.ibase], [i \in 1 .. Len(r.vals) |-> i]), fn.autos)
CallBack(fn, before, end) ==
  LET Mine(array) == {p.name : p \in {q \in Range(fn.params) \cup Range(fn.autos) : q.array = array}}
  IN  [end EXCEPT !.v = [n \in VarNames |-> IF n \in Mine(FALSE) THEN before.v[n] ELSE @[n]],
                  !.a = [n \in ArrNames |-> IF n \in Mine(TRUE) THEN before.a[n] ELSE @[n]],
                  !.base = before.base,
                  !.ctl = IF @ = "error" THEN "error" ELSE "go",
                  !.val = IF end.ctl = "return" THEN @ ELSE 0]
CallWith(x, fn, r, fns) ==
  CASE r.env.ctl # "go" -> r.env
    [] r.env.ctl = "go" /\ (~fn.defined \/ ~Fits(fn, x.args)) -> Stop(r.env, "error")
    [] OTHER -> CallBack(fn, r.env, ExecAll(fn.body, Bound(fn, r), fns))
EvalCall(x, e, fns) == CallWith(x, fns[x.f], EvalArgs(x.args, e, fns, <<>>), fns)

BinOf(x, a, b) ==
  CASE b.ctl # "go" -> b
    [] b.ctl = "go" /\ Undefined(x.op, a.val, b.val) -> Stop(b, "error")
    [] OTHER -> Value(b, Apply(x.op, a.val, b.val))
BinOn(x, a, fns) == IF a.ctl # "go" THEN a ELSE BinOf(x, a, Eval(x.b, a, fns))
EvalBin(x, e, fns) == BinOn(x, Eval(x.a, e, fns), fns)

TruthOf(b) == IF b.ctl # "go" THEN b ELSE Value(b, Truth(b.val # 0))
LogicOn(x, a, fns) ==
  CASE a.ctl # "go" \/ (x.t = "and" /\ a.val = 0) -> a
    [] a.ctl = "go" /\ x.t = "or" /\ a.val # 0 -> Value(a, 1)
    [] OTHER -> TruthOf(Eval(x.b, a, fns))
EvalLogic(x, e, fns) == LogicOn(x, Eval(x.a, e, fns), fns)

UnOf(x, a) ==
  CASE a.ctl # "go" -> a
    [] a.ctl = "go" /\ x.op = "cR" /\ a.val < 0 -> Stop(a, "error")
    [] OTHER -> Value(a, Apply1(x.op, a.val))
EvalUn(x, e, fns) == UnOf(x, Eval(x.e, e, fns))

ReadAt(x, i) == IF i.ctl # "go" THEN i ELSE Value(i, Get(i, x, i.val))

Eval(x, e, fns) ==
  CASE x.t = "const" -> Value(e, DigitsValue(x.digits, IF e.base = 0 THEN e.ibase ELSE e.base))
    [] x.t \in {"var", "arr"} -> ReadAt(x, EvalIndex(x, e, fns))
    [] x.t = "assign" -> EvalAssign(x, e, fns)
    [] x.t = "step" -> EvalStep(x, e, fns)
    [] x.t \in {"and", "or"} -> EvalLogic(x, e, fns)
    [] x.t = "bin" -> EvalBin(x, e, fns)
    [] x.t = "un" -> EvalUn(x, e, fns)
    [] x.t = "paren" -> Eval(x.e, e, fns)
    [] x.t = "call" -> EvalCall(x, e, fns)

\* An expression is shown unless it assigns, or combines nothing but assignments,
\* or is a call of a void function.
RECURSIVE Shown(_, _)
Shown(x, fns) ==
  CASE x.t = "assign" -> FALSE
    [] x.t \in {"and", "or"} -> Shown(x.a, fns) \/ Shown(x.b, fns)
    [] x.t = "bin" -> x.op \in Comparisons \/ Shown(x.a, fns) \/ Shown(x.b, fns)
    [] x.t = "un" -> x.op \notin {"n", "!"} \/ Shown(x.e, fns)
    [] x.t = "call" -> ~fns[x.f].void
    [] OTHER -> TRUE

EvalOr1(x, e, fns) == IF x = None THEN Value(e, 1) ELSE Eval(x, e, fns)

\* Rounds of a loop: the condition, the body, and what comes between.
RoundNext(s, e, fns) == IF e.ctl # "go" THEN e ELSE Repeat(s, e, fns)
RoundEnd(s, b, fns) ==
  CASE b.ctl = "break" -> Stop(b, "go")
    [] b.ctl \in {"return", "error"} -> b
    [] OTHER -> RoundNext(s, EvalOr1(IF s.t = "for" THEN s.c ELSE None, Stop(b, "go"), fns), fns)
Round(s, c, fns) == IF c.ctl # "go" \/ c.val = 0 THEN c ELSE RoundEnd(s, Exec(s.s, c, fns), fns)
Repeat(s, e, fns) == Round(s, EvalOr1(IF s.t = "for" THEN s.b ELSE s.e, e, fns), fns)
RepeatFrom(s, a, fns) == IF a.ctl = "go" THEN Repeat(s, a, fns) ELSE a

Said(e, shown) == IF e.ctl = "go" /\ shown THEN Says(e, e.val) ELSE e
ReturnedWith(e) == IF e.ctl = "go" THEN Stop(e, "return") ELSE e
Branched(s, c, fns) ==
  CASE c.ctl # "go" \/ (c.val = 0 /\ ~s.else) -> c
    [] OTHER -> Exec(IF c.val # 0 THEN s.s ELSE s.s2, c, fns)

Exec(s, e, fns) ==
  CASE s.t \in {"expr", "print"} -> Said(Eval(s.e, e, fns), s.t = "print" \/ Shown(s.e, fns))
    [] s.t \in {"break", "continue"} -> Stop(e, s.t)
    [] s.t = "return" -> ReturnedWith(IF s.e = None THEN Value(e, 0) ELSE Eval(s.e, e, fns))
    [] s.t = "for" -> RepeatFrom(s, EvalOr1(s.a, e, fns), fns)
    [] s.t = "while" -> Repeat(s, e, fns)
    [] s.t = "if" -> Branched(s, Eval(s.e, e, fns), fns)
    [] s.t = "block" -> ExecAll(s.s, e, fns)
ExecAll(stmts, e, fns) ==
  IF stmts = <<>> \/ e.ctl # "go" THEN e ELSE ExecAll(Tail(stmts), Exec(Head(stmts), e, fns), fns)

\* A line at the top of the program.
MeaningOfLine(stmts, e, fns) == [ExecAll(stmts, e, fns) EXCEPT !.val = 0, !.ctl = "go"]

=============================================================================
