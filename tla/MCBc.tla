-------------------------------- MODULE MCBc --------------------------------
(***************************************************************************)
(* bc, one part of it to a behaviour.  The parts its machine stands on:    *)
(* numbers with borders in them (carries, zeros in front and behind), the  *)
(* scanner, the symbol table and the trees of arrays.  And the machine:    *)
(* expressions of two levels, loops with every way out of them, functions  *)
(* that shadow names, recurse, fail, and take arrays by value and by name. *)
(***************************************************************************)
EXTENDS BcNumber, BcStorage, BcMachine

N(dig, s) == Num(FALSE, dig, s)
Rows == {N(<<0>>, 0), N(<<1>>, 0), N(<<9>>, 0), N(<<0, 5>>, 1), N(<<0, 0, 9>>, 2), N(<<1, 0>>, 0), N(<<1, 0>>, 1), N(<<1, 5>>, 1),
          N(<<9, 9, 9>>, 1), N(<<2, 5, 0>>, 2), N(<<1, 2, 3, 4>>, 2), N(<<9, 9>>, 0)}
MCTerms == Rows \cup {Flip(n) : n \in {m \in Rows : ~IsZero(m)}}
MCFactors == {<<0, 7>>, <<9, 9>>, <<0, 0, 4>>, <<9, 0, 9, 9>>, <<1, 0, 0, 1>>, <<3, 2, 1, 0>>, <<5>>, <<9, 9, 9, 9>>}
MCDividends == {N(<<0>>, 0), N(<<1>>, 0), N(<<7, 0, 0>>, 0), N(<<4, 1, 0, 0>>, 0), N(<<9, 9, 9, 9>>, 0), N(<<5, 8, 7, 9>>, 1),
                N(<<0, 0, 3>>, 2), Flip(N(<<8, 0, 0, 5>>, 3)), N(<<5, 0, 1, 0>>, 0), N(<<1, 6, 3>>, 0),
                N(<<5, 1, 2, 7>>, 0)}
MCLongs == {N(<<2, 0, 4, 7>>, 0), N(<<2, 0, 4, 8>>, 0), Flip(N(<<2, 0, 4, 7, 5>>, 1)), N(<<2, 0, 4, 8, 5>>, 0)}
MCDivisors == {N(<<1>>, 0), N(<<3>>, 0), N(<<5, 8, 8>>, 0), N(<<5, 0, 0>>, 1), N(<<0, 0, 7>>, 2), Flip(N(<<9, 9>>, 0)),
               N(<<1, 0, 1>>, 0), N(<<5, 1>>, 0), N(<<1, 9, 9>>, 0), N(<<2, 0, 9>>, 1)}
MCSquares == {N(<<0>>, 0), N(<<1>>, 0), N(<<2>>, 0), N(<<4>>, 0), N(<<0, 5>>, 1), N(<<0, 0, 1>>, 2), N(<<9, 9>>, 0), N(<<1, 0, 0>>, 0), N(<<2, 2, 5>>, 2),
              N(<<0, 8>>, 1), N(<<0, 2, 6>>, 2), N(<<0, 9, 8>>, 2)}

\* All short texts, and longer ones that a comment opens.
Chars == {"1", "0", ".", Backslash, Newline, "*", "/", "=", "-", Quote, "#", "x"}
Words(chars, n) == UNION {[1 .. k -> chars] : k \in 0 .. n}
MCTexts == Words(Chars, 3) \cup {<<"/", "*">> \o w : w \in Words({"*", "/", Newline, "1"}, 4)}
           \cup {w \o <<Newline, "i", "f">> : w \in Words({"1", "0", Backslash, Newline, Quote}, 5)}
MCWritten == {<<"-">> \o w \o f : w \in Words({"1"}, 7), f \in {<<>>, <<".", "1">>, <<".", "0", "0">>, <<".", "A", "1", "0", "0", "1">>}}
             \ {<<"-">>}
MCIdUses == {<<n, "simple">> : n \in {1, 2, 3, 4, 5}} \cup {<<n, "functdef">> : n \in {3, 7}} \cup {<<6, "array">>}
MCMathNames == <<7, 8>>
MCWrites == {<<0, 1>>, <<1, 2>>, <<3, 1>>, <<6, 2>>}

-----------------------------------------------------------------------------
(* Sessions of the machine.                                                *)

C(n) == Const(<<n>>)
C10(a, b) == Const(<<a, b>>)
X == Var(5)   Y == Var(20)   K == Var(7)   L == Var(9)
A1(i) == Arr(1, i)
Inc(x) == Step("+", x, TRUE)
Is(x, e) == Assign("=", x, e)
Do(e) == Show(e)
Set0 == Line(<<Do(Is(X, C(2))), Do(Is(Y, Un("n", C(3)))), Do(Is(K, C(7))), Do(Is(L, C(5))), Do(Is(A1(C(1)), C(4)))>>)
ShowAll == Line(<<Do(X), Do(Y), Do(L), Do(A1(C(1))), Do(Var(4))>>)

Atoms == {C(0), C10(1, 2), X, L, Is(X, C(4)), Assign("-", Y, X), Inc(X), Step("-", L, FALSE), A1(Bin("-", X, C(1))),
          Is(A1(X), Y), Step("+", A1(C(1)), TRUE), Step("-", A1(Inc(X)), FALSE), Assign("*", A1(C(1)), X), Paren(Is(Y, C(9)))}
Ops == {"+", "/", "%", "<", "=", "}"}
Lines == {Do(Bin(op, a, b)) : op \in Ops, a \in Atoms, b \in Atoms}
         \cup {Do(Bin("^", a, b)) : a \in Atoms, b \in {C(0), X, Is(X, C(4)), Un("n", C(1)), Inc(X)}}
         \cup {Do(And(a, b)) : a \in Atoms, b \in Atoms} \cup {Do(Or(a, b)) : a \in Atoms, b \in Atoms}
         \cup {Do(Un(op, a)) : op \in {"n", "!", "cL", "cR"}, a \in Atoms}
         \cup {Do(Assign(op, x, a)) : op \in {"=", "+", "/"}, x \in {X, L, A1(X), A1(Y), Var(0), Var(1), Var(2)}, a \in Atoms}

\* Loops: three statements in the body, of which the middle one is conditional.
Bodies == {Do(Assign("+", Y, C(1))), Break, Continue, If(Bin("<", X, C(2)), Do(Y)),
           While(Bin("<", Y, C(0)), Block(<<Do(Inc(Y)), If(Bin("=", Y, X), Break), If(Bin("<", Y, X), Continue), Do(Y)>>))}
Loop(a, b, c) == Block(<<IfElse(Bin("=", X, C(1)), a, b), Do(X), c>>)
Loops == {For(Is(X, C(0)), Bin("<", X, C(3)), Inc(X), Loop(a, b, c)) : a \in Bodies, b \in Bodies, c \in Bodies}
         \cup {Block(<<Do(Is(X, Un("n", C(1)))), While(Bin("<", Inc(X), C(2)), Loop(a, b, c))>>) 
                : a \in Bodies, b \in {Continue, Do(Y)}, c \in Bodies}
         \cup {For(None, None, None, Block(<<Do(Inc(X)), If(Bin(">", X, C(4)), Break)>>))}
\* More labels than one byte counts.
Many == Line(<<Block([i \in 1 .. 6 |-> For(Is(X, C(0)), Bin("<", X, C(1)), Inc(X), If(Bin("=", Y, C(3)), Break))]), Do(X)>>)

P(n) == [name |-> n, array |-> FALSE, ref |-> FALSE]
PA(n) == [name |-> n, array |-> TRUE, ref |-> FALSE]
PR(n) == [name |-> n, array |-> TRUE, ref |-> TRUE]
\* f(k) is recursive and has autos; g(x, a[]) and h(*a[], x) write to their array.
F == Define(1, FALSE, <<P(7)>>, <<P(5), PA(1)>>,
            <<If(Bin("<", K, C(1)), Return(C(1))), Do(Is(A1(C(0)), K)), Do(Is(X, Call(1, <<Bin("-", K, C(1))>>))),
              Return(Bin("*", Paren(Assign("-", A1(C(0)), C(0))), X))>>)
G == Define(2, FALSE, <<P(5), PA(1)>>, <<>>, <<Do(Is(A1(C(1)), X)), Do(Step("+", L, FALSE)), Return(A1(C(1)))>>)
H == Define(3, FALSE, <<PR(1), P(7)>>, <<P(5)>>, <<For(Is(X, C(0)), Bin("<", X, K), Inc(X), Do(Assign("+", A1(C(1)), C(2)))),
                                                    If(Bin(">", K, C(2)), Return(Bin("/", K, C(0))))>>)
V == Define(4, TRUE, <<>>, <<P(7)>>, <<Do(Is(K, C(1))), PrintOf(C10(1, 1)), Do(Is(Var(0), C(8))), PrintOf(C10(1, 1)), Return(None)>>)
Bad == Define(1, FALSE, <<P(7), P(7)>>, <<>>, <<Return(C(9))>>)
Bad2 == Define(2, FALSE, <<P(7)>>, <<>>, <<Break>>)
Defs == <<Set0, F, G, H, V>>
Calls == {Do(Call(1, <<C(3)>>)), Do(Call(2, <<Call(1, <<C(2)>>), ArrayArg(1)>>)), Do(Call(2, <<L, ArrayArg(2)>>)),
          Do(Call(3, <<ArrayArg(1), C(2)>>)), Do(Call(3, <<ArrayArg(2), C(1)>>)), Do(Call(3, <<ArrayArg(1), C(4)>>)),
          Do(Call(4, <<>>)), Do(Bin("+", C(1), Call(4, <<>>))), Do(Call(5, <<>>)), Do(Call(1, <<C(1), C(2)>>)),
          Break, Return(C(1)), Do(Bin("+", L, Call(2, <<Arr(2, C(1)), ArrayArg(1)>>)))}
Forever == Line(<<While(C(1), Do(Is(Y, Call(1, <<Bin("-", C(1), Y)>>))))>>)

MCEndless == {Forever}
Few == {Do(Call(2, <<L, ArrayArg(2)>>)), Do(Call(3, <<ArrayArg(1), C(4)>>)), Do(Call(4, <<>>)), Do(Call(1, <<C(3)>>))}
CallLines == {Line(<<a, b>>) : a \in Calls, b \in Few}
MCInterrupted == {Forever} \cup {Line(<<a, b>>) : a \in Few, b \in Few}
MCSessions == {<<Set0, Line(<<l>>), ShowAll>> : l \in Lines} \cup {<<Set0, Line(<<l>>), ShowAll>> : l \in Loops}
              \cup {<<Set0, Many>>} \cup {Defs \o <<c, ShowAll>> : c \in CallLines}
              \cup {Defs \o <<Forever, ShowAll>>} \cup {Defs \o <<d, Line(<<c>>), ShowAll>> : d \in {Bad, Bad2}, c \in Calls}

-----------------------------------------------------------------------------

VARIABLE part
partVars == <<part, calcVars, scVars, idVars, arVars, bcVars>>
InPart(p) == part = p /\ UNCHANGED part

MCInit ==
  /\ part \in {"calc", "scan", "names", "math", "arrays", "machine"}
  /\ IF part = "calc" THEN CalcInit
     ELSE calcTask = Task("none", Zero, Zero, 0) /\ calcAt = "begin" /\ calcRoot = <<>> /\ calcResult = <<>>
  /\ IF part = "scan" THEN ScInit ELSE scText = <<>> /\ scAt = 1 /\ scLine = 1 /\ scTokens = <<>>
  /\ IdInit /\ ArInit
  /\ IF part = "machine" THEN BcInit
     ELSE /\ bcItems = <<>> /\ bcPhase = "done" /\ bcFuncs = <<>> /\ bcVm = VmInit /\ bcSigint = FALSE
          /\ bcBefore = VmInit /\ bcMeans = EnvInit

CalcPart == InPart("calc") /\ CalcNext /\ UNCHANGED <<scVars, idVars, arVars, bcVars>>
ScanPart == InPart("scan") /\ Scan /\ UNCHANGED <<calcVars, idVars, arVars, bcVars>>
MathPart == InPart("math") /\ LoadMath /\ UNCHANGED <<calcVars, scVars, arVars, bcVars>>
NamesPart == /\ \/ InPart("names")
                \/ InPart("math") /\ idMath = Len(MathNames)
             /\ IdUse /\ UNCHANGED <<calcVars, scVars, arVars, bcVars>>
ArraysPart == InPart("arrays") /\ ArNext /\ UNCHANGED <<calcVars, scVars, idVars, bcVars>>
MachinePart == InPart("machine") /\ BcNext /\ UNCHANGED <<calcVars, scVars, idVars, arVars>>

MCSpec == /\ MCInit /\ [][CalcPart \/ ScanPart \/ MathPart \/ NamesPart \/ ArraysPart \/ MachinePart]_partVars
          /\ SqrtFair /\ BcFair

\* Every operation on numbers gives what integer arithmetic says, to the last
\* digit that is kept, and a number the next operation may rely on.
ArithmeticIsExact == /\ ResultsAreNumerals /\ SumsAreExact /\ ProductsAreExact /\ QuotientsAreExact
                     /\ RemainderIsRest /\ PowersAreExact /\ RootsAreExact

\* What bc writes is what it reads: numbers in every base and in their strings;
\* and the scanner loses no line and no character of a number, through comments,
\* strings and quoted ends of lines.
TextIsWhatIsMeant == WrittenIsRead /\ TextIsNumber /\ (part = "scan" => LinesAreCounted /\ WrittenNumbersAreRead /\ CommentsAreBlank)

\* Storage keeps what it is given, to the end of every line, however that is
\* reached: names their numbers, arrays their elements, the stacks nothing but
\* what was on them, and nothing that was freed is used.
StorageIsKept == /\ part \in {"names", "math"} => TreeIsBalanced /\ NumbersAreOwn /\ PlacesAreThere
                 /\ part = "arrays" => ElementsAreKept /\ NodesAreOwned
                 /\ FramesAreBack /\ NothingLeft /\ KeptStay /\ ArraysAreLive

\* A line does what it means, and as far as it went when an interrupt ended it.
LinesAreMeant == CodeIsMeaning /\ InterruptedIsPrefix

\* Nothing goes round for ever that should not: every root is found, and an
\* interrupt ends every line.
EverythingStops == RootsEnd /\ InterruptStops
=============================================================================
