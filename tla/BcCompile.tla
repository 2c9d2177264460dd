------------------------------ MODULE BcCompile ------------------------------
(***************************************************************************)
(* From the text of a program of bc to the bytes of its functions.         *)
(*                                                                         *)
(* The scanner: the rules of bearos_bc/src/scan.l (compiled in scan.c),    *)
(* one token to a step, with the line number that messages give.  flex     *)
(* itself (the longest match, the earlier of two rules) is external.       *)
(* out_char of util.c, which breaks long numbers over lines, is with it for *)
(* what it writes must be read back.  A text is a sequence of characters;  *)
(* letters and digits stand for theirs.                                    *)
(*                                                                         *)
(* The compiler: the actions of the grammar (bc.y, compiled in bc.c) with  *)
(* the labels they number, and the loader (load.c) that turns the text they *)
(* generate into bytes and addresses.  A program is a tree: the parser,    *)
(* which is generated, is not part of it.  A byte is a number, but an      *)
(* operation its character.                                                *)
(***************************************************************************)
EXTENDS Integers, Sequences, SequencesExt

CONSTANTS
  ScanTexts,    \* what is scanned
  ScanNumbers,  \* numbers that are written, as sequences of characters
  LineSizes     \* values of line_size

VARIABLES scText, scAt, scLine, scTokens
scVars == <<scText, scAt, scLine, scTokens>>

Newline == "nl"
Quote == "quote"
Backslash == "\\"
Eof == "eof"
Digits == {"0", "1", "2", "A"}
Letters == {"i", "f", "x"}
Space == " "

CharAt(s, i) == IF i <= Len(s) THEN s[i] ELSE Eof
Newlines(s) == Len(SelectSeq(s, LAMBDA c : c = Newline))

-----------------------------------------------------------------------------
(* Rules.  Each one gives the place behind what it matches.                *)

\* Behind a run of characters of C, from i on.
RunEnd(s, i, C) == CHOOSE j \in i .. Len(s) + 1 : CharAt(s, j) \notin C /\ \A k \in i .. j - 1 : s[k] \in C

QuotedAt(s, i) == CharAt(s, i) = Backslash /\ CharAt(s, i + 1) = Newline
\* Behind digits and quoted newlines.
RECURSIVE DigitsEnd(_, _)
DigitsEnd(s, i) ==
  IF CharAt(s, i) \in Digits THEN DigitsEnd(s, i + 1)
  ELSE IF QuotedAt(s, i) THEN DigitsEnd(s, i + 2) ELSE i
RECURSIVE QuotedEnd(_, _)
QuotedEnd(s, i) == IF QuotedAt(s, i) THEN QuotedEnd(s, i + 2) ELSE i

StartsNumber(s, i) ==
  \/ CharAt(s, i) \in Digits
  \/ CharAt(s, i) = "." /\ CharAt(s, QuotedEnd(s, i + 1)) \in Digits
NumberEnd(s, i) ==
  LET whole == DigitsEnd(s, i) IN IF CharAt(s, whole) = "." THEN DigitsEnd(s, whole + 1) ELSE whole

\* The action of a number: a point at its end is cut off, then leading zeros are
\* but for a last one, and quoted newlines are.  Behind one the next character is
\* copied whatever it is; behind one at the end that is the end of the text, and
\* what follows in the buffer is spoilt.
TrimmedNumber(t) ==
  LET p == IF Last(t) = "." THEN Front(t) ELSE t
      z == RunEnd(p, 1, {"0"})
  IN  IF z > Len(p) THEN <<"0">> ELSE SubSeq(p, z, Len(p))
RECURSIVE NumberText(_, _)
NumberText(t, i) ==
  IF i > Len(t) THEN <<>>
  ELSE IF t[i] = Backslash THEN IF i + 2 > Len(t) THEN <<Eof>> ELSE <<t[i + 2]>> \o NumberText(t, i + 3)
  ELSE <<t[i]>> \o NumberText(t, i + 1)
\* Mutant of Seen: a number counts no lines.
SeenNone(t, i) == 0

\* The quoted newlines that the action sees, and counts.
RECURSIVE Seen(_, _)
Seen(t, i) == IF i > Len(t) THEN 0 ELSE IF t[i] = Backslash THEN 1 + Seen(t, i + 3) ELSE Seen(t, i + 1)

\* Mutant of CommentEnd: the star that ends a run of stars is not looked behind.
RECURSIVE CommentEndPairs(_, _)
CommentEndPairs(s, i) ==
  LET star == RunEnd(s, i, {c \in {CharAt(s, k) : k \in i .. Len(s)} : c # "*"})
  IN  IF star >= Len(s) THEN Len(s) + 1
      ELSE IF CharAt(s, star + 1) = "/" THEN star + 2 ELSE CommentEndPairs(s, star + 2)

\* Behind a comment whose text begins at i, or behind the last character.
RECURSIVE CommentEnd(_, _)
CommentEnd(s, i) ==
  LET star == RunEnd(s, i, {c \in {CharAt(s, k) : k \in i .. Len(s)} : c # "*"})
      j == RunEnd(s, star, {"*"})
  IN  IF CharAt(s, star) = Eof \/ CharAt(s, j) = Eof THEN Len(s) + 1
      ELSE IF CharAt(s, j) = "/" THEN j + 1 ELSE CommentEnd(s, j + 1)

Pairs == {<<"&", "&">>, <<"|", "|">>, <<"=", "=">>, <<"<", "=">>, <<"+", "=">>, <<"-", "=">>, <<"*", "=">>,
          <<"/", "=">>, <<"+", "+">>, <<"-", "-">>}
\* = before an operation is the assignment alone: the old operators are not there.
OldPairs == {<<"=", c>> : c \in {"+", "-", "*", "/"}}
Keywords == {<<"i", "f">>}

Tok(kind, text, next, lines) == [kind |-> kind, text |-> text, next |-> next, lines |-> lines]

\* The token at i; kind skip for what gives none.
TokenAt(s, i) ==
  LET c == s[i]
      pair == <<c, CharAt(s, i + 1)>>
      word == RunEnd(s, i, Letters \cup Digits)
      close == {j \in i + 1 .. Len(s) : s[j] = Quote}
      num == SubSeq(s, i, NumberEnd(s, i) - 1)
      note == RunEnd(s, i, {CharAt(s, k) : k \in i .. Len(s)} \ {Newline})
      through(j) == SubSeq(s, i, j - 1)
  IN  CASE c = "#" -> Tok("skip", <<>>, note, 0)
        [] c \in Letters -> Tok(IF through(word) \in Keywords THEN "keyword" ELSE "name", through(word), word, 0)
        [] StartsNumber(s, i) -> Tok("number", NumberText(TrimmedNumber(num), 1), NumberEnd(s, i), Seen(TrimmedNumber(num), 1))
        [] c = "." /\ ~StartsNumber(s, i) -> Tok("last", <<c>>, i + 1, 0)
        [] c = Newline -> Tok("endofline", <<c>>, i + 1, 1)
        [] QuotedAt(s, i) -> Tok("skip", <<>>, i + 2, 1)
        [] c = Space -> Tok("skip", <<>>, RunEnd(s, i, {Space}), 0)
        [] pair = <<"/", "*">> ->
             LET e == CommentEnd(s, i + 2) IN Tok("skip", <<>>, e, Newlines(SubSeq(s, i, e - 1)))
        [] c = Quote /\ close # {} ->
             LET e == CHOOSE j \in close : \A k \in close : j <= k
             IN  Tok("string", through(e + 1), e + 1, Newlines(through(e)))
        [] pair \in Pairs -> Tok("operator", pair, i + 2, 0)
        [] pair \in OldPairs \/ (pair \notin Pairs \cup {<<"/", "*">>} /\ c \in {"+", "-", "*", "/", "=", "<", "&", "(", ")"})
             -> Tok("operator", <<c>>, i + 1, 0)
        [] OTHER -> Tok("illegal", <<c>>, i + 1, 0)

-----------------------------------------------------------------------------
(* Numbers that are written.                                               *)

\* Mutant of OutChars: the column is not set behind a break.
OutCharsLong(s, size) ==
  LET put(o, c) == LET col == o.col + 1
                   IN  IF col = size - 1 /\ size # 0
                       THEN [text |-> o.text \o <<Backslash, Newline, c>>, col |-> 0]
                       ELSE [text |-> Append(o.text, c), col |-> col]
  IN  FoldLeft(put, [text |-> <<>>, col |-> 0], s).text

\* out_char, for one character after another.
OutChars(s, size) ==
  LET put(o, c) == LET col == o.col + 1
                   IN  IF col = size - 1 /\ size # 0
                       THEN [text |-> o.text \o <<Backslash, Newline, c>>, col |-> 1]
                       ELSE [text |-> Append(o.text, c), col |-> col]
  IN  FoldLeft(put, [text |-> <<>>, col |-> 0], s).text

-----------------------------------------------------------------------------

ScInit == /\ scText \in ScanTexts \cup {OutChars(n, size) : n \in ScanNumbers, size \in LineSizes}
          /\ scAt = 1 /\ scLine = 1 /\ scTokens = <<>>

Scan == /\ scAt <= Len(scText)
        /\ LET t == TokenAt(scText, scAt)
           IN  /\ scAt' = t.next /\ scLine' = scLine + t.lines
               /\ scTokens' = IF t.kind = "skip" THEN scTokens ELSE Append(scTokens, [kind |-> t.kind, text |-> t.text])
        /\ UNCHANGED scText

ScSpec == ScInit /\ [][Scan]_scVars

-----------------------------------------------------------------------------
(* Properties.                                                             *)

AtEnd == scAt > Len(scText)
RECURSIVE AllTokens(_, _)
AllTokens(s, i) ==
  IF i > Len(s) THEN <<>>
  ELSE LET t == TokenAt(s, i)
       IN  (IF t.kind = "skip" THEN <<>> ELSE <<[kind |-> t.kind, text |-> t.text]>>) \o AllTokens(s, t.next)

\* No newline is quoted right behind another one, nor at the end of a number:
\* the action of numbers handles neither.
Decent(s) == \A i \in DOMAIN s : QuotedAt(s, i) =>
               /\ ~QuotedAt(s, i + 2)
               /\ i > 1 /\ s[i - 1] \in Digits \cup {"."} => CharAt(s, i + 2) \in Digits \cup {"."}

\* The line of a message is the line the token is on, whatever comments, strings
\* and quoted newlines came before.
LinesAreCounted == Decent(scText) => scLine = 1 + Newlines(SubSeq(scText, 1, scAt - 1))

\* A number that was written over several lines is read as that number, and no
\* line is longer than it may be.
WrittenNumbersAreRead ==
  AtEnd /\ scTokens # <<>> => \A n \in ScanNumbers, size \in LineSizes :
    scText = OutChars(n, size) =>
      /\ scTokens = AllTokens(n, 1)
      /\ size # 0 => \A i \in DOMAIN scText : \E k \in i .. i + size - 1 : CharAt(scText, k) \in {Newline, Eof}

\* Where a comment opens the text, the rest is scanned as if a blank were there:
\* it ends at the first star and slash behind its first two characters.
CommentsAreBlank ==
  AtEnd /\ Len(scText) >= 4 /\ SubSeq(scText, 1, 2) = <<"/", "*">> =>
    LET ends == {j \in 3 .. Len(scText) - 1 : scText[j] = "*" /\ scText[j + 1] = "/"}
    IN  ends # {} => scTokens = AllTokens(SubSeq(scText, (CHOOSE j \in ends : \A k \in ends : j <= k) + 2, Len(scText)), 1)

-----------------------------------------------------------------------------
(* The compiler and the loader.                                            *)

CONSTANT ByteSize     \* 256
ASSUME ByteIsEven == ByteSize \in Nat /\ ByteSize >= 4 /\ ByteSize % 2 = 0

-----------------------------------------------------------------------------
(* Trees.                                                                  *)

Const(digits) == [t |-> "const", digits |-> digits]
Var(n) == [t |-> "var", name |-> n]              \* ibase 0, obase 1, scale 2, last 4
Arr(n, i) == [t |-> "arr", name |-> n, index |-> i]
Assign(op, x, e) == [t |-> "assign", op |-> op, x |-> x, e |-> e]
Step(op, x, post) == [t |-> "step", op |-> op, x |-> x, post |-> post]   \* ++ and --
And(a, b) == [t |-> "and", a |-> a, b |-> b]
Or(a, b) == [t |-> "or", a |-> a, b |-> b]
Bin(op, a, b) == [t |-> "bin", op |-> op, a |-> a, b |-> b]
Un(op, e) == [t |-> "un", op |-> op, e |-> e]    \* negation, !, length, sqrt, scale
Paren(e) == [t |-> "paren", e |-> e]
Call(f, args) == [t |-> "call", f |-> f, args |-> args]
ArrayArg(n) == [t |-> "array", name |-> n]       \* name[] as an argument

Show(e) == [t |-> "expr", e |-> e]
Break == [t |-> "break"]
Continue == [t |-> "continue"]
Return(e) == [t |-> "return", e |-> e]
For(a, b, c, s) == [t |-> "for", a |-> a, b |-> b, c |-> c, s |-> s]
While(e, s) == [t |-> "while", e |-> e, s |-> s]
If(e, s) == [t |-> "if", e |-> e, s |-> s, else |-> FALSE, s2 |-> <<>>]
IfElse(e, s, s2) == [t |-> "if", e |-> e, s |-> s, else |-> TRUE, s2 |-> s2]
PrintOf(e) == [t |-> "print", e |-> e]
None == [t |-> "none"]                           \* an expression left out

Line(stmts) == [t |-> "line", body |-> stmts]
\* A parameter or auto is [name, array, ref]: ref for *name[].
Define(f, void, params, autos, body) ==
  [t |-> "define", f |-> f, void |-> void, params |-> params, autos |-> autos, body |-> body]

\* The characters among the operands.
ColonByte == 58
Zero1 == 48
One1 == 49

-----------------------------------------------------------------------------
(* The loader.                                                             *)

\* What is known while an item is compiled: the function that is loaded with its
\* bytes and label addresses, the labels, whether an error was found, and the
\* flags of the last expression: reg, a value to show, and void.
GenInit == [cur |-> 0, body |-> <<>>, labels |-> <<>>, next |-> 1, break |-> 0, continue |-> 0,
            if |-> 0, err |-> FALSE, reg |-> FALSE, void |-> FALSE]

\* addbyte: nothing more is loaded after an error.
Emit(g, bytes) == IF g.err THEN g ELSE [g EXCEPT !.body = @ \o bytes]

\* A name is one byte, or two with the top bit of the first one set.
NameBytes(n) ==
  IF n < ByteSize \div 2 THEN <<n>> ELSE <<n \div ByteSize + ByteSize \div 2, n % ByteSize>>
\* A label is two bytes, the low one first.
LabelBytes(l) == <<l % ByteSize, l \div ByteSize>>

\* def_label
Put(x, y, f) == [z \in DOMAIN f \cup {x} |-> IF z = x THEN y ELSE f[z]]
Label(g, l) == IF g.err THEN g ELSE [g EXCEPT !.labels = Put(l, Len(g.body), @)]

Named(g, op, n) == Emit(g, <<op>> \o NameBytes(n))
Jump(g, op, l) == Emit(g, <<op>> \o LabelBytes(l))
Plain(g, op) == Emit(g, <<op>>)
\* yyerror where cond holds.
Fault(g, cond) == [g EXCEPT !.err = @ \/ cond]
Flags(g, reg, void) == [g EXCEPT !.reg = reg, !.void = void]
NewLabel(g) == [g EXCEPT !.next = @ + 1]
NoVoid(g) == Fault(g, g.void)

-----------------------------------------------------------------------------
(* Expressions.  voids is the set of the functions that are void.          *)

\* x is loaded, stored, or stepped; the index of an array is on the stack.
OpOn(g, x, ofVar, ofArray) == Named(g, IF x.t = "var" THEN ofVar ELSE ofArray, x.name)

RECURSIVE Expr(_, _, _)
RECURSIVE Args(_, _, _)

\* The index of an array element is left on the stack.
Target(g, x, voids) == IF x.t = "var" THEN g ELSE NoVoid(Expr(g, x.index, voids))

\* The index of an array element is kept for another use; an element is stepped
\* under its value.
Again(g, x) == IF x.t = "arr" THEN Plain(g, "D") ELSE g
Beneath(g, x) == IF x.t = "arr" THEN Plain(g, "x") ELSE g
Loaded(g, x) == OpOn(g, x, "l", "L")

StoredInto(g, e) ==
  Flags(OpOn(IF e.op = "=" THEN g ELSE Plain(g, e.op), e.x, "s", "S"), FALSE, FALSE)
AssignmentAt(at, e, voids) ==
  StoredInto(NoVoid(Expr(IF e.op = "=" THEN at ELSE Loaded(Again(at, e.x), e.x), e.e, voids)), e)
Assignment(g, e, voids) == AssignmentAt(Target(g, e.x, voids), e, voids)

StepOn(g, e) == OpOn(g, e.x, IF e.op = "+" THEN "i" ELSE "d", IF e.op = "+" THEN "A" ELSE "M")

\* Mutant of SteppedAt: ++x has the value x had.
SteppedAfter(at, e) == Flags(StepOn(Beneath(Loaded(Again(at, e.x), e.x), e.x), e), TRUE, FALSE)
SteppedAt(at, e) ==
  Flags(IF e.post THEN StepOn(Beneath(Loaded(Again(at, e.x), e.x), e.x), e)
        ELSE Loaded(StepOn(Again(at, e.x), e), e.x), TRUE, FALSE)
Stepped(g, e, voids) == SteppedAt(Target(g, e.x, voids), e)

\* What b leaves is shown where a or b is to be, and void where one of them is.
BothFlags(g, a, b) == Flags(g, a.reg \/ b.reg, a.void \/ b.void)
NoneVoid(a, b) == Fault(b, a.void \/ b.void)

ConjunctionEnd(a, b) ==
  BothFlags(Label(Plain(Plain(Jump(Plain(NoneVoid(a, b), "D"), "Z", a.next), "p"), "1"), a.next), a, b)

\* Mutant of ConjunctionOn: the first value is not dropped before the second one.
ConjunctionKeeps(a, e, voids) ==
  ConjunctionEnd(a, Expr(Jump(Plain(NewLabel(a), "D"), "Z", a.next), e.b, voids))
ConjunctionOn(a, e, voids) ==
  ConjunctionEnd(a, Expr(Plain(Jump(Plain(NewLabel(a), "D"), "Z", a.next), "p"), e.b, voids))
Conjunction(g, e, voids) == ConjunctionOn(Expr(g, e.a, voids), e, voids)

DisjunctionZero(a, b) ==
  Jump(Plain(Jump(NewLabel(NoneVoid(a, b)), "B", a.next), "0"), "J", b.next)
DisjunctionEnd(a, b) ==
  BothFlags(Label(Plain(Label(DisjunctionZero(a, b), a.next), "1"), b.next), a, b)
DisjunctionOn(a, e, voids) == DisjunctionEnd(a, Expr(Jump(NewLabel(a), "B", a.next), e.b, voids))
Disjunction(g, e, voids) == DisjunctionOn(Expr(g, e.a, voids), e, voids)

\* The operations whose result is shown whatever their operands are.
Comparisons == {"=", "#", "<", "{", ">", "}"}

BinaryEnd(a, b, op) ==
  IF op \in Comparisons THEN Flags(Plain(NoneVoid(a, b), op), TRUE, FALSE)
  ELSE BothFlags(Plain(NoneVoid(a, b), op), a, b)
BinaryOn(a, e, voids) == BinaryEnd(a, Expr(a, e.b, voids), e.op)
Binary(g, e, voids) == BinaryOn(Expr(g, e.a, voids), e, voids)

\* A negation keeps the flags of what is negated; a function has its own.
UnaryOn(a, op) ==
  CASE op \in {"n", "!"} -> Plain(a, op)
    [] op \in {"cL", "cS", "cR"} -> Flags(Plain(a, op), TRUE, FALSE)
Unary(g, e, voids) == UnaryOn(NoVoid(Expr(g, e.e, voids)), e.op)

\* A call: one character for each argument, of which the last comes first.
CallOf(g, e, voids) ==
  LET kinds == [i \in 1 .. Len(e.args) |-> IF e.args[Len(e.args) + 1 - i].t = "array" THEN One1 ELSE Zero1]
  IN  Flags(Emit(Args(g, e.args, voids), <<"C">> \o NameBytes(e.f) \o kinds \o <<ColonByte>>), e.f \notin voids, e.f \in voids)

ConstBytes(digits) ==
  IF digits = <<0>> THEN <<"0">> ELSE IF digits = <<1>> THEN <<"1">> ELSE <<"K">> \o digits \o <<ColonByte>>

\* The decimal digits of an array's name: the code has a constant for it.
NameDigits(n) == IF n < 10 THEN <<n>> ELSE <<n \div 10, n % 10>>

ArgOf(g, a, voids) ==
  IF a.t = "array" THEN Emit(g, <<"K">> \o NameDigits(a.name) \o <<ColonByte>>) ELSE NoVoid(Expr(g, a, voids))
Args(g, args, voids) ==
  IF args = <<>> THEN g ELSE Args(ArgOf(g, Head(args), voids), Tail(args), voids)

\* After an error there is no more code: what follows makes no difference.
Expr(g, e, voids) ==
  IF g.err THEN g ELSE
  CASE e.t = "const" -> Flags(Emit(g, ConstBytes(e.digits)), TRUE, FALSE)
    [] e.t \in {"var", "arr"} -> Flags(OpOn(Target(g, e, voids), e, "l", "L"), TRUE, FALSE)
    [] e.t = "assign" -> Assignment(g, e, voids)
    [] e.t = "step" -> Stepped(g, e, voids)
    [] e.t = "and" -> Conjunction(g, e, voids)
    [] e.t = "or" -> Disjunction(g, e, voids)
    [] e.t = "bin" -> Binary(g, e, voids)
    [] e.t = "un" -> Unary(g, e, voids)
    [] e.t = "paren" -> [NoVoid(Expr(g, e.e, voids)) EXCEPT !.reg = TRUE]
    [] e.t = "call" -> CallOf(g, e, voids)

-----------------------------------------------------------------------------
(* Statements.                                                             *)

RECURSIVE Statement(_, _, _)
RECURSIVE Statements(_, _, _)
Statements(g, stmts, voids) ==
  IF stmts = <<>> \/ g.err THEN g ELSE Statements(Statement(g, Head(stmts), voids), Tail(stmts), voids)

\* The end of a loop: back, and the labels of the one around it.
LoopEnd(g, end) ==
  [Label(Jump(end, "J", end.continue), end.break) EXCEPT !.break = g.break, !.continue = g.continue]

\* The first and the last of the expressions in the head of a for, and the middle one.
ForPart(g, e, voids) == IF e = None THEN g ELSE Plain(NoVoid(Expr(g, e, voids)), "p")
ForTest(g, e, voids) == IF e = None THEN Plain(g, "1") ELSE NoVoid(Expr(g, e, voids))

\* The labels of a for: g.next is behind it, a.next its test, b.next its body and
\* the one after that its step, to which continue goes.
ForJumps(g, b) ==
  Label([Jump(Jump([b EXCEPT !.next = @ + 2], "B", b.next), "J", g.next) EXCEPT !.continue = b.next + 1], b.next + 1)
ForBody(g, a, b, s, voids) ==
  LoopEnd(g, Statement(Label(Jump(ForPart(ForJumps(g, b), s.c, voids), "J", a.next), b.next), s.s, voids))
ForTested(g, a, s, voids) == ForBody(g, a, ForTest(Label(NewLabel(a), a.next), s.b, voids), s, voids)
ForLoop(g, s, voids) == ForTested(g, ForPart([NewLabel(g) EXCEPT !.break = g.next], s.a, voids), s, voids)

WhileBody(g, e, s, voids) ==
  LoopEnd(g, Statement(Jump([NewLabel(e) EXCEPT !.break = e.next], "Z", e.next), s.s, voids))
WhileLoop(g, s, voids) ==
  WhileBody(g, NoVoid(Expr(Label([NewLabel(g) EXCEPT !.continue = g.next], g.next), s.e, voids)), s, voids)

ConditionEnd(g, end) == [Label(end, end.if) EXCEPT !.if = g.if]
ConditionElse(then, s, voids) ==
  IF ~s.else THEN then
  ELSE Statement([Label(Jump(NewLabel(then), "J", then.next), then.if) EXCEPT !.if = then.next], s.s2, voids)
ConditionThen(e, s, voids) == Statement(Jump([NewLabel(e) EXCEPT !.if = e.next], "Z", e.next), s.s, voids)
Condition(g, s, voids) ==
  ConditionEnd(g, ConditionElse(ConditionThen(NoVoid(Expr(g, s.e, voids)), s, voids), s, voids))

\* A return in a function; outside of one there is an error.
Returned(g, s, voids) ==
  IF s.e = None THEN Plain(Fault(Plain(g, "0"), g.cur = 0), "R")
  ELSE Plain(Fault(NoVoid(Expr(g, s.e, voids)), g.cur = 0 \/ g.cur \in voids), "R")

\* The value of an expression that is a statement is written or dropped.
ShownOrDropped(g) == Plain(g, IF g.reg THEN "W" ELSE "p")

Statement(g, s, voids) ==
  IF g.err THEN g ELSE
  CASE s.t = "expr" -> ShownOrDropped(Expr(g, s.e, voids))
    [] s.t = "print" -> Plain(NoVoid(Expr(g, s.e, voids)), "P")
    [] s.t = "break" -> IF g.break = 0 THEN Fault(g, TRUE) ELSE Jump(g, "J", g.break)
    [] s.t = "continue" -> IF g.continue = 0 THEN Fault(g, TRUE) ELSE Jump(g, "J", g.continue)
    [] s.t = "return" -> Returned(g, s, voids)
    [] s.t = "for" -> ForLoop(g, s, voids)
    [] s.t = "while" -> WhileLoop(g, s, voids)
    [] s.t = "if" -> Condition(g, s, voids)
    [] s.t = "block" -> Statements(g, s.s, voids)

Block(stmts) == [t |-> "block", s |-> stmts]

\* check_params: no name twice, and a star for parameters only.
ParamsOk(params, autos) ==
  LET all == params \o autos
  IN  /\ \A i, j \in DOMAIN all : i # j => all[i].name # all[j].name \/ all[i].array # all[j].array
      /\ \A i \in DOMAIN autos : ~autos[i].ref

\* f_void is set before the body is compiled.
VoidsWith(item, voids) == IF item.void THEN voids \cup {item.f} ELSE voids \ {item.f}

\* A line, and the function whose code an item defines.
CompileLine(item, voids) == Statements(GenInit, item.body, voids)
CompileFunction(item, voids) ==
  LET start == Fault([GenInit EXCEPT !.cur = item.f], ~ParamsOk(item.params, item.autos))
  IN  Emit(Statements(start, item.body, VoidsWith(item, voids)), <<"0", "R">>)
=============================================================================
