---------------------------- MODULE MCFrotzMachine ----------------------------
(***************************************************************************)
(* What a story sees of the Z-machine, one part to a behaviour: objects,   *)
(* text, dictionary, arithmetic and tables on stories of a few hundred     *)
(* bytes; instructions one after the other in stories of 200 bytes;        *)
(* routines on a stack of nine words, whose results go to the stack or to  *)
(* the first local variable; undo of six cells of a bit, of which the      *)
(* flags and two others are stored to.                                     *)
(***************************************************************************)
EXTENDS FrotzText, FrotzSaving, FrotzUndo, FrotzCode

Flat(s) == FoldLeft(LAMBDA a, b : a \o b, <<>>, s)
TwoBytes(w) == <<w \div 256, w % 256>>

\* The memory of a story with objects: defaults, entries, tables of properties.
MCLayout == << << <<5, 1>>, <<3, 2>>, <<1, 3>> >>, << <<31, 2>>, <<3, 1>> >>, << <<7, 8>>, <<2, 1>> >> >>
ObjectNames == << <<EmptyName>>, <<>>, <<6000, 39144>> >>
SizeBytes(v, p) == CASE v <= 3 -> <<32 * (p[2] - 1) + p[1]>>
                     [] v > 3 /\ p[2] <= 2 -> <<64 * (p[2] - 1) + p[1]>>
                     [] OTHER -> <<128 + p[1], 128 + (p[2] % 64)>>
PropertyTable(v, i) ==
  <<Len(ObjectNames[i])>> \o Flat([k \in DOMAIN ObjectNames[i] |-> TwoBytes(ObjectNames[i][k])])
  \o Flat([k \in DOMAIN MCLayout[i] |-> SizeBytes(v, MCLayout[i][k]) \o [j \in 1 .. MCLayout[i][k][2] |-> 0]]) \o <<0>>
TableOf(v, i) == 1 + (IF v <= 3 THEN 62 + 9 * 3 ELSE 126 + 14 * 3) + Len(Flat([k \in 1 .. i - 1 |-> PropertyTable(v, k)]))
Entry(v, i) == [k \in 1 .. (IF v <= 3 THEN 7 ELSE 12) |-> 0] \o TwoBytes(TableOf(v, i))
MCMemory(v) == Flat([n \in 1 .. (IF v <= 3 THEN 31 ELSE 63) |-> TwoBytes(1000 + n)])
               \o Flat([i \in 1 .. 3 |-> Entry(v, i)]) \o Flat([i \in 1 .. 3 |-> PropertyTable(v, i)])
MCAttrs == {<<1, 31>>, <<2, 47>>, <<0, 1>>}
MCProps == {<<1, 3, 772>>, <<1, 5, 258>>, <<3, 1, 1>>, <<0, 1, 1>>}

Words(C, n) == UNION {[1 .. k -> C] : k \in 1 .. n}
\* a, z, A, 3, a letter with dots, one with no place, one from another script
MCWords == Words({97, 65, 51, 228, 64}, 3) \cup Words({97, 1046}, 3) \cup Words({97, 65}, 6) \cup {<<1101, 97, 1194, 228>>, <<97, 97, 97, 97, 97, 97, 97, 65>>}
DictionaryWords == << <<97>>, <<97, 122>>, <<97, 122, 122>>, <<98>>, <<102, 111>>, <<102, 111, 97, 108>>, <<102, 111, 108, 108, 111, 119>>,
                      <<102, 111, 108, 108, 121>>, <<102, 111, 122, 122, 121>> >>
MCLookups == Words({97, 98, 122}, 3) \cup UNION {{SubSeq(w, 1, n) : n \in 2 .. Len(w)} : w \in Range(DictionaryWords)} \cup Range(DictionaryWords)
             \cup {<<103>>, <<111, 108>>}
MCCodes == Words({1, 4, 5, 6, 9, 31}, 3) \cup Words({1, 5, 9}, 4)
MCLines == Words({98, 32, 44}, 3) \cup Words({97, 98}, 2) \cup {<<97, 98, 32, 97, 44, 98>>, <<44, 44, 44, 44, 97>>, <<32, 97, 32, 98, 32, 122, 32, 97>>}
MCLeftovers == {<<>>, <<120, 120, 120, 97, 98, 97>>}
MCLowerCase == {<<65, 97>>, <<90, 122>>, <<192, 224>>, <<222, 254>>, <<256, 257>>, <<310, 311>>, <<313, 314>>, <<330, 331>>, <<374, 375>>,
                <<377, 378>>, <<381, 382>>, <<376, 255>>, <<902, 940>>, <<905, 942>>, <<908, 972>>, <<911, 974>>, <<913, 945>>, <<939, 971>>,
                <<1025, 1105>>, <<1039, 1119>>, <<1040, 1072>>, <<1071, 1103>>, <<215, 215>>, <<247, 247>>}

Abbreviated(k) == CASE k % 3 = 0 -> PackedWords(<<6, 7, 5>>) [] k % 3 = 1 -> PackedWords(<<0, 31, 5, 10, 5, 4>>) [] OTHER -> PackedWords(<<5, 8, 6>>)
Plain == [alphabet |-> <<>>, unicode |-> <<>>, expand |-> TRUE, abbreviations |-> [k \in 0 .. 31 |-> Abbreviated(k)]]
Own == [Plain EXCEPT !.unicode = <<1046, 228, 9>> \o [k \in 1 .. 94 |-> 1100 + k], !.expand = FALSE,
        !.alphabet = [k \in 1 .. 78 |-> IF k <= 26 THEN 123 - k ELSE IF k <= 52 THEN 91 - (k - 26) ELSE (k - 53) + 32]]
Dict(words, sorted) == [separators |-> {44}, sorted |-> sorted,
                        entries |-> [i \in DOMAIN words |-> Encode(LoadString(words[i]), 5)]]
MCDicts == {Dict(DictionaryWords, TRUE), Dict(Reverse(SubSeq(DictionaryWords, 2, 9)), FALSE), Dict(<<DictionaryWords[4]>>, TRUE)}

MCVariable == 3 :> 0 @@ 600 :> 1

MCCells == 1 .. 6
MCBytes == {0, 1}
\* undo_diff has room for 3 bytes for 2 cells, and 2 more.
MCDiffs == {d \in Seq(0 .. 3) : Len(d) <= 11}
MCStories == {[c \in 1 .. 6 |-> 0], [c \in 1 .. 6 |-> c % 2]}

\* Stories instructions are executed in: two globals, a stack of the game's own
\* with a word on it, two routines, and what is none.
PackedAt(v, at) == CASE v <= 3 -> at \div 2 [] v \in {4, 5} -> at \div 4 [] v \in {6, 7} -> (at - 8) \div 4 [] OTHER -> at \div 8
MCVersions == {3, 5, 6, 8}
MCRoutines == [v \in MCVersions |->
  PackedAt(v, 40) :> [at |-> 40, code |-> IF v <= 4 THEN 45 ELSE 41, locals |-> IF v <= 4 THEN <<500, 3>> ELSE <<0, 0>>]
  @@ PackedAt(v, 32) :> [at |-> 32, code |-> 33, locals |-> [i \in 1 .. 16 |-> 0]]
  @@ PackedAt(v, 80) :> [at |-> 80, code |-> 81, locals |-> <<>>]]
MCCodeMemories == [v \in MCVersions |->
  [a \in 1 .. 200 |-> CASE a = 6 -> 7 [] a = 7 -> 255 [] a = 8 -> 254 [] a = 10 -> 1 [] a = 14 -> 77
                        [] a = 33 -> 16 [] a = 41 -> 2 [] v <= 4 /\ a = 42 -> 1 [] v <= 4 /\ a = 43 -> 244 [] v <= 4 /\ a = 45 -> 3 [] OTHER -> 0]]

\* Their instructions: ToVar, OnIf and For say where the result goes, when it
\* branches and for which versions it is.
Ins(op, n, form, args) == [op |-> op, n |-> n, form |-> form, args |-> args, to |-> -1, branch |-> <<>>, versions |-> {3, 5, 6}]
ToVar(i, v) == [i EXCEPT !.to = v]
OnIf(i, b) == [i EXCEPT !.branch = b]
For(i, vs) == [i EXCEPT !.versions = vs]
OfByte(n) == <<"small", n>>
OfWord(n) == <<"large", n>>
OfVar(v) == <<"var", v>>
MCPrologue == [v \in MCVersions |->
  << ToVar(Ins("call_s", 32, "var", <<OfWord(PackedAt(v, 40)), OfWord(65533)>>), 17),
     Ins("push", 40, "var", <<OfWord(300)>>), Ins("push", 40, "var", <<OfByte(1)>>) >>]
MCBranches == {<<TRUE, TRUE, 5>>, <<FALSE, TRUE, 60>>, <<TRUE, FALSE, -20>>, <<FALSE, TRUE, 0>>, <<TRUE, TRUE, 1>>}
Sums ==
  {ToVar(Ins(o[1], o[2], p[1], p[2]), v) : o \in {<<"add", 20>>, <<"sub", 21>>}, v \in {0, 2},
     p \in {<<"long", <<OfVar(0), OfVar(0)>>>>, <<"long", <<OfByte(7), OfVar(1)>>>>, <<"var", <<OfWord(65533), OfVar(16)>>>>}}
  \cup {ToVar(Ins(o[1], o[2], "long", <<OfVar(0), OfByte(6)>>), 16) : o \in {<<"mul", 22>>, <<"mod", 24>>, <<"or", 8>>, <<"and", 9>>}}
  \cup {ToVar(Ins("div", 23, "long", <<OfByte(9), a>>), 0) : a \in {OfByte(0), OfVar(2)}}
  \cup {For(ToVar(Ins("not", 15, "short", <<OfVar(0)>>), 1), {3}), For(ToVar(Ins("not", 56, "var", <<OfVar(0)>>), 1), {5})}
  \cup {For(ToVar(Ins(o[1], o[2], "ext", <<OfVar(0), OfWord(65535)>>), 0), {5}) : o \in {<<"log_shift", 2>>, <<"art_shift", 3>>}}
Branches ==
  {OnIf(Ins("je", 1, "var", <<OfByte(1), OfVar(0), OfVar(0), OfVar(16)>>), b) : b \in MCBranches}
  \cup {OnIf(Ins(o[1], o[2], "long", <<OfVar(1), OfVar(0)>>), b) : o \in {<<"jl", 2>>, <<"jg", 3>>}, b \in {<<FALSE, FALSE, 30>>, <<TRUE, TRUE, 0>>}}
  \cup {OnIf(Ins("jz", 0, "short", <<OfVar(0)>>), <<TRUE, TRUE, 20>>), OnIf(Ins("test", 7, "long", <<OfVar(0), OfByte(1)>>), <<TRUE, FALSE, 8191>>)}
  \cup {OnIf(Ins(o[1], o[2], "long", <<OfByte(v), OfByte(1)>>), <<TRUE, TRUE, 9>>) : o \in {<<"dec_chk", 4>>, <<"inc_chk", 5>>}, v \in {0, 1, 16}}
  \cup {OnIf(Ins("check_arg_count", 63, "var", <<OfByte(n)>>), <<TRUE, TRUE, 12>>) : n \in {1, 2}}
  \cup {Ins("jump", 12, "short", <<OfWord(65526)>>), Ins("jump", 12, "short", <<OfWord(12)>>)}
VariableIns ==
  {Ins(o[1], o[2], "short", <<a>>) : o \in {<<"inc", 5>>, <<"dec", 6>>}, a \in {OfByte(0), OfByte(2), OfByte(17), OfVar(0)}}
  \cup {ToVar(Ins("load", 14, "short", <<a>>), 0) : a \in {OfByte(0), OfByte(1), OfVar(0)}}
  \cup {Ins("store", 13, "var", <<OfByte(v), a>>) : v \in {0, 1, 16}, a \in {OfWord(40000), OfVar(0)}}
  \cup {Ins("push", 40, "var", <<a>>) : a \in {OfByte(9), OfVar(0)}} \cup {For(Ins("pop", 9, "none", <<>>), {3})}
  \cup {For(Ins("pull", 41, "var", <<a>>), {3, 5}) : a \in {OfByte(0), OfByte(2), OfVar(0)}}
  \cup {For(ToVar(Ins("pull", 41, "var", a), 0), {6}) : a \in {<<>>, <<OfByte(UserStack)>>}}
  \cup {For(OnIf(Ins("push_stack", 24, "ext", <<a, OfByte(UserStack)>>), <<TRUE, TRUE, 6>>), {6}) : a \in {OfByte(5), OfVar(0)}}
  \cup {For(Ins("pop_stack", 21, "ext", a), {6}) : a \in {<<OfByte(2)>>, <<OfVar(0)>>, <<OfByte(1), OfByte(UserStack)>>}}
CallsIn(v) ==
  {ToVar(Ins("call_s", 44, "double", <<OfWord(PackedAt(v, 40)), OfVar(0), OfByte(4), OfVar(0), OfByte(6), OfByte(7)>>), 0),
   ToVar(Ins("call_s", 25, "long", <<OfByte(PackedAt(v, 40)), OfVar(0)>>), 1), ToVar(Ins("call_s", 8, "short", <<OfWord(PackedAt(v, 80))>>), 16),
   ToVar(Ins("call_s", 32, "var", <<OfByte(0), OfVar(0)>>), 0), ToVar(Ins("call_s", 32, "var", <<OfWord(30000)>>), 0)}
  \cup (IF v = 3 THEN {} ELSE {Ins("call_n", 57, "var", <<OfWord(PackedAt(v, 80)), OfVar(0)>>), Ins("call_n", 15, "short", <<OfByte(PackedAt(v, 40))>>),
                                Ins("call_n", 26, "long", <<OfByte(PackedAt(v, 32)), OfVar(0)>>)})
Others == {Ins("ret", 11, "short", <<OfVar(2)>>), Ins("ret_popped", 8, "none", <<>>), Ins("rtrue", 0, "none", <<>>), Ins("rfalse", 1, "none", <<>>),
           Ins("nop", 4, "none", <<>>), Ins("quit", 10, "none", <<>>), Ins("illegal", 0, "var", <<>>), For(Ins("reserved", 29, "ext", <<OfVar(0)>>), {5})}
MCInstructions == Sums \cup Branches \cup VariableIns \cup UNION {{For(i, {v}) : i \in CallsIn(v)} : v \in MCVersions}
                  \cup {[i EXCEPT !.versions = @ \cup {8}] : i \in Others}

MCSavePlays ==
  {Ins("inc", 5, "short", <<OfByte(16)>>), Ins("push", 40, "var", <<OfWord(300)>>), Ins("store", 13, "var", <<OfByte(1), OfVar(0)>>),
   Ins("ret", 11, "short", <<OfVar(2)>>), For(Ins("call_n", 57, "var", <<OfWord(PackedAt(5, 40)), OfByte(9)>>), {5})}
MCIdentity == <<0, 7, 56, 55, 48, 54, 48, 52, 1, 200>>

VARIABLE part
worldVars == <<dictVars, objVars, mathVars, rndVars, tbVars>>
InPart(p) == part = p /\ UNCHANGED part

MCInit ==
  /\ part \in {"math", "random", "tables", "objects", "words", "codes", "pairs", "lines", "code", "saving", "stack", "undo"}
  /\ version \in (CASE part = "objects" -> {3, 4} [] part \in {"words", "lines"} -> {3, 5} [] part = "codes" -> {1, 2, 3} [] OTHER -> {3})
  /\ story \in (IF part = "words" THEN {Plain, Own} ELSE {Plain})
  /\ mem = MCMemory(version) /\ fatal = 0
  /\ txDicts = (CASE part = "words" /\ story = Plain -> MCDicts
                  [] part = "lines" -> {Dict(DictionaryWords, TRUE), Dict(<<DictionaryWords[4]>>, TRUE)}
                  [] OTHER -> {})
  /\ txWord = <<>> /\ txCode = <<>> /\ txLine = <<>>
  /\ txParse = EmptyParse
  /\ IF part = "math" THEN MathInit ELSE mathArgs = <<0, 1, 0>>
  /\ RndInit /\ TbInit
  /\ IF part = "code" THEN CodeInit ELSE cvm = <<>> /\ cvMeant = <<>> /\ cvSteps = 0
  /\ IF part = "saving" THEN SavingInit ELSE svm = <<>> /\ svFile = <<>> /\ svSaved = <<>> /\ svWhole = FALSE /\ svDid = <<>> /\ svSteps = 0
  /\ StackInit /\ (part # "stack" => pc = 3)
  /\ Init /\ (part # "undo" => regs = (CHOOSE r \in Regs : TRUE) /\ zmp = [c \in Cells |-> 0] /\ undo_slots = 0)

ObjectsPart == InPart("objects") /\ ObjNext /\ UNCHANGED <<dictVars, mathVars, rndVars, tbVars>>
\* A word, a text or a line is chosen first.
Choose ==
  /\ \/ InPart("words") /\ txWord = <<>> /\ txWord' \in TextWords \cup (IF story = Plain THEN MCLookups ELSE {}) /\ UNCHANGED <<txCode, txLine>>
     \/ InPart("pairs") /\ txWord = <<>> /\ txWord' \in LowerCase /\ UNCHANGED <<txCode, txLine>>
     \/ InPart("codes") /\ txCode = <<>> /\ txCode' \in TextCodes /\ UNCHANGED <<txWord, txLine>>
     \/ InPart("lines") /\ txLine = <<>> /\ txLine' \in TextLines /\ UNCHANGED <<txWord, txCode>>
  /\ UNCHANGED <<story, txParse, txDicts, objVars, mathVars, rndVars, tbVars>>
LinesPart == InPart("lines") /\ txLine # <<>> /\ ZTokenise /\ UNCHANGED <<objVars, mathVars, rndVars, tbVars>>
RandomPart == InPart("random") /\ MathNext /\ UNCHANGED <<dictVars, objVars, mathVars, tbVars>>
TablesPart == InPart("tables") /\ ZCopyTable /\ UNCHANGED <<dictVars, objVars, mathVars, rndVars>>

CodePart == InPart("code") /\ CodeNext /\ UNCHANGED <<worldVars, savingVars, stackVars, vars>>
SavingPart == InPart("saving") /\ SavingNext /\ UNCHANGED <<worldVars, codeVars, stackVars, vars>>
WorldPart == (Choose \/ ObjectsPart \/ LinesPart \/ RandomPart \/ TablesPart) /\ UNCHANGED <<codeVars, savingVars, stackVars, vars>>
StackPart == InPart("stack") /\ StackNext /\ UNCHANGED <<worldVars, codeVars, savingVars, vars>>
UndoPart == InPart("undo") /\ Next /\ UNCHANGED <<worldVars, codeVars, savingVars, stackVars>>

MCSpec == MCInit /\ [][WorldPart \/ CodePart \/ SavingPart \/ StackPart \/ UndoPart]_<<part, worldVars, codeVars, savingVars, stackVars, vars>>

-----------------------------------------------------------------------------
\* However they are encoded and follow one another, instructions do what they
\* mean to variables, frames and program counter (process.c, variable.c).
InstructionsAreMeant == part = "code" => CodeIsMeant /\ FramesAreCounted

\* The bytes of the objects are one forest with one list of properties each,
\* and their names stay readable, after any sequence of operations (object.c).
ObjectsAreWhole == part = "objects" => ParentsAgree /\ PropertiesAreListed /\ NamesStay

\* The words of 16 bits do what signed numbers do: quotients and rests, shifts,
\* what print_num shows of them, and the counter of random numbers; copy_table
\* and scan_table do to tables what they do to sequences (math.c, random.c,
\* table.c, text.c).
WordsAndTables == /\ QuotientAndRest /\ ShiftsAgree /\ NumbersAreShown /\ CounterBelowSeed
                  /\ part = "tables" => CopiesAreWhole /\ ScansFindFirst

\* What is encoded is read back, what is in the dictionary is found, and a line
\* is all its words (text.c).
TextIsReadBack == /\ WordsAreReadBack /\ CheckedComesBack /\ AbbreviationsAreText /\ PairsAreLowered
                  /\ LookupFinds /\ LineIsTokens /\ CompletionIsCommon
=============================================================================
