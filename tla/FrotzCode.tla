----------------------------- MODULE FrotzCode -----------------------------
(***************************************************************************)
(* Instructions (process.c, variable.c): how the bytes at the program      *)
(* counter are decoded, where operands come from and results go to, and    *)
(* branches.  The state of the machine is a record `m`: its memory, with   *)
(* code and the global variables in it, pc, fp and the stack as words from *)
(* the bottom, and zargs.  What other modules model of routines (throw,    *)
(* nested loops) is left to them; m.over is the end of the game or a fatal *)
(* error.                                                                  *)
(***************************************************************************)
EXTENDS FrotzMath, FiniteSetsExt

CONSTANTS CodeMemories,   \* for each version, the memory of a story
          CodeStack,      \* STACK_SIZE
          CodeGlobals,    \* z_header.globals; two of them are used
          CodeOffset,     \* z_header.functions_offset
          UserStack, UserSlots,   \* address and size of a stack of the game's own
          Routines,       \* for each version and packed address, where a routine is
          StartPc,        \* where the code begins
          Prologue,       \* what is executed first, and then
          Instructions,
          CodeSteps       \* bound: instructions one after the other
ASSUME CodeAssumption == /\ CodeStack \in Nat /\ {CodeGlobals, CodeOffset, UserStack, UserSlots, StartPc, CodeSteps} \subseteq Nat
                         /\ \A v \in DOMAIN CodeMemories : v \in 1 .. 8 /\ Range(CodeMemories[v]) \subseteq 0 .. 255

\* Bytes and words of memory
ByteAt(m, a) == m.mem[a + 1]
CodeWord(m, a) == 256 * ByteAt(m, a) + ByteAt(m, a + 1)
PutWord(m, a, w) == [m EXCEPT !.mem[a + 1] = w \div 256, !.mem[a + 2] = w % 256]
CodeByte(m) == ByteAt(m, m.pc)
Stepped(m, n) == [m EXCEPT !.pc = @ + n]
Failed(m) == [m EXCEPT !.over = "error"]

\* Variables: 0 is the stack, then the locals, then the globals.
Global(v) == CodeGlobals + 2 * (v - 16)
Slot(m, v) == CodeStack - m.fp + v       \* *(fp - v), from the bottom
InPlace(m, v) == CASE v = 0 -> Last(m.stack) [] v \in 1 .. 15 -> m.stack[Slot(m, v)] [] OTHER -> CodeWord(m, Global(v))
PutInPlace(m, v, w) ==
  CASE v = 0 -> [m EXCEPT !.stack[Len(m.stack)] = w]
    [] v \in 1 .. 15 -> [m EXCEPT !.stack[Slot(m, v)] = w]
    [] OTHER -> PutWord(m, Global(v), w)
Dropped(m, n) == [m EXCEPT !.stack = SubSeq(@, 1, Len(@) - n)]
Pushed(m, w) == [m EXCEPT !.stack = Append(@, w)]

-----------------------------------------------------------------------------
(* Operands, results and branches.                                         *)

Loaded(m, w) == [m EXCEPT !.zargs = Append(@, w)]
LoadOperandKept(m, type) == \* the stack left as it is
  CASE (type \div 2) % 2 = 1 -> Loaded(Stepped(m, 1), InPlace(m, CodeByte(m)))
    [] type % 4 = 1 -> Loaded(Stepped(m, 1), CodeByte(m))
    [] OTHER -> Loaded(Stepped(m, 2), CodeWord(m, m.pc))
LoadOperand(m, type) ==
  CASE (type \div 2) % 2 = 1 -> Loaded(Dropped(Stepped(m, 1), IF CodeByte(m) = 0 THEN 1 ELSE 0), InPlace(m, CodeByte(m)))
    [] type % 4 = 1 -> Loaded(Stepped(m, 1), CodeByte(m))
    [] OTHER -> Loaded(Stepped(m, 2), CodeWord(m, m.pc))
Types(specifier) == <<specifier \div 64, (specifier \div 16) % 4, (specifier \div 4) % 4, specifier % 4>>
LoadAllOperands(m, specifier) ==
  FoldLeft(LoadOperand, m, SubSeq(Types(specifier), 1, Min({5} \cup {i \in 1 .. 4 : Types(specifier)[i] = 3}) - 1))

StoreResult(m, w) == IF CodeByte(m) = 0 THEN Pushed(Stepped(m, 1), w) ELSE PutInPlace(Stepped(m, 1), CodeByte(m), w)

\* ret: the four words of the frame, and where the caller goes on.
Returned(m, words, value) ==
  LET n == [m EXCEPT !.fp = 1 + words[2], !.pc = 512 * words[4] + words[3],
                     !.stack = SubSeq(@, 1, CodeStack - m.fp - 4), !.frame_count = @ - 1]
  IN IF words[1] \div 4096 = 0 THEN StoreResult(n, value) ELSE n
CodeRet(m, value) == \* below its frame there is nothing to return from
  IF Len(m.stack) < CodeStack - m.fp THEN Failed(m)
  ELSE Returned(m, [k \in 1 .. 4 |-> m.stack[CodeStack - m.fp - k + 1]], value)

\* An offset of 14 bits, or one of 6 that has no sign
LongOffset(m) == (IF CodeByte(m) % 64 >= 32 THEN (CodeByte(m) % 64) + 192 ELSE CodeByte(m) % 64) * 256 + ByteAt(m, m.pc + 1)
Jumped(m, offset) == [m EXCEPT !.pc = @ + Signed(offset) - 2]
BranchedAlways(m, taken, offset) == IF taken THEN Jumped(m, offset) ELSE m   \* 0 and 1 are offsets like others
Branched(m, taken, offset) ==
  CASE ~taken -> m
    [] taken /\ offset > 1 -> Jumped(m, offset)
    [] OTHER -> CodeRet(m, offset)
Branch(m, flag) ==
  LET taken == (CodeByte(m) >= 128) = flag
  IN IF (CodeByte(m) \div 64) % 2 = 1 THEN Branched(Stepped(m, 1), taken, CodeByte(m) % 64)
     ELSE Branched(Stepped(m, 2), taken, LongOffset(m))

\* call: the address of the routine is packed; up to version 4 the code has a
\* value for each of its local variables.
RoutineAt(m, routine) ==
  CASE m.version <= 3 -> 2 * routine
    [] m.version \in {4, 5} -> 4 * routine
    [] m.version \in {6, 7} -> 4 * routine + 8 * CodeOffset
    [] OTHER -> 8 * routine
LocalValue(m, args, i) == CASE i <= Len(args) -> args[i] [] i > Len(args) /\ m.version <= 4 -> CodeWord(m, m.pc + 2 * i - 1) [] OTHER -> 0
Entered(m, args, count) == \* m.pc is at the count of the locals
  [m EXCEPT !.stack = [@ EXCEPT ![Len(@)] = @ + 256 * count] \o [i \in 1 .. count |-> LocalValue(m, args, i)],
            !.pc = @ + 1 + (IF m.version <= 4 THEN 2 * count ELSE 0)]
Linked(m, args, kind) ==
  [m EXCEPT !.stack = @ \o <<m.pc \div 512, m.pc % 512, m.fp - 1, Len(args) + 4096 * kind>>,
            !.fp = CodeStack - Len(m.stack) - 4, !.frame_count = @ + 1]
EnteredIn(m, args) ==
  CASE CodeByte(m) > 15 \/ CodeStack - Len(m.stack) < CodeByte(m) -> Failed(m)
    [] OTHER -> Entered(m, args, CodeByte(m))
CodeCall(m, routine, args, kind) ==
  CASE CodeStack - Len(m.stack) < 4 -> Failed(m)
    [] CodeStack - Len(m.stack) >= 4 /\ RoutineAt(m, routine) >= Len(m.mem) -> Failed(Linked(m, args, kind))
    [] OTHER -> EnteredIn([Linked(m, args, kind) EXCEPT !.pc = RoutineAt(m, routine)], args)

-----------------------------------------------------------------------------
(* The instructions on variables: those that name one take it in place.    *)

Changed(m, by) == PutInPlace(m, m.zargs[1], Word(InPlace(m, m.zargs[1]) + by))
ZDec(m) == Changed(m, -1)
ZInc(m) == Changed(m, 1)
ZDecChk(m) == Branch(Changed(m, -1), Signed(Word(InPlace(m, m.zargs[1]) - 1)) < Signed(m.zargs[2]))
ZIncChk(m) == Branch(Changed(m, 1), Signed(Word(InPlace(m, m.zargs[1]) + 1)) > Signed(m.zargs[2]))
ZLoad(m) == StoreResult(m, InPlace(m, m.zargs[1]))
ZStore(m) == PutInPlace(m, m.zargs[1], m.zargs[2])
ZPush(m) == Pushed(m, m.zargs[1])
ZPop(m) == Dropped(m, 1)

\* A stack of the game's own begins with the number of words that are free.
Freed(m, table, n) == PutWord(m, table, Word(CodeWord(m, table) + n))
ZPopStack(m) == IF Len(m.zargs) = 2 THEN Freed(m, m.zargs[2], m.zargs[1]) ELSE Dropped(m, m.zargs[1])
ZPushStack(m) ==
  LET table == m.zargs[2]
      size == CodeWord(m, table)
  IN IF size = 0 THEN Branch(m, FALSE)
     ELSE Branch(PutWord(PutWord(m, table + 2 * size, m.zargs[1]), table, size - 1), size - 1 # 0)
ZPull(m) ==
  CASE m.version # 6 -> PutInPlace(Dropped(m, 1), m.zargs[1], Last(m.stack))
    [] m.version = 6 /\ Len(m.zargs) = 1 -> StoreResult(Freed(m, m.zargs[1], 1), CodeWord(m, m.zargs[1] + 2 * (CodeWord(m, m.zargs[1]) + 1)))
    [] OTHER -> StoreResult(Dropped(m, 1), Last(m.stack))

ZCallS(m) == IF m.zargs[1] # 0 THEN CodeCall(m, m.zargs[1], Tail(m.zargs), 0) ELSE StoreResult(m, 0)
ZCallN(m) == IF m.zargs[1] # 0 THEN CodeCall(m, m.zargs[1], Tail(m.zargs), 1) ELSE m
ZCheckArgCount(m) ==
  Branch(m, IF m.fp = CodeStack THEN m.zargs[1] = 0 ELSE m.zargs[1] <= m.stack[CodeStack - m.fp] % 256)
ZJump(m) == IF Jumped(m, m.zargs[1]).pc >= Len(m.mem) THEN Failed(m) ELSE Jumped(m, m.zargs[1])
ZRetPopped(m) == CodeRet(Dropped(m, 1), Last(m.stack))
Divided(m, result) == IF m.zargs[2] = 0 THEN Failed(m) ELSE StoreResult(m, result)

-----------------------------------------------------------------------------
(* The tables of instructions, and the loop.                               *)

Op0Opcodes(m) ==
  <<"rtrue", "rfalse", "print", "print_ret", "nop", "save", "restore", "restart", "ret_popped",
    IF m.version <= 4 THEN "pop" ELSE "catch", "quit", "new_line", "show_status", "verify", "extended", "piracy">>
Op1Opcodes(m) ==
  <<"jz", "get_sibling", "get_child", "get_parent", "get_prop_len", "inc", "dec", "print_addr", "call_s", "remove_obj", "print_obj",
    "ret", "jump", "print_paddr", "load", IF m.version <= 4 THEN "not" ELSE "call_n">>
VarOpcodes ==
  <<"illegal", "je", "jl", "jg", "dec_chk", "inc_chk", "jin", "test", "or", "and", "test_attr", "set_attr", "clear_attr", "store",
    "insert_obj", "loadw", "loadb", "get_prop", "get_prop_addr", "get_next_prop", "add", "sub", "mul", "div", "mod", "call_s", "call_n",
    "set_colour", "throw", "illegal", "illegal", "illegal", "call_s", "storew", "storeb", "put_prop", "read", "print_char", "print_num",
    "random", "push", "pull", "split_window", "set_window", "call_s", "erase_window", "erase_line", "set_cursor", "get_cursor",
    "set_text_style", "buffer_mode", "output_stream", "input_stream", "sound_effect", "read_char", "scan_table", "not", "call_n", "call_n",
    "tokenise", "encode_text", "copy_table", "print_table", "check_arg_count">>
ExtOpcodes ==
  <<"save", "restore", "log_shift", "art_shift", "set_font", "draw_picture", "picture_data", "erase_picture", "set_margins", "save_undo",
    "restore_undo", "print_unicode", "check_unicode", "set_true_colour", "illegal", "illegal", "move_window", "window_size",
    "window_style", "get_wind_prop", "scroll_window", "pop_stack", "read_mouse", "mouse_window", "push_stack", "put_wind_prop",
    "print_form", "make_menu", "picture_table">>

\* Those that branch or store what math.c works out, and the others
Compares(m, name) ==
  CASE name = "je" -> Branch(m, ZJe(m.zargs))
    [] name = "jl" -> Branch(m, ZJl(m.zargs[1], m.zargs[2]))
    [] name = "jg" -> Branch(m, ZJg(m.zargs[1], m.zargs[2]))
    [] name = "jz" -> Branch(m, ZJz(m.zargs[1]))
    [] OTHER -> Branch(m, ZTest(m.zargs[1], m.zargs[2]))
Computes(m, name) ==
  CASE name = "add" -> StoreResult(m, ZAdd(m.zargs[1], m.zargs[2]))
    [] name = "sub" -> StoreResult(m, ZSub(m.zargs[1], m.zargs[2]))
    [] name = "mul" -> StoreResult(m, ZMul(m.zargs[1], m.zargs[2]))
    [] name = "div" -> Divided(m, ZDiv(m.zargs[1], m.zargs[2]))
    [] name = "mod" -> Divided(m, ZMod(m.zargs[1], m.zargs[2]))
    [] name = "or" -> StoreResult(m, ZOr(m.zargs[1], m.zargs[2]))
    [] name = "and" -> StoreResult(m, ZAnd(m.zargs[1], m.zargs[2]))
    [] name = "not" -> StoreResult(m, ZNot(m.zargs[1]))
    [] name = "log_shift" -> StoreResult(m, ZLogShift(m.zargs[1], m.zargs[2]))
    [] OTHER -> StoreResult(m, ZArtShift(m.zargs[1], m.zargs[2]))
Executed(m, name) ==
  CASE name \in {"je", "jl", "jg", "jz", "test"} -> Compares(m, name)
    [] name \in {"add", "sub", "mul", "div", "mod", "or", "and", "not", "log_shift", "art_shift"} -> Computes(m, name)
    [] name = "dec" -> ZDec(m) [] name = "inc" -> ZInc(m) [] name = "dec_chk" -> ZDecChk(m) [] name = "inc_chk" -> ZIncChk(m)
    [] name = "load" -> ZLoad(m) [] name = "store" -> ZStore(m)
    [] name = "push" -> ZPush(m) [] name = "pop" -> ZPop(m) [] name = "pull" -> ZPull(m)
    [] name = "pop_stack" -> ZPopStack(m) [] name = "push_stack" -> ZPushStack(m)
    [] name = "call_s" -> ZCallS(m) [] name = "call_n" -> ZCallN(m) [] name = "check_arg_count" -> ZCheckArgCount(m)
    [] name = "ret" -> CodeRet(m, m.zargs[1]) [] name = "ret_popped" -> ZRetPopped(m)
    [] name = "rtrue" -> CodeRet(m, 1) [] name = "rfalse" -> CodeRet(m, 0)
    [] name = "jump" -> ZJump(m) [] name = "quit" -> [m EXCEPT !.over = "quit"]
    [] name = "illegal" -> Failed(m)
    [] OTHER -> m   \* nop, and what other modules model
SpecifiedOnce(m) == LoadAllOperands(Stepped(m, 1), CodeByte(m))
SpecifiedTwice(m) == LoadAllOperands(LoadAllOperands(Stepped(m, 2), CodeByte(m)), ByteAt(m, m.pc + 1))
Specified(m, opcode) == IF opcode \in {236, 250} THEN SpecifiedTwice(m) ELSE SpecifiedOnce(m)
Extended(m, opcode) ==
  IF opcode < 29 THEN Executed(SpecifiedOnce(Stepped(m, 1)), ExtOpcodes[opcode + 1]) ELSE SpecifiedOnce(Stepped(m, 1))
Decoded(m, opcode) ==
  CASE opcode < 128 ->
         Executed(LoadOperand(LoadOperand(m, IF (opcode \div 64) % 2 = 1 THEN 2 ELSE 1), IF (opcode \div 32) % 2 = 1 THEN 2 ELSE 1),
                  VarOpcodes[(opcode % 32) + 1])
    [] opcode \in 128 .. 175 -> Executed(LoadOperand(m, opcode \div 16), Op1Opcodes(m)[(opcode % 16) + 1])
    [] opcode = 190 -> Extended(m, CodeByte(m))
    [] opcode \in 176 .. 191 \ {190} -> Executed(m, Op0Opcodes(m)[opcode - 175])
    [] OTHER -> Executed(Specified(m, opcode), VarOpcodes[opcode - 191])
\* One turn of the loop of interpret
Interpret(m) == Decoded([Stepped(m, 1) EXCEPT !.zargs = <<>>], CodeByte(m))

-----------------------------------------------------------------------------
(* What instructions mean.  An instruction is a record: op and its number  *)
(* n, its form, its operands, the variable `to` of its result (or -1), and *)
(* <<on, short, offset>> when it branches.  The game it is executed in is  *)
(* a record too: frames with locals and values of their own, the global    *)
(* variables, the words on the stack of the game's own, top first.         *)

OneIf(b) == IF b THEN 1 ELSE 0
Kinds == [large |-> 0, small |-> 1, var |-> 2]
OperandBytes(arg) == IF arg[1] = "large" THEN <<arg[2] \div 256, arg[2] % 256>> ELSE <<arg[2]>>
SpecifierOf(args) == FoldLeft(LAMBDA a, i : 4 * a + (IF i <= Len(args) THEN Kinds[args[i][1]] ELSE 3), 0, <<1, 2, 3, 4>>)
Specifiers(ins) ==
  CASE ins.form = "long" -> <<ins.n + 64 * OneIf(ins.args[1][1] = "var") + 32 * OneIf(ins.args[2][1] = "var")>>
    [] ins.form = "short" -> <<128 + 16 * Kinds[ins.args[1][1]] + ins.n>>
    [] ins.form = "none" -> <<176 + ins.n>>
    [] ins.form = "ext" -> <<190, ins.n, SpecifierOf(ins.args)>>
    [] ins.form = "double" -> <<192 + ins.n, SpecifierOf(ins.args), SpecifierOf(SubSeq(ins.args, 5, Len(ins.args)))>>
    [] OTHER -> <<192 + ins.n, SpecifierOf(ins.args)>>
BranchBytes(on, short, offset) ==
  IF short THEN <<128 * OneIf(on) + 64 + offset>> ELSE <<128 * OneIf(on) + ((offset % 16384) \div 256), offset % 256>>
Assembled(ins) ==
  Specifiers(ins) \o FoldLeft(LAMBDA a, arg : a \o OperandBytes(arg), <<>>, ins.args)
  \o (IF ins.to = -1 THEN <<>> ELSE <<ins.to>>)
  \o (IF ins.branch = <<>> THEN <<>> ELSE BranchBytes(ins.branch[1], ins.branch[2], ins.branch[3]))

\* The game in the bytes
FrameWord(m, f, k) == m.stack[CodeStack - f - k]
Frames(m) == LET Chain[f \in 0 .. CodeStack] == IF f = CodeStack THEN <<f>> ELSE Append(Chain[1 + FrameWord(m, f, 1)], f) IN Chain[m.fp]
FrameOf(m, f, end) ==
  LET count == IF f = CodeStack THEN 0 ELSE (FrameWord(m, f, 0) \div 256) % 16
      base == CodeStack - f + count
  IN [locals |-> SubSeq(m.stack, base - count + 1, base), values |-> SubSeq(m.stack, base + 1, end),
      argc |-> IF f = CodeStack THEN 0 ELSE FrameWord(m, f, 0) % 256,
      back |-> IF f = CodeStack THEN 0 ELSE 512 * FrameWord(m, f, 3) + FrameWord(m, f, 2),
      wanted |-> f # CodeStack /\ FrameWord(m, f, 0) < 4096]
Game(m) ==
  LET chain == Frames(m)
      end(k) == IF k = Len(chain) THEN Len(m.stack) ELSE CodeStack - chain[k + 1] - 4
  IN [pc |-> m.pc, over |-> m.over, frames |-> SubSeq([k \in DOMAIN chain |-> FrameOf(m, chain[k], end(k))], 1, Len(chain)),
      globals |-> [k \in 1 .. 2 |-> CodeWord(m, CodeGlobals + 2 * (k - 1))],
      own |-> [k \in 1 .. UserSlots - CodeWord(m, UserStack) |-> CodeWord(m, UserStack + 2 * (CodeWord(m, UserStack) + k))]]

Frame(g) == Last(g.frames)
InFrame(g, f) == [g EXCEPT !.frames[Len(g.frames)] = f]
ValueOf(g, v) == CASE v = 0 -> Last(Frame(g).values) [] v \in 1 .. 15 -> Frame(g).locals[v] [] OTHER -> g.globals[v - 15]
Assigned(g, v, w) == \* the top of the stack is overwritten
  CASE v = 0 -> InFrame(g, [Frame(g) EXCEPT !.values = Append(Front(Frame(g).values), w)])
    [] v \in 1 .. 15 -> InFrame(g, [Frame(g) EXCEPT !.locals[v] = w])
    [] OTHER -> [g EXCEPT !.globals[v - 15] = w]
TakenFrom(g) == InFrame(g, [Frame(g) EXCEPT !.values = Front(Frame(g).values)])
PutOn(g, w) == InFrame(g, [Frame(g) EXCEPT !.values = Append(Frame(g).values, w)])
Given(g, v, w) == IF v = 0 THEN PutOn(g, w) ELSE Assigned(g, v, w)
Operand(r, arg) ==
  [game |-> IF arg = <<"var", 0>> THEN TakenFrom(r.game) ELSE r.game,
   values |-> Append(r.values, IF arg[1] = "var" THEN ValueOf(r.game, arg[2]) ELSE arg[2])]
Operands(g, args) == FoldLeft(Operand, [game |-> g, values |-> <<>>], args)

BackTo(g, f, to, w) == IF f.wanted THEN Given([g EXCEPT !.pc = f.back + 1], to, w) ELSE [g EXCEPT !.pc = f.back]
ReturnsFrom(g, m, w) == BackTo([g EXCEPT !.frames = Front(@)], Frame(g), ByteAt(m, Frame(g).back), w)
Goes(g, m, branch, holds) ==
  CASE holds # branch[1] -> g
    [] holds = branch[1] /\ branch[3] \in {0, 1} -> ReturnsFrom(g, m, branch[3])
    [] OTHER -> [g EXCEPT !.pc = @ + branch[3] - 2]
Sized(g) == FoldLeft(LAMBDA n, f : n + Len(f.locals) + Len(f.values) + 4, -4, g.frames)
Calls(g, m, x, wanted) ==
  LET r == Routines[m.version][x[1]]
      f == [locals |-> [i \in DOMAIN r.locals |-> IF i < Len(x) THEN x[i + 1] ELSE r.locals[i]], values |-> <<>>,
            argc |-> Len(x) - 1, back |-> g.pc, wanted |-> wanted]
  IN IF x[1] \notin DOMAIN Routines[m.version] \/ Len(r.locals) > 15 \/ Sized(g) + 4 + Len(r.locals) > CodeStack THEN [g EXCEPT !.over = "error"]
     ELSE [g EXCEPT !.frames = Append(g.frames, f), !.pc = r.code]
Number(w) == IF w >= 32768 THEN w - 65536 ELSE w
Result(op, x) ==
  CASE op = "add" -> (x[1] + x[2]) % 65536 [] op = "sub" -> (x[1] - x[2]) % 65536 [] op = "mul" -> (x[1] * x[2]) % 65536
    [] op = "div" -> ZDiv(x[1], x[2]) [] op = "mod" -> ZMod(x[1], x[2])
    [] op = "or" -> ZOr(x[1], x[2]) [] op = "and" -> ZAnd(x[1], x[2]) [] op = "not" -> 65535 - x[1]
    [] op = "log_shift" -> ZLogShift(x[1], x[2]) [] op = "art_shift" -> ZArtShift(x[1], x[2])
Holds(op, g, x) ==
  CASE op = "je" -> \E i \in 2 .. Len(x) : x[1] = x[i] [] op = "jz" -> x[1] = 0
    [] op = "jl" -> Number(x[1]) < Number(x[2]) [] op = "jg" -> Number(x[1]) > Number(x[2])
    [] op = "dec_chk" -> Number(ValueOf(g, x[1])) < Number(x[2]) [] op = "inc_chk" -> Number(ValueOf(g, x[1])) > Number(x[2])
    [] op = "check_arg_count" -> x[1] <= Frame(g).argc [] op = "test" -> ZAnd(x[1], x[2]) = x[2]
Carried(op, ins, g, m, x) ==
  CASE op \in {"div", "mod"} /\ x[2] = 0 -> [g EXCEPT !.over = "error"]
    [] op \in {"add", "sub", "mul", "div", "mod", "or", "and", "not", "log_shift", "art_shift"} /\ ~(op \in {"div", "mod"} /\ x[2] = 0) ->
         Given(g, ins.to, Result(op, x))
    [] op \in {"je", "jz", "jl", "jg", "test", "check_arg_count"} -> Goes(g, m, ins.branch, Holds(op, g, x))
    [] op = "inc" -> Assigned(g, x[1], (ValueOf(g, x[1]) + 1) % 65536)
    [] op = "dec" -> Assigned(g, x[1], (ValueOf(g, x[1]) - 1) % 65536)
    [] op = "inc_chk" -> LET h == Assigned(g, x[1], (ValueOf(g, x[1]) + 1) % 65536) IN Goes(h, m, ins.branch, Holds(op, h, x))
    [] op = "dec_chk" -> LET h == Assigned(g, x[1], (ValueOf(g, x[1]) - 1) % 65536) IN Goes(h, m, ins.branch, Holds(op, h, x))
    [] op = "load" -> Given(g, ins.to, ValueOf(g, x[1]))
    [] op = "store" -> Assigned(g, x[1], x[2])
    [] op = "push" -> PutOn(g, x[1])
    [] op = "pop" -> TakenFrom(g)
    [] op = "pull" /\ ins.to = -1 -> Assigned(TakenFrom(g), x[1], Last(Frame(g).values))
    [] op = "pull" /\ ins.to # -1 /\ x = <<>> -> Given(TakenFrom(g), ins.to, Last(Frame(g).values))
    [] op = "pull" /\ ins.to # -1 /\ x # <<>> -> Given([g EXCEPT !.own = Tail(@)], ins.to, g.own[1])
    [] op = "push_stack" -> \* it branches only when there is room for one more
         Goes(IF Len(g.own) < UserSlots THEN [g EXCEPT !.own = <<x[1]>> \o @] ELSE g, m, ins.branch, Len(g.own) + 1 < UserSlots)
    [] op = "pop_stack" /\ Len(x) = 2 -> [g EXCEPT !.own = SubSeq(@, x[1] + 1, Len(@))]
    [] op = "pop_stack" /\ Len(x) = 1 -> InFrame(g, [Frame(g) EXCEPT !.values = SubSeq(Frame(g).values, 1, Len(Frame(g).values) - x[1])])
    [] op = "call_s" /\ x[1] = 0 -> Given(g, ins.to, 0)
    [] op = "call_s" /\ x[1] # 0 -> Calls([g EXCEPT !.pc = g.pc - 1], m, x, TRUE)   \* where the result is named
    [] op = "call_n" -> IF x[1] = 0 THEN g ELSE Calls(g, m, x, FALSE)
    [] op = "ret" -> ReturnsFrom(g, m, x[1])
    [] op = "ret_popped" -> ReturnsFrom(g, m, Last(Frame(g).values))
    [] op = "rtrue" -> ReturnsFrom(g, m, 1)
    [] op = "rfalse" -> ReturnsFrom(g, m, 0)
    [] op = "jump" -> [g EXCEPT !.pc = @ + Number(x[1]) - 2]
    [] op = "illegal" -> [g EXCEPT !.over = "error"]
    [] op = "quit" -> [g EXCEPT !.over = "quit"]
    [] OTHER -> g
Meant(g, m, ins) ==
  LET r == Operands(g, ins.args) IN Carried(ins.op, ins, [r.game EXCEPT !.pc = r.game.pc + Len(Assembled(ins))], m, r.values)

\* Games are legal: they take what is there, from variables they have, and do
\* not write over routines or the place of a result they wait for.
HasVariable(g, v) == CASE v = 0 -> Frame(g).values # <<>> [] v \in 1 .. 15 -> v <= Len(Frame(g).locals) [] OTHER -> v <= 17
HasOperands(g, args) ==
  /\ Cardinality({i \in DOMAIN args : args[i] = <<"var", 0>>}) <= Len(Frame(g).values)
  /\ \A i \in DOMAIN args : args[i][1] = "var" /\ args[i][2] # 0 => HasVariable(g, args[i][2])
Returns(ins) == ins.op \in {"ret", "ret_popped", "rtrue", "rfalse"} \/ (ins.branch # <<>> /\ ins.branch[3] \in {0, 1})
LegalWith(ins, g, x) ==
  /\ ins.op \in {"inc", "dec", "inc_chk", "dec_chk", "load", "store"} => HasVariable(g, x[1])
  /\ ins.op \in {"pop", "ret_popped"} \/ (ins.op = "pull" /\ (ins.to = -1 \/ x = <<>>)) => Frame(g).values # <<>>
  /\ ins.op = "pull" /\ ins.to = -1 => HasVariable(TakenFrom(g), x[1])
  /\ ins.op = "pull" /\ ins.to # -1 /\ x # <<>> => g.own # <<>>
  /\ ins.op = "pop_stack" => x[1] <= (IF Len(x) = 2 THEN Len(g.own) ELSE Len(Frame(g).values))
  /\ ins.to \in 1 .. 15 => HasVariable(g, ins.to)
  /\ Returns(ins) => Len(g.frames) > 1
  /\ Sized(g) < CodeStack
Legal(g, m, ins) ==
  LET place == g.pc .. g.pc + Len(Assembled(ins)) - 1
  IN /\ m.version \in ins.versions
     /\ place \subseteq UserStack + 2 * UserSlots + 2 .. Len(m.mem) - 1
     /\ \A r \in Range(Routines[m.version]) : place \cap r.at .. r.code - 1 = {}
     /\ \A k \in DOMAIN g.frames : g.frames[k].wanted => g.frames[k].back \notin place
     /\ HasOperands(g, ins.args) /\ LegalWith(ins, Operands(g, ins.args).game, Operands(g, ins.args).values)

VARIABLES cvm, cvMeant, cvSteps   \* the machine, the game it should be in, how many instructions
codeVars == <<cvm, cvMeant, cvSteps>>

\* The instruction is in memory where the machine is.
Placed(m, ins) ==
  LET code == Assembled(ins)
  IN [m EXCEPT !.mem = SubSeq(@, 1, m.pc) \o code \o SubSeq(@, m.pc + Len(code) + 1, Len(@))]
Execute(m, ins) == Interpret(Placed(m, ins))
NewMachine(v) ==
  [version |-> v, mem |-> CodeMemories[v], pc |-> StartPc, fp |-> CodeStack, stack |-> <<>>, zargs |-> <<>>, frame_count |-> 0, over |-> "",
   size |-> CodeStack]
CodeInit == /\ \E v \in DOMAIN CodeMemories : cvm = FoldLeft(Execute, NewMachine(v), Prologue[v])
            /\ cvMeant = Game(cvm) /\ cvSteps = 0
CodeNext ==
  /\ cvm.over = "" /\ cvSteps < CodeSteps
  /\ \E ins \in Instructions : /\ Legal(Game(cvm), cvm, ins)
                               /\ cvm' = Execute(cvm, ins) /\ cvMeant' = Meant(Game(cvm), cvm, ins)
  /\ cvSteps' = cvSteps + 1

\* The bytes of an instruction do what it means, in all its forms: operands are
\* taken from left to right, variable 0 is pushed, popped or changed in place as
\* the instruction has it, results and branches are found behind them, and the
\* frames of routines keep their variables apart (interpret, variable.c).
CodeIsMeant == cvm.over = cvMeant.over /\ (cvm.over = "" => Game(cvm) = cvMeant)
FramesAreCounted == cvm.over = "" => Len(Frames(cvm)) = cvm.frame_count + 1
=============================================================================
