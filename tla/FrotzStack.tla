----------------------------- MODULE FrotzStack -----------------------------
(***************************************************************************)
(* The stack of the ZS-machine interpreter (bearos_frotz/src/process.c): one*)
(* array of words that grows down, in which call packs the return address, *)
(* the caller's fp, and the kind and counts of the call into four words    *)
(* below the caller's values.  An instruction that waits for the player may*)
(* call a routine itself (direct_call), in an interpreter loop of its own. *)
(*                                                                         *)
(* Games are legal: they take no value that is not there, name no local    *)
(* variable they have not got, and throw only to frames of the same loop.  *)
(* The words below sp, which nothing reads, are left out.                  *)
(***************************************************************************)
EXTENDS Integers, Sequences, FiniteSets

CONSTANTS
  StackSize,      \* STACK_SIZE
  Values,         \* what games put on the stack
  Variable,       \* for an address in code, the variable its result goes to
  MaxArgs, MaxLocals, MaxEvals, MaxLoops   \* bounds: operands, locals, values
                                           \* pushed per frame, nested loops

ASSUME StackAssumption ==
  /\ StackSize \in Nat /\ StackSize <= 65536
  /\ 0 \in Values /\ \A w \in Values : w \in Nat /\ w < 65536
  /\ \A p \in DOMAIN Variable : p \in Nat /\ p < 524288 /\ Variable[p] \in 0 .. 255
  /\ MaxArgs \in 0 .. 7 /\ MaxLocals \in 0 .. 15 /\ MaxEvals \in Nat /\ MaxLoops \in Nat

VARIABLES
  stack,        \* the words from the bottom, stack[STACK_SIZE - 1], to *sp
  fp,           \* its index in the array
  frame_count,
  pc,
  zargs,        \* the operands of the current instruction
  host,         \* the zargs saved by each direct_call that is running
  finished      \* the game has ended, here only by a fatal error

stackVars == <<stack, fp, frame_count, pc, zargs, host, finished>>

sp == StackSize - Len(stack)
At(i) == stack[StackSize - i]

\* The words of the array from index i down to index j.
Down(i, j) == SubSeq(stack, StackSize - i, StackSize - j)

-----------------------------------------------------------------------------
(* The four words of a frame, at fp.                                       *)

\* Mutant of Packed: the count of the locals is not kept.
PackedBare(at, args, kind, count) ==
  <<at \div 512, at % 512, fp - 1, Len(args) + 4096 * kind>>

Packed(at, args, kind, count) ==
  <<at \div 512, at % 512, fp - 1, Len(args) + 256 * count + 4096 * kind>>

InRoutine == fp # StackSize
Kind(f) == At(f) \div 4096
Locals(f) == IF f = StackSize THEN 0 ELSE (At(f) \div 256) % 16
Args(f) == At(f) % 256
Caller(f) == 1 + At(f + 1)
ReturnTo(f) == 512 * At(f + 3) + At(f + 2)

\* The values of the current frame that are not its locals.
Evals == fp - sp - Locals(fp)

-----------------------------------------------------------------------------
(* Instructions.                                                           *)

\* A variable that the current frame has, and room to store in it.
Writable(v) == (v = 0 /\ sp > 0) \/ v \in 1 .. Locals(fp) \/ v >= 16

\* The words once a value is stored in variable v of the frame at f.
Stored(words, f, v, value) ==
  IF v = 0 THEN Append(words, value)
  ELSE IF v < 16 THEN [words EXCEPT ![StackSize - (f - v)] = value]
  ELSE words

\* z_push, z_store and all that set a variable.
Set(v, value) ==
  /\ Writable(v) /\ v < 16
  /\ v = 0 => Evals < MaxEvals
  /\ stack' = Stored(stack, fp, v, value)
  /\ UNCHANGED <<fp, frame_count, pc, zargs, host, finished>>

\* z_pop, and operands taken from the stack.
Take ==
  /\ Evals > 0
  /\ stack' = SubSeq(stack, 1, Len(stack) - 1)
  /\ UNCHANGED <<fp, frame_count, pc, zargs, host, finished>>

\* The game goes on elsewhere.
Jump(p) ==
  /\ pc' = p
  /\ UNCHANGED <<stack, fp, frame_count, zargs, host, finished>>

\* call, once there is room.  Locals without an argument are zero.
Call(args, kind, count) ==
  /\ sp >= 4 /\ sp - 4 >= count
  /\ stack' = stack \o Packed(pc, args, kind, count)
                \o [i \in 1 .. count |-> IF i <= Len(args) THEN args[i] ELSE 0]
  /\ fp' = sp - 4
  /\ frame_count' = frame_count + 1
  /\ UNCHANGED <<pc, finished>>

\* z_call_s and z_call_n: the instruction has its operands read.
CallRoutine(args, kind, count) ==
  /\ pc \in DOMAIN Variable
  /\ kind = 0 => Writable(Variable[pc]) /\ (Variable[pc] = 0 => Evals < MaxEvals)
  /\ zargs' = args
  /\ Call(args, kind, count)
  /\ UNCHANGED host

\* direct_call, by an instruction that waits.
DirectCall(count) ==
  /\ Len(host) < MaxLoops
  /\ host' = Append(host, zargs)
  /\ Call(<<>>, 2, count)
  /\ UNCHANGED zargs

\* call without room: a fatal error.
Overflow ==
  /\ sp < 4 + MaxLocals
  /\ finished' = TRUE
  /\ UNCHANGED <<stack, fp, frame_count, pc, zargs, host>>

\* ret from the frame at f, the one above `left` others.  A direct call ends
\* its loop: the value is pushed, the operands come back, and it is popped.
RetFrom(f, left, value) ==
  LET words == SubSeq(stack, 1, StackSize - f - 4)
  IN  /\ stack' = IF Kind(f) = 0
                  THEN Stored(words, Caller(f), Variable[ReturnTo(f)], value)
                  ELSE words
      /\ fp' = Caller(f)
      /\ frame_count' = left
      /\ pc' = IF Kind(f) = 0 THEN ReturnTo(f) + 1 ELSE ReturnTo(f)
      /\ IF Kind(f) = 2
         THEN zargs' = host[Len(host)] /\ host' = SubSeq(host, 1, Len(host) - 1)
         ELSE UNCHANGED <<zargs, host>>
      /\ UNCHANGED finished

Ret(value) == InRoutine /\ RetFrom(fp, frame_count - 1, value)

\* z_ret_popped.
RetPopped ==
  /\ InRoutine /\ Evals > 0
  /\ RetFrom(fp, frame_count - 1, At(sp))

\* z_catch.
Catch ==
  /\ pc \in DOMAIN Variable /\ Writable(Variable[pc])
  /\ Variable[pc] = 0 => Evals < MaxEvals
  /\ stack' = Stored(stack, fp, Variable[pc], frame_count)
  /\ pc' = pc + 1
  /\ UNCHANGED <<fp, frame_count, zargs, host, finished>>

\* Mutant of Unwound: one frame too many is left.
UnwoundShort(f, n) ==
  LET Up[k \in 0 .. n] == IF k <= 1 THEN f ELSE Caller(Up[k - 1]) IN Up[n]

\* The frame reached from f by n steps to the caller.
Unwound(f, n) ==
  LET Up[k \in 0 .. n] == IF k = 0 THEN f ELSE Caller(Up[k - 1]) IN Up[n]

\* The frames z_throw passes over belong to this loop.
SameLoop(n) == \A k \in 0 .. n - 1 : Kind(Unwound(fp, k)) # 2

\* z_throw to a frame that catch named.
Throw(value, frame) ==
  /\ frame \in 1 .. frame_count /\ SameLoop(frame_count - frame)
  /\ RetFrom(Unwound(fp, frame_count - frame), frame - 1, value)

-----------------------------------------------------------------------------
StackInit ==
  /\ stack = <<>> /\ fp = StackSize /\ frame_count = 0
  /\ pc \in DOMAIN Variable
  /\ zargs = <<>> /\ host = <<>> /\ finished = FALSE

Arguments == UNION {[1 .. n -> Values] : n \in 0 .. MaxArgs}

StackNext ==
  /\ ~finished
  /\ \/ \E v \in 0 .. MaxLocals, value \in Values : Set(v, value)
     \/ Take
     \/ \E p \in DOMAIN Variable : Jump(p)
     \/ \E args \in Arguments, kind \in {0, 1}, count \in 0 .. MaxLocals :
          CallRoutine(args, kind, count)
     \/ \E count \in 0 .. MaxLocals : DirectCall(count)
     \/ Overflow
     \/ \E value \in Values : Ret(value)
     \/ RetPopped
     \/ Catch
     \/ \E value \in Values, frame \in 1 .. StackSize : Throw(value, frame)

StackSpec == StackInit /\ [][StackNext]_stackVars

-----------------------------------------------------------------------------
(* Properties.                                                             *)

\* The indices of the frames, the bottom of the stack (no frame) first.
FrameChain ==
  LET Up[k \in 0 .. frame_count] == IF k = 0 THEN fp ELSE Caller(Up[k - 1])
  IN  [k \in 1 .. frame_count + 1 |-> Up[frame_count + 1 - k]]

\* How many of the first k of them are of direct calls.
Loops(chain, k) == Cardinality({i \in 2 .. k : Kind(chain[i]) = 2})

\* The links between frames lead to the bottom, frame_count counts them, no
\* frame reaches into the one below it, and every direct call that is on the C
\* stack has its frame.
ChainOK ==
  LET chain == FrameChain
  IN  /\ sp \in 0 .. StackSize
      /\ \A i \in DOMAIN stack : stack[i] \in Nat /\ stack[i] < 65536
      /\ frame_count \in Nat /\ chain[1] = StackSize
      /\ \A k \in 1 .. frame_count : chain[k] >= chain[k + 1] + 4 + Locals(chain[k])
      /\ Evals >= 0
      /\ Loops(chain, Len(chain)) = Len(host)

\* Frame k as decoded from the array; the bottom has no call.
FrameAt(chain, k) ==
  LET f == chain[k]
      top == IF k = Len(chain) THEN sp ELSE chain[k + 1] + 4
  IN  [ret |-> IF k = 1 THEN 0 ELSE ReturnTo(f),
       kind |-> IF k = 1 THEN 1 ELSE Kind(f),
       argc |-> IF k = 1 THEN 0 ELSE Args(f),
       locals |-> Down(f - 1, f - Locals(f)),
       evals |-> Down(f - Locals(f) - 1, top),
       waiting |-> IF k > 1 /\ Kind(f) = 2 THEN host[Loops(chain, k)] ELSE <<>>]

\* The array holds the frames that routines are promised, across calls of every
\* kind, unwinding, and instructions that wait for one another.  (This is ZS!Spec,
\* with the steps of other parts looked at first.)
ZS == INSTANCE ZStack WITH
       Values <- Values \cup 0 .. StackSize \div 4, Counts <- 0 .. MaxLocals,
       frames <- LET chain == FrameChain IN [k \in 1 .. Len(chain) |-> FrameAt(chain, k)],
       running <- ~finished
IsZStack == ZS!Init /\ [][UNCHANGED stackVars \/ ZS!Next]_(ZS!vars)
=============================================================================
