-------------------------------- MODULE Z80 --------------------------------
(***************************************************************************)
(* The processor of the CP/M emulator (bearos_cpm/src/z80.c): decoding and *)
(* executing one instruction.  A machine is a record; memory holds only    *)
(* the bytes that were written, for init_z80info clears the rest.  The     *)
(* flag register is the set of its bits that are on.  Opcodes are taken    *)
(* apart into the fields the code takes from them (t >> 3 & 7, ...).       *)
(* Interrupts (RESET, NMI, INTR) are left out: nothing in the program      *)
(* raises them.  HALT and port FFh leave the loop: see CpmCpu.             *)
(***************************************************************************)
EXTENDS Integers, Sequences, FiniteSets, TLC, Bitwise

Byte == 0 .. \hFF
Word == 0 .. \hFFFF

\* Bits of the flag register.
Sign == 7
Zero == 6
Half == 4
Parity == 2
Overflow == Parity
Negative == 1
Carry == 0

\* Indices into reg[].
B == 0
C == 1
D == 2
E == 3
H == 4
L == 5
A == 7

-----------------------------------------------------------------------------
(* Bytes, words and flags.                                                 *)

Bit(v, n) == (v \div 2 ^ n) % 2 = 1
Low(w) == w % 256
High(w) == (w \div 256) % 256
W(w) == w % 65536
Signed(b) == IF b > 127 THEN b - 256 ELSE b

\* setflag, flagon and flagoff: m says which flags take which value.
Flags(f, m) == {b \in f : b \notin DOMAIN m} \cup {b \in DOMAIN m : m[b]}
FlagByte(f) == LET bit[b \in -1 .. 7] ==
                     IF b = -1 THEN 0 ELSE bit[b - 1] + (IF b \in f THEN 2 ^ b ELSE 0)
               IN  bit[7]
FlagSet(v) == {b \in 0 .. 7 : Bit(v, b)}

\* parityarr
EvenParity(v) == Cardinality(FlagSet(v)) % 2 = 0

-----------------------------------------------------------------------------
(* Memory and registers of a machine z.                                    *)

Mem(z, a) == IF W(a) \in DOMAIN z.mem THEN z.mem[W(a)] ELSE 0
MemW(z, a) == Mem(z, a) + 256 * Mem(z, a + 1)
SetMem(z, a, v) == [z EXCEPT !.mem = (W(a) :> Low(v)) @@ @]
SetMemW(z, a, w) == SetMem(SetMem(z, a, Low(w)), a + 1, High(w))

\* A register pair from its high byte's index, and AF.
Pair(z, i) == 256 * z.r[i] + z.r[i + 1]
SetPair(z, i, w) == [z EXCEPT !.r[i] = High(w), !.r[i + 1] = Low(w)]
HL(z) == Pair(z, H)
AF(z) == 256 * z.r[A] + FlagByte(z.f)
SetAF(z, w) == [z EXCEPT !.r[A] = High(w), !.f = FlagSet(Low(w))]

\* REGPAIRSP and REGPAIRAF.
PairSP(z, p) == IF p = 3 THEN z.sp ELSE Pair(z, 2 * p)
SetPairSP(z, p, w) == IF p = 3 THEN [z EXCEPT !.sp = W(w)] ELSE SetPair(z, 2 * p, w)
PairAF(z, p) == IF p = 3 THEN AF(z) ELSE Pair(z, 2 * p)
SetPairAF(z, p, w) == IF p = 3 THEN SetAF(z, w) ELSE SetPair(z, 2 * p, w)

\* *REG[i], or the byte at HL for the index the table has no entry for.
Operand(z, i) == IF i = 6 THEN Mem(z, HL(z)) ELSE z.r[i]
SetOperand(z, i, v) == IF i = 6 THEN SetMem(z, HL(z), v) ELSE [z EXCEPT !.r[i] = Low(v)]

Skip(z, n) == [z EXCEPT !.pc = W(@ + n)]
Jump(z, a) == [z EXCEPT !.pc = W(a)]
SetFlags(z, m) == [z EXCEPT !.f = Flags(@, m)]

Push(z, w) == LET s == [z EXCEPT !.sp = W(@ - 2)]
              IN  SetMem(SetMem(s, s.sp + 1, High(w)), s.sp, Low(w))
Popped(z) == [z EXCEPT !.sp = W(@ + 2)]
Top(z) == MemW(z, z.sp)

-----------------------------------------------------------------------------
(* Arithmetic.                                                             *)

\* Mutant of Arith8: the half carry forgets the carry that comes in.
Arith8NoCarryIn(z, val, carry, sub) ==
  LET a == z.r[A]
      cy == IF carry /\ Carry \in z.f THEN 1 ELSE 0
      tt == IF sub THEN a - val - cy ELSE a + val + cy
      hh == IF sub THEN (a % 16) - (val % 16) ELSE (a % 16) + (val % 16)
  IN  [v |-> Low(tt),
       f |-> Flags(z.f, Negative :> sub @@ Half :> Bit(hh, 4) @@ Carry :> Bit(tt, 8)
                        @@ Sign :> Bit(tt, 7) @@ Zero :> (Low(tt) = 0)
                        @@ Overflow :> ((Bit(a, 7) # Bit(val, 7)) = sub
                                        /\ Bit(a, 7) # Bit(tt, 7)))]

\* arith8: the result and the flags.
Arith8(z, val, carry, sub) ==
  LET a == z.r[A]
      cy == IF carry /\ Carry \in z.f THEN 1 ELSE 0
      tt == IF sub THEN a - val - cy ELSE a + val + cy
      hh == IF sub THEN (a % 16) - (val % 16) - cy ELSE (a % 16) + (val % 16) + cy
  IN  [v |-> Low(tt),
       f |-> Flags(z.f, Negative :> sub @@ Half :> Bit(hh, 4) @@ Carry :> Bit(tt, 8)
                        @@ Sign :> Bit(tt, 7) @@ Zero :> (Low(tt) = 0)
                        @@ Overflow :> ((Bit(a, 7) # Bit(val, 7)) = sub
                                        /\ Bit(a, 7) # Bit(tt, 7)))]

\* logical, after A has taken v.
Logical(z, v, half) ==
  [z EXCEPT !.r[A] = v,
            !.f = Flags(@, Sign :> Bit(v, 7) @@ Zero :> (v = 0) @@ Half :> half
                           @@ Parity :> EvenParity(v) @@ Negative :> FALSE @@ Carry :> FALSE)]

\* add, adc, sub, sbc, and, xor, or, cp: the eight operations on A by number.
Alu(z, op, val) ==
  LET ar == Arith8(z, val, op \in {1, 3}, op \in {2, 3, 7})
  IN  CASE op < 4 -> [z EXCEPT !.r[A] = ar.v, !.f = ar.f]
        [] op = 4 -> Logical(z, z.r[A] & val, TRUE)
        [] op = 5 -> Logical(z, z.r[A] ^^ val, FALSE)
        [] op = 6 -> Logical(z, z.r[A] | val, FALSE)
        [] op = 7 -> [z EXCEPT !.f = ar.f]

\* increment: the result and the flags.
Increment(z, v, neg) ==
  LET tt == IF neg THEN v - 1 ELSE v + 1
  IN  [v |-> Low(tt),
       f |-> Flags(z.f, Half :> (IF neg THEN v % 16 = 0 ELSE tt % 16 = 0)
                        @@ Overflow :> (Bit(v, 7) = neg /\ Bit(tt, 7) # neg)
                        @@ Sign :> Bit(tt, 7) @@ Zero :> (Low(tt) = 0) @@ Negative :> neg)]

\* Mutant of Daa: A is compared with 99h only when the carry is off.
DaaLow(z) ==
  LET t == (IF Carry \in z.f THEN \h60 ELSE 0)
           + (IF Half \in z.f \/ z.r[A] % 16 > 9 THEN 6 ELSE 0)
      ar == Arith8(z, t, FALSE, Negative \in z.f)
  IN  [z EXCEPT !.r[A] = ar.v, !.f = Flags(ar.f, Carry :> (Carry \in z.f) @@ Parity :> EvenParity(ar.v))]

Daa(z) ==
  LET high == Carry \in z.f \/ z.r[A] > \h99
      t == (IF high THEN \h60 ELSE 0) + (IF Half \in z.f \/ z.r[A] % 16 > 9 THEN 6 ELSE 0)
      ar == Arith8(z, t, FALSE, Negative \in z.f)
  IN  [z EXCEPT !.r[A] = ar.v, !.f = Flags(ar.f, Carry :> high @@ Parity :> EvenParity(ar.v))]

\* add of 16 bits: the sum and the flags.
Add16(z, i, j) ==
  [v |-> W(i + j),
   f |-> Flags(z.f, Negative :> FALSE @@ Carry :> Bit(i + j, 16)
                    @@ Half :> Bit((i % 4096) + (j % 4096), 12))]

\* Mutant of Arith16: the overflow of a sum is that of a difference.
Arith16Difference(z, vv, sub) ==
  LET hl == HL(z)
      cy == IF Carry \in z.f THEN 1 ELSE 0
      ttt == IF sub THEN hl - vv - cy ELSE hl + vv + cy
      hh == IF sub THEN (hl % 4096) - (vv % 4096) - cy ELSE (hl % 4096) + (vv % 4096) + cy
  IN  SetPair([z EXCEPT !.f = Flags(@,
        Overflow :> (Bit(hl, 15) # Bit(vv, 15) /\ Bit(vv, 15) = Bit(ttt, 15))
        @@ Sign :> Bit(ttt, 15) @@ Zero :> (ttt = 0) @@ Negative :> sub
        @@ Carry :> Bit(ttt, 16) @@ Half :> Bit(hh, 12))], H, W(ttt))

\* adc hl and sbc hl.  (Zero looks at the result before it is cut to 16 bits.)
Arith16(z, vv, sub) ==
  LET hl == HL(z)
      cy == IF Carry \in z.f THEN 1 ELSE 0
      ttt == IF sub THEN hl - vv - cy ELSE hl + vv + cy
      hh == IF sub THEN (hl % 4096) - (vv % 4096) - cy ELSE (hl % 4096) + (vv % 4096) + cy
  IN  SetPair([z EXCEPT !.f = Flags(@,
        Overflow :> (IF sub THEN Bit(hl, 15) # Bit(vv, 15) /\ Bit(vv, 15) = Bit(ttt, 15)
                     ELSE Bit(hl, 15) = Bit(vv, 15) /\ Bit(vv, 15) # Bit(ttt, 15))
        @@ Sign :> Bit(ttt, 15) @@ Zero :> (ttt = 0) @@ Negative :> sub
        @@ Carry :> Bit(ttt, 16) @@ Half :> Bit(hh, 12))], H, W(ttt))

\* The shift by one that rotates and shifts begin with, and the bit to put in.
\* t: opcode; bit 3 is the direction, bits 4 and 5 the kind.
Shifted(z, t, v) ==
  LET right == Bit(t, 3)
      out == IF right THEN Bit(v, 0) ELSE Bit(v, 7)
      moved == IF right THEN v \div 2 ELSE Low(2 * v)
      in == IF Bit(t, 5) THEN right /\ ~Bit(t, 4) /\ Bit(moved, 6)
            ELSE IF Bit(t, 4) THEN Carry \in z.f ELSE out
  IN  [v |-> IF in THEN moved + (IF right THEN 128 ELSE 1) ELSE moved, carry |-> out]

\* rlca, rla, rrca, rra
RotateA(z, t) ==
  LET s == Shifted(z, t, z.r[A])
  IN  [z EXCEPT !.r[A] = s.v,
                !.f = Flags(@, Carry :> s.carry @@ Half :> FALSE @@ Negative :> FALSE)]

\* flags(val), the flags of most bit instructions
ValueFlags(f, v) ==
  Flags(f, Sign :> Bit(v, 7) @@ Zero :> (v = 0) @@ Half :> FALSE @@ Negative :> FALSE
           @@ Parity :> EvenParity(v))

\* What a bit instruction (CB) makes of v; for `bit` the value stays.
BitOp(z, t, v) ==
  LET n == (t \div 8) % 8
      s == Shifted(z, t, v)
  IN  CASE t < \h40 -> [v |-> s.v, f |-> ValueFlags(Flags(z.f, Carry :> s.carry), s.v)]
        [] t \in \h40 .. \h7F ->
             [v |-> v, f |-> Flags(z.f, Zero :> (~Bit(v, n)) @@ Half :> TRUE @@ Negative :> FALSE)]
        [] t \in \h80 .. \hBF -> [v |-> IF Bit(v, n) THEN v - 2 ^ n ELSE v, f |-> z.f]
        [] t \in \hC0 .. \hFF -> [v |-> IF Bit(v, n) THEN v ELSE v + 2 ^ n, f |-> z.f]

-----------------------------------------------------------------------------
(* Instructions.  z is the machine with PC behind the opcode, t the opcode. *)

\* The fields of an opcode.
Y(t) == (t \div 8) % 8
Z(t) == t % 8
P(t) == (t \div 16) % 4

Imm(z) == Mem(z, z.pc)
ImmW(z) == MemW(z, z.pc)

\* flagmask, with the sense of the condition in bit 3
Holds(z, cc) == (<<Zero, Carry, Parity, Sign>>[cc \div 2 + 1] \in z.f) = (cc % 2 = 1)

JumpIf(z, cond) == IF cond THEN Jump(z, ImmW(z)) ELSE Skip(z, 2)
JumpRelative(z, cond) == IF cond THEN Skip(z, Signed(Imm(z)) + 1) ELSE Skip(z, 1)
\* Mutant of CallIf: what is pushed is the address of the operand.
CallIfEarly(z, cond) == IF cond THEN Jump(Push(z, z.pc), ImmW(z)) ELSE Skip(z, 2)
CallIf(z, cond) == IF cond THEN Jump(Push(Skip(z, 2), W(z.pc + 2)), ImmW(z)) ELSE Skip(z, 2)
RetIf(z, cond) == IF cond THEN Jump(Popped(z), Top(z)) ELSE z

Output(z, port, data) == [z EXCEPT !.out = Append(@, <<port, data>>)]

\* undefinstr: the user is told and continues.
Undefined(z) == z

\* 8 and 16 bit loads below 40h.
Loads == {t \in 0 .. \h3F : Z(t) \in {2, 6} \/ t % 16 = 1}
Load(z, t) ==
  CASE t % 16 = \h1 -> SetPairSP(Skip(z, 2), P(t), ImmW(z))
    [] t \in {\h0A, \h1A} -> [z EXCEPT !.r[A] = Mem(z, PairAF(z, P(t)))]
    [] t \in {\h02, \h12} -> SetMem(z, PairAF(z, P(t)), z.r[A])
    [] t = \h3A -> [Skip(z, 2) EXCEPT !.r[A] = Mem(z, ImmW(z))]
    [] t = \h32 -> SetMem(Skip(z, 2), ImmW(z), z.r[A])
    [] t = \h2A -> SetPair(Skip(z, 2), H, MemW(z, ImmW(z)))
    [] t = \h22 -> SetMemW(Skip(z, 2), ImmW(z), HL(z))
    [] Z(t) = 6 -> SetOperand(Skip(z, 1), Y(t), Imm(z))

\* ex af,af' - ex de,hl - exx - ex (sp),hl
Exchanges == {\h08, \hEB, \hD9, \hE3}
Exchange(z, t) ==
  LET hl == HL(z)
  IN  CASE t = \h08 -> SetAF([z EXCEPT !.af2 = AF(z)], z.af2)
        [] t = \hEB -> SetPair(SetPair(z, D, hl), H, Pair(z, D))
        [] t = \hD9 -> SetPair(SetPair(SetPair([z EXCEPT !.bc2 = Pair(z, B), !.de2 = Pair(z, D),
                                                        !.hl2 = hl], B, z.bc2), D, z.de2), H, z.hl2)
        [] t = \hE3 -> SetPair(SetMemW(z, z.sp, hl), H, Top(z))

\* The other opcodes below 40h.
Low40(z, t) ==
  LET y == Y(t)
      p == P(t)
      inc == Increment(z, Operand(z, y), Z(t) = 5)
  IN  CASE t = \h00 -> z
        [] t = \h10 -> LET d == [z EXCEPT !.r[B] = Low(@ - 1)] IN JumpRelative(d, d.r[B] # 0)
        [] t = \h18 -> JumpRelative(z, TRUE)
        [] Z(t) = 0 /\ y >= 4 -> JumpRelative(z, Holds(z, y - 4))
        [] t % 16 = \h9 -> LET s == Add16(z, HL(z), PairSP(z, p))
                           IN  SetPair([z EXCEPT !.f = s.f], H, s.v)
        [] Z(t) = 3 -> SetPairSP(z, p, PairSP(z, p) + (IF Bit(t, 3) THEN -1 ELSE 1))
        [] Z(t) \in {4, 5} -> [SetOperand(z, y, inc.v) EXCEPT !.f = inc.f]
        [] t \in {\h07, \h0F, \h17, \h1F} -> RotateA(z, t)
        [] t = \h27 -> Daa(z)
        [] t = \h2F -> SetFlags([z EXCEPT !.r[A] = 255 - @], Half :> TRUE @@ Negative :> TRUE)
        [] t = \h37 -> SetFlags(z, Carry :> TRUE @@ Half :> FALSE @@ Negative :> FALSE)
        [] t = \h3F -> SetFlags(z, Half :> (Carry \in z.f) @@ Carry :> (Carry \notin z.f)
                                   @@ Negative :> FALSE)

\* Opcodes from C0h without a prefix; in is the byte a port gives.
HighC0(z, t, in) ==
  LET y == Y(t)
      p == P(t)
  IN  CASE Z(t) = 0 -> RetIf(z, Holds(z, y))
        [] Z(t) = 2 -> JumpIf(z, Holds(z, y))
        [] Z(t) = 4 -> CallIf(z, Holds(z, y))
        [] Z(t) = 6 -> Alu(Skip(z, 1), y, Imm(z))
        [] Z(t) = 7 -> Jump(Push(z, z.pc), 8 * y)
        [] t % 16 = \h1 -> SetPairAF(Popped(z), p, Top(z))
        [] t % 16 = \h5 -> Push(z, PairAF(z, p))
        [] t = \hC3 -> JumpIf(z, TRUE)
        [] t = \hCD -> CallIf(z, TRUE)
        [] t = \hC9 -> RetIf(z, TRUE)
        [] t = \hE9 -> Jump(z, HL(z))
        [] t = \hF9 -> [z EXCEPT !.sp = HL(z)]
        [] t \in {\hF3, \hFB} -> [z EXCEPT !.iff = (t = \hFB), !.iff2 = (t = \hFB)]
        [] t = \hDB -> [Skip(z, 1) EXCEPT !.r[A] = in]
        [] t = \hD3 -> Output(Skip(z, 1), Imm(z), z.r[A])

\* bitinstr (CB): no opcode shifts left without a name (30h to 37h).
BitInstr(z, t) ==
  LET o == BitOp(z, t, Operand(z, Z(t)))
  IN  IF t \in \h30 .. \h37 THEN Undefined(z)
      ELSE IF t \in \h40 .. \h7F THEN [z EXCEPT !.f = o.f]
      ELSE [SetOperand(z, Z(t), o.v) EXCEPT !.f = o.f]

\* ldi, ldd, ldir, lddr
BlockMove(z, t) ==
  LET d == IF Bit(t, 3) THEN -1 ELSE 1
      bc == W(Pair(z, B) - 1)
      m == SetMem(z, Pair(z, D), Mem(z, HL(z)))
      n == SetPair(SetPair(SetPair(m, H, W(HL(z) + d)), D, W(Pair(z, D) + d)), B, bc)
  IN  Skip(SetFlags(n, Overflow :> (bc # 0) @@ Half :> FALSE @@ Negative :> FALSE),
           IF Bit(t, 4) /\ bc # 0 THEN -2 ELSE 0)

\* Mutant of BlockSearch: a repeating search goes on when it has found.
BlockSearchOn(z, t) ==
  LET d == IF Bit(t, 3) THEN -1 ELSE 1
      bc == W(Pair(z, B) - 1)
      t1 == Mem(z, HL(z))
      t2 == Low(z.r[A] - t1)
      n == SetPair(SetPair(z, H, W(HL(z) + d)), B, bc)
  IN  Skip(SetFlags(n, Sign :> Bit(t2, 7) @@ Zero :> (t2 = 0) @@ Half :> (z.r[A] % 16 < t1 % 16)
                       @@ Overflow :> (bc # 0) @@ Negative :> TRUE),
           IF Bit(t, 4) /\ bc # 0 THEN -2 ELSE 0)

\* Mutant of BlockSearch: a repeated search looks at the same byte again.
BlockSearchStays(z, t) ==
  LET t1 == Mem(z, HL(z))
  IN  IF Bit(t, 4) /\ z.r[A] # t1 THEN Skip(z, -2) ELSE SetFlags(z, Zero :> (z.r[A] = t1))

\* cpi, cpd, cpir, cpdr
BlockSearch(z, t) ==
  LET d == IF Bit(t, 3) THEN -1 ELSE 1
      bc == W(Pair(z, B) - 1)
      t1 == Mem(z, HL(z))
      t2 == Low(z.r[A] - t1)
      n == SetPair(SetPair(z, H, W(HL(z) + d)), B, bc)
  IN  Skip(SetFlags(n, Sign :> Bit(t2, 7) @@ Zero :> (t2 = 0) @@ Half :> (z.r[A] % 16 < t1 % 16)
                       @@ Overflow :> (bc # 0) @@ Negative :> TRUE),
           IF Bit(t, 4) /\ t2 # 0 /\ bc # 0 THEN -2 ELSE 0)

\* ini, ind, inir, indr; outi, outd, otir, otdr
BlockPort(z, t, in) ==
  LET b == Low(z.r[B] - 1)
      m == IF t % 4 = 2 THEN [SetMem(z, HL(z), in) EXCEPT !.r[B] = b]
           ELSE Output([z EXCEPT !.r[B] = b], z.r[C], Mem(z, HL(z)))
      n == SetPair(m, H, W(HL(z) + (IF Bit(t, 3) THEN -1 ELSE 1)))
  IN  Skip(SetFlags(n, Zero :> (b = 0) @@ Negative :> TRUE), IF Bit(t, 4) /\ b # 0 THEN -2 ELSE 0)

\* rrd and rld
RotateDigit(z, t) ==
  LET t1 == Mem(z, HL(z))
      a == z.r[A]
      left == Bit(t, 3)
      new == ((a \div 16) * 16) + (IF left THEN t1 \div 16 ELSE t1 % 16)
      m == SetMem(z, HL(z), IF left THEN (t1 * 16) + (a % 16) ELSE (t1 \div 16) + (a * 16))
  IN  [m EXCEPT !.r[A] = new, !.f = ValueFlags(@, new)]

\* The loads of extinstr.
ExtLoads == {\h57, \h5F, \h47, \h4F} \cup {t \in \h40 .. \h7F : Z(t) = 3}
ExtLoad(z, t) ==
  LET reg == IF t \in {\h47, \h57} THEN 0 ELSE 1
      v == z.ir[reg]
  IN  CASE t \in {\h57, \h5F} ->
             SetFlags([z EXCEPT !.r[A] = v],
                      Sign :> Bit(v, 7) @@ Zero :> (v = 0) @@ Half :> FALSE
                      @@ Parity :> z.iff2 @@ Negative :> FALSE)
        [] t \in {\h47, \h4F} -> [z EXCEPT !.ir[reg] = z.r[A]]
        [] t \in {\h4B, \h5B, \h6B, \h7B} -> SetPairSP(Skip(z, 2), P(t), MemW(z, ImmW(z)))
        [] t \in {\h43, \h53, \h63, \h73} -> SetMemW(Skip(z, 2), ImmW(z), PairSP(z, P(t)))

\* in r,(c) and out (c),r.  There is no register 6 to read a port into: REG[6]
\* is NULL.
Ports == {t \in \h40 .. \h7F : Z(t) \in {0, 1}} \ {\h71}
Port(z, t, in) ==
  CASE t = \h70 -> [z EXCEPT !.crashed = TRUE]
    [] Z(t) = 0 /\ t # \h70 ->
         [z EXCEPT !.r[Y(t)] = in,
                   !.f = Flags(@, Sign :> Bit(in, 7) @@ Zero :> (in = 0) @@ Half :> FALSE
                                  @@ Parity :> EvenParity(in) @@ Negative :> FALSE)]
    [] Z(t) = 1 -> Output(z, z.r[C], z.r[Y(t)])

\* extinstr (ED).
ExtInstr(z, t, in) ==
  LET neg == Arith8([z EXCEPT !.r[A] = 0], z.r[A], FALSE, TRUE)
  IN  CASE t \in ExtLoads -> ExtLoad(z, t)
        [] t \in {\hA0, \hA8, \hB0, \hB8} -> BlockMove(z, t)
        [] t \in {\hA1, \hA9, \hB1, \hB9} -> BlockSearch(z, t)
        [] t \in {\hA2, \hAA, \hB2, \hBA, \hA3, \hAB, \hB3, \hBB} -> BlockPort(z, t, in)
        [] t = \h44 -> [z EXCEPT !.r[A] = neg.v, !.f = neg.f]
        [] t \in {\h46, \h56, \h5E} -> [z EXCEPT !.imode = (\h46 :> 0 @@ \h56 :> 1 @@ \h5E :> 2)[t]]
        [] t \in {\h4A, \h5A, \h6A, \h7A} -> Arith16(z, PairSP(z, P(t)), FALSE)
        [] t \in {\h42, \h52, \h62, \h72} -> Arith16(z, PairSP(z, P(t)), TRUE)
        [] t \in {\h67, \h6F} -> RotateDigit(z, t)
        [] t = \h45 -> RetIf([z EXCEPT !.iff = z.iff2], TRUE)
        [] t = \h4D -> RetIf(z, TRUE)
        [] t \in Ports -> Port(z, t, in)
        [] OTHER -> Undefined(z)

\* Mutant of Indexed: the displacement is a byte.
IndexedForward(z, i) == W(z.xy[i] + Imm(z))

\* The register, or the address, an index instruction works on.
Indexed(z, i) == W(z.xy[i] + Signed(Imm(z)))
SetXY(z, i, w) == [z EXCEPT !.xy[i] = W(w)]

\* iregbitinstr (DD CB d t and FD CB d t): only the opcodes for memory.
IndexBitInstr(z, i) ==
  LET t == Mem(z, z.pc + 1)
      a == Indexed(z, i)
      o == BitOp(z, t, Mem(z, a))
  IN  IF Z(t) # 6 \/ t = \h36 THEN Skip(Undefined(z), 1)
      ELSE IF t \in \h40 .. \h7F THEN Skip([z EXCEPT !.f = o.f], 2)
      ELSE Skip([SetMem(z, a, o.v) EXCEPT !.f = o.f], 2)

\* ireginstr: the loads; ...
IndexLoads == {\h46, \h4E, \h56, \h5E, \h66, \h6E, \h7E, \h70, \h71, \h72, \h73, \h74, \h75,
               \h77, \h36, \h21, \h2A, \h22, \hF9, \hE5, \hE1, \hE3}
IndexLoad(z, i, t) ==
  LET a == Indexed(z, i)
      ir == z.xy[i]
  IN  CASE t \in \h46 .. \h7E /\ Z(t) = 6 -> [Skip(z, 1) EXCEPT !.r[Y(t)] = Mem(z, a)]
        [] t \in \h70 .. \h77 -> SetMem(Skip(z, 1), a, z.r[Z(t)])
        [] t = \h36 -> SetMem(Skip(z, 2), a, Mem(z, z.pc + 1))
        [] t = \h21 -> SetXY(Skip(z, 2), i, ImmW(z))
        [] t = \h2A -> SetXY(Skip(z, 2), i, MemW(z, ImmW(z)))
        [] t = \h22 -> SetMemW(Skip(z, 2), ImmW(z), ir)
        [] t = \hF9 -> [z EXCEPT !.sp = ir]
        [] t = \hE5 -> Push(z, ir)
        [] t = \hE1 -> SetXY(Popped(z), i, Top(z))
        [] t = \hE3 -> SetXY(SetMemW(z, z.sp, ir), i, Top(z))

\* ... the arithmetic; i is the index of the register.
IndexInstr(z, i, t) ==
  LET a == Indexed(z, i)
      ir == z.xy[i]
      inc == Increment(z, Mem(z, a), t = \h35)
      sum == Add16(z, ir, IF P(t) = 2 THEN ir ELSE PairSP(z, P(t)))
  IN  CASE t = \hCB -> IndexBitInstr(z, i)
        [] t \in IndexLoads -> IndexLoad(z, i, t)
        [] t \in \h80 .. \hBF /\ Z(t) = 6 -> Alu(Skip(z, 1), Y(t), Mem(z, a))
        [] t \in {\h34, \h35} -> [SetMem(Skip(z, 1), a, inc.v) EXCEPT !.f = inc.f]
        [] t \in {\h09, \h19, \h29, \h39} -> SetXY([z EXCEPT !.f = sum.f], i, sum.v)
        [] t \in {\h23, \h2B} -> SetXY(z, i, ir + (IF t = \h2B THEN -1 ELSE 1))
        [] t = \hE9 -> Jump(z, ir)
        [] OTHER -> Undefined(z)

\* The main switch.
Execute(z, t, in) ==
  LET u == Skip(z, 1)
      t2 == Imm(z)
  IN  CASE t \in {\hDD, \hFD} -> IndexInstr(u, IF t = \hDD THEN 0 ELSE 1, t2)
        [] t = \hED -> ExtInstr(u, t2, in)
        [] t = \hCB -> BitInstr(u, t2)
        [] t \in Loads -> Load(z, t)
        [] t \in Exchanges -> Exchange(z, t)
        [] t \in 0 .. \h3F \ (Loads \cup Exchanges) -> Low40(z, t)
        [] t = \h76 -> [z EXCEPT !.halt = TRUE]
        [] t \in \h40 .. \h7F \ {\h76} -> SetOperand(z, Y(t), Operand(z, Z(t)))
        [] t \in \h80 .. \hBF -> Alu(z, Y(t), Operand(z, Z(t)))
        [] t \in \hC0 .. \hFF \ ({\hCB, \hDD, \hED, \hFD} \cup Exchanges) -> HighC0(z, t, in)

\* One turn of infloop without an event.
Run1(z, in) == Execute(Skip(z, 1), Mem(z, z.pc), in)

\* init_z80info
Z80Reset == [r |-> [i \in {B, C, D, E, H, L, A} |-> 0], f |-> {},
             af2 |-> 0, bc2 |-> 0, de2 |-> 0, hl2 |-> 0, sp |-> 0, pc |-> 0,
             xy |-> [i \in 0 .. 1 |-> 0], ir |-> [i \in 0 .. 1 |-> 0],
             iff |-> FALSE, iff2 |-> FALSE, imode |-> 0, mem |-> <<>>,
             halt |-> FALSE, out |-> <<>>, crashed |-> FALSE]

-----------------------------------------------------------------------------
(* The disassembler behind the monitor's trace and its z command           *)
(* (bearos_cpm/src/disassem.c), reduced to what it decides: how many bytes *)
(* the instruction at loc takes (the value disassem returns) and which     *)
(* address it writes for a relative jump.  The mnemonics are left out.     *)

\* Bytes behind an opcode below 40h; index is whether DD came before it.
LowLength(t, index) ==
  CASE t % 16 \in {0, 8} -> IF Y(t) < 2 THEN 0 ELSE 1
    [] t % 16 = 1 -> 2
    [] t % 16 \in {2, 10} -> IF P(t) < 2 THEN 0 ELSE 2
    [] t % 16 \in {6, 14} -> IF index /\ Y(t) = 6 THEN 2 ELSE 1
    [] t % 16 \in {3, 4, 5, 7, 9, 11, 12, 13, 15} -> 0

\* ED and the opcode t2 behind it.
ExtLength(t2) == IF t2 \in \h40 .. \h7F /\ t2 % 8 = 3 THEN 3 ELSE 1

\* Mutant of HighLength: RST is taken for what it is, the jump forgets its address.
HighLengthShort(t) ==
  CASE t % 8 = 6 -> 1
    [] t % 8 \in {0, 1, 2, 3, 7} -> 0
    [] t % 8 = 4 -> 2
    [] t % 8 = 5 -> IF Bit(t, 3) THEN 2 ELSE 0

\* Opcodes from C0h without CB, DD and ED.  The test for an operation on A
\* with a byte looks at two bits of the three.
HighLength(t) ==
  CASE t % 8 \in {6, 7} -> 1
    [] t % 8 \in {0, 1} -> 0
    [] t % 8 \in {2, 4} -> 2
    [] t % 8 = 3 -> CASE Y(t) = 0 -> 2 [] Y(t) \in {2, 3} -> 1 [] OTHER -> 0
    [] t % 8 = 5 -> IF Bit(t, 3) THEN 2 ELSE 0

\* disassem without the recursion for DD.
PlainLength(z, loc, index) ==
  LET t == Mem(z, loc)
  IN  1 + CASE t < \h40 -> LowLength(t, index)
            [] t \in \h40 .. \hBF -> 0
            [] t = \hCB -> 1
            [] t = \hED -> ExtLength(Mem(z, loc + 1))
            [] t >= \hC0 /\ t \notin {\hCB, \hED} -> HighLength(t)

\* disassem: the bytes it says the instruction takes.
DisassemLength(z, loc) ==
  IF Mem(z, loc) = \hDD THEN 1 + PlainLength(z, loc + 1, TRUE) ELSE PlainLength(z, loc, FALSE)

\* The target it writes for djnz and jr.
RelativeTarget(z, loc) == W(Signed(Mem(z, loc + 1)) + W(loc + 1) + 1)

=============================================================================
