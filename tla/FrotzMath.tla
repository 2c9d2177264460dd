----------------------------- MODULE FrotzMath -----------------------------
(***************************************************************************)
(* The arithmetic of the Z-machine (math.c): words of 16 bits that an      *)
(* operation takes for signed numbers or for sets of bits, its tables      *)
(* (table.c), and its random numbers (random.c).                           *)
(***************************************************************************)
EXTENDS Integers, Sequences, SequencesExt, Bitwise

CONSTANTS MathWords,      \* the words that are operands
          ShiftWords,     \* the distances of shifts, as words
          Seeds,          \* what the random numbers are seeded with
          Ranges,         \* the ranges random numbers are asked for
          TableSize,      \* bytes of memory with tables in it
          CopySizes,      \* sizes of tables, as words
          ScanForms       \* forms of tables to scan
ASSUME MathAssumption == /\ MathWords \cup ShiftWords \cup CopySizes \cup ScanForms \subseteq 0 .. 65535
                         /\ Seeds \subseteq Nat /\ Ranges \subseteq Nat \ {0}

Signed(z) == IF z >= 32768 THEN z - 65536 ELSE z
Word(n) == n % 65536
\* Division in C goes towards zero, and the rest has the sign of the dividend.
Toward0(x, y) == IF (x < 0) = (y < 0) THEN (IF x < 0 THEN -x ELSE x) \div (IF y < 0 THEN -y ELSE y)
                 ELSE -((IF x < 0 THEN -x ELSE x) \div (IF y < 0 THEN -y ELSE y))

ZAdd(a, b) == Word(Signed(a) + Signed(b))
ZSub(a, b) == Word(Signed(a) - Signed(b))
ZMul(a, b) == Word(Signed(a) * Signed(b))
\* Both stop the program when b is zero.
ZDiv(a, b) == Word(Toward0(Signed(a), Signed(b)))
ZModUnsigned(a, b) == a % b   \* without the casts
ZMod(a, b) == Word(Signed(a) - Signed(b) * Toward0(Signed(a), Signed(b)))
ZAnd(a, b) == a & b
ZOr(a, b) == a | b
ZNot(a) == 65535 - a
ZArtShiftLogical(a, n) == \* the sign not kept
  IF Signed(n) > 0 THEN Word(Signed(a) * 2 ^ Signed(n)) ELSE a \div 2 ^ (-Signed(n))
ZArtShift(a, n) == IF Signed(n) > 0 THEN Word(Signed(a) * 2 ^ Signed(n)) ELSE Word(Signed(a) \div 2 ^ (-Signed(n)))
ZLogShift(a, n) == IF Signed(n) > 0 THEN Word(a * 2 ^ Signed(n)) ELSE a \div 2 ^ (-Signed(n))
ZJe(args) == \E i \in 2 .. Len(args) : args[i] = args[1]
ZJl(a, b) == Signed(a) < Signed(b)
ZJg(a, b) == Signed(a) > Signed(b)
ZJz(a) == Signed(a) = 0
ZTest(a, b) == (a & b) = b

\* print_num: a minus sign and the digits, without zeros in front.
Minus == 45
PrintNumUnsigned(value) == \* without the sign
  LET shown == SelectSeq(<<10000, 1000, 100, 10, 1>>, LAMBDA i : value >= i \/ i = 1)
  IN [k \in 1 .. Len(shown) |-> 48 + ((value \div shown[k]) % 10)]
PrintNum(value) ==
  LET v == IF Signed(value) < 0 THEN -Signed(value) ELSE value
      shown == SelectSeq(<<10000, 1000, 100, 10, 1>>, LAMBDA i : v >= i \/ i = 1)
  IN (IF Signed(value) < 0 THEN <<Minus>> ELSE <<>>) \o [k \in 1 .. Len(shown) |-> 48 + ((v \div shown[k]) % 10)]

VARIABLES mathArgs,       \* two operands and a distance
          rndInterval, rndCounter, rndLast,   \* random.c: the special mode; the number given last
          tbMem, tbWas, tbCall                \* memory, what it was before a copy, the copy
mathVars == <<mathArgs>>
rndVars == <<rndInterval, rndCounter, rndLast>>
tbVars == <<tbMem, tbWas, tbCall>>

MathInit == mathArgs \in MathWords \X MathWords \X ShiftWords
RndInit == rndInterval = 0 /\ rndCounter = 0 /\ rndLast = <<1, 1>>
TbInit == /\ tbMem = [a \in 1 .. TableSize |-> 10 + ((3 * a) % 7)]
          /\ tbWas = tbMem /\ tbCall = <<>>

(***************************************************************************)
(* Random numbers.  Seeds below 1000 give 0, 1, 2, ... up to the seed and  *)
(* again; others a generator, of which only that it may give anything is   *)
(* kept.                                                                   *)
(***************************************************************************)
SeedRandomOn == \* the counter goes on from where it was
  /\ rndInterval' \in {v \in Seeds : v < 1000}
  /\ rndLast' = <<1, 1>> /\ UNCHANGED rndCounter
SeedRandom ==
  /\ \E value \in Seeds :
       IF value # 0 /\ value < 1000 THEN rndCounter' = 0 /\ rndInterval' = value
       ELSE rndInterval' = 0 /\ UNCHANGED rndCounter
  /\ rndLast' = <<1, 1>>
ZRandom ==
  \E range \in Ranges :
    IF rndInterval # 0
    THEN /\ rndLast' = <<(rndCounter % range) + 1, range>>
         /\ rndCounter' = IF rndCounter + 1 = rndInterval THEN 0 ELSE rndCounter + 1
         /\ UNCHANGED rndInterval
    ELSE rndLast' \in (1 .. range) \X {range} /\ UNCHANGED <<rndInterval, rndCounter>>

(***************************************************************************)
(* copy_table: a copy that keeps what it reads when the areas overlap, or  *)
(* one byte after the other when the size is negative.                     *)
(***************************************************************************)
CopiedUp(mem, from, to, size) == \* always forwards
  LET n == IF Signed(size) < 0 THEN -Signed(size) ELSE size
      CopyByte(m, i) == [m EXCEPT ![to + i] = m[from + i]]
  IN IF to = 0 THEN [a \in DOMAIN mem |-> IF a - from \in 0 .. size - 1 THEN 0 ELSE mem[a]]
     ELSE FoldLeft(CopyByte, mem, [k \in 1 .. n |-> k - 1])
Copied(mem, from, to, size) ==
  LET n == IF Signed(size) < 0 THEN -Signed(size) ELSE size
      forwards == Signed(size) < 0 \/ from > to
      CopyByte(m, i) == [m EXCEPT ![to + i] = m[from + i]]
  IN IF to = 0 THEN [a \in DOMAIN mem |-> IF a - from \in 0 .. size - 1 THEN 0 ELSE mem[a]]
     ELSE FoldLeft(CopyByte, mem, [k \in 1 .. n |-> IF forwards THEN k - 1 ELSE n - k])
ZCopyTable ==
  /\ tbCall = <<>>
  /\ \E from \in 1 .. TableSize, to \in 0 .. TableSize, size \in CopySizes :
       LET n == IF Signed(size) < 0 /\ to # 0 THEN -Signed(size) ELSE size
       IN /\ from + n <= TableSize + 1 /\ to + n <= TableSize + 1
          /\ tbMem' = Copied(tbMem, from, to, size)
          /\ tbCall' = <<from, to, size>>
  /\ tbWas' = tbMem

\* scan_table: the address of the first entry that is the value, or 0.
RECURSIVE ZScanTable(_, _, _, _, _)
ZScanTableClose(mem, value, addr, left, form) == \* entries one after the other whatever their width
  CASE left = 0 -> 0
    [] left > 0 /\ (IF form & 128 # 0 THEN 256 * mem[addr] + mem[addr + 1] ELSE mem[addr]) = value -> addr
    [] OTHER -> ZScanTable(mem, value, addr + 1, left - 1, form)
ZScanTable(mem, value, addr, left, form) ==
  CASE left = 0 -> 0
    [] left > 0 /\ (IF form & 128 # 0 THEN 256 * mem[addr] + mem[addr + 1] ELSE mem[addr]) = value -> addr
    [] OTHER -> ZScanTable(mem, value, addr + (form & 127), left - 1, form)

MathNext == SeedRandom \/ ZRandom

(***************************************************************************)
(* What is wanted.                                                         *)
(***************************************************************************)
\* Divisor times quotient and the rest make the dividend again, the rest is
\* smaller than the divisor and has the sign of the dividend, for every pair of
\* words, -32768 by -1 among them (z_div, z_mod, z_mul, z_add).
QuotientAndRest ==
  LET a == mathArgs[1] b == mathArgs[2] rest == Signed(ZMod(a, b))
  IN b # 0 => /\ ZAdd(ZMul(ZDiv(a, b), b), ZMod(a, b)) = a
              /\ rest * rest < Signed(b) * Signed(b)
              /\ rest # 0 => (rest < 0) = (Signed(a) < 0)

\* A shift to the right undoes one to the left but for the bits that fell out;
\* the arithmetic one rounds down, the logical one does not know of signs
\* (z_art_shift, z_log_shift), and subtracting tells the order where it does not
\* overflow (z_sub, z_jl, z_jg).
ShiftsAgree ==
  LET a == mathArgs[1] b == mathArgs[2] n == mathArgs[3] back == Word(-Signed(n)) kept == 2 ^ (16 - Signed(n))
  IN /\ Signed(n) > 0 => /\ ZLogShift(ZLogShift(a, n), back) = a % kept
                         /\ ZArtShift(ZArtShift(a, n), back) = Word(IF a % kept >= kept \div 2 THEN (a % kept) - kept ELSE a % kept)
                         /\ ZArtShift(a, n) = ZLogShift(a, n)
     /\ ZJz(a) \/ Signed(a) - Signed(b) \notin -32768 .. 32767 \/ (ZJl(a, b) = (Signed(ZSub(a, b)) < 0))
     /\ ZJe(<<a, b>>) = ~(ZJl(a, b) \/ ZJg(a, b))
     /\ ZTest(ZOr(a, b), b) /\ ZAnd(ZNot(a), a) = 0

\* The digits that print_num shows are those of the signed number, -32768 among
\* them, and the first of them is zero only for zero.
NumbersAreShown ==
  LET shown == PrintNum(mathArgs[1])
      digits == SelectSeq(shown, LAMBDA d : d # Minus)
  IN /\ FoldLeft(LAMBDA v, d : 10 * v + (d - 48), 0, digits) = (IF Signed(mathArgs[1]) < 0 THEN -1 ELSE 1) * Signed(mathArgs[1])
     /\ (shown[1] = Minus) = (Signed(mathArgs[1]) < 0)
     /\ digits[1] = 48 => Len(digits) = 1

\* In the special mode the counter never runs past the seed, from where it
\* would not come back (seed_random, z_random); and a number is in its range.
CounterBelowSeed == /\ rndInterval # 0 => rndCounter < rndInterval
                    /\ rndLast[1] \in 1 .. rndLast[2]

\* After copy_table with a size that is not negative the target is what the
\* source was, whichever way they overlap; with a negative one the bytes between
\* the two repeat. Nothing else changes.
CopiesAreWhole ==
  tbCall = <<>> \/
  LET from == tbCall[1] to == tbCall[2] size == Signed(tbCall[3]) n == IF size < 0 THEN -size ELSE size
  IN IF to = 0 THEN \A a \in 1 .. TableSize : tbMem[a] = IF a >= from /\ a < from + tbCall[3] THEN 0 ELSE tbWas[a]
     ELSE \A a \in 1 .. TableSize :
            LET i == a - to IN
            tbMem[a] = CASE i \notin 0 .. n - 1 -> tbWas[a]
                         [] i \in 0 .. n - 1 /\ size < 0 /\ to > from -> tbWas[from + (i % (to - from))]
                         [] OTHER -> tbWas[from + i]

\* scan_table finds the first entry that holds a value that is there, and none
\* for one that is not (z_scan_table).
ScansFindFirst ==
  \A form \in ScanForms, count \in 0 .. 2 : \A v \in 10 .. 16, w \in {0} \cup 10 .. 11 :
    LET words == form >= 128
        value == IF words THEN 256 * v + w ELSE v
        At(k) == 1 + k * (form % 128)
        Holds(k) == IF words THEN tbMem[At(k)] = v /\ tbMem[At(k) + 1] = w ELSE tbMem[At(k)] = v
        found == ZScanTable(tbMem, value, 1, count, form)
    IN \/ found = 0 /\ \A k \in 0 .. count - 1 : ~Holds(k)
       \/ \E k \in 0 .. count - 1 : found = At(k) /\ Holds(k) /\ \A j \in 0 .. k - 1 : ~Holds(j) \/ At(j) = At(k)
=============================================================================
