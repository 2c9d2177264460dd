------------------------------ MODULE BcNumber ------------------------------
(***************************************************************************)
(* The decimal numbers of bc (bearos_bc/src/number.c) as functions on      *)
(* their digits: addition and subtraction with a carry that ripples, the   *)
(* recursive multiplication, the long division with guessed digits,        *)
(* powers, Newton's square root, and the ways in and out.                  *)
(*                                                                         *)
(* A number is its sign, its digits and how many of them are behind the    *)
(* point.  Reference counts and the storage of digits are left out.        *)
(***************************************************************************)
EXTENDS Integers, Sequences, SequencesExt

CONSTANTS
  MulBaseDigits,   \* mul_base_digits: below it numbers are multiplied directly
  LongMax          \* LONG_MAX, 2^w - 1

ASSUME MulBaseIsSmall == MulBaseDigits \in Nat /\ MulBaseDigits >= 4
ASSUME LongIsPower == \E w \in 4 .. 20 : LongMax = 2 ^ w - 1

-----------------------------------------------------------------------------
(* Numbers and rows of digits.                                             *)

NMax(a, b) == IF a > b THEN a ELSE b
NMin(a, b) == IF a > b THEN b ELSE a
Zeros(k) == [i \in 1 .. k |-> 0]
Num(neg, dig, scale) == [neg |-> neg, dig |-> dig, scale |-> scale]
NLen(n) == Len(n.dig) - n.scale
Zero == Num(FALSE, <<0>>, 0)
One == Num(FALSE, <<1>>, 0)
Two == Num(FALSE, <<2>>, 0)
Flip(n) == [n EXCEPT !.neg = ~@]
NoSign(n) == [n EXCEPT !.neg = FALSE]
IsZero(n) == \A i \in DOMAIN n.dig : n.dig[i] = 0

\* A row of digits without the zeros in front, but for the last `keep' digits.
Stripped(dig, keep) ==
  LET first == CHOOSE i \in 1 .. Len(dig) + 1 :
                 /\ i = Len(dig) - keep + 1 \/ dig[i] # 0
                 /\ \A j \in 1 .. i - 1 : dig[j] = 0
  IN  SubSeq(dig, first, Len(dig))

\* _bc_rm_leading_zeros
RmLeadingZeros(n) == [n EXCEPT !.dig = Stripped(@, n.scale + 1)]

RECURSIVE RippleFrom(_, _, _, _, _, _)
RippleFrom(x, y, k, i, carry, dig) ==
  IF i = 0 THEN [carry |-> carry, dig |-> dig]
  ELSE LET v == x[i] + k * (y[i] + carry)
       IN  RippleFrom(x, y, k, i - 1, IF v \in 0 .. 9 THEN 0 ELSE 1, <<v % 10>> \o dig)

\* x + k * y digit by digit, where k is 1 or -1, and what is carried out.
Ripple(x, y, k) == RippleFrom(x, y, k, Len(x), 0, <<>>)

\* The digits of n with len of them before the point and scale behind.
Aligned(n, len, scale) == Zeros(len - NLen(n)) \o n.dig \o Zeros(scale - n.scale)

-----------------------------------------------------------------------------
(* Comparison, sum and difference.                                         *)

\* The order of two rows of digits of one length.
RowOrder(x, y) ==
  IF x = y THEN 0
  ELSE LET i == CHOOSE i \in DOMAIN x : x[i] # y[i] /\ \A j \in 1 .. i - 1 : x[j] = y[j]
       IN  IF x[i] > y[i] THEN 1 ELSE -1

\* Mutant of CompareDigits: the digits that only the longer fraction has do not count.
CompareDigitsShort(n1, n2) ==
  LET len == NMax(NLen(n1), NLen(n2)) + NMin(n1.scale, n2.scale)
      row(n) == SubSeq(Aligned(n, NMax(NLen(n1), NLen(n2)), NMax(n1.scale, n2.scale)), 1, len)
  IN  RowOrder(row(n1), row(n2))

\* Numbers of one length, digit by digit: what is missing of a fraction is zero.
CompareDigits(n1, n2) ==
  LET row(n) == Aligned(n, NLen(n1), NMax(n1.scale, n2.scale)) IN RowOrder(row(n1), row(n2))

\* _bc_do_compare, with and without the sign.
CompareMagnitude(n1, n2) ==
  CASE NLen(n1) > NLen(n2) -> 1
    [] NLen(n1) < NLen(n2) -> -1
    [] NLen(n1) = NLen(n2) -> CompareDigits(n1, n2)
Compare(n1, n2) ==
  CASE n1.neg # n2.neg -> IF n2.neg THEN 1 ELSE -1
    [] ~n1.neg /\ ~n2.neg -> CompareMagnitude(n1, n2)
    [] n1.neg /\ n2.neg -> -CompareMagnitude(n1, n2)

\* _bc_do_add and _bc_do_sub: n1 is the larger one there.
DoSum(n1, n2, k, len, scaleMin) ==
  LET scale == NMax(n1.scale, n2.scale)
      sum == Ripple(Aligned(n1, len, scale), Aligned(n2, len, scale), k).dig
  IN  RmLeadingZeros(Num(FALSE, sum \o Zeros(scaleMin - scale), NMax(scale, scaleMin)))
DoAdd(n1, n2, scaleMin) == DoSum(n1, n2, 1, NMax(NLen(n1), NLen(n2)) + 1, scaleMin)
DoSub(n1, n2, scaleMin) == DoSum(n1, n2, -1, NMax(NLen(n1), NLen(n2)), scaleMin)

\* Mutant of AddSigned: numbers that cancel are not told apart.
AddSignedZero(n1, n2, neg2, scaleMin) ==
  CASE n1.neg = neg2 -> [DoAdd(n1, n2, scaleMin) EXCEPT !.neg = n1.neg]
    [] n1.neg # neg2 /\ CompareMagnitude(n1, n2) = -1 -> [DoSub(n2, n1, scaleMin) EXCEPT !.neg = neg2]
    [] n1.neg # neg2 /\ CompareMagnitude(n1, n2) # -1 -> [DoSub(n1, n2, scaleMin) EXCEPT !.neg = n1.neg]

AddOrdered(n1, n2, neg2, scaleMin, order) ==
  CASE n1.neg = neg2 -> [DoAdd(n1, n2, scaleMin) EXCEPT !.neg = n1.neg]
    [] n1.neg # neg2 /\ order = -1 -> [DoSub(n2, n1, scaleMin) EXCEPT !.neg = neg2]
    [] n1.neg # neg2 /\ order = 1 -> [DoSub(n1, n2, scaleMin) EXCEPT !.neg = n1.neg]
    [] n1.neg # neg2 /\ order = 0 ->
         LET scale == NMax(scaleMin, NMax(n1.scale, n2.scale)) IN Num(FALSE, Zeros(1 + scale), scale)

\* bc_add, and bc_sub, where the sign of n2 counts the other way round.
AddSigned(n1, n2, neg2, scaleMin) == AddOrdered(n1, n2, neg2, scaleMin, CompareMagnitude(n1, n2))
Add(n1, n2, scaleMin) == AddSigned(n1, n2, n2.neg, scaleMin)
Sub(n1, n2, scaleMin) == AddSigned(n1, n2, ~n2.neg, scaleMin)

-----------------------------------------------------------------------------
(* Product.                                                                *)

RECURSIVE MulColumns(_, _, _, _, _)
\* From the column k of the written product on, with what the last one carried.
MulColumns(u, v, k, carry, dig) ==
  LET sum == carry + MapThenSumSet(LAMBDA i : u[Len(u) - i] * v[Len(v) - k + i],
                                   {i \in 0 .. Len(u) - 1 : k - i \in 0 .. Len(v) - 1})
  IN  IF k = Len(u) + Len(v) THEN <<sum>> \o dig
      ELSE MulColumns(u, v, k + 1, sum \div 10, <<sum % 10>> \o dig)

\* _bc_simp_mul
SimpMul(u, v) == MulColumns(u, v, 0, 0, <<>>)

\* _bc_shift_addsub: val is added to accum, or taken from it, shift digits up.
\* Where the assertion at its head would stop the program there is no result.
ShiftAddSub(accum, val, shift, k) ==
  LET v == IF val[1] = 0 THEN Tail(val) ELSE val
  IN  IF Len(accum) < shift + Len(v) THEN <<>>
      ELSE Ripple(accum, Zeros(Len(accum) - shift - Len(v)) \o v \o Zeros(shift), k).dig

\* The number a part of a row of digits stands for.
SubNum(dig) == IF dig = <<>> THEN Zero ELSE RmLeadingZeros(Num(FALSE, dig, 0))

RECURSIVE RecMul(_, _)
\* The products of pairs of parts.
PartProducts(pairs) ==
  [i \in DOMAIN pairs |-> IF \E x \in Range(pairs[i]) : IsZero(x) THEN <<0>>
                          ELSE RecMul(pairs[i][1].dig, pairs[i][2].dig)]

\* m is added to accum at two places.
AddTwice(accum, m, high, low) == ShiftAddSub(ShiftAddSub(accum, m, high, 1), m, low, 1)

\* The shifted sum of three products, where that of the differences has the sign k.
SumOfProducts(len, m, n, k) ==
  ShiftAddSub(AddTwice(AddTwice(Zeros(len), m[1], 2 * n, n), m[3], n, 0), m[2], n, k)

\* Mutant of SignOfProduct: the sign of one difference is forgotten.
SignOfSecond(d1, d2) == IF d2.neg THEN -1 ELSE 1
SignOfProduct(d1, d2) == IF d1.neg # d2.neg THEN -1 ELSE 1

\* The three products of the parts of u and of v, with d1 = u1 - u0 and d2 = v0 - v1.
RecMulOfParts(len, n, u1, u0, v1, v0, d1, d2) ==
  SumOfProducts(len, PartProducts(<<<<u1, v1>>, <<d1, d2>>, <<u0, v0>>>>), n, SignOfProduct(d1, d2))
RecMulOfHalves(len, n, u1, u0, v1, v0) ==
  RecMulOfParts(len, n, u1, u0, v1, v0, Sub(u1, u0, 0), Sub(v0, v1, 0))

\* The halves of u and v: n digits are in the low ones.
High(u, n) == SubNum(SubSeq(u, 1, Len(u) - n))
Low(u, n) == SubNum(SubSeq(u, NMax(Len(u) - n, 0) + 1, Len(u)))
RecMulOf(u, v) ==
  LET n == (NMax(Len(u), Len(v)) + 1) \div 2
  IN  RecMulOfHalves(Len(u) + Len(v) + 1, n, High(u, n), Low(u, n), High(v, n), Low(v, n))

\* _bc_rec_mul
RecMul(u, v) ==
  IF \/ Len(u) + Len(v) < MulBaseDigits
     \/ Len(u) < MulBaseDigits \div 4 \/ Len(v) < MulBaseDigits \div 4
  THEN SimpMul(u, v) ELSE RecMulOf(u, v)

\* Zero has no sign.
ZeroPlain(n) == IF IsZero(n) THEN NoSign(n) ELSE n

\* bc_multiply: what the scale has no room for is cut off.
MultiplyCut(neg, dig, full, kept) ==
  ZeroPlain(RmLeadingZeros(Num(neg, SubSeq(dig, 1, Len(dig) - full + kept), kept)))
Multiply(n1, n2, scale) ==
  LET full == n1.scale + n2.scale
  IN  MultiplyCut(n1.neg # n2.neg, RecMul(n1.dig, n2.dig), full, NMin(full, NMax(scale, NMax(n1.scale, n2.scale))))

-----------------------------------------------------------------------------
(* Quotient and remainder.                                                 *)

RECURSIVE OneMultFrom(_, _, _, _, _)
OneMultFrom(num, digit, i, carry, dig) ==
  IF i = 0 THEN <<carry>> \o dig
  ELSE LET v == num[i] * digit + carry
       IN  OneMultFrom(num, digit, i - 1, v \div 10, <<v % 10>> \o dig)

\* _one_mult, with the digit that is carried out in front.
OneMult(num, digit) == OneMultFrom(num, digit, Len(num), 0, <<>>)

\* The guess for the digit whose window begins with the digits d.
Guess(d, num2) ==
  LET second == IF Len(num2) > 1 THEN num2[2] ELSE 0
      top == d[1] * 10 + d[2]
      tooBig(g) == second * g > (top - num2[1] * g) * 10 + d[3]
      g0 == IF num2[1] = d[1] THEN 9 ELSE top \div num2[1]
  IN  CASE ~tooBig(g0) -> g0
        [] tooBig(g0) /\ ~tooBig(g0 - 1) -> g0 - 1
        [] tooBig(g0) /\ tooBig(g0 - 1) -> g0 - 2

\* The subtraction of g times num2 came to r at place q.
\* Mutant of DigitFound: a guess that was too large is not taken back.
DigitNoAddBack(st, q, num2, g, r) ==
  [num |-> SubSeq(st.num, 1, q) \o r.dig \o SubSeq(st.num, q + Len(num2) + 2, Len(st.num)),
   quot |-> Append(st.quot, g)]
DigitFound(st, q, num2, g, r) ==
  [num |-> SubSeq(st.num, 1, q)
           \o (IF r.carry = 1 THEN Ripple(r.dig, <<0>> \o num2, 1).dig ELSE r.dig)
           \o SubSeq(st.num, q + Len(num2) + 2, Len(st.num)),
   quot |-> Append(st.quot, g - r.carry)]

\* One digit of the quotient: guess, multiply, subtract, and add back.
DivideGuessed(st, q, num2, g) ==
  DigitFound(st, q, num2, g, Ripple(SubSeq(st.num, q + 1, q + Len(num2) + 1), OneMult(num2, g), -1))
DivideDigit(st, q, num2) == DivideGuessed(st, q, num2, Guess(SubSeq(st.num, q + 1, q + 3), num2))

\* bc_divide for n2 # 0.  The branch for n2 = 1 stores a result that the rest of
\* the function stores again.
Divide(n1, n2, scale) ==
  LET scale2 == CHOOSE s \in 0 .. n2.scale :
                  /\ s = 0 \/ n2.dig[NLen(n2) + s] # 0
                  /\ \A i \in NLen(n2) + s + 1 .. Len(n2.dig) : n2.dig[i] = 0
      len1 == NLen(n1) + scale2
      extra == NMax(scale - (n1.scale - scale2), 0)
      divisor == Stripped(SubSeq(n2.dig, 1, NLen(n2) + scale2), 1)
      len2 == Len(divisor)
      norm == 10 \div (divisor[1] + 1)
      num1 == Tail(OneMult(<<0>> \o n1.dig \o Zeros(extra + 1), norm))
      num2 == Tail(OneMult(divisor, norm))
      step[q \in -1 .. len1 + scale - len2] ==
        IF q < 0 THEN [num |-> num1, quot |-> <<>>] ELSE DivideDigit(step[q - 1], q, num2)
      quot == IF len2 > len1 + scale THEN Zeros(scale + 1)
              ELSE Zeros(len2 - len1) \o step[len1 + scale - len2].quot
  IN  ZeroPlain(RmLeadingZeros(Num(n1.neg # n2.neg, quot, scale)))

\* Mutant of Modulo: the scale of the dividend is forgotten.
ModuloShort(n1, n2, scale) ==
  Sub(n1, Multiply(Divide(n1, n2, scale), n2, scale), scale)

\* bc_divmod and bc_modulo
Modulo(n1, n2, scale) ==
  LET rscale == NMax(n1.scale, n2.scale + scale)
  IN  Sub(n1, Multiply(Divide(n1, n2, scale), n2, rscale), rscale)

-----------------------------------------------------------------------------
(* Integers.                                                               *)

\* A long holds no more than w bits and its sign.
WrapLong(v) == ((v + LongMax + 1) % (2 * (LongMax + 1))) - LongMax - 1

RECURSIVE LongFrom(_, _, _)
LongFrom(n, i, val) ==
  CASE i <= NLen(n) /\ val <= LongMax \div 10 -> LongFrom(n, i + 1, WrapLong(WrapLong(val * 10) + n.dig[i]))
    [] i <= NLen(n) /\ val > LongMax \div 10 -> 0
    [] i > NLen(n) -> NMax(val, 0)

\* bc_num2long: the digits are taken while another one may fit.
Num2Long(n) == IF n.neg THEN -LongFrom(n, 1, 0) ELSE LongFrom(n, 1, 0)

\* bc_int2num
Int2Num(val) ==
  LET digits[v \in Nat] == IF v < 10 THEN <<v>> ELSE Append(digits[v \div 10], v % 10)
  IN  Num(val < 0, digits[IF val < 0 THEN -val ELSE val], 0)

-----------------------------------------------------------------------------
(* Powers and roots.                                                       *)

RECURSIVE RaiseEven(_, _, _)
\* The squarings until the exponent is odd.
RaiseEven(power, pwrscale, u) ==
  IF u % 2 = 1 THEN [power |-> power, pwrscale |-> pwrscale, u |-> u]
  ELSE RaiseEven(Multiply(power, power, 2 * pwrscale), 2 * pwrscale, u \div 2)

RECURSIVE RaiseOn(_, _, _, _, _)
\* One more squaring is p; cs is what calcscale comes to.
RaiseWith(temp, calcscale, p, pwrscale, u, cs) ==
  RaiseOn(IF u % 2 = 1 THEN Multiply(temp, p, cs) ELSE temp, IF u % 2 = 1 THEN cs ELSE calcscale, p, pwrscale, u \div 2)

\* Mutant of RaiseOn: the scale that is carried along stays where it was.
RaiseOnShort(temp, calcscale, power, pwrscale, u) ==
  IF u = 0 THEN temp
  ELSE RaiseWith(temp, calcscale, Multiply(power, power, pwrscale), pwrscale, u, calcscale)

RaiseOn(temp, calcscale, power, pwrscale, u) ==
  IF u = 0 THEN temp
  ELSE RaiseWith(temp, calcscale, Multiply(power, power, 2 * pwrscale), 2 * pwrscale, u, 2 * pwrscale + calcscale)

\* bc_raise finds the exponent too large.
RaiseTooLarge(n2) == Num2Long(n2) = 0 /\ (NLen(n2) > 1 \/ n2.dig[1] # 0)

RaiseAll(e) == RaiseOn(e.power, e.pwrscale, e.power, e.pwrscale, e.u \div 2)

\* The end of bc_raise, for a power temp.  The result of a division by zero is
\* what result held before.
RaiseEnd(temp, exponent, scale, rscale, before) ==
  CASE exponent < 0 -> IF IsZero(temp) THEN before ELSE Divide(One, temp, scale)
    [] exponent > 0 -> IF temp.scale <= rscale THEN temp
                       ELSE [temp EXCEPT !.dig = SubSeq(@, 1, Len(@) - temp.scale + rscale), !.scale = rscale]

RaiseTo(n1, exponent, u, scale, before) ==
  IF exponent = 0 THEN One
  ELSE RaiseEnd(RaiseAll(RaiseEven(n1, n1.scale, u)), exponent, scale, NMin(n1.scale * u, NMax(scale, n1.scale)), before)

\* bc_raise
RaiseBy(n1, exponent, scale, before) ==
  RaiseTo(n1, exponent, IF exponent < 0 THEN -exponent ELSE exponent, scale, before)
Raise(n1, n2, scale, before) == RaiseBy(n1, Num2Long(n2), scale, before)

RECURSIVE RaiseModOn(_, _, _, _, _, _)
RaiseModOn(temp, power, exponent, mod, rscale, scale) ==
  LET times(a, b) == Modulo(Multiply(a, b, rscale), mod, scale)
  IN  IF IsZero(exponent) THEN temp
      ELSE RaiseModOn(IF IsZero(Modulo(exponent, Two, 0)) THEN temp ELSE times(temp, power),
                      times(power, power), Divide(exponent, Two, 0), mod, rscale, scale)

\* bc_raisemod
RaiseMod(base, expo, mod, scale) ==
  RaiseModOn(One, base, Divide(expo, One, 0), mod, NMax(scale, base.scale), scale)

\* bc_is_near_zero
IsNearZero(n, scale) ==
  LET count == NLen(n) + NMin(scale, n.scale)
  IN  /\ \A i \in 1 .. count - 1 : n.dig[i] = 0
      /\ n.dig[count] \in {0, 1}

Half1 == Num(FALSE, <<0, 5>>, 1)

\* bc_divide into guess, which stays where guess is zero.
Quotient(n, guess, cscale) == IF IsZero(guess) THEN guess ELSE Divide(n, guess, cscale)

\* bc_sqrt before its loop, for a number that is neither 0 nor 1, nor negative.
SqrtStart(n, scale) ==
  [num |-> n, rscale |-> NMax(scale, n.scale), done |-> FALSE,
   guess |-> IF Compare(n, One) < 0 THEN One
             ELSE Raise(Int2Num(10), Int2Num(NLen(n) \div 2), 0, Zero),
   cscale |-> IF Compare(n, One) < 0 THEN n.scale ELSE 3]

SqrtWith(st, guess, near, last, most) ==
  [st EXCEPT !.guess = guess,
             !.cscale = IF near /\ ~last THEN NMin(3 * @, most) ELSE @,
             !.done = near /\ last]

\* Mutant of SqrtGuessed: it asks for the guess to come to rest.
SqrtRests(st, guess) ==
  SqrtWith(st, guess, IsZero(Sub(guess, st.guess, st.cscale + 1)), st.cscale >= st.rscale + 1, st.rscale + 1)

\* Mutant of SqrtGuessed: the last rounds have no digit to spare.
SqrtShort(st, guess) ==
  SqrtWith(st, guess, IsNearZero(Sub(guess, st.guess, st.cscale + 1), st.cscale), st.cscale >= st.rscale, st.rscale)

\* What the next guess does to the loop.
SqrtGuessed(st, guess) ==
  SqrtWith(st, guess, IsNearZero(Sub(guess, st.guess, st.cscale + 1), st.cscale), st.cscale >= st.rscale + 1, st.rscale + 1)

\* One round of it.
SqrtStep(st) ==
  SqrtGuessed(st, Multiply(Add(Quotient(st.num, st.guess, st.cscale), st.guess, 0), Half1, st.cscale))

SqrtEnd(st) == Divide(st.guess, One, st.rscale)

-----------------------------------------------------------------------------
(* How numbers are written and read: bc_out_num, bc_num2str and bc_str2num *)
(* of number.c, push_constant and push_b10_const of execute.c.  A character *)
(* is its code, and a digit stands for itself.                              *)

\* The characters that are no digits, as the values that stand beside digits.
Blank == 32
Plus == 43
Minus == 45
Point == 46
Colon == 58
MaxDigits == 36

-----------------------------------------------------------------------------
(* Writing.                                                                *)

\* bc_out_long: val with size decimal digits at least.
OutLong(val, size, space) ==
  LET dig == Int2Num(val).dig IN (IF space THEN <<Blank>> ELSE <<>>) \o Zeros(size - Len(dig)) \o dig

OutDigit(d, base, space) ==
  IF base <= 16 THEN <<d>> ELSE OutLong(d, NLen(Int2Num(base - 1)), space)

RECURSIVE OutInteger(_, _)
OutInteger(int, base) ==
  IF IsZero(int) THEN <<>>
  ELSE OutInteger(Divide(int, Int2Num(base), 0), base)
       \o OutDigit(Num2Long(Modulo(int, Int2Num(base), 0)), base, TRUE)

RECURSIVE OutFraction(_, _, _, _)
OutFractionDigit(product, digit, t, base, scale, next) ==
  OutDigit(digit, base, t # One) \o OutFraction(Sub(product, Int2Num(digit), 0), next, base, scale)

\* Mutant of OutFractionWith: as many digits as the number has, whatever the base.
OutFractionLong(product, t, base, scale) ==
  OutFractionDigit(product, Num2Long(product), t, base, scale, Multiply(t, Int2Num(10), 0))

\* One digit of the fraction, and the rest of them; t counts powers of the base.
OutFractionWith(product, t, base, scale) ==
  OutFractionDigit(product, Num2Long(product), t, base, scale, Multiply(t, Int2Num(base), 0))

OutFraction(frac, t, base, scale) ==
  IF NLen(t) > scale THEN <<>> ELSE OutFractionWith(Multiply(frac, Int2Num(base), scale), t, base, scale)

\* bc_out_num.  The test for leading_zero asks whether the number is zero where
\* it is not, and writes nothing.
OutNum(n, base) ==
  LET int == NoSign(Divide(n, One, 0))
      frac == NoSign(Sub(n, Divide(n, One, 0), 0))
      whole == SubSeq(n.dig, 1, NLen(n))
      point == IF n.scale > 0 THEN <<Point>> ELSE <<>>
  IN  (IF n.neg THEN <<Minus>> ELSE <<>>)
      \o CASE IsZero(n) -> <<0>>
           [] ~IsZero(n) /\ base = 10 ->
                (IF whole = <<0>> THEN <<>> ELSE whole)
                \o point \o SubSeq(n.dig, NLen(n) + 1, Len(n.dig))
           [] ~IsZero(n) /\ base # 10 ->
                OutInteger(int, base)
                \o point \o (IF n.scale > 0 THEN OutFraction(frac, One, base, n.scale) ELSE <<>>)

\* bc_num2str
Num2Str(n) ==
  (IF n.neg THEN <<Minus>> ELSE <<>>) \o SubSeq(n.dig, 1, NLen(n))
  \o (IF n.scale > 0 THEN <<Point>> \o SubSeq(n.dig, NLen(n) + 1, Len(n.dig)) ELSE <<>>)

-----------------------------------------------------------------------------
(* Reading.                                                                *)

\* The first place from i on where s does not hold a character of C.
After(s, i, C) == CHOOSE j \in i .. Len(s) + 1 :
                    /\ \A k \in i .. j - 1 : s[k] \in C
                    /\ j = Len(s) + 1 \/ s[j] \notin C

\* Mutant of Str2Num: the zero before the point is not put in for one that was skipped.
Str2NumBare(s, scale) ==
  LET first == IF s # <<>> /\ s[1] \in {Minus, Plus} THEN 2 ELSE 1
      point == After(s, After(s, first, {0}), 0 .. 9)
      frac == NMin(point + 1, Len(s) + 1)
      kept == NMin(Len(s) + 1 - frac, scale)
  IN  Num(s[1] = Minus, SubSeq(s, After(s, first, {0}), point - 1) \o SubSeq(s, frac, frac + kept - 1), kept)

\* bc_str2num
Str2Num(s, scale) ==
  LET first == IF s # <<>> /\ s[1] \in {Minus, Plus} THEN 2 ELSE 1
      start == After(s, first, {0})
      point == After(s, start, 0 .. 9)
      frac == IF point <= Len(s) /\ s[point] = Point THEN point + 1 ELSE point
      end == After(s, frac, 0 .. 9)
      kept == NMin(end - frac, scale)
      whole == SubSeq(s, start, point - 1)
  IN  IF end <= Len(s) \/ (whole = <<>> /\ end = frac) THEN Zero
      ELSE Num(s[1] = Minus, (IF whole = <<>> THEN <<0>> ELSE whole) \o SubSeq(s, frac, frac + kept - 1), kept)

\* push_b10_const: s up to the ":" behind it.
B10Const(s) ==
  LET point == After(s, 1, 0 .. MaxDigits - 1)
      scale == IF s[point] = Point THEN Len(s) - point - 1 ELSE 0
      nine(d) == NMin(d, 9)
      whole == [i \in 1 .. point - 1 |-> nine(s[i])]
  IN  IF point = 2 /\ scale = 0 THEN Int2Num(s[1])
      ELSE Num(FALSE, (IF whole = <<>> THEN <<0>> ELSE whole)
                      \o [i \in 1 .. scale |-> nine(s[point + i])], scale)

\* The digits push_constant takes from place i on: everything below MaxDigits,
\* a blank too.  Where s ends the input goes on with what `rest' is.
TakenFrom(s, i) == After(s, i, 0 .. MaxDigits - 1)

\* n times base plus a digit, which base - 1 at most stands for.
WithDigit(n, c, base) == Add(Multiply(n, Int2Num(base), 0), Int2Num(NMin(c, base - 1)), 0)

\* The digits from place i to place j as an integer in the base, after what is
\* before them.
ReadDigits(s, i, j, base, before) ==
  FoldLeft(LAMBDA n, c : WithDigit(n, c, base), before, SubSeq(s, i, j))

\* The integer from place i to place j: one digit is a number of its own.
ReadInteger(s, i, j, base) == IF i = j THEN Int2Num(s[i]) ELSE ReadDigits(s, i, j, base, Zero)

\* The fraction of len digits: one integer over a power of the base.
ReadFraction(s, i, len, base) ==
  Divide(ReadDigits(s, i, i + len - 1, base, Zero),
         FoldLeft(LAMBDA n, k : Multiply(n, Int2Num(base), 0), One, Zeros(len)), len)

\* The character behind the point counts as a digit whatever it is.
ReadNumber(s, start, point, end, base) ==
  IF point < Len(s) /\ s[point] = Point
  THEN [num |-> Add(ReadInteger(s, start, point - 1, base), ReadFraction(s, point + 1, end - 1 - point, base), 0),
        taken |-> end]
  ELSE [num |-> ReadInteger(s, start, point - 1, base), taken |-> point]

\* push_constant over s: the number, and how many characters it took; taken is
\* beyond s where it would go on to read.
ConstantFrom(s, start, base) ==
  LET point == TakenFrom(s, start) IN ReadNumber(s, start, point, TakenFrom(s, point + 2), base)
Constant(s, base) ==
  LET blank == After(s, 1, {Blank})
      sign == IF blank <= Len(s) THEN s[blank] ELSE Point
      negated(r) == IF sign = Minus THEN [r EXCEPT !.num = Sub(Zero, @, 0)] ELSE r
  IN  negated(ConstantFrom(s, IF sign \in {Minus, Plus} THEN blank + 1 ELSE blank, base))

-----------------------------------------------------------------------------
(* One operation on numbers after another, and what integers say of its    *)
(* result.  Newton's iteration of bc_sqrt goes round by round: nothing but *)
(* the arithmetic itself brings it to an end.                              *)

CONSTANTS
  Terms,       \* numbers that are added and compared
  Factors,     \* rows of digits whose products are taken
  Dividends, Divisors, Scales,
  Bases,       \* ibase and obase
  Longs,       \* numbers that are taken for a long
  Squares      \* numbers whose root is taken

VARIABLES
  calcTask,    \* [op, a, b, scale]
  calcAt,      \* begin, root in bc_sqrt's loop, or end
  calcRoot,    \* the state of that loop
  calcResult   \* a number or a row of characters

calcVars == <<calcTask, calcAt, calcRoot, calcResult>>

Task(op, a, b, scale) == [op |-> op, a |-> a, b |-> b, scale |-> scale]
Power(n, k) == Task("raise", n, Int2Num(k), 3)
Tasks ==
  {Task(op, a, b, 0) : op \in {"add", "sub", "compare"}, a \in Terms, b \in Terms}
  \cup {Task("multiply", Num(n, x, s), Num(FALSE, y, 1), 1) :
          x \in Factors, y \in Factors, n \in BOOLEAN, s \in {0, 1}}
  \cup {Task(op, a, b, s) : op \in {"divide", "modulo"}, a \in Dividends, b \in Divisors, s \in Scales}
  \cup {Power(a, k) : a \in {t \in Terms : Len(t.dig) <= 2}, k \in {-2, -1, 1, 2, 3, 4}}
  \cup {Task("raisemod", a, b, k) 
          : a \in {d \in Dividends : d.scale = 0 /\ NLen(d) < 4}, k \in {0, 1, 2, 5}, b \in {d \in Divisors : d.scale = 0}}
  \cup {Task("out", a, Zero, base) : a \in Terms \cup Dividends, base \in Bases}
  \cup {Task("string", a, Zero, 0) : a \in Terms \cup Dividends}
  \cup {Task("long", a, Zero, 0) : a \in Dividends \cup Longs}
  \cup {Task("sqrt", a, Zero, s) : a \in Squares, s \in Scales}

CalcInit == calcTask \in Tasks /\ calcAt = "begin" /\ calcRoot = <<>> /\ calcResult = <<>>

Op(ops) == calcAt = "begin" /\ calcTask.op \in ops
Gives(r) == calcResult' = r /\ calcAt' = "end" /\ UNCHANGED <<calcTask, calcRoot>>
A == calcTask.a
B == calcTask.b
S == calcTask.scale

Sum == Op({"add", "sub"}) /\ Gives(IF calcTask.op = "add" THEN Add(A, B, S) ELSE Sub(A, B, S))
Comparison == Op({"compare"}) /\ Gives(Int2Num(Compare(A, B)))
Product == Op({"multiply"}) /\ Gives(Multiply(A, B, S))
Quotient1 == Op({"divide"}) /\ Gives(Divide(A, B, S))
Remainder == Op({"modulo"}) /\ Gives(Modulo(A, B, S))
RaisedMod == Op({"raisemod"}) /\ Gives(RaiseMod(A, Int2Num(S), B, 0))
Raised == Op({"raise"}) /\ Gives(Raise(A, B, S, Zero))
Written == Op({"out"}) /\ Gives(OutNum(A, S))
Copied == Op({"string"}) /\ Gives(Str2Num(Num2Str(A), A.scale))
Long == Op({"long"}) /\ Gives(Int2Num(Num2Long(A)))

\* bc_sqrt: before its loop, a round of it, and behind it.
SqrtBegin == /\ Op({"sqrt"})
             /\ IF IsZero(A) \/ Compare(A, One) = 0
                THEN Gives(IF IsZero(A) THEN Zero ELSE One)
                ELSE calcRoot' = SqrtStart(A, S) /\ calcAt' = "root" /\ UNCHANGED <<calcTask, calcResult>>
SqrtRound == /\ calcAt = "root" /\ ~calcRoot.done
             /\ calcRoot' = SqrtStep(calcRoot) /\ UNCHANGED <<calcTask, calcAt, calcResult>>
SqrtStop == calcAt = "root" /\ calcRoot.done /\ Gives(SqrtEnd(calcRoot))
SqrtOn == SqrtBegin \/ SqrtRound \/ SqrtStop

CalcNext == Sum \/ Comparison \/ Product \/ Quotient1 \/ Remainder \/ Raised \/ RaisedMod \/ Written \/ Copied
            \/ Long \/ SqrtOn
\* Weak fairness of SqrtOn, with the states that enable it written out: bc_sqrt
\* is one call, nobody else runs before it is back.
SqrtPending == calcAt = "root" \/ Op({"sqrt"})
SqrtFair == []<><<SqrtOn>>_calcVars \/ []<>~SqrtPending
CalcSpec == CalcInit /\ [][CalcNext]_calcVars /\ SqrtFair

-----------------------------------------------------------------------------
(* Properties.                                                             *)

Ended(op) == calcAt = "end" /\ calcTask.op = op
R == calcResult
IntOfRow(dig) == LET v[i \in 0 .. Len(dig)] == IF i = 0 THEN 0 ELSE 10 * v[i - 1] + dig[i] IN v[Len(dig)]
\* The digits of n as one integer: n * 10^scale.
IntOf(n) == IF n.neg THEN -IntOfRow(n.dig) ELSE IntOfRow(n.dig)
\* n * 10^s, for a scale of at most s.
IntAt(n, s) == IntOf(n) * 10 ^ (s - n.scale)
Abs(v) == IF v < 0 THEN -v ELSE v
Sign(v) == IF v < 0 THEN -1 ELSE IF v > 0 THEN 1 ELSE 0
\* Division that cuts off.
Cut(v, d) == Sign(v) * Sign(d) * (Abs(v) \div Abs(d))

\* Digits, one at least before the point, no zero in front of others; and zero
\* has no sign, but for powers, which are cut without a look at what is left.
Numeral(n) ==
  /\ n.dig \in Seq(0 .. 9) /\ NLen(n) >= 1
  /\ NLen(n) = 1 \/ n.dig[1] # 0
  /\ n.neg => ~IsZero(n) \/ calcTask.op = "raise"
\* Every result is a number on which the next operation may rely.
ResultsAreNumerals == calcAt = "end" /\ calcTask.op # "out" => Numeral(R)

\* Sums and differences are exact, whatever carries through which part of which
\* number, and comparisons say what their difference does.
SumsAreExact ==
  LET s == NMax(A.scale, B.scale)
  IN  /\ Ended("add") => R.scale = s /\ IntOf(R) = IntAt(A, s) + IntAt(B, s)
      /\ Ended("sub") => R.scale = s /\ IntOf(R) = IntAt(A, s) - IntAt(B, s)
      /\ Ended("compare") => IntOf(R) = Sign(IntAt(A, s) - IntAt(B, s))

\* The recursive multiplication computes the product, cut to its scale.
ProductsAreExact ==
  Ended("multiply") =>
    IntOf(R) = Cut(IntOf(A) * IntOf(B), 10 ^ (A.scale + B.scale - R.scale))

\* The quotient is the exact one cut to the scale, however often a guessed digit
\* had to be taken back.
QuotientsAreExact ==
  Ended("divide") =>
    /\ R.scale = S
    /\ IntOf(R) = LET up == B.scale + S - A.scale
                  IN  IF up >= 0 THEN Cut(IntOf(A) * 10 ^ up, IntOf(B))
                      ELSE Cut(IntOf(A), IntOf(B) * 10 ^ (-up))

\* What the remainder leaves is what the quotient did not take.
RemainderIsRest ==
  Ended("modulo") =>
    LET q == Divide(A, B, S)
    IN  /\ R.scale = NMax(A.scale, B.scale + S)
        /\ IntOf(R) = IntAt(A, R.scale) - IntOf(q) * IntOf(B) * 10 ^ (R.scale - q.scale - B.scale)

\* Powers with positive exponents are products cut once, at their end; powers
\* modulo a number are powers by repeated multiplication.
PowersAreExact ==
  LET k == Num2Long(B)
      rest[i \in 0 .. S] == IF i = 0 THEN 1 ELSE (IntOf(A) * rest[i - 1]) % Abs(IntOf(B))
  IN  /\ Ended("raise") /\ k > 0 => R.scale = NMin(A.scale * k, NMax(S, A.scale)) /\ IntOf(R) = Cut(IntOf(A) ^ k, 10 ^ (A.scale * k - R.scale))
      /\ Ended("raisemod") /\ S > 0 => IntOf(R) = rest[S]

\* Newton's iteration ends, ...
RootsEnd == calcTask.op = "sqrt" ~> calcAt = "end"
\* ... and ends at the root cut to the scale.
RootsAreExact ==
  Ended("sqrt") =>
    LET s == R.scale
    IN  /\ IntOf(R) * IntOf(R) <= IntAt(A, 2 * s)
        /\ IntAt(A, 2 * s) < (IntOf(R) + 1) * (IntOf(R) + 1)

\* A number that is written in a base and read with it has its integer part
\* again, and of its fraction as many digits as its scale is worth and no more,
\* each of them right.
WrittenIsRead ==
  Ended("out") /\ S <= 16 =>
    LET text == R \o <<Colon>>
        back == Constant(text, S)
        point == After(text, 1, (0 .. 15) \cup {Minus, Blank})
        frac == SelectSeq(SubSeq(R, point + 1, Len(R)), LAMBDA c : c # Blank)
        value[i \in 0 .. Len(frac)] == IF i = 0 THEN 0 ELSE S * value[i - 1] + frac[i]
    IN  /\ back.taken = Len(text)
        /\ Divide(back.num, One, 0) = Divide(A, One, 0)
        /\ S = 10 => Compare(back.num, A) = 0
        /\ S # 10 /\ A.scale > 0 /\ ~IsZero(A) =>
             /\ S ^ (Len(frac) - 1) < 10 ^ A.scale /\ 10 ^ A.scale <= S ^ Len(frac)
             /\ value[Len(frac)] = ((Abs(IntOf(A)) % 10 ^ A.scale) * S ^ Len(frac)) \div 10 ^ A.scale

\* bc_num2str and bc_str2num undo each other.
TextIsNumber == Ended("string") => R = A

\* What the comment at bc_num2long says of numbers that do not fit.
LongOrZero == Ended("long") => IntOf(R) = IF Abs(Cut(IntOf(A), 10 ^ A.scale)) <= LongMax
                                          THEN Cut(IntOf(A), 10 ^ A.scale) ELSE 0
=============================================================================
