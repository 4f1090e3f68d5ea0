------------------------------ MODULE JsIntegers ------------------------------
(* Integers in JavaScript: the expressions that expressions.go translates  *)
(* operators and conversions to, the functions of prelude/numeric.js that  *)
(* these call, and math/bits of the natives.                               *)
(*                                                                         *)
(* A JavaScript number that is an integer is exact here: the code stays    *)
(* below 2^53.  Types of up to 32 bits are numbers, the others objects of  *)
(* two.  A type is [bits, signed].  What may throw a Go panic returns a    *)
(* sequence, empty where it does.                                          *)
EXTENDS Integers, Bitwise

CONSTANT Word   \* bits of the integers that the operators of JavaScript yield: 32

-----------------------------------------------------------------------------
(* JavaScript.                                                             *)

ToUint32(x) == x % 2 ^ Word
ToInt32(x) == LET u == ToUint32(x) IN IF u < 2 ^ (Word - 1) THEN u ELSE u - 2 ^ Word

(* <<, >> and >>>: of the count only the low bits matter.                  *)
Shl(x, n) == ToInt32(ToUint32(x) * 2 ^ (n % Word))
Sar(x, n) == ToInt32(x) \div 2 ^ (n % Word)
Shr(x, n) == ToUint32(x) \div 2 ^ (n % Word)

BitAnd(x, y) == ToInt32(ToUint32(x) & ToUint32(y))
BitOr(x, y) == ToInt32(ToUint32(x) | ToUint32(y))
BitXor(x, y) == ToInt32(ToUint32(x) ^^ ToUint32(y))
BitNot(x) == -x - 1

LOCAL Abs(x) == IF x < 0 THEN -x ELSE x
LOCAL Least(x, y) == IF x < y THEN x ELSE y

(* A quotient without its decimals, and what % yields.                     *)
Trunc(x, y) == IF (x < 0) = (y < 0) THEN Abs(x) \div Abs(y) ELSE -(Abs(x) \div Abs(y))
Mod(x, y) == x - y * Trunc(x, y)

-----------------------------------------------------------------------------
(* Types of up to 32 bits.                                                 *)

FixNumber(x, t) ==
    LET n == Word - t.bits IN IF t.signed THEN Sar(Shl(x, n), n) ELSE Shr(Shl(x, n), n)

Neg(x, t) == IF t.signed THEN -x ELSE FixNumber(-x, t)
Complement(x, t) == FixNumber(BitNot(x), t)

Add(x, y, t) == FixNumber(x + y, t)
Sub(x, y, t) == FixNumber(x - y, t)
Imul(x, y) == ToInt32(x * y)
Mul(x, y, t) ==
    CASE t.bits = Word /\ t.signed  -> Imul(x, y)
      [] t.bits = Word /\ ~t.signed -> Shr(Imul(x, y), 0)
      [] OTHER -> FixNumber(x * y, t)

(* Only the decimals are cut off, with >> or >>>.                          *)
Quo(x, y, t) ==
    IF y = 0 THEN <<>> ELSE IF t.signed THEN <<Sar(Trunc(x, y), 0)>> ELSE <<Shr(Trunc(x, y), 0)>>
Rem(x, y) == IF y = 0 THEN <<>> ELSE <<Mod(x, y)>>

(* A shift by a constant of 32 or more is the literal 0.                   *)
ShiftLeft(x, y, t) == IF y < Word THEN FixNumber(Shl(x, y), t) ELSE 0
ShiftRight(x, y, t, constant) ==
    CASE constant /\ y >= Word -> 0
      [] t.signed /\ ~(constant /\ y >= Word) -> FixNumber(Sar(x, Least(y, Word - 1)), t)
      [] OTHER -> IF y < Word THEN FixNumber(Shr(x, y), t) ELSE 0

And32(x, y, t) == IF t.signed THEN BitAnd(x, y) ELSE Shr(BitAnd(x, y), 0)
Or32(x, y, t) == IF t.signed THEN BitOr(x, y) ELSE Shr(BitOr(x, y), 0)
AndNot32(x, y, t) == FixNumber(BitAnd(x, BitNot(y)), t)
Xor32(x, y, t) == FixNumber(BitXor(x, y), t)

-----------------------------------------------------------------------------
(* int64 and uint64: the constructor carries what low exceeds.             *)

New(high, low, signed) ==
    LET h == high + low \div 2 ^ Word
    IN  [high |-> IF signed THEN ToInt32(h) ELSE ToUint32(h), low |-> ToUint32(low)]

Neg64(x, s) == New(-x.high, -x.low, s)
Complement64(x, s) == New(BitNot(x.high), Shr(BitNot(x.low), 0), s)

Less(x, y) == x.high < y.high \/ (x.high = y.high /\ x.low < y.low)
LessOrEqual(x, y) == x.high < y.high \/ (x.high = y.high /\ x.low <= y.low)

Add64(x, y, s) == New(x.high + y.high, x.low + y.low, s)
Sub64(x, y, s) == New(x.high - y.high, x.low - y.low, s)
And64(x, y, s) == New(BitAnd(x.high, y.high), Shr(BitAnd(x.low, y.low), 0), s)
Or64(x, y, s) == New(BitOr(x.high, y.high), Shr(BitOr(x.low, y.low), 0), s)
Xor64(x, y, s) == New(BitXor(x.high, y.high), Shr(BitXor(x.low, y.low), 0), s)
AndNot64(x, y, s) ==
    New(BitAnd(x.high, BitNot(y.high)), Shr(BitAnd(x.low, BitNot(y.low)), 0), s)

ShiftLeft64(x, y, s) ==
    CASE y = 0 -> x
      [] y \in 1 .. Word - 1 ->
             New(BitOr(Shl(x.high, y), Shr(x.low, Word - y)), Shr(Shl(x.low, y), 0), s)
      [] y \in Word .. 2 * Word - 1 -> New(Shl(x.low, y - Word), 0, s)
      [] OTHER -> New(0, 0, s)

LOCAL LowRight(x, y) == Shr(BitOr(Shr(x.low, y), Shl(x.high, Word - y)), 0)
ShiftRightInt64(x, y) ==
    CASE y = 0 -> x
      [] y \in 1 .. Word - 1 -> New(Sar(x.high, y), LowRight(x, y), TRUE)
      [] y \in Word .. 2 * Word - 1 ->
             New(Sar(x.high, Word - 1), Shr(Sar(x.high, y - Word), 0), TRUE)
      [] OTHER -> IF x.high < 0 THEN New(-1, 2 ^ Word - 1, TRUE) ELSE New(0, 0, TRUE)
ShiftRightUint64(x, y) ==
    CASE y = 0 -> x
      [] y \in 1 .. Word - 1 -> New(Shr(x.high, y), LowRight(x, y), FALSE)
      [] y \in Word .. 2 * Word - 1 -> New(0, Shr(x.high, y - Word), FALSE)
      [] OTHER -> New(0, 0, FALSE)

(* $mul64 multiplies quarters and carries from one to the next.            *)
LOCAL Half == 2 ^ (Word \div 2)
Mul64(x, y, s) ==
    LET Quarters(v) ==
            <<ToUint32(v.low) % Half, ToUint32(v.low) \div Half,
              ToUint32(v.high) % Half, ToUint32(v.high) \div Half>>
        a == Quarters(x)
        b == Quarters(y)
        z00 == a[1] * b[1]
        z16 == z00 \div Half + a[2] * b[1]
        z16b == (z16 % Half) + a[1] * b[2]
        z32 == z16 \div Half + z16b \div Half + a[3] * b[1]
        z32b == (z32 % Half) + a[2] * b[2]
        z32c == (z32b % Half) + a[1] * b[3]
        z48 == z32 \div Half + z32b \div Half + z32c \div Half
                   + a[4] * b[1] + a[3] * b[2] + a[2] * b[3] + a[1] * b[4]
    IN  New((z48 % Half) * Half + (z32c % Half), (z16b % Half) * Half + (z00 % Half), s)

(* $div64 divides absolute values by shifting and subtracting.             *)
LOCAL Magnitude(x) ==
    CASE x.high >= 0 -> x
      [] x.high < 0 /\ x.low = 0 -> [high |-> -x.high, low |-> 0]
      [] OTHER -> [high |-> -x.high - 1, low |-> 2 ^ Word - x.low]
LOCAL Doubled(y) ==
    [high |-> Shr(BitOr(Shl(y.high, 1), Shr(y.low, Word - 1)), 0), low |-> Shr(Shl(y.low, 1), 0)]
LOCAL Halved(y) ==
    [low |-> Shr(BitOr(Shr(y.low, 1), Shl(y.high, Word - 1)), 0), high |-> Shr(y.high, 1)]
LOCAL Minus(x, y) ==
    IF x.low < y.low THEN [high |-> x.high - y.high - 1, low |-> x.low - y.low + 2 ^ Word]
    ELSE [high |-> x.high - y.high, low |-> x.low - y.low]
LOCAL WithDigit(q, digit) ==
    LET low == Shr(Shl(q.low, 1), 0) + digit
        high == BitOr(Shl(q.high, 1), Shr(q.low, Word - 1))
    IN  IF low = 2 ^ Word THEN [high |-> high + 1, low |-> 0] ELSE [high |-> high, low |-> low]

RECURSIVE Scaled(_, _, _)
Scaled(x, y, n) ==
    IF y.high < 2 ^ (Word - 1) /\ Less(y, x) THEN Scaled(x, Doubled(y), n + 1)
    ELSE [y |-> y, n |-> n]

RECURSIVE Divided(_, _, _, _)
Divided(x, y, q, n) ==
    CASE n < 0 -> [x |-> x, q |-> q]
      [] n >= 0 /\ LessOrEqual(y, x) -> Divided(Minus(x, y), Halved(y), WithDigit(q, 1), n - 1)
      [] OTHER -> Divided(x, Halved(y), WithDigit(q, 0), n - 1)

Div64(x, y, remainder, s) ==
    LET from == Scaled(Magnitude(x), Magnitude(y), 0)
        r == Divided(Magnitude(x), from.y, [high |-> 0, low |-> 0], from.n)
        rs == IF x.high < 0 THEN -1 ELSE 1
        qs == IF y.high < 0 THEN -rs ELSE rs
    IN  IF y = [high |-> 0, low |-> 0] THEN <<>>
        ELSE IF remainder THEN <<New(r.x.high * rs, r.x.low * rs, s)>>
        ELSE <<New(r.q.high * qs, r.q.low * qs, s)>>

-----------------------------------------------------------------------------
(* Conversions between types of integers.                                  *)

To64(x, t) == New(0, x, t.signed)
From64To64(x, t) == New(x.high, x.low, t.signed)
From64(x, from, t) ==
    IF t.signed /\ from.signed THEN FixNumber(x.low + Sar(x.high, Word - 1) * 2 ^ Word, t)
    ELSE FixNumber(x.low, t)
Convert(x, t) == FixNumber(x, t)

-----------------------------------------------------------------------------
(* math/bits, in uint32.                                                   *)

LOCAL U == [bits |-> Word, signed |-> FALSE]
LOCAL LeadingZeros(x) == CHOOSE n \in 0 .. Word : x < 2 ^ (Word - n) /\ x >= 2 ^ (Word - n) \div 2

Mul32(x, y) ==
    LET x0 == x % Half
        x1 == x \div Half
        y0 == y % Half
        y1 == y \div Half
        t == Add(Mul(x1, y0, U), Mul(x0, y0, U) \div Half, U)
        w1 == Add(t % Half, Mul(x0, y1, U), U)
    IN  <<Add(Add(Mul(x1, y1, U), t \div Half, U), w1 \div Half, U), Mul(x, y, U)>>

Add32(x, y, carry) ==
    LET sum == Add(Add(x, y, U), carry, U)
    IN  <<sum, Or32(And32(x, y, U), AndNot32(Or32(x, y, U), sum, U), U) \div 2 ^ (Word - 1)>>

(* A digit of the quotient is estimated from the high half of the divisor, *)
(* and corrected at most twice.                                            *)
RECURSIVE Corrected(_, _, _, _, _)
Corrected(q, rhat, yn1, yn0, un) ==
    IF q >= Half \/ Mul(q, yn0, U) > Add(Mul(Half, rhat, U), un, U)
    THEN IF Add(rhat, yn1, U) >= Half THEN Sub(q, 1, U)
         ELSE Corrected(Sub(q, 1, U), Add(rhat, yn1, U), yn1, yn0, un)
    ELSE q

Div32(hi, lo, divisor) ==
    LET s == LeadingZeros(divisor)
        y == ShiftLeft(divisor, s, U)
        yn1 == y \div Half
        yn0 == y % Half
        un16 == Or32(ShiftLeft(hi, s, U), ShiftRight(lo, Word - s, U, FALSE), U)
        un10 == ShiftLeft(lo, s, U)
        Digit(u, un) == LET q == u \div yn1 IN Corrected(q, Sub(u, Mul(q, yn1, U), U), yn1, yn0, un)
        Rest(u, un, q) == Sub(Add(Mul(u, Half, U), un, U), Mul(q, y, U), U)
        q1 == Digit(un16, un10 \div Half)
        un21 == Rest(un16, un10 \div Half, q1)
        q0 == Digit(un21, un10 % Half)
    IN  IF divisor = 0 \/ divisor <= hi THEN <<>>
        ELSE <<Add(Mul(q1, Half, U), q0, U),
               ShiftRight(Rest(un21, un10 % Half, q0), s, U, FALSE)>>

Rem32(hi, lo, y) == IF y = 0 THEN <<>> ELSE <<Div32(hi % y, lo, y)[2]>>

-----------------------------------------------------------------------------
(* What Go says.                                                           *)

Wrap(v, bits, signed) ==
    LET u == v % 2 ^ bits IN IF signed /\ u >= 2 ^ (bits - 1) THEN u - 2 ^ bits ELSE u
Values(t) == {Wrap(v, t.bits, t.signed) : v \in 0 .. 2 ^ t.bits - 1}
ValueOf(x) == x.high * 2 ^ Word + x.low
ObjectOf(v, s) == [high |-> Wrap(v \div 2 ^ Word, Word, s), low |-> v % 2 ^ Word]
================================================================================
