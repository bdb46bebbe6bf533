-------------------------- MODULE ArithmeticProofs --------------------------
(***************************************************************************)
(* For every word size: sums, differences and comparisons are those of     *)
(* the integers, the loop of Mul computes both words of the product, what  *)
(* a function leaves, of any number of digits, fits into its call, and     *)
(* chains of calls implement the calculator of integers.                   *)
(***************************************************************************)
EXTENDS ArithmeticCalls, MulLoop, Induction, TLAPS

LEMMA QuotientFacts ==
  ASSUME NEW a \in Nat, NEW b \in Nat \ {0}
  PROVE  /\ a \div b \in Nat /\ a % b \in Nat /\ a % b < b
         /\ a = b * (a \div b) + (a % b)
OBVIOUS

(* add (lib/Library.c 312-339): the value with its sign, and the carry as a
   word in front of it, are the sum of the arguments; the carry is 0 or 1. *)
THEOREM SumIsExact ==
  ASSUME NEW x \in SignedNumber, NEW y \in SignedNumber
  PROVE  /\ Carry(x, y) \in {0, 1}
         /\ SumOf(x, y).value \in Word
         /\ SumOf(x, y).sign * (Carry(x, y) * Radix + SumOf(x, y).value) = IntOf(x) + IntOf(y)
<1> DEFINE a == x.value
           b == y.value
<1>1. /\ a \in Nat /\ b \in Nat /\ a < Radix /\ b < Radix
      /\ x.sign \in {-1, 1} /\ y.sign \in {-1, 1}
      /\ Radix \in Nat /\ Radix > 1
  BY RadixAssumption DEF SignedNumber, Word
<1>2. CASE x.sign = y.sign
  <2> DEFINE s == (a + b) % Radix
  <2>1. \/ a + b < Radix /\ s = a + b
        \/ a + b >= Radix /\ s = a + b - Radix
    BY <1>1
  <2>2. SumOf(x, y) = [sign |-> x.sign, value |-> s]
    BY <1>2 DEF SumOf, Signed
  <2>3. Carry(x, y) = IF s < a THEN 1 ELSE 0
    BY <1>2 DEF Carry
  <2>4. s \in Word /\ Carry(x, y) \in {0, 1} /\ Carry(x, y) * Radix + s = a + b
    BY <1>1, <2>1, <2>3 DEF Word
  <2>5. x.sign * (a + b) = x.sign * a + y.sign * b
    BY <1>1, <1>2
  <2> QED
    BY <2>2, <2>4, <2>5 DEF IntOf
<1>3. CASE x.sign # y.sign
  <2>1. Carry(x, y) = 0
    BY <1>3 DEF Carry
  <2>2. CASE a > b
    <3>1. SumOf(x, y) = [sign |-> x.sign, value |-> a - b]
      BY <1>3, <2>2 DEF SumOf, Signed
    <3> QED
      BY <1>1, <1>3, <2>1, <2>2, <3>1 DEF Word, IntOf
  <2>3. CASE a < b
    <3>1. SumOf(x, y) = [sign |-> y.sign, value |-> b - a]
      BY <1>1, <1>3, <2>3 DEF SumOf, Signed
    <3> QED
      BY <1>1, <1>3, <2>1, <2>3, <3>1 DEF Word, IntOf
  <2>4. CASE a = b
    <3>1. SumOf(x, y) = [sign |-> 0, value |-> 0]
      BY <1>1, <1>3, <2>4 DEF SumOf, Signed
    <3> QED
      BY <1>1, <1>3, <2>1, <2>4, <3>1 DEF Word, IntOf
  <2> QED
    BY <1>1, <2>2, <2>3, <2>4
<1> QED
  BY <1>2, <1>3

(* Compare (lib/Library.c 1951-1973) orders its arguments as integers. *)
THEOREM OrderIsExact ==
  ASSUME NEW x \in SignedNumber, NEW y \in SignedNumber,
         x.value = 0 => x.sign = 1,
         y.value = 0 => y.sign = 1
  PROVE  /\ Order(x, y) < 0 <=> IntOf(x) < IntOf(y)
         /\ Order(x, y) > 0 <=> IntOf(x) > IntOf(y)
<1>1. /\ x.value \in Nat /\ y.value \in Nat
      /\ x.sign \in {-1, 1} /\ y.sign \in {-1, 1}
  BY RadixAssumption DEF SignedNumber, Word
<1>2. CASE x.sign = -1 /\ y.sign = -1
  BY <1>1, <1>2 DEF Order, CompareInts, IntOf
<1>3. CASE x.sign = 1 /\ y.sign = 1
  BY <1>1, <1>3 DEF Order, CompareInts, IntOf
<1>4. CASE x.sign = -1 /\ y.sign = 1
  BY <1>1, <1>4 DEF Order, CompareInts, IntOf
<1>5. CASE x.sign = 1 /\ y.sign = -1
  BY <1>1, <1>5 DEF Order, CompareInts, IntOf
<1> QED
  BY <1>1, <1>2, <1>3, <1>4, <1>5

-----------------------------------------------------------------------------
(* One round on plain numbers.  s is the sum so far and t the multiple of y
   that the next bit stands for; together they stay below Radix squared. *)

LEMMA Halves ==
  ASSUME NEW x \in Nat
  PROVE  /\ x \div 2 \in Nat
         /\ x % 2 = 1 => x = 2 * (x \div 2) + 1
         /\ x % 2 # 1 => x = 2 * (x \div 2)
OBVIOUS

(* The addition of t to s, in two words each, does not overflow the second. *)
LEMMA AddTwoWords ==
  ASSUME NEW value \in Word, NEW high \in Word, NEW low \in Word, NEW top \in Word,
         (value + high * Radix) + (low + top * Radix) < Radix * Radix
  PROVE  LET v == (value + low) % Radix
             h == (high + top + (IF v < low THEN 1 ELSE 0)) % Radix
         IN  /\ v \in Word /\ h \in Word
             /\ v + h * Radix = (value + high * Radix) + (low + top * Radix)
<1> DEFINE v     == (value + low) % Radix
           carry == IF v < low THEN 1 ELSE 0
           sum   == high + top + carry
<1>1. Radix \in Nat /\ Radix > 1
  BY RadixAssumption
<1>2. /\ value \in Nat /\ high \in Nat /\ low \in Nat /\ top \in Nat
      /\ value < Radix /\ high < Radix /\ low < Radix /\ top < Radix
  BY <1>1 DEF Word
<1>3. v \in Word /\ carry \in {0, 1} /\ v + carry * Radix = value + low
  <2>1. \/ value + low < Radix /\ v = value + low
        \/ value + low >= Radix /\ v = value + low - Radix
    BY <1>1, <1>2
  <2> QED
    BY <1>1, <1>2, <2>1 DEF Word
<1>4. v + sum * Radix = (value + high * Radix) + (low + top * Radix)
  <2>1. sum * Radix = high * Radix + top * Radix + carry * Radix
    BY <1>1, <1>2, <1>3
  <2> QED
    BY <1>1, <1>2, <1>3, <2>1 DEF Word
<1>5. sum < Radix
  <2>1. sum * Radix < Radix * Radix
    BY <1>1, <1>2, <1>3, <1>4 DEF Word
  <2>2. sum \in Nat
    BY <1>2, <1>3
  <2>3. SUFFICES ASSUME sum >= Radix PROVE FALSE
    BY <1>1, <2>2
  <2>4. sum * Radix >= Radix * Radix
    BY <1>1, <2>2, <2>3
  <2> QED
    BY <1>1, <2>1, <2>2, <2>4
<1>6. sum % Radix = sum /\ sum \in Word
  BY <1>1, <1>2, <1>3, <1>5 DEF Word
<1> QED
  BY <1>3, <1>4, <1>6

(* Doubling two words loses nothing if the result has two words. *)
LEMMA DoubleTwoWords ==
  ASSUME NEW low \in Word, NEW top \in Word,
         2 * (low + top * Radix) < Radix * Radix
  PROVE  ((2 * low) % Radix) + ((2 * top + low \div (Radix \div 2)) % Radix) * Radix
           = 2 * (low + top * Radix)
<1> DEFINE half == Radix \div 2
           bit  == low \div half
           sum  == 2 * top + bit
<1>1. Radix \in Nat /\ Radix > 1 /\ Radix = 2 * half /\ half \in Nat /\ half > 0
  BY RadixAssumption
<1>2. low \in Nat /\ low < Radix /\ top \in Nat /\ top < Radix
  BY <1>1 DEF Word
<1>3. /\ bit \in {0, 1}
      /\ low < half => bit = 0 /\ (2 * low) % Radix = 2 * low
      /\ low >= half => bit = 1 /\ (2 * low) % Radix = 2 * low - Radix
  <2> HIDE DEF half
  <2>1. low < half => bit = 0
    BY <1>1, <1>2
  <2>2. low >= half => bit = 1
    <3> HAVE low >= half
    <3>1. low = 1 * half + (low - half) /\ low - half \in 0 .. half - 1
      BY <1>1, <1>2
    <3> QED
      BY <1>1, <1>2, <3>1
  <2>3. low < half => (2 * low) % Radix = 2 * low
    BY <1>1, <1>2
  <2>4. low >= half => (2 * low) % Radix = 2 * low - Radix
    BY <1>1, <1>2
  <2> QED
    BY <1>1, <1>2, <2>1, <2>2, <2>3, <2>4
<1> HIDE DEF half, bit
<1>4. ((2 * low) % Radix) + bit * Radix = 2 * low
  BY <1>1, <1>2, <1>3
<1>5. (2 * low) % Radix \in Nat
  BY <1>1, <1>2
<1>6. ((2 * low) % Radix) + sum * Radix = 2 * (low + top * Radix)
  <2>1. sum * Radix = 2 * (top * Radix) + bit * Radix
    BY <1>1, <1>2, <1>3
  <2> DEFINE tr == top * Radix
             br == bit * Radix
             sr == sum * Radix
             l2 == (2 * low) % Radix
  <2>2. tr \in Nat /\ br \in Nat /\ sr \in Nat /\ l2 \in Nat
    BY <1>1, <1>2, <1>3, <1>5
  <2>3. sr = 2 * tr + br /\ l2 + br = 2 * low
    BY <1>4, <2>1
  <2> HIDE DEF sum, tr, br, sr, l2
  <2>4. l2 + sr = 2 * (low + tr)
    BY <1>2, <2>2, <2>3
  <2> QED
    BY <2>4 DEF tr, sr, l2
<1>7. sum \in Nat /\ sum < Radix
  <2>1. sum \in Nat
    BY <1>2, <1>3
  <2>2. sum * Radix < Radix * Radix
    BY <1>1, <1>2, <1>5, <1>6, <2>1
  <2>3. SUFFICES ASSUME sum >= Radix PROVE FALSE
    BY <1>1, <2>1
  <2>4. sum * Radix >= Radix * Radix
    BY <1>1, <2>1, <2>3
  <2> QED
    BY <1>1, <2>1, <2>2, <2>4
<1>8. sum % Radix = sum
  BY <1>1, <1>7
<1> QED
  BY <1>6, <1>8 DEF half, bit

-----------------------------------------------------------------------------
(* The loop of Mul.                                                         *)

LEMMA ProductHasTwoWords ==
  ASSUME NEW a \in Word, NEW b \in Word
  PROVE  a * b \in Nat /\ a * b < Radix * Radix
<1>1. /\ Radix \in Nat /\ Radix > 1
      /\ a \in Nat /\ b \in Nat /\ a < Radix /\ b < Radix
  BY RadixAssumption DEF Word
<1>2. a * b <= a * Radix
  BY <1>1
<1>3. a * Radix < Radix * Radix
  BY <1>1
<1> QED
  BY <1>1, <1>2, <1>3

LEMMA InitInvariant == MulInit => RegistersTyped /\ LoopInvariant
<1> SUFFICES ASSUME MulInit PROVE RegistersTyped /\ LoopInvariant
  OBVIOUS
<1>1. Radix \in Nat /\ Radix > 1
  BY RadixAssumption
<1>2. factors \in Word \X Word
  BY DEF MulInit
<1>3. factors[1] \in Word /\ factors[2] \in Word
  BY <1>2
<1>4. r = [x |-> IF factors[1] > factors[2] THEN factors[2] ELSE factors[1],
           y_low |-> IF factors[1] > factors[2] THEN factors[1] ELSE factors[2],
           y_high |-> 0, value |-> 0, high |-> 0]
  BY DEF MulInit, Registers
<1>5. 0 \in Word
  BY <1>1 DEF Word
<1>6. RegistersTyped
  BY <1>2, <1>3, <1>4, <1>5 DEF RegistersTyped
<1>7. LoopInvariant
  <2>1. r.value + r.high * Radix = 0 /\ r.y_low + r.y_high * Radix = r.y_low
    BY <1>1, <1>3, <1>4 DEF Word
  <2>2. r.x * r.y_low = factors[1] * factors[2]
    BY <1>3, <1>4 DEF Word
  <2> QED
    BY <1>3, <2>1, <2>2, ProductHasTwoWords DEF LoopInvariant
<1> QED
  BY <1>6, <1>7

WordRegisters == [x : Word, y_low : Word, y_high : Word, value : Word, high : Word]

\* RegistersTyped and LoopInvariant as one says them of any registers.
InSum(g, p) == g.value + g.high * Radix + g.x * (g.y_low + g.y_high * Radix) = p

(* One turn, on any registers: what is added up and what is still to be added stay the product. *)
LEMMA RoundInvariant ==
  ASSUME NEW g \in WordRegisters, NEW a \in Word, NEW b \in Word, g.x # 0, InSum(g, a * b)
  PROVE  Round(g) \in WordRegisters /\ InSum(Round(g), a * b)
<1> DEFINE k == Round(g)
           s == g.value + g.high * Radix
           t == g.y_low + g.y_high * Radix
           h == g.x \div 2
           p == a * b
           odd   == g.x % 2 = 1
           value == (g.value + g.y_low) % Radix
           high  == (g.high + g.y_high + (IF value < g.y_low THEN 1 ELSE 0)) % Radix
           low2  == (2 * g.y_low) % Radix
           top2  == (2 * g.y_high + g.y_low \div (Radix \div 2)) % Radix
<1>1. Radix \in Nat /\ Radix > 1
  BY RadixAssumption
<1>2. /\ g.x \in Word /\ g.y_low \in Word /\ g.y_high \in Word
      /\ g.value \in Word /\ g.high \in Word
  BY DEF WordRegisters
<1>3. g.x \in Nat /\ g.x < Radix /\ g.x > 0
  BY <1>1, <1>2 DEF Word
<1>4. /\ s \in Nat /\ t \in Nat /\ p \in Nat /\ Radix * Radix \in Nat
      /\ s + g.x * t = p /\ p < Radix * Radix
  <2>1. s \in Nat /\ t \in Nat
    BY <1>1, <1>2 DEF Word
  <2> QED
    BY <1>1, <2>1, ProductHasTwoWords DEF InSum
<1>5. /\ k.x = h /\ k.y_low = low2 /\ k.y_high = top2
      /\ k.value = IF odd THEN value ELSE g.value
      /\ k.high  = IF odd THEN high ELSE g.high
      /\ k = [x |-> h, y_low |-> low2, y_high |-> top2,
               value |-> k.value, high |-> k.high]
  BY DEF Round
<1>6. h \in Nat /\ h <= g.x /\ (odd => g.x = 2 * h + 1) /\ (~odd => g.x = 2 * h)
  BY <1>3, Halves
<1>7. s + t <= p
  BY <1>3, <1>4
<1>8. odd => value \in Word /\ high \in Word /\ value + high * Radix = s + t
  <2>1. s + t < Radix * Radix
    <3> DEFINE bound == Radix * Radix
    <3> HIDE DEF s, t, p, bound
    <3> QED
      BY <1>4, <1>7 DEF bound
  <2> QED
    BY <1>2, <2>1, AddTwoWords
<1>9. h > 0 => low2 + top2 * Radix = 2 * t
  <2> HAVE h > 0
  <2>1. 2 * t <= g.x * t
    BY <1>3, <1>4, <1>6
  <2>2. 2 * t < Radix * Radix
    <3> DEFINE bound == Radix * Radix
               xt    == g.x * t
    <3>1. xt \in Nat
      BY <1>3, <1>4
    <3> HIDE DEF s, t, p, bound, xt
    <3>2. 2 * t <= xt /\ s + xt = p /\ p < bound /\ bound \in Nat
      BY <1>4, <2>1 DEF bound, xt
    <3> QED
      BY <1>4, <3>1, <3>2 DEF bound
  <2> QED
    BY <1>2, <2>2, DoubleTwoWords
<1>10. low2 \in Word /\ top2 \in Word /\ h \in Word
  <2>1. 2 * g.y_low \in Nat
    BY <1>1, <1>2 DEF Word
  <2>2. Radix \div 2 \in Nat /\ Radix \div 2 > 0
    BY RadixAssumption
  <2>3. g.y_low \div (Radix \div 2) \in Nat
    <3> DEFINE half == Radix \div 2
    <3> HIDE DEF half
    <3>1. \A n \in Nat : half \in Nat /\ half > 0 => n \div half \in Nat
      OBVIOUS
    <3>2. g.y_low \in Nat
      BY <1>1, <1>2 DEF Word
    <3> QED
      BY <2>2, <3>1, <3>2 DEF half
  <2>4. 2 * g.y_high + g.y_low \div (Radix \div 2) \in Nat
    BY <1>1, <1>2, <2>3 DEF Word
  <2>5. \A n \in Nat : n % Radix \in Word
    BY <1>1 DEF Word
  <2> QED
    BY <1>1, <1>3, <1>6, <2>1, <2>4, <2>5 DEF Word
<1> HIDE DEF k, h, p, odd, value, high, low2, top2
<1>11. k \in WordRegisters
  <2>1. k.value \in Word /\ k.high \in Word
    BY <1>2, <1>5, <1>8
  <2> QED
    BY <1>5, <1>10, <2>1 DEF WordRegisters
<1>12. InSum(k, p)
  <2> DEFINE s2 == k.value + k.high * Radix
             t2 == k.y_low + k.y_high * Radix
  <2>1. s2 = IF odd THEN s + t ELSE s
    BY <1>5, <1>8
  <2>2. h > 0 => t2 = 2 * t
    BY <1>5, <1>9
  <2>3. t2 \in Int
    BY <1>1, <1>5, <1>10 DEF Word
  <2> HIDE DEF s, t, s2, t2
  <2>4. s2 + h * t2 = p
    <3>1. CASE h = 0
      <4>1. h * t2 = 0
        BY <2>3, <3>1
      <4>2. odd /\ g.x = 1
        BY <1>3, <1>6, <3>1
      <4>3. g.x * t = t
        BY <1>4, <4>2
      <4> QED
        BY <1>4, <2>1, <4>1, <4>2, <4>3
    <3>2. CASE h > 0
      <4>1. h * t2 = h * (2 * t)
        BY <2>2, <3>2
      <4>2. g.x * t = IF odd THEN h * (2 * t) + t ELSE h * (2 * t)
        BY <1>4, <1>6
      <4>3. h * (2 * t) \in Nat
        BY <1>4, <1>6
      <4> QED
        BY <1>4, <2>1, <4>1, <4>2, <4>3
    <3> QED
      BY <1>6, <3>1, <3>2
  <2> QED
    BY <1>5, <2>4 DEF InSum, s2, t2
<1> QED
  BY <1>11, <1>12 DEF k, p

LEMMA TurnInvariant ==
  RegistersTyped /\ LoopInvariant /\ Turn => RegistersTyped' /\ LoopInvariant'
<1> SUFFICES ASSUME RegistersTyped, LoopInvariant, Turn
             PROVE  RegistersTyped' /\ LoopInvariant'
  OBVIOUS
<1>1. r \in WordRegisters /\ r.x # 0 /\ InSum(r, factors[1] * factors[2])
  BY RadixAssumption DEF RegistersTyped, WordRegisters, LoopInvariant, InSum, Turn, Word
<1>2. factors[1] \in Word /\ factors[2] \in Word
  BY DEF RegistersTyped
<1>3. Round(r) \in WordRegisters /\ InSum(Round(r), factors[1] * factors[2])
  BY <1>1, <1>2, RoundInvariant
<1>4. r' = Round(r) /\ factors' = factors
  BY DEF Turn
<1> QED
  BY <1>3, <1>4 DEF RegistersTyped, WordRegisters, LoopInvariant, InSum

(* Mul (lib/Library.c 949-972) returns both words of the product of any two
   words: no addition loses a carry, and the bit that the last doubling of y
   may lose would not have been added. *)
THEOREM MulIsExact == MulSpec => []ProductIsExact
<1>1. RegistersTyped /\ LoopInvariant /\ UNCHANGED mvars => RegistersTyped' /\ LoopInvariant'
  BY DEF RegistersTyped, LoopInvariant, mvars
<1>2. RegistersTyped /\ LoopInvariant => ProductIsExact
  <2> SUFFICES ASSUME RegistersTyped, LoopInvariant, r.x = 0
               PROVE  r.high * Radix + r.value = factors[1] * factors[2]
    BY DEF ProductIsExact
  <2>1. /\ Radix \in Nat
        /\ r.value \in Nat /\ r.high \in Nat /\ r.y_low \in Nat /\ r.y_high \in Nat
    BY RadixAssumption DEF RegistersTyped, Word
  <2>2. r.x * (r.y_low + r.y_high * Radix) = 0
    BY <2>1
  <2> QED
    BY <2>1, <2>2 DEF LoopInvariant
<1> QED
  BY <1>1, <1>2, InitInvariant, TurnInvariant, PTL DEF MulSpec

(* Mul (lib/Library.c 943-947) takes the short way exactly if the product fits in a
   word: dividing the product that wrapped by one factor tells, whatever the factors. *)
THEOREM OverflowIsSeen ==
  ASSUME NEW x \in Word, NEW y \in Word
  PROVE  Overflows(x, y) <=> x * y >= Radix
<1>1. /\ Radix \in Nat /\ Radix > 1
      /\ x \in Nat /\ y \in Nat /\ x < Radix /\ y < Radix
  BY RadixAssumption DEF Word
<1>2. CASE x = 0
  BY <1>1, <1>2 DEF Overflows
<1>3. CASE x # 0
  <2> DEFINE xy == x * y
             p  == xy % Radix
  <2>1. xy \in Nat
    BY <1>1
  <2>2. CASE xy < Radix
    <3>1. p = xy
      BY <1>1, <2>1, <2>2
    <3>2. xy \div x = y
      BY <1>1, <1>3
    <3> QED
      BY <1>1, <2>1, <2>2, <3>1, <3>2 DEF Overflows, Product
  <2>3. CASE xy >= Radix
    <3>1. p \in Nat /\ p < xy
      <4> HIDE DEF xy
      <4> QED
        BY <1>1, <2>1, <2>3
    <3>2. p \div x # y
      <4> DEFINE q == p \div x
      <4>1. q \in Nat /\ x * q <= p
        <5> HIDE DEF p
        <5> QED
          BY <1>1, <1>3, <3>1, QuotientFacts
      <4>2. SUFFICES ASSUME q = y PROVE FALSE
        OBVIOUS
      <4>3. x * q = xy
        BY <4>2
      <4> HIDE DEF p, xy, q
      <4> QED
        BY <2>1, <3>1, <4>1, <4>3
    <3> QED
      BY <1>3, <2>3, <3>2 DEF Overflows, Product
  <2> QED
    BY <1>1, <2>1, <2>2, <2>3
<1> QED
  BY <1>2, <1>3

(* Div, Mod and Divmod (lib/Library.c 443-459, 1388-1402): quotient and remainder belong together,
   the remainder is smaller than the divisor, and both are words. *)
THEOREM DivisionIsExact ==
  ASSUME NEW x \in SignedNumber, NEW y \in SignedNumber, y.value # 0
  PROVE  /\ Quotient(x, y) \in SignedNumber /\ Remainder(x, y) \in SignedNumber
         /\ IntOf(Quotient(x, y)) * IntOf(y) + IntOf(Remainder(x, y)) = IntOf(x)
         /\ Remainder(x, y).value < y.value
<1> DEFINE a == x.value
           b == y.value
           q == a \div b
           m == a % b
<1>1. /\ Radix \in Nat
      /\ a \in Nat /\ b \in Nat \ {0} /\ a < Radix /\ b < Radix
      /\ x.sign \in {-1, 1} /\ y.sign \in {-1, 1}
  BY RadixAssumption DEF SignedNumber, Word
<1>2. q \in Nat /\ m \in Nat /\ m < b /\ a = b * q + m
  BY <1>1, QuotientFacts
<1>3. q <= b * q
  <2> HIDE DEF q, a, b
  <2> QED
    BY <1>1, <1>2
<1>4. q <= a
  BY <1>1, <1>2, <1>3
<1>5. /\ Quotient(x, y) = [sign |-> x.sign * y.sign, value |-> q]
      /\ Remainder(x, y) = [sign |-> x.sign, value |-> m]
  BY DEF Quotient, Remainder, Signed
<1>6. x.sign * y.sign \in {-1, 1}
  BY <1>1
<1>7. q \in Word /\ m \in Word
  BY <1>1, <1>2, <1>4 DEF Word
<1>8. (x.sign * y.sign * q) * (y.sign * b) + x.sign * m = x.sign * a
  <2> DEFINE bq == b * q
  <2>1. bq \in Nat /\ q * b = bq /\ a = bq + m
    BY <1>1, <1>2
  <2> HIDE DEF q, m, a, b
  <2>2. (x.sign * y.sign * q) * (y.sign * b) = x.sign * (q * b)
    BY <1>1, <1>2
  <2> HIDE DEF bq
  <2> QED
    BY <1>1, <1>2, <2>1, <2>2
<1> QED
  BY <1>2, <1>5, <1>6, <1>7, <1>8 DEF SignedNumber, IntOf

-----------------------------------------------------------------------------
(* The room of a call.                                                      *)

LEMMA LengthOfNumber ==
  ASSUME NEW res, res.sign \in Int, NEW high
  PROVE  /\ EmplaceNumber(res, high) \in Seq({Minus, Number(high), Number(res.value)})
         /\ Len(EmplaceNumber(res, high)) \in 1 .. 3
         /\ high = 0 => Len(EmplaceNumber(res, high)) = IF res.sign < 0 THEN 2 ELSE 1
<1> DEFINE S    == {Minus, Number(high), Number(res.value)}
           sign == IF res.sign < 0 THEN <<Minus>> ELSE <<>>
           word == IF high # 0 THEN <<Number(high)>> ELSE <<>>
           last == <<Number(res.value)>>
<1>0. \A x \in S : <<x>> \in Seq(S) /\ Len(<<x>>) = 1
  OBVIOUS
<1>1. sign \in Seq(S) /\ Len(sign) = IF res.sign < 0 THEN 1 ELSE 0
  <2>1. CASE res.sign < 0
    BY <1>0, <2>1
  <2>2. CASE ~(res.sign < 0)
    BY <2>2
  <2> QED
    BY <2>1, <2>2
<1>2. word \in Seq(S) /\ Len(word) = IF high # 0 THEN 1 ELSE 0
  <2>1. CASE high # 0
    BY <1>0, <2>1
  <2>2. CASE high = 0
    BY <2>2
  <2> QED
    BY <2>1, <2>2
<1>3. last \in Seq(S) /\ Len(last) = 1
  BY <1>0
<1>4. EmplaceNumber(res, high) = sign \o word \o last
  BY DEF EmplaceNumber
<1> HIDE DEF S, sign, word, last
<1>5. EmplaceNumber(res, high) \in Seq(S)
  BY <1>1, <1>2, <1>3, <1>4
<1>6. Len(EmplaceNumber(res, high)) = Len(sign) + Len(word) + Len(last)
  <2>1. \A a, b \in Seq(S) : a \o b \in Seq(S) /\ Len(a \o b) = Len(a) + Len(b)
    OBVIOUS
  <2>2. sign \o word \in Seq(S) /\ Len(sign \o word) = Len(sign) + Len(word)
    BY <1>1, <1>2, <2>1
  <2>3. Len((sign \o word) \o last) = Len(sign \o word) + Len(last)
    BY <1>3, <2>1, <2>2
  <2> QED
    BY <1>4, <2>2, <2>3
<1> QED
  <2>1. CASE res.sign < 0
    BY <1>1, <1>2, <1>3, <1>5, <1>6, <2>1 DEF S
  <2>2. CASE ~(res.sign < 0)
    BY <1>1, <1>2, <1>3, <1>5, <1>6, <2>2 DEF S
  <2> QED
    BY <2>1, <2>2

(* A call with two arguments has a cell for each sign, two for the brackets if there are any,
   and five more. *)
LEMMA RoomOfCall ==
  ASSUME NEW X, NEW cells \in Seq(X), IsArithmArg(cells)
  PROVE  LET n(p) == IF cells[p] = Minus THEN 1 ELSE 0
             first  == Places(cells)[1]
             second == Places(cells)[2]
         IN  /\ Len(cells) >= 5 + n(first) + n(second)
             /\ first \in {3, 4}
<1> DEFINE first  == Places(cells)[1]
           second == Places(cells)[2]
           n(p) == IF cells[p] = Minus THEN 1 ELSE 0
<1>1. ASSUME NEW p \in Nat PROVE Behind(cells, p) \in Nat /\ Behind(cells, p) >= p + 1 + n(p)
  BY DEF Behind, NumberPlace, Minus, Char
<1>2. \/ first = 3 /\ second = Behind(cells, 3)
      \/ first = 4 /\ second = Behind(cells, 4) + 1
  BY DEF Places
<1>3. Behind(cells, second) = Len(cells)
  BY DEF IsArithmArg
<1>4. Len(cells) \in Nat
  OBVIOUS
<1>5. n(first) \in {0, 1} /\ n(second) \in {0, 1}
  OBVIOUS
<1> HIDE DEF first, second, n
<1>6. second \in Nat /\ second >= 4 + n(first)
  <2>1. Behind(cells, 3) \in Nat /\ Behind(cells, 3) >= 3 + 1 + n(3)
    BY <1>1
  <2>2. Behind(cells, 4) \in Nat /\ Behind(cells, 4) >= 4 + 1 + n(4)
    BY <1>1
  <2>3. CASE first = 3 /\ second = Behind(cells, 3)
    BY <1>5, <2>1, <2>3
  <2>4. CASE first = 4 /\ second = Behind(cells, 4) + 1
    BY <1>5, <2>2, <2>4
  <2> QED
    BY <1>2, <2>3, <2>4
<1>7. Len(cells) >= second + 1 + n(second)
  BY <1>1, <1>3, <1>6
<1>8. Len(cells) >= 5 + n(first) + n(second) /\ first \in {3, 4}
  BY <1>2, <1>4, <1>5, <1>6, <1>7
<1> QED
  BY <1>8 DEF first, second, n

LEMMA SignNeedsMinus ==
  ASSUME NEW cells, NEW p
  PROVE  /\ ParseSignedNumber(cells, p).sign \in {-1, 1}
         /\ ParseSignedNumber(cells, p).sign = -1 => cells[p] = Minus
BY DEF ParseSignedNumber, Signed

LEMMA RoomForThree ==
  ASSUME NEW X, NEW cells \in Seq(X), Len(cells) >= 4, NEW n \in 1 .. 3
  PROVE  n < Len(cells)
OBVIOUS

LEMMA AdditionStays ==
  ASSUME NEW X, NEW cells \in Seq(X), Len(cells) >= 4, NEW arg,
         SumOf(arg.x, arg.y).sign \in Int
  PROVE  AddUp(cells, arg).exit = "none"
<1>1. Len(EmplaceNumber(SumOf(arg.x, arg.y), Carry(arg.x, arg.y))) \in 1 .. 3
  BY LengthOfNumber
<1>2. Len(EmplaceNumber(SumOf(arg.x, arg.y), Carry(arg.x, arg.y))) < Len(cells)
  BY <1>1, RoomForThree
<1> QED
  BY <1>2 DEF AddUp, InPlaceOf, Left

LEMMA SumHasSign ==
  ASSUME NEW x, NEW y, x.sign \in {-1, 1}, y.sign \in {-1, 1}
  PROVE  SumOf(x, y).sign \in {-1, 0, 1}
BY DEF SumOf, Signed

LEMMA DivmodStays ==
  ASSUME NEW X, NEW cells \in Seq(X), IsArithmArg(cells)
  PROVE  /\ Len(QuotientAndRemainder(ArithmArg(cells))) \in Nat
         /\ Len(QuotientAndRemainder(ArithmArg(cells))) <= Len(cells)
<1> DEFINE x == ArithmArg(cells).x
           y == ArithmArg(cells).y
           q == EmplaceNumber(Quotient(x, y), 0)
           m == EmplaceNumber(Remainder(x, y), 0)
           first  == Places(cells)[1]
           second == Places(cells)[2]
           n(p) == IF cells[p] = Minus THEN 1 ELSE 0
<1>1. /\ x = ParseSignedNumber(cells, first)
      /\ y = ParseSignedNumber(cells, second)
  BY DEF ArithmArg
<1>2. /\ x.sign \in {-1, 1} /\ (x.sign = -1 => cells[first] = Minus)
      /\ y.sign \in {-1, 1} /\ (y.sign = -1 => cells[second] = Minus)
  BY <1>1, SignNeedsMinus
<1>3. /\ Quotient(x, y).sign = x.sign * y.sign
      /\ Remainder(x, y).sign = x.sign
  BY DEF Quotient, Remainder, Signed
<1>4. Len(cells) >= 5 + n(first) + n(second) /\ Len(cells) \in Nat
  BY RoomOfCall
<1>5. /\ n(first)  \in {0, 1} /\ (x.sign = -1 => n(first) = 1)
      /\ n(second) \in {0, 1} /\ (y.sign = -1 => n(second) = 1)
  BY <1>2
<1>6. Len(QuotientAndRemainder(ArithmArg(cells))) = Len(q) + Len(m) + 2
  <2> DEFINE S == {Other("open"), Other("close"), Minus, Number(0), Number(Quotient(x, y).value),
                   Number(Remainder(x, y).value)}
  <2>1. q \in Seq(S) /\ m \in Seq(S)
    <3>1. /\ {Minus, Number(0), Number(Quotient(x, y).value)} \subseteq S
          /\ {Minus, Number(0), Number(Remainder(x, y).value)} \subseteq S
      OBVIOUS
    <3>2. \A T : T \subseteq S => Seq(T) \subseteq Seq(S)
      OBVIOUS
    <3>3. Quotient(x, y).sign \in Int /\ Remainder(x, y).sign \in Int
      BY <1>2, <1>3
    <3> HIDE DEF S
    <3> QED
      BY <3>1, <3>2, <3>3, LengthOfNumber
  <2>2. /\ <<Other("open")>> \in Seq(S) /\ Len(<<Other("open")>>) = 1
        /\ <<Other("close")>> \in Seq(S) /\ Len(<<Other("close")>>) = 1
    OBVIOUS
  <2>3. QuotientAndRemainder(ArithmArg(cells)) =
          ((<<Other("open")>> \o q) \o <<Other("close")>>) \o m
    BY DEF QuotientAndRemainder
  <2>4. \A a, b \in Seq(S) : a \o b \in Seq(S) /\ Len(a \o b) = Len(a) + Len(b) /\ Len(a) \in Nat
    OBVIOUS
  <2> HIDE DEF S, q, m
  <2>5. <<Other("open")>> \o q \in Seq(S) /\ Len(<<Other("open")>> \o q) = 1 + Len(q)
    BY <2>1, <2>2, <2>4
  <2>6. /\ (<<Other("open")>> \o q) \o <<Other("close")>> \in Seq(S)
        /\ Len((<<Other("open")>> \o q) \o <<Other("close")>>) = 2 + Len(q)
    BY <2>1, <2>2, <2>4, <2>5
  <2> QED
    BY <2>1, <2>3, <2>4, <2>6
<1>7. /\ Len(q) = IF x.sign * y.sign < 0 THEN 2 ELSE 1
      /\ Len(m) = IF x.sign < 0 THEN 2 ELSE 1
  <2>1. Quotient(x, y).sign \in Int /\ Remainder(x, y).sign \in Int
    BY <1>2, <1>3
  <2> QED
    BY <1>3, <2>1, LengthOfNumber
<1> HIDE DEF x, y, q, m, n, first, second
<1>8. CASE x.sign = 1 /\ y.sign = 1
  BY <1>4, <1>5, <1>6, <1>7, <1>8
<1>9. CASE x.sign = 1 /\ y.sign = -1
  BY <1>4, <1>5, <1>6, <1>7, <1>9
<1>10. CASE x.sign = -1 /\ y.sign = 1
  BY <1>4, <1>5, <1>6, <1>7, <1>10
<1>11. CASE x.sign = -1 /\ y.sign = -1
  BY <1>4, <1>5, <1>6, <1>7, <1>11
<1> QED
  BY <1>2, <1>8, <1>9, <1>10, <1>11

WordFunctions(cells) ==
  {Inc(cells), Add(cells), Sub(cells), Mul(cells), Div(cells), Mod(cells), Divmod(cells), Compare(cells)}

(* emplace_number and Divmod (lib/Library.c 290-309, 475-493) write the result over the
   call: whatever the arguments, it never needs more cells than there are, and the range behind
   it that is discarded is not empty. Where Divmod needs all of them it discards none. *)
THEOREM WordsStayInCall ==
  ASSUME NEW X, NEW cells \in Seq(X), NEW left \in WordFunctions(cells)
  PROVE  left.exit # "undefined"
<1> DEFINE x == ArithmArg(cells).x
           y == ArithmArg(cells).y
<1>1. IsArithmArg(cells) => Len(cells) \in Nat /\ Len(cells) >= 5
  <2> DEFINE n(p) == IF cells[p] = Minus THEN 1 ELSE 0
  <2> HAVE IsArithmArg(cells)
  <2>1. Len(cells) >= 5 + n(Places(cells)[1]) + n(Places(cells)[2])
    BY RoomOfCall
  <2> QED
    BY <2>1
<1>2. x.sign \in {-1, 1} /\ y.sign \in {-1, 1}
  BY SignNeedsMinus DEF ArithmArg
<1>3. RecognitionImpossible.exit # "undefined" /\ BuiltinError.exit # "undefined"
  BY DEF RecognitionImpossible, BuiltinError
<1>4. \A written : Left(written).exit # "undefined"
  BY DEF Left
<1>5. ASSUME NEW res, res.sign \in Int, NEW high, IsArithmArg(cells)
      PROVE  InPlaceOf(cells, EmplaceNumber(res, high)).exit # "undefined"
  <2>1. Len(EmplaceNumber(res, high)) \in 1 .. 3
    BY <1>5, LengthOfNumber
  <2>2. Len(cells) >= 4
    BY <1>1, <1>5
  <2>3. Len(EmplaceNumber(res, high)) < Len(cells)
    BY <2>1, <2>2, RoomForThree
  <2> QED
    BY <1>4, <2>3 DEF InPlaceOf
<1>6. ASSUME NEW ok, ok.exit # "undefined" PROVE Division(cells, ok).exit # "undefined"
  BY <1>3, <1>6 DEF Division
<1>7. CASE left = Inc(cells)
  <2>1. CASE IsSignedNumber(cells, 3) /\ Behind(cells, 3) = Len(cells)
    <3> DEFINE arg == [x |-> ParseSignedNumber(cells, 3), y |-> Signed(1, 1)]
    <3>1. Len(cells) >= 4
      <4>1. NumberPlace(cells, 3) \in {3, 4}
        BY DEF NumberPlace
      <4> QED
        BY <2>1, <4>1 DEF Behind
    <3>2. SumOf(arg.x, arg.y).sign \in Int
      <4>1. arg.x.sign \in {-1, 1} /\ arg.y.sign \in {-1, 1}
        BY SignNeedsMinus DEF Signed
      <4> QED
        BY <4>1, SumHasSign
    <3>3. AddUp(cells, arg).exit = "none"
      BY <3>1, <3>2, AdditionStays
    <3> QED
      BY <1>7, <2>1, <3>3 DEF Inc
  <2>2. CASE ~(IsSignedNumber(cells, 3) /\ Behind(cells, 3) = Len(cells))
    BY <1>3, <1>7, <2>2 DEF Inc
  <2> QED
    BY <2>1, <2>2
<1>8. CASE left = Add(cells)
  <2>1. IsArithmArg(cells) => AddUp(cells, ArithmArg(cells)).exit = "none"
    <3>1. SumOf(x, y).sign \in Int
      BY <1>2, SumHasSign
    <3> QED
      BY <1>1, <3>1, AdditionStays
  <2> QED
    BY <1>3, <1>8, <2>1 DEF Add
<1>9. CASE left = Sub(cells)
  <2> DEFINE arg == [ArithmArg(cells) EXCEPT !.y = Negated(@)]
  <2>1. arg.x = x /\ arg.y = Negated(y)
    BY DEF ArithmArg
  <2>2. arg.x.sign \in {-1, 1} /\ arg.y.sign \in {-1, 1}
    BY <1>2, <2>1 DEF Negated, Signed
  <2> HIDE DEF arg
  <2>3. SumOf(arg.x, arg.y).sign \in Int
    BY <2>2, SumHasSign
  <2>4. IsArithmArg(cells) => AddUp(cells, arg).exit = "none"
    BY <1>1, <2>3, AdditionStays
  <2> QED
    BY <1>3, <1>9, <2>4 DEF Sub, arg
<1>10. CASE left = Mul(cells)
  <2> DEFINE both == LongProduct(x.value, y.value)
             res  == Signed(x.sign * y.sign, both.value)
  <2>1. res.sign \in Int
    BY <1>2 DEF Signed
  <2>2. Mul(cells) = IF IsArithmArg(cells)
                     THEN InPlaceOf(cells, EmplaceNumber(res, both.high))
                     ELSE RecognitionImpossible
    BY DEF Mul
  <2> HIDE DEF res, both
  <2> QED
    BY <1>3, <1>5, <1>10, <2>1, <2>2
<1>11. CASE left = Div(cells)
  <2> DEFINE ok == InPlaceOf(cells, EmplaceNumber(Quotient(x, y), 0))
  <2>1. Quotient(x, y).sign \in Int
    BY <1>2 DEF Quotient, Signed
  <2>2. Div(cells) = Division(cells, ok)
    BY DEF Div
  <2>3. CASE IsArithmArg(cells)
    <3>1. ok.exit # "undefined"
      BY <1>5, <2>1, <2>3
    <3> HIDE DEF ok
    <3> QED
      BY <1>6, <1>11, <2>2, <3>1
  <2>4. CASE ~IsArithmArg(cells)
    BY <1>3, <1>11, <2>2, <2>4 DEF Division
  <2> QED
    BY <2>3, <2>4
<1>12. CASE left = Mod(cells)
  <2> DEFINE ok == InPlaceOf(cells, EmplaceNumber(Remainder(x, y), 0))
  <2>1. Remainder(x, y).sign \in Int
    BY <1>2 DEF Remainder, Signed
  <2>2. Mod(cells) = Division(cells, ok)
    BY DEF Mod
  <2>3. CASE IsArithmArg(cells)
    <3>1. ok.exit # "undefined"
      BY <1>5, <2>1, <2>3
    <3> HIDE DEF ok
    <3> QED
      BY <1>6, <1>12, <2>2, <3>1
  <2>4. CASE ~IsArithmArg(cells)
    BY <1>3, <1>12, <2>2, <2>4 DEF Division
  <2> QED
    BY <2>3, <2>4
<1>13. CASE left = Divmod(cells)
  <2> DEFINE written == QuotientAndRemainder(ArithmArg(cells))
             ok == IF Len(written) = Len(cells) THEN Left(written) ELSE InPlaceOf(cells, written)
  <2>1. Divmod(cells) = Division(cells, ok)
    BY DEF Divmod
  <2>2. CASE IsArithmArg(cells)
    <3>1. Len(written) \in Nat /\ Len(written) <= Len(cells)
      BY <2>2, DivmodStays
    <3>2. Len(written) # Len(cells) => Len(written) < Len(cells)
      BY <1>1, <2>2, <3>1
    <3>3. ok.exit # "undefined"
      BY <1>4, <3>2 DEF InPlaceOf
    <3> HIDE DEF ok
    <3> QED
      BY <1>6, <1>13, <2>1, <3>3
  <2>3. CASE ~IsArithmArg(cells)
    BY <1>3, <1>13, <2>1, <2>3 DEF Division
  <2> QED
    BY <2>2, <2>3
<1>14. CASE left = Compare(cells)
  <2> DEFINE order == Order(x, y)
             sign == <<IF order < 0 THEN Minus ELSE IF order > 0 THEN Plus ELSE Char(Zero)>>
  <2>1. Len(sign) = 1
    OBVIOUS
  <2>2. Compare(cells) = IF IsArithmArg(cells) THEN InPlaceOf(cells, sign) ELSE RecognitionImpossible
    BY DEF Compare
  <2> HIDE DEF sign
  <2> QED
    BY <1>1, <1>3, <1>4, <1>14, <2>1, <2>2 DEF InPlaceOf
<1> QED
  BY <1>7, <1>8, <1>9, <1>10, <1>11, <1>12, <1>13, <1>14 DEF WordFunctions

-----------------------------------------------------------------------------
(* The recursion that runs the loop of Mul to its end. The registers at which the loop ends
   that starts at g are told by the turns between them, and so is the same before a turn and
   after it; hence a function that satisfies the recursion exists.                       *)

IsRun(w, n, g) ==
  /\ w[0] = g /\ w[n].x = 0
  /\ \A i \in 0 .. n - 1 : w[i].x # 0 /\ w[i + 1] = Round(w[i])

Runs(g) == {v \in MulRegisters : \E n \in Nat : \E w : IsRun(w, n, g) /\ v = w[n]}

LEMMA RoundTyped ==
  ASSUME NEW g \in MulRegisters
  PROVE  Round(g) \in MulRegisters
<1> DEFINE half == Radix \div 2
<1>1. /\ g.x \in Nat /\ g.y_low \in Nat /\ g.y_high \in Nat /\ g.value \in Nat /\ g.high \in Nat
  BY DEF MulRegisters
<1>2. Radix \in Nat \ {0} /\ half \in Nat \ {0}
  BY RadixAssumption
<1>3. \A n \in Nat : n % Radix \in Nat
  BY <1>2, QuotientFacts
<1>4. g.x \div 2 \in Nat /\ g.y_low \div half \in Nat
  <2> HIDE DEF half
  <2> QED
    BY <1>1, <1>2, QuotientFacts
<1> DEFINE value == (g.value + g.y_low) % Radix
           carry == IF g.x % 2 = 1 /\ value < g.y_low THEN 1 ELSE 0
<1>5. value \in Nat /\ carry \in Nat
  BY <1>1, <1>3
<1>6. /\ (2 * g.y_low) % Radix \in Nat
      /\ (2 * g.y_high + g.y_low \div half) % Radix \in Nat
      /\ (g.high + g.y_high + 0) % Radix \in Nat
      /\ (g.high + g.y_high + 1) % Radix \in Nat
  <2>1. /\ 2 * g.y_low \in Nat /\ 2 * g.y_high + g.y_low \div half \in Nat
        /\ g.high + g.y_high + 0 \in Nat /\ g.high + g.y_high + 1 \in Nat
    BY <1>1, <1>4
  <2> HIDE DEF half
  <2> QED
    BY <1>3, <2>1
<1>7. (g.high + g.y_high + carry) % Radix \in Nat
  <2>1. carry = 0 \/ carry = 1
    OBVIOUS
  <2> HIDE DEF carry
  <2> QED
    BY <1>6, <2>1
<1>8. Round(g) = [x |-> g.x \div 2, y_low |-> (2 * g.y_low) % Radix,
                  y_high |-> (2 * g.y_high + g.y_low \div half) % Radix,
                  value |-> Round(g).value, high |-> Round(g).high]
  BY DEF Round
<1>9. /\ Round(g).value = IF g.x % 2 = 1 THEN value ELSE g.value
      /\ Round(g).high = IF g.x % 2 = 1 THEN (g.high + g.y_high + carry) % Radix ELSE g.high
  BY DEF Round
<1> HIDE DEF half, value, carry
<1>10. Round(g).value \in Nat /\ Round(g).high \in Nat
  BY <1>1, <1>5, <1>7, <1>9
<1> QED
  BY <1>4, <1>6, <1>8, <1>10 DEF MulRegisters

LEMMA RunAtEnd ==
  ASSUME NEW g \in MulRegisters, g.x = 0
  PROVE  Runs(g) = {g}
<1>1. IsRun([i \in {0} |-> g], 0, g)
  BY DEF IsRun
<1>2. g \in Runs(g)
  BY <1>1 DEF Runs
<1>3. ASSUME NEW v \in Runs(g) PROVE v = g
  <2>1. PICK n \in Nat : \E w : IsRun(w, n, g) /\ v = w[n]
    BY DEF Runs
  <2>2. PICK w : IsRun(w, n, g) /\ v = w[n]
    BY <2>1
  <2>3. n = 0
    <3> SUFFICES ASSUME n # 0 PROVE FALSE
      OBVIOUS
    <3>1. 0 \in 0 .. n - 1
      OBVIOUS
    <3> QED
      BY <2>2, <3>1 DEF IsRun
  <2> QED
    BY <2>2, <2>3 DEF IsRun
<1> QED
  BY <1>2, <1>3

LEMMA RunGoesOn ==
  ASSUME NEW g \in MulRegisters, g.x # 0
  PROVE  Runs(g) = Runs(Round(g))
<1>1. ASSUME NEW v \in Runs(g) PROVE v \in Runs(Round(g))
  <2>1. PICK n \in Nat : \E w : IsRun(w, n, g) /\ v = w[n]
    BY DEF Runs
  <2>2. PICK w : IsRun(w, n, g) /\ v = w[n]
    BY <2>1
  <2>3. n # 0
    BY <2>2 DEF IsRun
  <2> DEFINE u == [i \in 0 .. n - 1 |-> w[i + 1]]
  <2>4. \A i \in 0 .. n - 1 : u[i] = w[i + 1]
    OBVIOUS
  <2> HIDE DEF u
  <2>5. u[0] = Round(g) /\ u[n - 1] = v
    <3>1. 0 \in 0 .. n - 1 /\ n - 1 \in 0 .. n - 1 /\ (n - 1) + 1 = n /\ 0 + 1 = 1
      BY <2>3
    <3>2. u[0] = w[1] /\ u[n - 1] = w[n]
      BY <2>4, <3>1
    <3>3. w[0] = g /\ w[0 + 1] = Round(w[0])
      BY <2>2, <3>1 DEF IsRun
    <3> QED
      BY <2>2, <3>2, <3>3
  <2>6. ASSUME NEW i \in 0 .. (n - 1) - 1 PROVE u[i].x # 0 /\ u[i + 1] = Round(u[i])
    <3>1. i + 1 \in 0 .. n - 1 /\ i \in 0 .. n - 1
      OBVIOUS
    <3>2. u[i] = w[i + 1] /\ u[i + 1] = w[(i + 1) + 1]
      BY <2>4, <3>1
    <3>3. w[i + 1].x # 0 /\ w[(i + 1) + 1] = Round(w[i + 1])
      BY <2>2, <3>1 DEF IsRun
    <3> QED
      BY <3>2, <3>3
  <2>7. IsRun(u, n - 1, Round(g))
    BY <2>2, <2>5, <2>6 DEF IsRun
  <2>8. n - 1 \in Nat /\ v \in MulRegisters
    BY <2>3 DEF Runs
  <2> QED
    BY <2>5, <2>7, <2>8 DEF Runs
<1>2. ASSUME NEW v \in Runs(Round(g)) PROVE v \in Runs(g)
  <2>1. PICK n \in Nat : \E w : IsRun(w, n, Round(g)) /\ v = w[n]
    BY DEF Runs
  <2>2. PICK w : IsRun(w, n, Round(g)) /\ v = w[n]
    BY <2>1
  <2> DEFINE u == [i \in 0 .. n + 1 |-> IF i = 0 THEN g ELSE w[i - 1]]
  <2>3. u[0] = g /\ \A i \in 1 .. n + 1 : u[i] = w[i - 1]
    OBVIOUS
  <2> HIDE DEF u
  <2>4. u[n + 1] = v
    <3>1. n + 1 \in 1 .. n + 1 /\ (n + 1) - 1 = n
      OBVIOUS
    <3> QED
      BY <2>2, <2>3, <3>1
  <2>5. ASSUME NEW i \in 0 .. (n + 1) - 1 PROVE u[i].x # 0 /\ u[i + 1] = Round(u[i])
    <3>1. i + 1 \in 1 .. n + 1 /\ (i + 1) - 1 = i
      OBVIOUS
    <3>2. u[i + 1] = w[i]
      BY <2>3, <3>1
    <3>3. CASE i = 0
      BY <2>2, <2>3, <3>2, <3>3 DEF IsRun
    <3>4. CASE i # 0
      <4>1. i \in 1 .. n + 1 /\ i - 1 \in 0 .. n - 1 /\ (i - 1) + 1 = i
        BY <3>4
      <4>2. u[i] = w[i - 1]
        BY <2>3, <4>1
      <4>3. w[i - 1].x # 0 /\ w[(i - 1) + 1] = Round(w[i - 1])
        BY <2>2, <4>1 DEF IsRun
      <4> QED
        BY <3>2, <4>1, <4>2, <4>3
    <3> QED
      BY <3>3, <3>4
  <2>6. IsRun(u, n + 1, g)
    BY <2>2, <2>3, <2>4, <2>5 DEF IsRun
  <2>7. v \in MulRegisters
    BY DEF Runs
  <2> QED
    BY <2>4, <2>6, <2>7 DEF Runs
<1> QED
  BY <1>1, <1>2

LEMMA MultipliedIs ==
  ASSUME NEW g \in MulRegisters
  PROVE  Multiplied[g] = IF g.x = 0 THEN g ELSE Multiplied[Round(g)]
<1> DEFINE Fits(f) == f = [h \in MulRegisters |-> IF h.x = 0 THEN h ELSE f[Round(h)]]
           end == [h \in MulRegisters |-> CHOOSE v : v \in Runs(h)]
<1>1. \A h \in MulRegisters : end[h] = IF h.x = 0 THEN h ELSE end[Round(h)]
  <2> TAKE h \in MulRegisters
  <2>1. CASE h.x = 0
    BY <2>1, RunAtEnd
  <2>2. CASE h.x # 0
    <3>1. Runs(h) = Runs(Round(h)) /\ Round(h) \in MulRegisters
      BY <2>2, RunGoesOn, RoundTyped
    <3> QED
      BY <2>2, <3>1
  <2> QED
    BY <2>1, <2>2
<1>2. Fits(end)
  <2>1. end = [h \in MulRegisters |-> end[h]]
    OBVIOUS
  <2> HIDE DEF end
  <2> QED
    BY <1>1, <2>1
<1>3. Multiplied = CHOOSE f : Fits(f)
  BY DEF Multiplied
<1> HIDE DEF Fits, end
<1>4. Fits(Multiplied)
  BY <1>2, <1>3
<1> QED
  BY <1>4 DEF Fits

(* The loop ends, and what it leaves is the product. *)
LEMMA MultipliedIsProduct ==
  ASSUME NEW a \in Word, NEW b \in Word, NEW start \in WordRegisters, InSum(start, a * b)
  PROVE  /\ Multiplied[start] \in WordRegisters
         /\ Multiplied[start].value + Multiplied[start].high * Radix = a * b
<1> DEFINE Ends(g) == /\ Multiplied[g] \in WordRegisters
                      /\ Multiplied[g].value + Multiplied[g].high * Radix = a * b
           T == {n \in Nat : \A g \in WordRegisters : g.x <= n /\ InSum(g, a * b) => Ends(g)}
<1>1. WordRegisters \subseteq MulRegisters
  BY RadixAssumption DEF WordRegisters, MulRegisters, Word
<1>2. ASSUME NEW g \in WordRegisters, g.x = 0, InSum(g, a * b) PROVE Ends(g)
  <2>1. Multiplied[g] = g
    BY <1>1, <1>2, MultipliedIs
  <2>2. /\ Radix \in Nat /\ g.y_low \in Nat /\ g.y_high \in Nat /\ g.value \in Nat /\ g.high \in Nat
    BY RadixAssumption DEF WordRegisters, Word
  <2>3. g.x * (g.y_low + g.y_high * Radix) = 0
    BY <1>2, <2>2
  <2>4. g.value + g.high * Radix = a * b
    BY <1>2, <2>2, <2>3 DEF InSum
  <2> QED
    BY <2>1, <2>4
<1> HIDE DEF Ends
<1>3. 0 \in T
  <2>1. \A g \in WordRegisters : g.x \in Nat
    BY RadixAssumption DEF WordRegisters, Word
  <2> QED
    BY <1>2, <2>1
<1>4. ASSUME NEW n \in Nat, n \in T PROVE n + 1 \in T
  <2> SUFFICES ASSUME NEW g \in WordRegisters, g.x <= n + 1, InSum(g, a * b), g.x # 0
               PROVE  Ends(g)
    BY <1>2
  <2>1. Round(g) \in WordRegisters /\ InSum(Round(g), a * b)
    BY RoundInvariant
  <2>2. Round(g).x <= n
    <3>1. g.x \in Nat
      BY RadixAssumption DEF WordRegisters, Word
    <3>2. Round(g).x = g.x \div 2
      BY DEF Round
    <3> QED
      BY <3>1, <3>2
  <2>3. Ends(Round(g))
    BY <1>4, <2>1, <2>2
  <2>4. Multiplied[g] = Multiplied[Round(g)]
    BY <1>1, MultipliedIs
  <2> QED
    BY <2>3, <2>4 DEF Ends
<1>5. Nat \subseteq T
  <2> HIDE DEF T
  <2> QED
    BY <1>3, <1>4, InductionOnSet
<1>6. start.x \in Nat /\ start.x <= start.x
  BY RadixAssumption DEF WordRegisters, Word
<1>7. Ends(start)
  BY <1>5, <1>6
<1> QED
  BY <1>7 DEF Ends

(* What Mul (lib/Library.c 936-972) computes, on the short way or in the loop, is the product
   of its factors in two words; the high one is 0 if the product fits in one. *)
THEOREM LongProductIsExact ==
  ASSUME NEW x \in Word, NEW y \in Word
  PROVE  /\ LongProduct(x, y) \in [value : Word, high : Word]
         /\ LongProduct(x, y).high * Radix + LongProduct(x, y).value = x * y
<1>1. /\ Radix \in Nat /\ Radix > 1
      /\ x \in Nat /\ y \in Nat /\ x < Radix /\ y < Radix /\ 0 \in Word
  BY RadixAssumption DEF Word
<1>2. CASE Overflows(x, y)
  <2> DEFINE start == Registers(x, y)
             m == Multiplied[start]
  <2>1. start \in WordRegisters
    BY <1>1 DEF Registers, WordRegisters
  <2>2. InSum(start, x * y)
    <3>1. start.value + start.high * Radix = 0 /\ start.y_low + start.y_high * Radix = start.y_low
      BY <1>1 DEF Registers
    <3>2. start.x * start.y_low = x * y
      BY <1>1 DEF Registers
    <3>3. x * y \in Nat
      BY <1>1
    <3> QED
      BY <3>1, <3>2, <3>3 DEF InSum
  <2>3. m \in WordRegisters /\ m.value + m.high * Radix = x * y
    BY <2>1, <2>2, MultipliedIsProduct
  <2>4. LongProduct(x, y) = [value |-> m.value, high |-> m.high]
    BY <1>2 DEF LongProduct
  <2> HIDE DEF m
  <2>5. m.value \in Word /\ m.high \in Word
    BY <2>3 DEF WordRegisters
  <2>6. m.value \in Nat /\ m.high * Radix \in Nat
    BY <1>1, <2>5 DEF Word
  <2> QED
    BY <2>3, <2>4, <2>5, <2>6
<1>3. CASE ~Overflows(x, y)
  <2>1. x * y \in Nat /\ x * y < Radix
    BY <1>1, <1>3, OverflowIsSeen
  <2>2. Product(x, y) = x * y
    BY <1>1, <2>1 DEF Product
  <2>3. LongProduct(x, y) = [value |-> x * y, high |-> 0]
    BY <1>3, <2>2 DEF LongProduct
  <2>4. x * y \in Word
    BY <1>1, <2>1 DEF Word
  <2> QED
    BY <1>1, <2>1, <2>3, <2>4
<1> QED
  BY <1>2, <1>3

-----------------------------------------------------------------------------
LEMMA LastOfRange ==
  ASSUME NEW n \in Nat, NEW k \in 1 .. n
  PROVE  Max(1 .. k) = k /\ (1 .. k) \ {k} = 1 .. (k - 1) /\ 1 .. k \in SUBSET (1 .. n)
  BY DEF Max

LEMMA MaxOfRange ==
  ASSUME NEW n \in Nat
  PROVE  /\ IsFiniteSet(1 .. n)
         /\ \A t \in SUBSET (1 .. n) : t # {} => Max(t) \in t
  <1>1. IsFiniteSet(1 .. n)
    BY FS_Interval
  <1>2. ASSUME NEW t \in SUBSET (1 .. n), t # {} PROVE Max(t) \in t
    <2> DEFINE f == [x \in t |-> x]
    <2>1. \A x \in t : f[x] \in 0 .. n
      OBVIOUS
    <2>2. PICK x \in t : \A y \in t : f[y] <= f[x]
      <3>. HIDE DEF f
      <3>. QED
        BY <2>1, <1>2, GreatestElement
    <2>3. \A y \in t : x >= y
      BY <2>2
    <2>. QED
      BY <2>3 DEF Max
  <1>. QED
    BY <1>1, <1>2

-----------------------------------------------------------------------------
(* Portions.                                                                *)

PortionState == [accum : Word, done : Seq(Word)]
NoPortions   == [accum |-> 0, done |-> <<>>]

\* The digit at i goes into the portion; the last of a portion completes it.
ReadDigit(digits, s, i) ==
  LET accum == (s.accum * 10 + digits[i].value - Zero) % Radix
  IN  IF (Len(digits) - i) % PortionBits = 0
      THEN [accum |-> 0, done |-> Append(s.done, accum)]
      ELSE [accum |-> accum, done |-> s.done]

LEMMA WordFacts ==
  /\ Radix \in Nat /\ Radix > 1 /\ 0 \in Word
  /\ \A x \in Int : x % Radix \in Word
  BY RadixAssumption DEF Word

LEMMA ReadDigitTyped ==
  ASSUME NEW digits, NEW i, digits[i].value \in Int, NEW s \in PortionState
  PROVE  ReadDigit(digits, s, i) \in PortionState
  <1>1. s.accum \in Word /\ s.accum \in Int /\ s.done \in Seq(Word)
    BY DEF PortionState, Word
  <1>2. s.accum * 10 + digits[i].value - Zero \in Int
    BY <1>1 DEF Zero
  <1> DEFINE accum == (s.accum * 10 + digits[i].value - Zero) % Radix
  <1>3. accum \in Word
    BY <1>2, WordFacts
  <1>. HIDE DEF accum
  <1>4. Append(s.done, accum) \in Seq(Word)
    BY <1>1, <1>3
  <1>. QED
    BY <1>1, <1>3, <1>4, WordFacts DEF ReadDigit, PortionState, accum

LEMMA PortionsRun ==
  ASSUME NEW n \in Nat, NEW digits, DOMAIN digits = 1 .. n,
         \A i \in 1 .. n : digits[i].value \in Int
  PROVE  \E u : /\ u \in [0 .. n -> PortionState]
                /\ u[0] = NoPortions
                /\ \A i \in 1 .. n : u[i] = ReadDigit(digits, u[i - 1], i)
                /\ Portions(digits) = u[n].done
  <1> DEFINE step == [i \in 1 .. n |-> [s \in PortionState |-> ReadDigit(digits, s, i)]]
             choose == [t \in SUBSET (1 .. n) |-> Max(t)]
             seq    == [i \in DOMAIN digits |-> i]
             Body(it) == [t \in SUBSET DOMAIN seq |->
                            IF t = {} THEN NoPortions ELSE ReadDigit(digits, it[t \ {Max(t)}], seq[Max(t)])]
             it == CHOOSE it : it = Body(it)
  <1>1. \A i \in 1 .. n, s \in PortionState : ReadDigit(digits, s, i) \in PortionState
    BY ReadDigitTyped
  <1>2. NoPortions \in PortionState
    BY WordFacts DEF NoPortions, PortionState
  <1>3. Foldable(1 .. n, PortionState, NoPortions, step, choose)
    BY <1>1, <1>2, MaxOfRange DEF Foldable
  <1>4. PICK f : Folding(f, 1 .. n, PortionState, NoPortions, step, choose)
    <2>. HIDE DEF step, choose
    <2>. QED
      BY <1>3, FoldExists
  <1>5. f = Body(f)
    <2>1. f \in [SUBSET (1 .. n) -> PortionState]
      BY <1>4 DEF Folding
    <2>2. ASSUME NEW t \in SUBSET (1 .. n)
          PROVE  f[t] = IF t = {} THEN NoPortions ELSE ReadDigit(digits, f[t \ {Max(t)}], seq[Max(t)])
      <3>1. CASE t = {}
        BY <3>1, <1>4 DEF Folding
      <3>2. CASE t # {}
        <4>1. Max(t) \in 1 .. n /\ f[t \ {Max(t)}] \in PortionState
          BY <3>2, <2>1, MaxOfRange
        <4>2. f[t] = step[choose[t]][f[t \ {choose[t]}]]
          BY <3>2, <1>4 DEF Folding
        <4>3. seq[Max(t)] = Max(t)
          BY <4>1
        <4>. QED
          BY <4>1, <4>2, <4>3, <3>2
      <3>. QED
        BY <3>1, <3>2
    <2>3. DOMAIN seq = 1 .. n
      OBVIOUS
    <2>. QED
      BY <2>1, <2>2, <2>3
  <1>6. it = Body(it)
    <2>. HIDE DEF Body
    <2>. QED
      BY <1>5
  <1>. HIDE DEF it
  <1> DEFINE u == [k \in 0 .. n |-> it[1 .. k]]
  <1>7. u[0] = NoPortions
    <2>1. 1 .. 0 = {} /\ u[0] = it[1 .. 0]
      OBVIOUS
    <2>. QED
      BY <2>1, <1>6
  <1>8. ASSUME NEW k \in 1 .. n PROVE u[k] = ReadDigit(digits, u[k - 1], k)
    <2>1. Max(1 .. k) = k /\ (1 .. k) \ {k} = 1 .. (k - 1) /\ 1 .. k \in SUBSET (1 .. n)
      BY LastOfRange
    <2>2. 1 .. k # {} /\ u[k] = it[1 .. k] /\ u[k - 1] = it[1 .. (k - 1)]
      OBVIOUS
    <2>3. it[1 .. k] = Body(it)[1 .. k]
      BY <1>6
    <2>. QED
      BY <2>1, <2>2, <2>3
  <1>9. Portions(digits) = it[1 .. n].done
    <2>1. DOMAIN seq = 1 .. n
      OBVIOUS
    <2>2. Portions(digits) = it[DOMAIN seq].done
      BY DEF Portions, FoldLeft, MapThenFoldSet, it, ReadDigit, NoPortions
    <2>. QED
      BY <2>1, <2>2
  <1>10. u[n] = it[1 .. n] /\ u = [k \in 0 .. n |-> u[k]]
    OBVIOUS
  <1>. HIDE DEF u
  <1>11. 0 .. n \subseteq {k \in 0 .. n : u[k] \in PortionState}
    <2> DEFINE T == {k \in 0 .. n : u[k] \in PortionState}
    <2>1. 0 \in T
      BY <1>2, <1>7
    <2>2. ASSUME NEW k \in 1 .. n, k - 1 \in T PROVE k \in T
      BY <2>2, <1>1, <1>8
    <2>. HIDE DEF T
    <2>3. 0 .. n \subseteq T
      BY <2>1, <2>2, InductionOnRange
    <2>. QED
      BY <2>3 DEF T
  <1>12. u \in [0 .. n -> PortionState]
    BY <1>10, <1>11
  <1>. QED
    BY <1>7, <1>8, <1>9, <1>10, <1>12

-----------------------------------------------------------------------------
(* Powers.                                                                  *)

LEMMA PowerIs ==
  ASSUME NEW b \in Nat
  PROVE  /\ Power(b, 0) = 1
         /\ \A n \in Nat : Power(b, n) \in Nat /\ Power(b, n + 1) = b * Power(b, n)
  <1> DEFINE rank == [n \in Nat |-> n]
             end  == {0}
             next == [n \in Nat |-> IF n = 0 THEN 0 ELSE n - 1]
             base == [n \in Nat |-> 1]
             comb == [n \in Nat |-> [v \in Nat |-> b * v]]
             Body(p) == [k \in Nat |-> IF k = 0 THEN 1 ELSE b * p[k - 1]]
             power == CHOOSE power : power = Body(power)
  <1>1. Descends(Nat, Nat, rank, end, next, base, comb)
    <2>1. \A v \in Nat : b * v \in Nat
      OBVIOUS
    <2>2. comb \in [Nat -> [Nat -> Nat]]
      BY <2>1
    <2>. QED
      BY <2>2 DEF Descends
  <1>2. PICK f : Recursion(f, Nat, Nat, end, next, base, comb)
    <2>. HIDE DEF rank, end, next, base, comb
    <2>. QED
      BY <1>1, RecursionByRank
  <1>3. f \in [Nat -> Nat] /\ \A k \in Nat : f[k] = IF k = 0 THEN 1 ELSE b * f[k - 1]
    <2>1. f \in [Nat -> Nat]
      BY <1>2 DEF Recursion
    <2>2. \A k \in Nat : f[k] = IF k \in end THEN base[k] ELSE comb[k][f[next[k]]]
      <3>. HIDE DEF end, next, base, comb
      <3>. QED
        BY <1>2 DEF Recursion
    <2>3. ASSUME NEW k \in Nat PROVE f[k] = IF k = 0 THEN 1 ELSE b * f[k - 1]
      <3>1. CASE k = 0
        BY <2>2, <3>1
      <3>2. CASE k # 0
        <4>1. next[k] = k - 1 /\ k - 1 \in Nat
          BY <3>2
        <4>2. f[k - 1] \in Nat
          BY <4>1, <2>1
        <4>3. comb[k][f[k - 1]] = b * f[k - 1]
          BY <4>2
        <4>. QED
          BY <2>2, <3>2, <4>1, <4>3
      <3>. QED
        BY <3>1, <3>2
    <2>. QED
      BY <2>1, <2>3
  <1>4. f = Body(f)
    BY <1>3
  <1>5. power = Body(power)
    <2>. HIDE DEF Body
    <2>. QED
      BY <1>4
  <1>6. \A n : Power(b, n) = power[n]
    BY DEF Power
  <1>. HIDE DEF power
  <1>7. power[0] = 1 /\ \A n \in Nat : power[n + 1] = b * power[n]
    BY <1>5
  <1> DEFINE T == {n \in Nat : power[n] \in Nat}
  <1>8. 0 \in T /\ \A n \in Nat : n \in T => n + 1 \in T
    BY <1>7
  <1>9. Nat \subseteq T
    <2>. HIDE DEF T
    <2>. QED
      BY <1>8, InductionOnSet
  <1>. QED
    BY <1>6, <1>7, <1>9

LEMMA PowerGrows ==
  ASSUME NEW b \in Nat, b > 1, NEW n \in Nat
  PROVE  Power(b, n) > n
  <1> DEFINE T == {k \in Nat : Power(b, k) > k}
  <1>1. 0 \in T
    BY PowerIs
  <1>2. ASSUME NEW k \in Nat, k \in T PROVE k + 1 \in T
    <2>1. Power(b, k) \in Nat /\ Power(b, k) > k /\ Power(b, k + 1) = b * Power(b, k)
      BY <1>2, PowerIs
    <2>. HIDE DEF T
    <2>2. \A p \in Nat : p > k => b * p > k + 1 \/ (p = k + 1 /\ b * p > k + 1)
      <3>1. ASSUME NEW p \in Nat, p > k PROVE b * p > k + 1
        <4>1. b * p >= 2 * p
          BY <3>1
        <4>. QED
          BY <4>1, <3>1
      <3>. QED
        BY <3>1
    <2>3. Power(b, k + 1) > k + 1
      BY <2>1, <2>2
    <2>. QED
      BY <2>3 DEF T
  <1>. HIDE DEF T
  <1>3. Nat \subseteq T
    BY <1>1, <1>2, InductionOnSet
  <1>. QED
    BY <1>3 DEF T

LEMMA PowerOfSum ==
  ASSUME NEW b \in Nat, NEW m \in Nat, NEW n \in Nat
  PROVE  Power(b, m + n) = Power(b, m) * Power(b, n)
  <1> DEFINE T == {k \in Nat : Power(b, m + k) = Power(b, m) * Power(b, k)}
  <1>0. \A k \in Nat : Power(b, k) \in Nat /\ Power(b, k + 1) = b * Power(b, k)
    BY PowerIs
  <1>1. 0 \in T
    BY PowerIs
  <1>2. ASSUME NEW k \in Nat, k \in T PROVE k + 1 \in T
    <2>1. m + k \in Nat /\ m + (k + 1) = (m + k) + 1
      OBVIOUS
    <2>2. /\ Power(b, m + (k + 1)) = b * Power(b, m + k)
          /\ Power(b, k + 1) = b * Power(b, k)
          /\ Power(b, m) \in Nat /\ Power(b, k) \in Nat
      BY <2>1, <1>0
    <2>3. Power(b, m + k) = Power(b, m) * Power(b, k)
      BY <1>2
    <2>4. b * (Power(b, m) * Power(b, k)) = Power(b, m) * (b * Power(b, k))
      BY <2>2
    <2>. QED
      BY <2>2, <2>3, <2>4
  <1>. HIDE DEF T
  <1>3. Nat \subseteq T
    BY <1>1, <1>2, InductionOnSet
  <1>. QED
    BY <1>3 DEF T

LEMMA PowerPositive ==
  ASSUME NEW b \in Nat, b >= 1, NEW n \in Nat
  PROVE  Power(b, n) \in Nat /\ Power(b, n) >= 1
  <1> DEFINE T == {k \in Nat : Power(b, k) >= 1}
  <1>1. 0 \in T
    <2>1. Power(b, 0) = 1
      BY PowerIs
    <2>. QED
      BY <2>1
  <1>2. ASSUME NEW k \in Nat, k \in T PROVE k + 1 \in T
    <2>1. Power(b, k) \in Nat /\ Power(b, k) >= 1 /\ Power(b, k + 1) = b * Power(b, k)
      BY <1>2, PowerIs
    <2>2. \A p \in Nat : p >= 1 => b * p >= 1
      OBVIOUS
    <2>. QED
      BY <2>1, <2>2
  <1>. HIDE DEF T
  <1>3. Nat \subseteq T
    BY <1>1, <1>2, InductionOnSet
  <1>. QED
    BY <1>3, PowerIs DEF T

LEMMA PartFacts ==
  /\ Part \in Nat /\ Part > 1
  /\ Half = Part * Part /\ Half \in Nat /\ Half > 1
  /\ Radix = Half * Half
  <1>1. Part \in Nat /\ Part > 1
    BY PowerIs, PowerGrows, DecimalAssumption DEF Part
  <1>2. Part * Part > 1 /\ Part * Part \in Nat
    BY <1>1
  <1>. QED
    BY <1>1, <1>2, DecimalAssumption DEF Half

-----------------------------------------------------------------------------
(* Portions, continued.                                                     *)

LEMMA NotBothDivide ==
  ASSUME NEW a \in Nat, NEW b \in Nat, b >= 2, a % b = 0, (a + 1) % b = 0
  PROVE  FALSE
  <1>1. PICK x \in Nat : a = b * x
    BY QuotientFacts
  <1>2. PICK y \in Nat : a + 1 = b * y
    <2>1. a + 1 \in Nat
      OBVIOUS
    <2>. QED
      BY <2>1, QuotientFacts
  <1>3. b * (y - x) = 1
    BY <1>1, <1>2
  <1>4. y - x >= 1 \/ y - x <= 0
    OBVIOUS
  <1>5. y - x >= 1 => b * (y - x) >= b
    OBVIOUS
  <1>6. y - x <= 0 => b * (y - x) <= 0
    OBVIOUS
  <1>. QED
    BY <1>3, <1>4, <1>5, <1>6

LEMMA PortionsLength ==
  ASSUME NEW S, NEW digits \in Seq(S), digits # <<>>,
         \A i \in 1 .. Len(digits) : digits[i].value \in Int
  PROVE  /\ Portions(digits) \in Seq(Word)
         /\ Len(Portions(digits)) >= 1
         /\ 2 * Len(Portions(digits)) <= Len(digits) + 1
  <1> DEFINE n == Len(digits)
             Even(i) == (n - i) % PortionBits = 0
  <1>1. n \in Nat /\ n >= 1 /\ DOMAIN digits = 1 .. n
    OBVIOUS
  <1>2. PICK u : /\ u \in [0 .. n -> PortionState]
                 /\ u[0] = NoPortions
                 /\ \A i \in 1 .. n : u[i] = ReadDigit(digits, u[i - 1], i)
                 /\ Portions(digits) = u[n].done
    <2>. HIDE DEF n
    <2>1. \A i \in 1 .. n : digits[i].value \in Int
      BY DEF n
    <2>. QED
      BY <1>1, <2>1, PortionsRun
  <1>3. \A i \in 0 .. n : u[i].done \in Seq(Word) /\ u[i].accum \in Int
    BY <1>2 DEF PortionState, Word
  <1>4. PortionBits \in Nat /\ PortionBits >= 2
    BY DecimalAssumption
  <1>5. ASSUME NEW i \in 1 .. n, Even(i)
        PROVE  Len(u[i].done) = Len(u[i - 1].done) + 1
    <2>1. u[i] = ReadDigit(digits, u[i - 1], i) /\ i - 1 \in 0 .. n
      BY <1>2
    <2>2. u[i].done = Append(u[i - 1].done, (u[i - 1].accum * 10 + digits[i].value - Zero) % Radix)
      BY <2>1, <1>5 DEF ReadDigit
    <2>. QED
      BY <2>1, <2>2, <1>3
  <1>6. ASSUME NEW i \in 1 .. n, ~Even(i)
        PROVE  Len(u[i].done) = Len(u[i - 1].done)
    <2>1. u[i] = ReadDigit(digits, u[i - 1], i) /\ i - 1 \in 0 .. n
      BY <1>2
    <2>2. u[i].done = u[i - 1].done
      BY <2>1, <1>6 DEF ReadDigit
    <2>. QED
      BY <2>2
  <1>7. ASSUME NEW i \in 1 .. n, Even(i), Even(i - 1) PROVE FALSE
    <2>1. n - i \in Nat /\ n - (i - 1) = (n - i) + 1
      OBVIOUS
    <2>. QED
      BY <2>1, <1>4, <1>7, NotBothDivide
  <1>8. Even(n)
    <2>1. n - n = 0
      OBVIOUS
    <2>2. 0 % PortionBits = 0
      BY <1>4
    <2>. QED
      BY <2>1, <2>2
  <1>9. \A i \in 0 .. n : Len(u[i].done) \in Nat
    BY <1>3
  <1>. HIDE DEF Even, n
  <1> DEFINE T == {i \in 0 .. n : /\ 2 * Len(u[i].done) <= i + 1
                                  /\ ~Even(i) \/ i = 0 => 2 * Len(u[i].done) <= i}
  <1>10. 0 \in T
    <2>1. u[0].done = <<>>
      BY <1>2 DEF NoPortions
    <2>2. Len(u[0].done) = 0
      BY <2>1
    <2>. QED
      BY <2>2, <1>1
  <1>11. ASSUME NEW i \in 1 .. n, i - 1 \in T PROVE i \in T
    <2>1. i - 1 \in 0 .. n /\ i \in 0 .. n /\ i # 0
      BY <1>1
    <2>2. CASE Even(i)
      <3>1. ~Even(i - 1)
        BY <2>2, <1>7
      <3>2. 2 * Len(u[i - 1].done) <= i - 1
        BY <3>1, <1>11
      <3>. QED
        BY <2>1, <2>2, <3>2, <1>5, <1>9
    <2>3. CASE ~Even(i)
      <3>1. 2 * Len(u[i - 1].done) <= (i - 1) + 1
        BY <1>11
      <3>. QED
        BY <2>1, <2>3, <3>1, <1>6, <1>9
    <2>. QED
      BY <2>2, <2>3
  <1>. HIDE DEF T
  <1>12. 0 .. n \subseteq T
    BY <1>1, <1>10, <1>11, InductionOnRange
  <1>13. n \in T /\ n \in 0 .. n /\ n - 1 \in 0 .. n /\ n \in 1 .. n
    BY <1>1, <1>12
  <1>14. Len(u[n].done) = Len(u[n - 1].done) + 1
    BY <1>5, <1>8, <1>13
  <1>15. Len(u[n].done) >= 1
    BY <1>9, <1>13, <1>14
  <1>16. 2 * Len(u[n].done) <= n + 1
    BY <1>13 DEF T
  <1>. QED
    BY <1>2, <1>3, <1>13, <1>15, <1>16 DEF n

-----------------------------------------------------------------------------
(* Words.                                                                   *)

\* How many divisions by Part make a word zero.
Level(x) ==
  IF x < Part THEN 1 ELSE IF x < Part * Part THEN 2 ELSE IF x < Part * Part * Part THEN 3 ELSE 4

\* A bound for the divisions that make portions empty.
Effort(portions) ==
  IF portions = <<>> THEN 0 ELSE 4 * (Len(portions) - 1) + Level(portions[1])

LEMMA LevelFalls ==
  ASSUME NEW x \in Word
  PROVE  /\ Level(x) \in 1 .. 4
         /\ x \div Part \in Word
         /\ (x \div Part) % Radix = x \div Part
         /\ x \div Part # 0 => Level(x \div Part) < Level(x)
  <1> DEFINE y == x \div Part
  <1>1. /\ Part \in Nat /\ Part > 1 /\ Radix = (Part * Part) * (Part * Part)
        /\ x \in Nat /\ x < Radix
    BY PartFacts DEF Word
  <1>2. \E rm \in Nat : y \in Nat /\ rm < Part /\ x = Part * y + rm
    <2>1. Part \in Nat \ {0} /\ x \in Nat
      BY <1>1
    <2>2. /\ x \div Part \in Nat /\ x % Part \in Nat /\ x % Part < Part
          /\ x = Part * (x \div Part) + (x % Part)
      BY <2>1, QuotientFacts
    <2>. QED
      BY <2>2
  <1>. HIDE DEF y
  <1>2a. PICK rm \in Nat : y \in Nat /\ rm < Part /\ x = Part * y + rm
    BY <1>2
  <1>3. y <= x
    <2>1. Part * y >= y
      BY <1>1, <1>2a
    <2>2. Part * y \in Nat
      BY <1>1, <1>2a
    <2>. QED
      BY <2>1, <2>2, <1>2a
  <1>4. y % Radix = y
    BY <1>1, <1>2a, <1>3
  <1>5. ASSUME NEW b \in Nat, x < Part * b PROVE y < b
    <2>. SUFFICES ASSUME y >= b PROVE FALSE
      BY <1>2a
    <2>1. Part * y >= Part * b
      BY <1>1, <1>2a
    <2>2. Part * y \in Nat /\ Part * b \in Nat
      BY <1>1, <1>2a
    <2>. QED
      BY <2>1, <2>2, <1>1, <1>2a, <1>5
  <1>6. x < Part => y = 0
    <2>1. x < Part * 1 => y < 1
      BY <1>5
    <2>. QED
      BY <2>1, <1>1, <1>2a
  <1>7. x < Part * Part => y < Part
    BY <1>1, <1>5
  <1>8. x < Part * Part * Part => y < Part * Part
    <2>1. Part * Part \in Nat /\ Part * (Part * Part) = Part * Part * Part
      BY <1>1
    <2>. QED
      BY <2>1, <1>5
  <1>9. y < Part * Part * Part
    <2>1. /\ Part * Part \in Nat /\ Part * Part * Part \in Nat
          /\ Part * (Part * Part * Part) = (Part * Part) * (Part * Part)
      BY <1>1
    <2>. QED
      BY <2>1, <1>1, <1>5
  <1>10. /\ Part * Part \in Nat /\ Part * Part * Part \in Nat
         /\ Part < Part * Part /\ Part * Part < Part * Part * Part
    BY <1>1
  <1>11. y # 0 => Level(y) < Level(x)
    BY <1>1, <1>2a, <1>6, <1>7, <1>8, <1>9, <1>10 DEF Level
  <1>. QED
    BY <1>1, <1>2a, <1>3, <1>4, <1>11 DEF Level, Word, y

LEMMA QuarterFalls ==
  ASSUME NEW portions \in Seq(Word), portions # <<>>
  PROVE  /\ Quarter(portions) \in Seq(Word)
         /\ Effort(portions) \in Nat /\ Effort(Quarter(portions)) \in Nat
         /\ Effort(Quarter(portions)) < Effort(portions)
         /\ Effort(portions) <= 4 * Len(portions)
  <1> DEFINE power5 == Power(25, PortionBits \div 2)
             next == [i \in DOMAIN portions |->
                        ((IF i = 1 THEN 0 ELSE (portions[i - 1] % Part) * power5)
                          + portions[i] \div Part) % Radix]
             n == Len(portions)
  <1>1. n \in Nat /\ n >= 1 /\ DOMAIN portions = 1 .. n /\ \A i \in 1 .. n : portions[i] \in Word
    OBVIOUS
  <1>2. Part \in Nat /\ Part > 1
    BY PartFacts
  <1>3. power5 \in Int
    <2>1. PortionBits \div 2 \in Nat
      BY DecimalAssumption
    <2>. QED
      BY <2>1, PowerIs
  <1>. HIDE DEF power5
  <1>4. \A i \in 1 .. n : next[i] \in Word
    <2>1. ASSUME NEW i \in 1 .. n PROVE next[i] \in Word
      <3>1. portions[i] \in Nat /\ (i # 1 => portions[i - 1] \in Nat)
        <4>1. \A w \in Word : w \in Nat
          BY WordFacts DEF Word
        <4>2. i # 1 => i - 1 \in 1 .. n
          BY <1>1
        <4>. HIDE DEF next, n
        <4>. QED
          BY <4>1, <4>2, <1>1
      <3>2. portions[i] \div Part \in Int /\ (i # 1 => portions[i - 1] % Part \in Int)
        BY <3>1, <1>2
      <3>3. (IF i = 1 THEN 0 ELSE (portions[i - 1] % Part) * power5) \in Int
        BY <3>2, <1>3
      <3> DEFINE a == IF i = 1 THEN 0 ELSE (portions[i - 1] % Part) * power5
                 b == portions[i] \div Part
      <3>4. a + b \in Int
        BY <3>2, <3>3
      <3>5. next[i] = (a + b) % Radix
        BY <1>1
      <3>. HIDE DEF a, b, next
      <3>. QED
        BY <3>4, <3>5, WordFacts
    <2>. QED
      BY <2>1
  <1>5. next[1] = portions[1] \div Part
    <2>1. 1 \in 1 .. n /\ portions[1] \in Word
      BY <1>1
    <2>2. portions[1] \div Part \in Int /\ (portions[1] \div Part) % Radix = portions[1] \div Part
      BY <2>1, LevelFalls DEF Word
    <2>3. next[1] = (0 + portions[1] \div Part) % Radix
      BY <1>1, <2>1
    <2>. HIDE DEF next
    <2>. QED
      BY <2>2, <2>3
  <1>6. next \in [1 .. n -> Word]
    BY <1>1, <1>4
  <1>7. Quarter(portions) = IF next[1] = 0 THEN Tail(next) ELSE next
    BY DEF Quarter, power5
  <1>. HIDE DEF next
  <1>8. next \in Seq(Word) /\ Len(next) = n /\ next # <<>>
    BY <1>1, <1>6
  <1>9. Level(portions[1]) \in 1 .. 4
    BY <1>1, LevelFalls
  <1>10. /\ Effort(portions) = 4 * (n - 1) + Level(portions[1])
         /\ Effort(portions) \in Nat /\ Effort(portions) <= 4 * n
    BY <1>1, <1>9 DEF Effort
  <1>11. CASE next[1] = 0
    <2> DEFINE t == Tail(next)
    <2>1. t \in Seq(Word) /\ Len(t) = n - 1 /\ Quarter(portions) = t
      BY <1>7, <1>8, <1>11
    <2>. HIDE DEF t
    <2>2. CASE t = <<>>
      BY <2>1, <2>2, <1>1, <1>9, <1>10 DEF Effort
    <2>3. CASE t # <<>>
      <3>1. t[1] \in Word
        BY <2>1, <2>3
      <3>2. Level(t[1]) \in 1 .. 4
        BY <3>1, LevelFalls
      <3>3. Effort(t) = 4 * ((n - 1) - 1) + Level(t[1])
        BY <2>1, <2>3 DEF Effort
      <3>4. Len(t) >= 1
        BY <2>1, <2>3
      <3>. QED
        BY <2>1, <3>2, <3>3, <3>4, <1>1, <1>9, <1>10
    <2>. QED
      BY <2>2, <2>3
  <1>12. CASE next[1] # 0
    <2>0. portions[1] \in Word /\ next[1] \in Word
      BY <1>1, <1>8
    <2>1. Level(next[1]) < Level(portions[1]) /\ Level(next[1]) \in 1 .. 4
      BY <2>0, <1>5, <1>12, LevelFalls
    <2>2. Effort(next) = 4 * (n - 1) + Level(next[1])
      BY <1>8 DEF Effort
    <2>. QED
      BY <2>1, <2>2, <1>1, <1>7, <1>8, <1>9, <1>10, <1>12
  <1>. QED
    BY <1>11, <1>12

WordsState == [portions : Seq(Word), accum : Nat, offset : Nat, words : Seq(Nat)]

\* A round of the loop that makes words.
WordsRound(s) ==
  LET accum == s.accum + (Last(s.portions) % Part) * Power(2, s.offset)
      full  == s.offset = 3 * PortionBits
  IN  [portions |-> Quarter(s.portions),
       accum    |-> IF full THEN 0 ELSE accum,
       offset   |-> IF full THEN 0 ELSE s.offset + PortionBits,
       words    |-> IF full THEN <<accum>> \o s.words ELSE s.words]

WordsEnd(s) == IF s.accum > 0 THEN <<s.accum>> \o s.words ELSE s.words

WordsStart(portions) == [portions |-> portions, accum |-> 0, offset |-> 0, words |-> <<>>]

LEMMA WordsRoundTyped ==
  ASSUME NEW s \in WordsState, s.portions # <<>>
  PROVE  WordsRound(s) \in WordsState
  <1>1. s.portions \in Seq(Word) /\ s.accum \in Nat /\ s.offset \in Nat /\ s.words \in Seq(Nat)
    BY DEF WordsState
  <1>2. Quarter(s.portions) \in Seq(Word)
    BY <1>1, QuarterFalls
  <1>3. Last(s.portions) \in Word
    BY <1>1 DEF Last
  <1> DEFINE low == Last(s.portions) % Part
             accum == s.accum + low * Power(2, s.offset)
  <1>4. low \in Nat
    BY <1>3, PartFacts, RadixAssumption DEF Word
  <1>5. Power(2, s.offset) \in Nat
    BY <1>1, PowerIs
  <1>6. accum \in Nat
    <2>. HIDE DEF low
    <2>. QED
      BY <1>1, <1>4, <1>5
  <1>. HIDE DEF accum
  <1>7. <<accum>> \o s.words \in Seq(Nat)
    BY <1>1, <1>6
  <1>8. s.offset + PortionBits \in Nat
    BY <1>1, DecimalAssumption
  <1>. QED
    BY <1>1, <1>2, <1>6, <1>7, <1>8 DEF WordsRound, WordsState, accum

LEMMA WordsIs ==
  \E loop : /\ \A s \in WordsState :
                 loop[s] = IF s.portions = <<>> THEN WordsEnd(s) ELSE loop[WordsRound(s)]
            /\ \A portions : Words(portions) = loop[WordsStart(portions)]
  <1> DEFINE rank == [s \in WordsState |-> Effort(s.portions)]
             end  == {s \in WordsState : s.portions = <<>>}
             next == [s \in WordsState |-> IF s.portions = <<>> THEN s ELSE WordsRound(s)]
             base == [s \in WordsState |-> WordsEnd(s)]
             V    == Seq(Nat)
             comb == [s \in WordsState |-> [v \in V |-> v]]
             Body(l) == [s \in [portions : Seq(Word), accum : Nat, offset : Nat, words : Seq(Nat)] |->
                           IF s.portions = <<>> THEN WordsEnd(s) ELSE l[WordsRound(s)]]
             loop == CHOOSE l : l = Body(l)
  <1>1. ASSUME NEW s \in WordsState PROVE base[s] \in V /\ rank[s] \in Nat /\ next[s] \in WordsState
    <2>1. s.portions \in Seq(Word) /\ s.accum \in Nat /\ s.words \in Seq(Nat)
      BY DEF WordsState
    <2>2. <<s.accum>> \o s.words \in Seq(Nat)
      BY <2>1
    <2>3. Effort(s.portions) \in Nat
      BY <2>1, QuarterFalls DEF Effort
    <2>. QED
      BY <2>1, <2>2, <2>3, WordsRoundTyped DEF WordsEnd
  <1>2. ASSUME NEW s \in WordsState \ end PROVE rank[next[s]] < rank[s]
    <2>1. s.portions \in Seq(Word) /\ s.portions # <<>>
      BY DEF WordsState
    <2>2. next[s] = WordsRound(s) /\ WordsRound(s) \in WordsState
      BY <2>1, WordsRoundTyped
    <2>3. rank[next[s]] = Effort(Quarter(s.portions)) /\ rank[s] = Effort(s.portions)
      BY <2>2 DEF WordsRound
    <2>. QED
      BY <2>1, <2>3, QuarterFalls
  <1>3. Descends(WordsState, V, rank, end, next, base, comb)
    <2>1. comb \in [WordsState -> [V -> V]]
      OBVIOUS
    <2>2. rank \in [WordsState -> Nat]
      BY <1>1
    <2>3. base \in [WordsState -> V]
      BY <1>1
    <2>4. next \in [WordsState -> WordsState]
      BY <1>1
    <2>. HIDE DEF rank, end, next, base, comb
    <2>. QED
      BY <2>1, <2>2, <2>3, <2>4, <1>2 DEF Descends
  <1>4. PICK f : Recursion(f, WordsState, V, end, next, base, comb)
    <2>. HIDE DEF rank, end, next, base, comb, V
    <2>. QED
      BY <1>3, RecursionByRank
  <1>5. f \in [WordsState -> V]
    BY <1>4 DEF Recursion
  <1>6. ASSUME NEW s \in WordsState
        PROVE  f[s] = IF s.portions = <<>> THEN WordsEnd(s) ELSE f[WordsRound(s)]
    <2>1. f[s] = IF s \in end THEN base[s] ELSE comb[s][f[next[s]]]
      <3>. HIDE DEF end, next, base, comb, V
      <3>. QED
        BY <1>4 DEF Recursion
    <2>2. CASE s.portions = <<>>
      BY <2>1, <2>2
    <2>3. CASE s.portions # <<>>
      <3>1. next[s] = WordsRound(s) /\ WordsRound(s) \in WordsState
        BY <2>3, WordsRoundTyped
      <3>2. f[WordsRound(s)] \in V
        BY <3>1, <1>5
      <3>3. comb[s][f[WordsRound(s)]] = f[WordsRound(s)]
        BY <3>2
      <3>. HIDE DEF next, base, comb
      <3>. QED
        BY <2>1, <2>3, <3>1, <3>3
    <2>. QED
      BY <2>2, <2>3
  <1>7. f = Body(f)
    BY <1>5, <1>6 DEF WordsState
  <1>8. loop = Body(loop)
    <2>. HIDE DEF Body
    <2>. QED
      BY <1>7
  <1>9. \A portions : Words(portions) = loop[WordsStart(portions)]
    BY DEF Words, WordsEnd, WordsRound, WordsStart
  <1>. HIDE DEF loop
  <1>10. \A s \in WordsState :
           loop[s] = IF s.portions = <<>> THEN WordsEnd(s) ELSE loop[WordsRound(s)]
    BY <1>8 DEF WordsState
  <1>. QED
    BY <1>9, <1>10

\* What is left of a word after k divisions by Part is less than Offset(4 - k).
Offset(j) == Power(2, j * PortionBits)

LEMMA OffsetIs ==
  /\ Offset(0) = 1
  /\ \A j \in Nat : Offset(j) \in Nat /\ Offset(j) > 0 /\ Offset(j + 1) = Offset(j) * Part
  /\ Offset(4) = Radix
  <1>1. PortionBits \in Nat
    BY DecimalAssumption
  <1>2. Offset(0) = 1
    BY <1>1, PowerIs DEF Offset
  <1>3. ASSUME NEW j \in Nat
        PROVE  Offset(j) \in Nat /\ Offset(j) > 0 /\ Offset(j + 1) = Offset(j) * Part
    <2>1. j * PortionBits \in Nat /\ (j + 1) * PortionBits = j * PortionBits + PortionBits
      BY <1>1
    <2>2. Offset(j) \in Nat
      BY <2>1, PowerIs DEF Offset
    <2>3. Power(2, j * PortionBits) > j * PortionBits
      BY <2>1, PowerGrows
    <2>4. Power(2, j * PortionBits + PortionBits) = Power(2, j * PortionBits) * Power(2, PortionBits)
      BY <1>1, <2>1, PowerOfSum
    <2>. QED
      BY <2>1, <2>2, <2>3, <2>4 DEF Offset, Part
  <1>4. Offset(4) = Radix
    <2>1. Offset(1) = Part
      <3>1. Offset(0 + 1) = Offset(0) * Part
        BY <1>3
      <3>. QED
        BY <3>1, <1>2, PartFacts
    <2>2. Offset(1 + 1) = Offset(1) * Part
      BY <1>3
    <2>3. Offset(2 + 1) = Offset(2) * Part
      BY <1>3
    <2>4. Offset(3 + 1) = Offset(3) * Part
      BY <1>3
    <2>5. Offset(2) = Part * Part /\ Offset(3) = Part * Part * Part
      BY <2>1, <2>2, <2>3
    <2>6. Offset(4) = Part * Part * Part * Part
      BY <2>4, <2>5
    <2>7. Part * Part * Part * Part = (Part * Part) * (Part * Part)
      BY PartFacts
    <2>. QED
      BY <2>6, <2>7, PartFacts
  <1>. QED
    BY <1>2, <1>3, <1>4

LEMMA OffsetsSmall ==
  ASSUME NEW j \in 0 .. 3
  PROVE  Offset(j) <= Radix /\ Offset(j) \in Nat
  <1>1. \A k \in Nat : Offset(k) \in Nat /\ Offset(k) <= Offset(k + 1)
    <2>1. ASSUME NEW k \in Nat PROVE Offset(k) \in Nat /\ Offset(k) <= Offset(k + 1)
      <3>1. Offset(k) \in Nat /\ Offset(k + 1) = Offset(k) * Part /\ Part \in Nat /\ Part > 1
        BY OffsetIs, PartFacts
      <3>2. \A a \in Nat : a <= a * Part
        BY <3>1
      <3>. QED
        BY <3>1, <3>2
    <2>. QED
      BY <2>1
  <1>2. /\ Offset(0) \in Nat /\ Offset(0) <= Offset(0 + 1)
        /\ Offset(1) \in Nat /\ Offset(1) <= Offset(1 + 1)
        /\ Offset(2) \in Nat /\ Offset(2) <= Offset(2 + 1)
        /\ Offset(3) \in Nat /\ Offset(3) <= Offset(3 + 1)
        /\ Offset(4) \in Nat
    BY <1>1
  <1>3. /\ Offset(0) \in Nat /\ Offset(0) <= Offset(1)
        /\ Offset(1) \in Nat /\ Offset(1) <= Offset(2)
        /\ Offset(2) \in Nat /\ Offset(2) <= Offset(3)
        /\ Offset(3) \in Nat /\ Offset(3) <= Offset(4)
    <2>1. 0 + 1 = 1 /\ 1 + 1 = 2 /\ 2 + 1 = 3 /\ 3 + 1 = 4
      OBVIOUS
    <2>. QED
      BY <1>2, <2>1
  <1>4. Offset(4) = Radix
    BY OffsetIs
  <1>5. j \in {0, 1, 2, 3}
    OBVIOUS
  <1>6. \A k \in {0, 1, 2, 3} : Offset(k) <= Radix /\ Offset(k) \in Nat
    BY <1>2, <1>3, <1>4
  <1>. QED
    BY <1>5, <1>6

LEMMA RadixIsNat == Radix \in Nat /\ Radix > 1
  BY RadixAssumption

\* The states the loop goes through: some quarters of a word, and whole words.
Collecting(s, j) ==
  /\ s \in WordsState
  /\ s.offset = j * PortionBits
  /\ s.accum < Offset(j)
  /\ s.words \in Seq(Word)

LEMMA RoundCollects ==
  ASSUME NEW j \in 0 .. 3, NEW s, Collecting(s, j), s.portions # <<>>
  PROVE  LET k == IF j = 3 THEN 0 ELSE j + 1
             t == WordsRound(s)
         IN  /\ Collecting(t, k)
             /\ Len(t.words) = IF j = 3 THEN Len(s.words) + 1 ELSE Len(s.words)
             /\ Len(s.words) \in Nat
             /\ t.portions = Quarter(s.portions)
  <1>1. /\ s \in WordsState /\ s.portions \in Seq(Word) /\ s.accum \in Nat
        /\ s.words \in Seq(Word) /\ s.offset = j * PortionBits /\ s.accum < Offset(j)
    BY DEF Collecting, WordsState
  <1>2. PortionBits \in Nat /\ PortionBits > 0
    BY DecimalAssumption
  <1> DEFINE low   == Last(s.portions) % Part
             accum == s.accum + low * Power(2, s.offset)
             t     == WordsRound(s)
  <1>3. low \in Nat /\ low < Part
    <2>1. Last(s.portions) \in Word
      BY <1>1 DEF Last
    <2>2. Last(s.portions) \in Nat
      BY <2>1, WordFacts DEF Word
    <2>. QED
      BY <2>2, PartFacts
  <1>. HIDE DEF low
  <1>4. accum = s.accum + low * Offset(j)
    BY <1>1 DEF Offset
  <1>5. /\ Offset(j) \in Nat /\ Offset(j) > 0 /\ Offset(j + 1) = Offset(j) * Part
        /\ j + 1 \in Nat /\ Part \in Nat
    <2>1. j \in Nat /\ j + 1 \in Nat
      OBVIOUS
    <2>. QED
      BY <2>1, OffsetIs, PartFacts
  <1>. HIDE DEF accum
  <1>6. accum \in Nat /\ accum < Offset(j + 1)
    <2>1. low + 1 <= Part
      BY <1>3, <1>5
    <2>2. (low + 1) * Offset(j) <= Part * Offset(j)
      BY <2>1, <1>3, <1>5
    <2>3. (low + 1) * Offset(j) = low * Offset(j) + Offset(j) /\ low * Offset(j) \in Nat
      BY <1>3, <1>5
    <2>4. Part * Offset(j) = Offset(j + 1) /\ Offset(j + 1) \in Nat
      BY <1>5, OffsetIs
    <2>. QED
      BY <2>2, <2>3, <2>4, <1>1, <1>4, <1>5
  <1>7. s.offset = 3 * PortionBits <=> j = 3
    BY <1>1, <1>2
  <1>8. t = [portions |-> Quarter(s.portions),
             accum    |-> IF j = 3 THEN 0 ELSE accum,
             offset   |-> IF j = 3 THEN 0 ELSE s.offset + PortionBits,
             words    |-> IF j = 3 THEN <<accum>> \o s.words ELSE s.words]
    BY <1>7 DEF WordsRound, accum, low
  <1>9. t \in WordsState
    BY <1>1, WordsRoundTyped
  <1>. HIDE DEF t
  <1>10. CASE j = 3
    <2>1. accum \in Word
      <3>1. accum < Radix
        BY <1>6, <1>10, OffsetIs
      <3>. QED
        BY <3>1, <1>6, WordFacts DEF Word
    <2>2. <<accum>> \o s.words \in Seq(Word) /\ Len(<<accum>> \o s.words) = Len(s.words) + 1
      BY <2>1, <1>1
    <2>3. t.offset = 0 /\ t.accum = 0 /\ t.words = <<accum>> \o s.words
      BY <1>8, <1>10
    <2>4. 0 < Offset(0) /\ 0 * PortionBits = 0
      <3>1. Offset(0) = 1
        BY OffsetIs
      <3>. QED
        BY <3>1, <1>2
    <2>. QED
      BY <2>2, <2>3, <2>4, <1>1, <1>8, <1>9, <1>10 DEF Collecting, t
  <1>11. CASE j # 3
    <2>1. t.offset = (j + 1) * PortionBits
      BY <1>1, <1>2, <1>8, <1>11
    <2>2. t.accum < Offset(j + 1) /\ t.words = s.words
      BY <1>6, <1>8, <1>11
    <2>. QED
      BY <2>1, <2>2, <1>1, <1>8, <1>9, <1>11 DEF Collecting, t
  <1>. QED
    BY <1>10, <1>11

LEMMA EffortIsNat ==
  ASSUME NEW portions \in Seq(Word)
  PROVE  Effort(portions) \in Nat /\ Effort(portions) <= 4 * Len(portions)
  <1>1. CASE portions = <<>>
    BY <1>1 DEF Effort
  <1>2. CASE portions # <<>>
    BY <1>2, QuarterFalls
  <1>. QED
    BY <1>1, <1>2

(* The words are no more than the portions. *)
LEMMA WordsFit ==
  ASSUME NEW portions \in Seq(Word)
  PROVE  Words(portions) \in Seq(Word) /\ Len(Words(portions)) <= Len(portions)
  <1>1. PICK loop : /\ \A s \in WordsState :
                         loop[s] = IF s.portions = <<>> THEN WordsEnd(s) ELSE loop[WordsRound(s)]
                    /\ \A ps : Words(ps) = loop[WordsStart(ps)]
    BY WordsIs
  <1> DEFINE Fits(s, j) ==
               /\ loop[s] \in Seq(Word)
               /\ 4 * (Len(loop[s]) - Len(s.words)) <= Effort(s.portions) + j + 3
             T == {n \in Nat : \A j \in 0 .. 3 : \A s \in WordsState :
                     Collecting(s, j) /\ Effort(s.portions) < n => Fits(s, j)}
  <1>2. 0 \in T
    <2>1. \A s \in WordsState : Effort(s.portions) \in Nat
      BY EffortIsNat DEF WordsState
    <2>2. \A s \in WordsState : ~(Effort(s.portions) < 0)
      BY <2>1
    <2>. HIDE DEF Fits
    <2>. QED
      BY <2>2
  <1>3. ASSUME NEW n \in Nat, n \in T PROVE n + 1 \in T
    <2>1. ASSUME NEW j \in 0 .. 3, NEW s \in WordsState, Collecting(s, j), Effort(s.portions) < n + 1
          PROVE  Fits(s, j)
      <3>1. s.words \in Seq(Word) /\ s.portions \in Seq(Word) /\ s.accum \in Nat /\ s.accum < Offset(j)
        BY <2>1 DEF Collecting, WordsState
      <3>2. Effort(s.portions) \in Nat /\ Len(s.words) \in Nat
        BY <3>1, EffortIsNat
      <3>3. CASE s.portions = <<>>
        <4>1. loop[s] = WordsEnd(s)
          BY <1>1, <3>3
        <4>2. CASE s.accum > 0
          <5>1. j # 0
            <6>1. Offset(0) = 1
              BY OffsetIs
            <6>2. j = 0 => s.accum < 1
              BY <3>1, <6>1
            <6>. QED
              BY <6>2, <4>2, <3>1
          <5>2. s.accum \in Word
            <6>1. Offset(j) <= Radix /\ Offset(j) \in Nat
              BY <5>1, OffsetsSmall
            <6>2. s.accum < Radix
              BY <6>1, <3>1, RadixIsNat
            <6>. QED
              BY <6>2, <3>1, RadixIsNat DEF Word
          <5>3. loop[s] = <<s.accum>> \o s.words
            BY <4>1, <4>2 DEF WordsEnd
          <5>4. loop[s] \in Seq(Word) /\ Len(loop[s]) = Len(s.words) + 1
            BY <5>2, <5>3, <3>1
          <5>. QED
            BY <5>1, <5>4, <3>2
        <4>3. CASE ~(s.accum > 0)
          <5>1. loop[s] = s.words
            BY <4>1, <4>3 DEF WordsEnd
          <5>. QED
            BY <5>1, <3>1, <3>2
        <4>. QED
          BY <4>2, <4>3
      <3>4. CASE s.portions # <<>>
        <4> DEFINE t == WordsRound(s)
                   k == IF j = 3 THEN 0 ELSE j + 1
        <4>1. /\ Collecting(t, k)
              /\ Len(t.words) = IF j = 3 THEN Len(s.words) + 1 ELSE Len(s.words)
              /\ t.portions = Quarter(s.portions)
          BY <2>1, <3>4, RoundCollects
        <4>2. Effort(t.portions) \in Nat /\ Effort(t.portions) < Effort(s.portions)
          BY <3>1, <3>4, <4>1, QuarterFalls
        <4>3. t \in WordsState /\ k \in 0 .. 3
          BY <3>4, WordsRoundTyped
        <4>4. loop[s] = loop[t]
          BY <1>1, <3>4
        <4>. HIDE DEF t
        <4>5. Effort(t.portions) < n
          BY <4>2, <2>1, <3>2
        <4>6. Fits(t, k)
          <5>. HIDE DEF Fits, k
          <5>. QED
            BY <1>3, <4>1, <4>3, <4>5
        <4>7. Len(loop[t]) \in Nat /\ Len(t.words) \in Nat
          BY <4>1, <4>6 DEF Collecting
        <4>8. 4 * (Len(loop[t]) - Len(t.words)) <= Effort(t.portions) + k + 3
          BY <4>6
        <4>9. \A l, w, v, e, d \in Nat :
                /\ d < e
                /\ \/ v = w + 1 /\ j = 3 /\ 4 * (l - v) <= d + 0 + 3
                   \/ v = w /\ j # 3 /\ 4 * (l - v) <= d + (j + 1) + 3
                => 4 * (l - w) <= e + j + 3
          OBVIOUS
        <4>10. /\ k = (IF j = 3 THEN 0 ELSE j + 1)
               /\ loop[s] \in Seq(Word)
          BY <4>4, <4>6
        <4>11. \/ Len(t.words) = Len(s.words) + 1 /\ j = 3
                    /\ 4 * (Len(loop[t]) - Len(t.words)) <= Effort(t.portions) + 0 + 3
               \/ Len(t.words) = Len(s.words) /\ j # 3
                    /\ 4 * (Len(loop[t]) - Len(t.words)) <= Effort(t.portions) + (j + 1) + 3
          BY <4>1, <4>8, <4>10
        <4>12. 4 * (Len(loop[t]) - Len(s.words)) <= Effort(s.portions) + j + 3
          BY <4>2, <4>7, <4>9, <4>11, <3>2
        <4>. QED
          BY <4>4, <4>10, <4>12
      <3>. QED
        BY <3>3, <3>4
    <2>. HIDE DEF Fits
    <2>. QED
      BY <2>1
  <1>. HIDE DEF T
  <1>4. Nat \subseteq T
    BY <1>2, <1>3, InductionOnSet
  <1> DEFINE s == WordsStart(portions)
  <1>5. /\ s \in WordsState /\ Collecting(s, 0) /\ s.words = <<>> /\ s.portions = portions
    BY OffsetIs, DecimalAssumption DEF WordsStart, WordsState, Collecting
  <1>6. Effort(portions) \in Nat /\ Effort(portions) <= 4 * Len(portions)
    BY EffortIsNat
  <1>7. Fits(s, 0)
    <2>1. Effort(portions) + 1 \in T /\ Effort(portions) < Effort(portions) + 1
      BY <1>4, <1>6
    <2>. HIDE DEF Fits, s
    <2>. QED
      BY <2>1, <1>5 DEF T
  <1>8. Words(portions) = loop[s]
    BY <1>1
  <1>. HIDE DEF s
  <1>9. Words(portions) \in Seq(Word)
    BY <1>7, <1>8
  <1>10. Len(Words(portions)) \in Nat /\ Len(portions) \in Nat
    BY <1>9
  <1>11. 4 * Len(Words(portions)) <= 4 * Len(portions) + 3
    BY <1>5, <1>6, <1>7, <1>8, <1>10
  <1>. QED
    BY <1>9, <1>10, <1>11

LEMMA CharsDiffer ==
  /\ \A a, b : Char(a) = Char(b) => a = b
  /\ \A a : Char(a).tag = "char" /\ Char(a).value = a
  /\ \A n : Number(n).tag = "number" /\ Number(n).value = n
  /\ \A t : Other(t).tag = t /\ Other(t).value = 0
  BY DEF Char, Number, Other

LEMMA CellsAre ==
  /\ \A n \in Word : Number(n) \in Cell
  /\ \A c \in Nat : Char(c) \in Cell
  /\ Minus \in Cell /\ Plus \in Cell
  /\ Other("open") \in Cell /\ Other("close") \in Cell /\ Other("function") \in Cell
  /\ Other("open_call") \in Cell /\ Other("close_call") \in Cell
  <1>1. \A n \in Word : n \in Nat
    BY RadixIsNat DEF Word
  <1>2. ASSUME NEW t \in Tag, NEW v \in Nat, t # "number"
        PROVE  [tag |-> t, value |-> v] \in Cell
    BY <1>2 DEF Cell
  <1>3. ASSUME NEW n \in Word PROVE Number(n) \in Cell
    <2>1. "number" \in Tag
      BY DEF Tag
    <2>. QED
      BY <2>1, <1>1 DEF Cell, Number
  <1>4. ASSUME NEW c \in Nat PROVE Char(c) \in Cell
    BY <1>2 DEF Char, Tag
  <1>5. /\ Other("open") \in Cell /\ Other("close") \in Cell /\ Other("function") \in Cell
        /\ Other("open_call") \in Cell /\ Other("close_call") \in Cell
    BY <1>2 DEF Other, Tag
  <1>6. Minus \in Cell /\ Plus \in Cell
    BY <1>4 DEF Minus, Plus
  <1>. QED
    BY <1>3, <1>4, <1>5, <1>6

\* The first place at or behind p without an element of S, if the last cell has none.
LEMMA SkipIs ==
  ASSUME NEW X, NEW cells \in Seq(X), NEW p \in 1 .. Len(cells), NEW S, cells[Len(cells)] \notin S
  PROVE  /\ Skip(cells, p, S) \in p .. Len(cells)
         /\ cells[Skip(cells, p, S)] \notin S
         /\ \A i \in p .. Skip(cells, p, S) - 1 : cells[i] \in S
  <1> DEFINE T == {q \in p .. Len(cells) : cells[q] \notin S}
  <1>1. Len(cells) \in T /\ T \in SUBSET Nat
    OBVIOUS
  <1>2. PICK q \in T : \A y \in T : q <= y
    <2>. HIDE DEF T
    <2>. QED
      BY <1>1, LeastNumber
  <1>3. \A i \in p .. q - 1 : cells[i] \in S
    <2>1. ASSUME NEW i \in p .. q - 1 PROVE cells[i] \in S
      <3>1. i \in p .. Len(cells) /\ ~(q <= i)
        BY <1>2
      <3>. QED
        BY <3>1, <1>2
    <2>. QED
      BY <2>1
  <1>4. \E rm \in p .. Len(cells) : cells[rm] \notin S /\ \A i \in p .. rm - 1 : cells[i] \in S
    BY <1>2, <1>3
  <1>. QED
    BY <1>4 DEF Skip

\* The nodes of a call, from '<' to '>'.
CallCells == {cells \in Seq(Cell) : Len(cells) >= 3 /\ cells[Len(cells)] = Other("close_call")}

WellLeft == [exit : {"none", "recognition impossible", "divide by zero"}, cells : Seq(Cell)]

LEMMA NoDigits == Portions(<<>>) = <<>>
  <1>1. PICK u : u[0] = NoPortions /\ Portions(<<>>) = u[0].done
    <2>1. DOMAIN <<>> = 1 .. 0 /\ \A i \in 1 .. 0 : <<>>[i].value \in Int
      OBVIOUS
    <2>. QED
      BY <2>1, PortionsRun
  <1>. QED
    BY <1>1 DEF NoPortions

LEMMA NumbStays ==
  ASSUME NEW cells \in CallCells
  PROVE  Numb(cells) \in WellLeft
  <1> DEFINE n == Len(cells)
             at       == Skip(cells, 3, Blank)
             sign     == IF cells[at] = Minus THEN <<Minus>> ELSE <<>>
             start    == IF cells[at] \in {Minus, Plus} THEN at + 1 ELSE at
             first    == Skip(cells, start, {Char(Zero)})
             end      == Skip(cells, first, Digit)
             digits   == SubSeq(cells, first, end - 1)
             portions == Portions(digits)
             words    == Words(portions)
  <1>1. /\ cells \in Seq(Cell) /\ n \in Nat /\ n >= 3
        /\ cells[n].tag = "close_call"
    BY CharsDiffer DEF CallCells
  <1>2. /\ \A c \in Blank \cup Digit \cup {Minus, Plus, Char(Zero)} : c.tag = "char"
        /\ cells[n] \notin Blank /\ cells[n] \notin Digit /\ cells[n] \notin {Minus, Plus}
        /\ cells[n] \notin {Char(Zero)}
    <2>1. \A c \in Blank \cup Digit \cup {Minus, Plus, Char(Zero)} : c.tag = "char"
      BY CharsDiffer DEF Blank, Digit, Minus, Plus
    <2>. QED
      BY <1>1, <2>1
  <1>3. at \in 3 .. n
    <2>1. 3 \in 1 .. Len(cells)
      BY <1>1
    <2>. QED
      BY <2>1, <1>1, <1>2, SkipIs
  <1>4. start \in 3 .. n /\ (sign # <<>> => start >= 4) /\ start \in 1 .. n
    <2>1. cells[at] \in {Minus, Plus} => at # n
      BY <1>2
    <2>. HIDE DEF at, n
    <2>. QED
      BY <2>1, <1>1, <1>3
  <1>5. sign \in Seq(Cell) /\ Len(sign) = IF sign = <<>> THEN 0 ELSE 1
    <2>1. <<Minus>> \in Seq(Cell) /\ Len(<<Minus>>) = 1 /\ <<Minus>> # <<>>
      BY CellsAre
    <2>2. <<>> \in Seq(Cell) /\ Len(<<>>) = 0
      OBVIOUS
    <2>. HIDE DEF at
    <2>. QED
      BY <2>1, <2>2
  <1>. HIDE DEF at, sign, start
  <1>6. first \in start .. n /\ first \in 1 .. n /\ first \in Nat
    <2>1. first \in start .. n
      BY <1>1, <1>2, <1>4, SkipIs
    <2>. HIDE DEF first
    <2>. QED
      BY <2>1, <1>1, <1>4
  <1>. HIDE DEF first
  <1>7. end \in first .. n /\ \A i \in first .. end - 1 : cells[i] \in Digit
    BY <1>1, <1>2, <1>6, SkipIs
  <1>. HIDE DEF end
  <1>8. /\ digits \in Seq(Cell) /\ Len(digits) = end - first
        /\ \A i \in 1 .. Len(digits) : digits[i] \in Digit
    <2>1. end - 1 \in 0 .. n
      BY <1>1, <1>6, <1>7
    <2>2. digits \in Seq(Cell) /\ Len(digits) = end - first
      BY <2>1, <1>1, <1>6, <1>7
    <2>3. ASSUME NEW i \in 1 .. Len(digits) PROVE digits[i] \in Digit
      <3>1. digits[i] = cells[first + i - 1] /\ first + i - 1 \in first .. end - 1
        BY <2>1, <2>2, <1>1, <1>6, <1>7
      <3>. QED
        BY <3>1, <1>7
    <2>. QED
      BY <2>2, <2>3
  <1>. HIDE DEF digits
  <1>9. \A i \in 1 .. Len(digits) : digits[i].value \in Int
    <2>1. \A d \in Digit : d.value \in Int
      BY CharsDiffer DEF Digit, Zero
    <2>. QED
      BY <2>1, <1>8
  <1>10. Numb(cells) =
           CASE digits = <<>>        -> Left(<<Number(0)>>)
             [] Len(portions) = 1    -> Left(sign \o <<Number(portions[1])>>)
             [] Len(portions) > 1    ->
                  IF Len(sign \o words) <= Len(cells) - 1 - Len(portions)
                  THEN Left(sign \o [i \in DOMAIN words |-> Number(words[i])])
                  ELSE Overrun
    BY DEF Numb, at, sign, start, first, end, digits
  <1>11. ASSUME NEW s \in Seq(Cell) PROVE Left(s) \in WellLeft
    BY DEF Left, WellLeft
  <1>12. CASE digits = <<>>
    <2>1. <<Number(0)>> \in Seq(Cell)
      BY CellsAre, WordFacts
    <2>2. Numb(cells) = Left(<<Number(0)>>)
      <3>1. portions = <<>>
        BY <1>12, NoDigits
      <3>2. Len(portions) = 0
        BY <3>1
      <3>. HIDE DEF portions, words
      <3>. QED
        BY <1>10, <1>12, <3>2
    <2>. QED
      BY <2>1, <2>2, <1>11
  <1>13. CASE digits # <<>>
    <2>1. portions \in Seq(Word) /\ Len(portions) >= 1 /\ 2 * Len(portions) <= Len(digits) + 1
      BY <1>8, <1>9, <1>13, PortionsLength
    <2>. HIDE DEF portions
    <2>2. Len(portions) \in Nat
      BY <2>1
    <2>3. CASE Len(portions) = 1
      <3>0. portions[1] \in Word
        BY <2>1, <2>3
      <3>1. Number(portions[1]) \in Cell
        BY <3>0, CellsAre
      <3>2. sign \o <<Number(portions[1])>> \in Seq(Cell)
        BY <3>1, <1>5
      <3>3. Numb(cells) = Left(sign \o <<Number(portions[1])>>)
        BY <1>10, <1>13, <2>3
      <3>. QED
        BY <3>2, <3>3, <1>11
    <2>4. CASE Len(portions) # 1
      <3>1. words \in Seq(Word) /\ Len(words) <= Len(portions) /\ Len(words) \in Nat
        BY <2>1, WordsFit
      <3>. HIDE DEF words
      <3>2. sign \o words \in Seq(Cell \cup Word) /\ Len(sign \o words) = Len(sign) + Len(words)
        <4>1. sign \in Seq(Cell \cup Word) /\ words \in Seq(Cell \cup Word)
          BY <3>1, <1>5
        <4>. QED
          BY <4>1
      <3>3. Len(sign) + Len(words) <= Len(cells) - 1 - Len(portions)
        <4>1. Len(sign) \in Nat /\ Len(sign) <= start - 3
          BY <1>4, <1>5
        <4>2. 2 * Len(portions) <= (end - first) + 1 /\ end <= n /\ first >= start
          BY <2>1, <1>6, <1>7, <1>8
        <4>3. start \in Int /\ first \in Int /\ end \in Int /\ n \in Int
          BY <1>1, <1>4, <1>6, <1>7
        <4>4. n = Len(cells)
          OBVIOUS
        <4>. HIDE DEF n
        <4>. QED
          BY <4>1, <4>2, <4>3, <4>4, <2>2, <3>1
      <3>4. [i \in DOMAIN words |-> Number(words[i])] \in Seq(Cell)
        <4>1. \A i \in DOMAIN words : Number(words[i]) \in Cell
          BY <3>1, CellsAre
        <4>2. DOMAIN words = 1 .. Len(words)
          BY <3>1
        <4>. QED
          BY <4>1, <4>2, <3>1
      <3>5. sign \o [i \in DOMAIN words |-> Number(words[i])] \in Seq(Cell)
        BY <3>4, <1>5
      <3>6. Numb(cells) = Left(sign \o [i \in DOMAIN words |-> Number(words[i])])
        <4>1. Len(portions) > 1
          <5>1. Len(portions) >= 1
            BY <2>1
          <5>2. \A l \in Nat : l >= 1 /\ l # 1 => l > 1
            OBVIOUS
          <5>. HIDE DEF portions
          <5>. QED
            BY <5>1, <5>2, <2>2, <2>4
        <4>2. Len(sign \o words) <= Len(cells) - 1 - Len(portions)
          BY <3>2, <3>3
        <4>3. ~(digits = <<>>) /\ ~(Len(portions) = 1)
          BY <1>13, <2>4
        <4>. HIDE DEF portions, words, digits
        <4>. QED
          BY <4>1, <4>2, <4>3, <2>4, <1>10, <1>13
      <3>. QED
        BY <3>5, <3>6, <1>11
    <2>. QED
      BY <2>3, <2>4
  <1>. QED
    BY <1>12, <1>13

\* Two digits, one in base m and one in base n.
LEMMA MixedSmall ==
  ASSUME NEW m \in Nat, NEW n \in Nat, NEW a \in Nat, NEW b \in Nat, a < m, b < n
  PROVE  a * n + b \in Nat /\ a * n + b < m * n
  <1>1. PICK d \in Nat : m = a + 1 + d
    <2>1. m - a - 1 \in Nat /\ m = a + 1 + (m - a - 1)
      OBVIOUS
    <2>. QED
      BY <2>1
  <1>2. m * n = a * n + n + d * n /\ d * n \in Nat /\ a * n \in Nat
    BY <1>1
  <1>. QED
    BY <1>2

\* The number that the first k digits make, the highest first.
Horner(base, v, k) ==
  LET n[j \in 0 .. Len(v)] == IF j = 0 THEN 0 ELSE n[j - 1] * base + v[j] IN n[k]

LEMMA HornerIs ==
  ASSUME NEW b \in Nat, NEW v \in Seq(Nat)
  PROVE  /\ Horner(b, v, 0) = 0
         /\ \A k \in 0 .. Len(v) : Horner(b, v, k) \in Nat
         /\ \A k \in 1 .. Len(v) : Horner(b, v, k) = Horner(b, v, k - 1) * b + v[k]
         /\ NumberOf(b, v) = Horner(b, v, Len(v))
  <1> DEFINE D    == 0 .. Len(v)
             rank == [j \in D |-> j]
             end  == {0}
             next == [j \in D |-> IF j = 0 THEN 0 ELSE j - 1]
             base == [j \in D |-> 0]
             comb == [j \in D |-> [x \in Nat |-> IF j = 0 THEN 0 ELSE x * b + v[j]]]
             Body(h) == [j \in D |-> IF j = 0 THEN 0 ELSE h[j - 1] * b + v[j]]
             h == CHOOSE h : h = Body(h)
  <1>0. Len(v) \in Nat /\ \A j \in 1 .. Len(v) : v[j] \in Nat
    OBVIOUS
  <1>1. Descends(D, Nat, rank, end, next, base, comb)
    <2>1. \A j \in D, x \in Nat : (IF j = 0 THEN 0 ELSE x * b + v[j]) \in Nat
      <3>1. ASSUME NEW j \in D, NEW x \in Nat, j # 0 PROVE x * b + v[j] \in Nat
        <4>1. j \in 1 .. Len(v)
          BY <1>0, <3>1
        <4>2. x * b \in Nat /\ v[j] \in Nat
          BY <4>1, <1>0
        <4>. QED
          BY <4>2
      <3>. QED
        BY <3>1
    <2>2. comb \in [D -> [Nat -> Nat]]
      BY <2>1
    <2>3. next \in [D -> D] /\ \A j \in D \ end : rank[next[j]] < rank[j]
      <3>1. \A j \in D : j # 0 => j - 1 \in D /\ j - 1 < j
        BY <1>0
      <3>. QED
        BY <3>1
    <2>. QED
      BY <2>2, <2>3 DEF Descends
  <1>2. PICK f : Recursion(f, D, Nat, end, next, base, comb)
    <2>. HIDE DEF D, rank, end, next, base, comb
    <2>. QED
      BY <1>1, RecursionByRank
  <1>3. f \in [D -> Nat] /\ \A k \in D : f[k] = IF k \in end THEN base[k] ELSE comb[k][f[next[k]]]
    <2>. HIDE DEF D, end, next, base, comb
    <2>. QED
      BY <1>2 DEF Recursion
  <1>4. ASSUME NEW k \in D PROVE f[k] = IF k = 0 THEN 0 ELSE f[k - 1] * b + v[k]
    <2>1. CASE k = 0
      BY <1>3, <2>1
    <2>2. CASE k # 0
      <3>1. next[k] = k - 1 /\ k - 1 \in D
        BY <2>2, <1>0
      <3>2. f[k - 1] \in Nat
        BY <3>1, <1>3
      <3>3. comb[k][f[k - 1]] = f[k - 1] * b + v[k]
        BY <3>2, <2>2
      <3>4. f[k] = comb[k][f[k - 1]]
        BY <1>3, <2>2, <3>1
      <3>. HIDE DEF comb
      <3>. QED
        BY <3>3, <3>4, <2>2
    <2>. QED
      BY <2>1, <2>2
  <1>5. f = Body(f)
    BY <1>3, <1>4
  <1>6. h = Body(h)
    <2>. HIDE DEF Body
    <2>. QED
      BY <1>5
  <1>7. \A k : Horner(b, v, k) = h[k]
    BY DEF Horner
  <1>8. NumberOf(b, v) = h[Len(v)]
    BY DEF NumberOf
  <1>. HIDE DEF h
  <1>9. \A k \in D : h[k] = IF k = 0 THEN 0 ELSE h[k - 1] * b + v[k]
    BY <1>6
  <1>10. h[0] = 0
    BY <1>0, <1>9
  <1>11. \A k \in 1 .. Len(v) : h[k] = h[k - 1] * b + v[k]
    BY <1>0, <1>9
  <1> DEFINE T == {k \in D : h[k] \in Nat}
  <1>12. 0 \in T
    BY <1>0, <1>10
  <1>13. ASSUME NEW k \in 1 .. Len(v), k - 1 \in T PROVE k \in T
    <2>1. h[k - 1] \in Nat /\ v[k] \in Nat /\ h[k - 1] * b \in Nat /\ k \in D
      BY <1>0, <1>13
    <2>. QED
      BY <2>1, <1>11
  <1>. HIDE DEF T
  <1>14. 0 .. Len(v) \subseteq T
    BY <1>0, <1>12, <1>13, InductionOnRange
  <1>15. \A k \in 0 .. Len(v) : h[k] \in Nat
    BY <1>14 DEF T
  <1>. QED
    BY <1>7, <1>8, <1>10, <1>11, <1>15

\* The digits of w follow those of v.
LEMMA NumberOfConcat ==
  ASSUME NEW b \in Nat, NEW v \in Seq(Nat), NEW w \in Seq(Nat)
  PROVE  NumberOf(b, v \o w) = NumberOf(b, v) * Power(b, Len(w)) + NumberOf(b, w)
  <1> DEFINE m == Len(v)
             n == Len(w)
             u == v \o w
             N == NumberOf(b, v)
             S == {k \in 0 .. m : Horner(b, u, k) = Horner(b, v, k)}
             T == {k \in 0 .. n : Horner(b, u, m + k) = N * Power(b, k) + Horner(b, w, k)}
  <1>1. /\ m \in Nat /\ n \in Nat /\ u \in Seq(Nat) /\ Len(u) = m + n
        /\ \A k \in 1 .. m : u[k] = v[k]
        /\ \A k \in 1 .. n : u[m + k] = w[k] /\ w[k] \in Nat
    OBVIOUS
  <1>. HIDE DEF u
  <1>2. 0 \in S
    BY <1>1, HornerIs
  <1>3. ASSUME NEW k \in 1 .. m, k - 1 \in S PROVE k \in S
    <2>1. k \in 1 .. Len(u)
      BY <1>1
    <2>2. Horner(b, u, k) = Horner(b, u, k - 1) * b + u[k]
      BY <1>1, <2>1, HornerIs
    <2>3. Horner(b, v, k) = Horner(b, v, k - 1) * b + v[k]
      BY HornerIs
    <2>. QED
      BY <2>2, <2>3, <1>1, <1>3
  <1>. HIDE DEF S
  <1>4. 0 .. m \subseteq S
    <2>. HIDE DEF m
    <2>. QED
      BY <1>1, <1>2, <1>3, InductionOnRange
  <1>5. Horner(b, u, m) = N /\ N \in Nat
    <2>1. m \in S /\ m \in 0 .. m
      <3>1. m \in Nat
        BY <1>1
      <3>. HIDE DEF m
      <3>2. m \in 0 .. m
        BY <3>1
      <3>. QED
        BY <3>2, <1>4
    <2>2. N = Horner(b, v, m) /\ Horner(b, v, m) \in Nat
      BY <2>1, HornerIs
    <2>. QED
      BY <2>1, <2>2 DEF S
  <1>6. \A k \in Nat : Power(b, k) \in Nat /\ Power(b, k + 1) = b * Power(b, k)
    BY PowerIs
  <1>7. Power(b, 0) = 1
    BY PowerIs
  <1>. HIDE DEF m, N
  <1>8. 0 \in T
    <2>1. Horner(b, w, 0) = 0
      BY HornerIs
    <2>2. m + 0 = m /\ N * 1 + 0 = N
      BY <1>1, <1>5
    <2>. QED
      BY <2>1, <2>2, <1>1, <1>5, <1>7
  <1>9. ASSUME NEW k \in 1 .. n, k - 1 \in T PROVE k \in T
    <2>1. m + k \in 1 .. Len(u) /\ (m + k) - 1 = m + (k - 1) /\ k - 1 \in Nat /\ (k - 1) + 1 = k
      BY <1>1
    <2>2. Horner(b, u, m + k) = Horner(b, u, m + (k - 1)) * b + w[k]
      BY <1>1, <2>1, HornerIs
    <2>3. Horner(b, w, k) = Horner(b, w, k - 1) * b + w[k]
      BY HornerIs
    <2>4. Horner(b, u, m + (k - 1)) = N * Power(b, k - 1) + Horner(b, w, k - 1)
      BY <1>9
    <2>5. Power(b, k - 1) \in Nat /\ Power(b, k) = b * Power(b, k - 1)
      BY <1>6, <2>1
    <2>6. Horner(b, w, k - 1) \in Nat /\ w[k] \in Nat
      <3>1. k - 1 \in 0 .. Len(w)
        OBVIOUS
      <3>. QED
        BY <3>1, <1>1, HornerIs
    <2>7. \A p, x, y \in Nat : (N * p + x) * b + y = N * (b * p) + (x * b + y)
      BY <1>5
    <2>8. Horner(b, u, m + k) = N * Power(b, k) + Horner(b, w, k)
      <3> DEFINE p == Power(b, k - 1)
                 x == Horner(b, w, k - 1)
                 y == w[k]
      <3>1. (N * p + x) * b + y = N * (b * p) + (x * b + y)
        BY <2>5, <2>6, <2>7
      <3>. QED
        BY <3>1, <2>2, <2>3, <2>4, <2>5
    <2>. QED
      BY <2>8
  <1>. HIDE DEF T
  <1>10. 0 .. n \subseteq T
    <2>. HIDE DEF n
    <2>. QED
      BY <1>1, <1>8, <1>9, InductionOnRange
  <1>11. n \in T
    BY <1>1, <1>10
  <1>12. Horner(b, u, m + n) = N * Power(b, n) + Horner(b, w, n)
    BY <1>11 DEF T
  <1>13. NumberOf(b, u) = Horner(b, u, m + n) /\ NumberOf(b, w) = Horner(b, w, n)
    BY <1>1, HornerIs
  <1>. QED
    BY <1>12, <1>13 DEF u, N

LEMMA NumberOfShort ==
  ASSUME NEW b \in Nat
  PROVE  /\ NumberOf(b, <<>>) = 0
         /\ \A x \in Nat : NumberOf(b, <<x>>) = x
         /\ \A v \in Seq(Nat) : NumberOf(b, v) \in Nat
  <1>1. ASSUME NEW v \in Seq(Nat) PROVE NumberOf(b, v) \in Nat
    <2>1. Len(v) \in 0 .. Len(v)
      OBVIOUS
    <2>. QED
      BY <2>1, HornerIs
  <1>2. NumberOf(b, <<>>) = 0
    <2>1. <<>> \in Seq(Nat) /\ Len(<<>>) = 0
      OBVIOUS
    <2>. QED
      BY <2>1, HornerIs
  <1>3. ASSUME NEW x \in Nat PROVE NumberOf(b, <<x>>) = x
    <2> DEFINE v == <<x>>
    <2>1. v \in Seq(Nat) /\ Len(v) = 1 /\ v[1] = x /\ 1 \in 1 .. Len(v) /\ 1 - 1 = 0
      OBVIOUS
    <2>. HIDE DEF v
    <2>2. Horner(b, v, 1) = Horner(b, v, 0) * b + v[1] /\ Horner(b, v, 0) = 0
      BY <2>1, HornerIs
    <2>3. Horner(b, v, 1) = x
      BY <2>1, <2>2
    <2>. QED
      BY <2>1, <2>3, HornerIs DEF v
  <1>. QED
    BY <1>1, <1>2, <1>3

LEMMA NumberOfAppend ==
  ASSUME NEW b \in Nat, NEW v \in Seq(Nat), NEW x \in Nat
  PROVE  NumberOf(b, Append(v, x)) = NumberOf(b, v) * b + x
  <1> DEFINE u == <<x>>
  <1>1. Append(v, x) = v \o u /\ u \in Seq(Nat) /\ Len(u) = 1 /\ NumberOf(b, u) = x
    BY NumberOfShort
  <1>. HIDE DEF u
  <1>2. NumberOf(b, v \o u) = NumberOf(b, v) * Power(b, 1) + x
    BY <1>1, NumberOfConcat
  <1>3. Power(b, 1) = b
    <2>1. Power(b, 0 + 1) = b * Power(b, 0) /\ Power(b, 0) = 1
      BY PowerIs
    <2>. QED
      BY <2>1
  <1>. QED
    BY <1>1, <1>2, <1>3

LEMMA NumberOfFirst ==
  ASSUME NEW b \in Nat, NEW x \in Nat, NEW v \in Seq(Nat)
  PROVE  NumberOf(b, <<x>> \o v) = x * Power(b, Len(v)) + NumberOf(b, v)
  <1> DEFINE u == <<x>>
  <1>1. u \in Seq(Nat) /\ NumberOf(b, u) = x
    BY NumberOfShort
  <1>. HIDE DEF u
  <1>2. NumberOf(b, u \o v) = x * Power(b, Len(v)) + NumberOf(b, v)
    BY <1>1, NumberOfConcat
  <1>. QED
    BY <1>2 DEF u

\* With digits below the base, fewer than base numbers can be made of one digit, and so on.
LEMMA NumberOfSmall ==
  ASSUME NEW b \in Nat, NEW v \in Seq(Nat), \A k \in 1 .. Len(v) : v[k] < b
  PROVE  NumberOf(b, v) < Power(b, Len(v))
  <1> DEFINE n == Len(v)
             T == {k \in 0 .. n : Horner(b, v, k) < Power(b, k)}
  <1>1. 0 \in T
    <2>1. Horner(b, v, 0) = 0 /\ Power(b, 0) = 1
      BY HornerIs, PowerIs
    <2>. QED
      BY <2>1
  <1>2. ASSUME NEW k \in 1 .. n, k - 1 \in T PROVE k \in T
    <2>1. Horner(b, v, k) = Horner(b, v, k - 1) * b + v[k]
      BY HornerIs
    <2>2. v[k] \in Nat /\ v[k] < b
      OBVIOUS
    <2>3. k - 1 \in Nat /\ k = (k - 1) + 1 /\ k - 1 \in 0 .. n
      OBVIOUS
    <2>4. Power(b, k - 1) \in Nat /\ Power(b, (k - 1) + 1) = b * Power(b, k - 1)
      BY <2>3, PowerIs
    <2>5. Horner(b, v, k - 1) \in Nat /\ Horner(b, v, k - 1) < Power(b, k - 1)
      BY <2>3, <1>2, HornerIs
    <2>6. Horner(b, v, k - 1) * b + v[k] < Power(b, k - 1) * b
      <3>. HIDE DEF n
      <3>. QED
        BY <2>2, <2>4, <2>5, MixedSmall
    <2>. QED
      BY <2>1, <2>3, <2>4, <2>6
  <1>3. n \in Nat
    OBVIOUS
  <1>. HIDE DEF T, n
  <1>4. 0 .. n \subseteq T
    BY <1>1, <1>2, <1>3, InductionOnRange
  <1>5. Horner(b, v, n) < Power(b, n)
    BY <1>3, <1>4 DEF T
  <1>. QED
    BY <1>5, HornerIs DEF n

\* Words are digits in base Radix.
Value(ws) == NumberOf(Radix, ws)

LEMMA ValueIs ==
  ASSUME NEW ws \in Seq(Word)
  PROVE  /\ ws \in Seq(Nat) /\ Value(ws) \in Nat
         /\ Value(ws) < Power(Radix, Len(ws))
         /\ \A w \in Word : Value(Append(ws, w)) = Value(ws) * Radix + w
         /\ ws # <<>> => /\ Value(ws) = ws[1] * Power(Radix, Len(ws) - 1) + Value(Tail(ws))
                         /\ Value(Tail(ws)) \in Nat
         /\ ws # <<>> /\ ws[1] = 0 => Value(Tail(ws)) = Value(ws)
         /\ ws # <<>> /\ ws[1] # 0 => Value(ws) >= Power(Radix, Len(ws) - 1)
  <1>1. ws \in Seq(Nat) /\ (\A k \in 1 .. Len(ws) : ws[k] < Radix) /\ Word \subseteq Nat
    BY RadixIsNat DEF Word
  <1>2. Value(ws) \in Nat /\ Value(ws) < Power(Radix, Len(ws))
    BY <1>1, NumberOfShort, NumberOfSmall, RadixIsNat DEF Value
  <1>3. \A w \in Word : Value(Append(ws, w)) = Value(ws) * Radix + w
    BY <1>1, NumberOfAppend, RadixIsNat DEF Value
  <1>4. ASSUME ws # <<>>
        PROVE  /\ Value(ws) = ws[1] * Power(Radix, Len(ws) - 1) + Value(Tail(ws))
               /\ Value(Tail(ws)) \in Nat
               /\ ws[1] = 0 => Value(Tail(ws)) = Value(ws)
               /\ ws[1] # 0 => Value(ws) >= Power(Radix, Len(ws) - 1)
    <2> DEFINE t == Tail(ws)
               p == Power(Radix, Len(ws) - 1)
    <2>1. ws = <<ws[1]>> \o t /\ t \in Seq(Nat) /\ Len(t) = Len(ws) - 1 /\ ws[1] \in Nat
      BY <1>1, <1>4
    <2>2. Value(ws) = ws[1] * Power(Radix, Len(t)) + Value(t)
      <3>1. NumberOf(Radix, <<ws[1]>> \o t) = ws[1] * Power(Radix, Len(t)) + NumberOf(Radix, t)
        <4>. HIDE DEF t
        <4>. QED
          BY <2>1, NumberOfFirst, RadixIsNat
      <3>. QED
        BY <2>1, <3>1 DEF Value
    <2>3. Value(t) \in Nat /\ p \in Nat
      <3>1. Len(ws) - 1 \in Nat
        BY <1>1, <1>4
      <3>. QED
        BY <2>1, <3>1, NumberOfShort, PowerIs, RadixIsNat DEF Value
    <2>4. \A x, y, z \in Nat : x # 0 => x * y + z >= y
      <3>1. ASSUME NEW x \in Nat, NEW y \in Nat, NEW z \in Nat, x # 0 PROVE x * y + z >= y
        <4>1. x - 1 \in Nat /\ x = 1 + (x - 1)
          BY <3>1
        <4>2. x * y = y + (x - 1) * y /\ (x - 1) * y \in Nat
          BY <4>1
        <4>. QED
          BY <4>2
      <3>. QED
        BY <3>1
    <2>. HIDE DEF t, p
    <2>5. Value(ws) = ws[1] * p + Value(t)
      BY <2>1, <2>2 DEF p
    <2>6. ws[1] # 0 => Value(ws) >= p
      BY <2>1, <2>3, <2>4, <2>5
    <2>7. ws[1] = 0 => Value(t) = Value(ws)
      <3>1. 0 * p + Value(t) = Value(t)
        BY <2>3
      <3>. QED
        BY <2>5, <3>1
    <2>. QED
      BY <2>3, <2>5, <2>6, <2>7 DEF t, p
  <1>. QED
    BY <1>1, <1>2, <1>3, <1>4

LEMMA ValuePositive ==
  ASSUME NEW ws \in Seq(Word), ws # <<>>, ws[1] # 0
  PROVE  Value(ws) >= 1
  <1>1. Len(ws) - 1 \in Nat
    OBVIOUS
  <1>2. Power(Radix, Len(ws) - 1) >= 1 /\ Power(Radix, Len(ws) - 1) \in Nat
    <2>1. Radix >= 1 /\ Radix \in Nat
      BY RadixIsNat
    <2>. QED
      BY <2>1, <1>1, PowerPositive
  <1>3. Value(ws) >= Power(Radix, Len(ws) - 1) /\ Value(ws) \in Nat
    BY ValueIs
  <1>. QED
    BY <1>2, <1>3

LEMMA DecFacts == DecPower \in Nat /\ DecPower > 1 /\ DecPower < Half /\ DecPower < Radix
  <1>1. DecPower \in Nat /\ DecPower > 1
    <2>1. DecChunk \in Nat /\ DecChunk >= 1
      BY DecimalAssumption
    <2>2. Power(10, DecChunk) \in Nat /\ Power(10, DecChunk) > DecChunk
      BY <2>1, PowerIs, PowerGrows
    <2>. QED
      BY <2>1, <2>2 DEF DecPower
  <1>2. DecPower < Half
    BY DecimalAssumption
  <1>3. Half < Half * Half
    BY PartFacts
  <1>4. Half < Radix /\ Half \in Nat /\ Radix \in Nat
    BY <1>3, PartFacts, RadixIsNat
  <1>. QED
    BY <1>1, <1>2, <1>4

LEMMA FactorSmall ==
  ASSUME NEW p \in Nat, NEW h \in Nat, NEW a \in Nat, NEW x \in Nat, p * a <= x, x < p * h
  PROVE  a < h
  <1>. SUFFICES ASSUME a >= h PROVE FALSE
    OBVIOUS
  <1>1. PICK d \in Nat : a = h + d
    <2>1. a - h \in Nat /\ a = h + (a - h)
      OBVIOUS
    <2>. QED
      BY <2>1
  <1>2. p * a = p * h + p * d /\ p * d \in Nat /\ p * h \in Nat
    BY <1>1
  <1>. QED
    BY <1>2

DivideState == [words : Seq(Word), rem : 0 .. DecPower - 1]
NoWords     == [words |-> <<>>, rem |-> 0]

\* A word is divided, with the remainder of those before it.
DivideStep(s, w) ==
  LET high == s.rem * Half + w \div Half
      low  == (high % DecPower) * Half + (w % Half)
  IN  [words |-> Append(s.words, (high \div DecPower) * Half + low \div DecPower),
       rem   |-> low % DecPower]

LEMMA DivideStepIs ==
  ASSUME NEW s \in DivideState, NEW w \in Word
  PROVE  \E q \in Word :
           /\ DivideStep(s, w).words = Append(s.words, q)
           /\ DivideStep(s, w).rem \in 0 .. DecPower - 1
           /\ s.rem * Radix + w = q * DecPower + DivideStep(s, w).rem
           /\ DivideStep(s, w) \in DivideState
  <1> DEFINE rm  == s.rem
             P  == DecPower
             H  == Half
             wh == w \div H
             wl == w % H
             high == rm * H + wh
             a  == high \div P
             b  == high % P
             low == b * H + wl
             c  == low \div P
             d  == low % P
             q  == a * H + c
  <1>1. /\ rm \in Nat /\ rm < P /\ s.words \in Seq(Word)
        /\ P \in Nat /\ P > 1 /\ H \in Nat /\ H > 1 /\ Radix = H * H
        /\ w \in Nat /\ w < Radix
    <2>1. rm \in 0 .. DecPower - 1 /\ s.words \in Seq(Word)
      BY DEF DivideState
    <2>. QED
      BY <2>1, DecFacts, PartFacts, RadixIsNat DEF Word
  <1>2. DivideStep(s, w) = [words |-> Append(s.words, q), rem |-> d]
    BY DEF DivideStep
  <1>. HIDE DEF rm, P, H
  <1>3. wh \in Nat /\ wl \in Nat /\ wl < H /\ w = H * wh + wl
    <2>1. H \in Nat \ {0}
      BY <1>1
    <2>. QED
      BY <2>1, <1>1, QuotientFacts
  <1>. HIDE DEF wh, wl
  <1>4. wh < H
    <2>1. H * wh <= w /\ w < H * H
      <3>1. H * wh \in Nat
        BY <1>1, <1>3
      <3>. QED
        BY <3>1, <1>1, <1>3
    <2>. QED
      BY <2>1, <1>1, <1>3, FactorSmall
  <1>5. high \in Nat /\ high < P * H
    BY <1>1, <1>3, <1>4, MixedSmall
  <1>. HIDE DEF high
  <1>6. a \in Nat /\ b \in Nat /\ b < P /\ high = P * a + b
    <2>1. P \in Nat \ {0}
      BY <1>1
    <2>. QED
      BY <2>1, <1>5, QuotientFacts
  <1>. HIDE DEF a, b
  <1>7. a < H
    <2>1. P * a <= high
      <3>1. P * a \in Nat
        BY <1>1, <1>6
      <3>. QED
        BY <3>1, <1>6
    <2>. QED
      BY <2>1, <1>1, <1>5, <1>6, FactorSmall
  <1>8. low \in Nat /\ low < P * H
    BY <1>1, <1>3, <1>6, MixedSmall
  <1>9. low = b * H + wl
    OBVIOUS
  <1>. HIDE DEF low
  <1>10. c \in Nat /\ d \in Nat /\ d < P /\ low = P * c + d
    <2>1. P \in Nat \ {0}
      BY <1>1
    <2>. QED
      BY <2>1, <1>8, QuotientFacts
  <1>. HIDE DEF c, d
  <1>11. c < H
    <2>1. P * c <= low
      <3>1. P * c \in Nat
        BY <1>1, <1>10
      <3>. QED
        BY <3>1, <1>10
    <2>. QED
      BY <2>1, <1>1, <1>8, <1>10, FactorSmall
  <1>12. q \in Nat /\ q < H * H
    BY <1>1, <1>7, <1>10, <1>11, MixedSmall, <1>6
  <1>13. rm * (H * H) + w = q * P + d
    <2>1. high = rm * H + wh
      BY DEF high
    <2>2. rm * (H * H) + w = (rm * H + wh) * H + wl
      BY <1>1, <1>3
    <2>3. (P * a + b) * H + wl = (P * a) * H + (b * H + wl)
      BY <1>1, <1>3, <1>6
    <2>4. (P * a) * H + (P * c + d) = (a * H + c) * P + d
      BY <1>1, <1>6, <1>10
    <2>. QED
      BY <2>1, <2>2, <2>3, <2>4, <1>6, <1>9, <1>10
  <1>14. q \in Word
    BY <1>1, <1>12, RadixIsNat DEF Word
  <1>. HIDE DEF q
  <1>15. d \in 0 .. DecPower - 1
    BY <1>1, <1>10 DEF P
  <1>16. Append(s.words, q) \in Seq(Word)
    BY <1>1, <1>14
  <1>17. DivideStep(s, w).words = Append(s.words, q) /\ DivideStep(s, w).rem = d
    BY <1>2
  <1>18. DivideStep(s, w) \in DivideState
    BY <1>2, <1>15, <1>16 DEF DivideState
  <1>19. s.rem * Radix + w = q * DecPower + d
    BY <1>1, <1>13 DEF rm, P
  <1>. QED
    BY <1>14, <1>15, <1>17, <1>18, <1>19

LEMMA DivideRun ==
  ASSUME NEW ws \in Seq(Word), NEW n \in Nat, n = Len(ws)
  PROVE  \E u : /\ u \in [0 .. n -> DivideState]
                /\ u[0] = NoWords
                /\ \A i \in 1 .. n : u[i] = DivideStep(u[i - 1], ws[i])
                /\ DivideWords(ws) = u[n]
  <1> DEFINE step == [i \in 1 .. n |-> [s \in DivideState |-> DivideStep(s, ws[i])]]
             choose == [t \in SUBSET (1 .. n) |-> Max(t)]
             Body(it) == [t \in SUBSET DOMAIN ws |->
                            IF t = {} THEN NoWords ELSE DivideStep(it[t \ {Max(t)}], ws[Max(t)])]
             it == CHOOSE it : it = Body(it)
  <1>0. DOMAIN ws = 1 .. n /\ \A i \in 1 .. n : ws[i] \in Word
    OBVIOUS
  <1>1. \A i \in 1 .. n, s \in DivideState : DivideStep(s, ws[i]) \in DivideState
    BY <1>0, DivideStepIs
  <1>2. NoWords \in DivideState
    BY DecFacts DEF NoWords, DivideState
  <1>3. Foldable(1 .. n, DivideState, NoWords, step, choose)
    BY <1>1, <1>2, MaxOfRange DEF Foldable
  <1>4. PICK f : Folding(f, 1 .. n, DivideState, NoWords, step, choose)
    <2>. HIDE DEF step, choose
    <2>. QED
      BY <1>3, FoldExists
  <1>5. f = Body(f)
    <2>1. f \in [SUBSET (1 .. n) -> DivideState]
      BY <1>4 DEF Folding
    <2>2. ASSUME NEW t \in SUBSET (1 .. n)
          PROVE  f[t] = IF t = {} THEN NoWords ELSE DivideStep(f[t \ {Max(t)}], ws[Max(t)])
      <3>1. CASE t = {}
        BY <3>1, <1>4 DEF Folding
      <3>2. CASE t # {}
        <4>1. Max(t) \in 1 .. n /\ f[t \ {Max(t)}] \in DivideState
          BY <3>2, <2>1, MaxOfRange
        <4>2. f[t] = step[choose[t]][f[t \ {choose[t]}]]
          BY <3>2, <1>4 DEF Folding
        <4>. QED
          BY <4>1, <4>2, <3>2
      <3>. QED
        BY <3>1, <3>2
    <2>. QED
      BY <2>1, <2>2, <1>0
  <1>6. it = Body(it)
    <2>. HIDE DEF Body
    <2>. QED
      BY <1>5
  <1>. HIDE DEF it
  <1> DEFINE u == [k \in 0 .. n |-> it[1 .. k]]
  <1>7. u[0] = NoWords
    <2>1. 1 .. 0 = {} /\ u[0] = it[1 .. 0]
      OBVIOUS
    <2>. QED
      BY <2>1, <1>6
  <1>8. ASSUME NEW k \in 1 .. n PROVE u[k] = DivideStep(u[k - 1], ws[k])
    <2>1. Max(1 .. k) = k /\ (1 .. k) \ {k} = 1 .. (k - 1) /\ 1 .. k \in SUBSET (1 .. n)
      BY LastOfRange
    <2>2. 1 .. k # {} /\ u[k] = it[1 .. k] /\ u[k - 1] = it[1 .. (k - 1)]
      OBVIOUS
    <2>3. it[1 .. k] = Body(it)[1 .. k]
      BY <1>6
    <2>. QED
      BY <2>1, <2>2, <2>3, <1>0
  <1>9. DivideWords(ws) = it[1 .. n]
    <2>2. DivideWords(ws) = it[DOMAIN ws]
      BY DEF DivideWords, FoldLeft, MapThenFoldSet, it, DivideStep, NoWords
    <2>. QED
      BY <2>2, <1>0
  <1>10. u[n] = it[1 .. n] /\ u = [k \in 0 .. n |-> u[k]]
    OBVIOUS
  <1>. HIDE DEF u
  <1>11. 0 .. n \subseteq {k \in 0 .. n : u[k] \in DivideState}
    <2> DEFINE T == {k \in 0 .. n : u[k] \in DivideState}
    <2>1. 0 \in T
      BY <1>2, <1>7
    <2>2. ASSUME NEW k \in 1 .. n, k - 1 \in T PROVE k \in T
      BY <2>2, <1>1, <1>8
    <2>. HIDE DEF T
    <2>3. 0 .. n \subseteq T
      BY <2>1, <2>2, InductionOnRange
    <2>. QED
      BY <2>3 DEF T
  <1>12. u \in [0 .. n -> DivideState]
    BY <1>10, <1>11
  <1>. QED
    BY <1>7, <1>8, <1>9, <1>10, <1>12


LEMMA DivisionKeeps ==
  ASSUME NEW ws \in Seq(Word), ws # <<>>
  PROVE  LET z == DivideWords(ws).words
             rm == DivideWords(ws).rem
         IN  /\ z \in Seq(Word) /\ Len(z) = Len(ws)
             /\ rm \in 0 .. DecPower - 1
             /\ Value(z) * DecPower + rm = Value(ws)
             /\ z[1] <= ws[1] /\ (ws[1] # 0 => z[1] < ws[1])
             /\ ws[1] # 0 /\ z[1] = 0 /\ Len(ws) > 1 => z[2] # 0
  <1> DEFINE n == Len(ws)
  <1>0. n \in Nat /\ n >= 1 /\ \A i \in 1 .. n : ws[i] \in Word
    OBVIOUS
  <1>1. PICK u : /\ u \in [0 .. n -> DivideState]
                 /\ u[0] = NoWords
                 /\ \A i \in 1 .. n : u[i] = DivideStep(u[i - 1], ws[i])
                 /\ DivideWords(ws) = u[n]
    BY DivideRun
  <1>. HIDE DEF n
  <1> DEFINE Made(i, q) == /\ q \in Word
                           /\ u[i].words = Append(u[i - 1].words, q)
                           /\ u[i].rem \in 0 .. DecPower - 1
                           /\ u[i - 1].rem * Radix + ws[i] = q * DecPower + u[i].rem
             quot == [i \in 1 .. n |-> CHOOSE q : Made(i, q)]
  <1>2. ASSUME NEW i \in 1 .. n PROVE Made(i, quot[i])
    <2>1. u[i - 1] \in DivideState /\ ws[i] \in Word /\ u[i] = DivideStep(u[i - 1], ws[i])
      BY <1>0, <1>1
    <2>1a. PICK q \in Word :
             /\ DivideStep(u[i - 1], ws[i]).words = Append(u[i - 1].words, q)
             /\ DivideStep(u[i - 1], ws[i]).rem \in 0 .. DecPower - 1
             /\ u[i - 1].rem * Radix + ws[i] = q * DecPower + DivideStep(u[i - 1], ws[i]).rem
      BY <2>1, DivideStepIs
    <2>2. Made(i, q)
      BY <2>1, <2>1a
    <2>. HIDE DEF Made
    <2>. QED
      BY <2>2
  <1>. HIDE DEF quot
  <1>3. \A i \in 0 .. n : u[i].words \in Seq(Word) /\ u[i].rem \in Nat
    BY <1>1, DecFacts DEF DivideState
  <1> DEFINE T == {k \in 0 .. n :
                     /\ Len(u[k].words) = k
                     /\ \A j \in 1 .. k : u[k].words[j] = quot[j]
                     /\ Value(u[k].words) * DecPower + u[k].rem = Horner(Radix, ws, k)}
  <1>4. 0 \in T
    <2>1. u[0].words = <<>> /\ u[0].rem = 0
      BY <1>1 DEF NoWords
    <2>2. Value(<<>>) = 0 /\ Horner(Radix, ws, 0) = 0
      BY NumberOfShort, HornerIs, ValueIs, RadixIsNat DEF Value
    <2>3. 0 * DecPower + 0 = 0
      BY DecFacts
    <2>. QED
      BY <2>1, <2>2, <2>3, <1>0
  <1>5. ASSUME NEW k \in 1 .. n, k - 1 \in T PROVE k \in T
    <2> DEFINE z == u[k - 1].words
               y == u[k].words
    <2>0. k \in 0 .. n /\ k - 1 \in 0 .. n /\ k - 1 \in Nat
      BY <1>0
    <2>1. /\ z \in Seq(Word) /\ Len(z) = k - 1 /\ k \in 0 .. n /\ k - 1 \in Nat
          /\ \A j \in 1 .. k - 1 : z[j] = quot[j]
          /\ Value(z) * DecPower + u[k - 1].rem = Horner(Radix, ws, k - 1)
      BY <2>0, <1>3, <1>5
    <2>2. /\ y = Append(z, quot[k]) /\ quot[k] \in Word
          /\ u[k - 1].rem * Radix + ws[k] = quot[k] * DecPower + u[k].rem
      BY <1>2
    <2>3. u[k].rem \in Nat /\ u[k - 1].rem \in Nat
      BY <2>0, <1>3
    <2>. HIDE DEF z, y
    <2>4. Len(y) = k /\ \A j \in 1 .. k : y[j] = quot[j]
      BY <2>1, <2>2
    <2>5. Value(y) = Value(z) * Radix + quot[k]
      BY <2>1, <2>2, ValueIs
    <2>6. Horner(Radix, ws, k) = Horner(Radix, ws, k - 1) * Radix + ws[k]
      BY HornerIs, ValueIs, RadixIsNat DEF n
    <2>7. /\ Value(z) \in Nat /\ Horner(Radix, ws, k - 1) \in Nat
          /\ quot[k] \in Nat /\ ws[k] \in Nat
      <3>1. k - 1 \in 0 .. Len(ws)
        BY <2>0 DEF n
      <3>2. Horner(Radix, ws, k - 1) \in Nat
        BY <3>1, HornerIs, ValueIs, RadixIsNat
      <3>. QED
        BY <3>2, <1>0, <2>1, <2>2, ValueIs, RadixIsNat DEF Word
    <2>9. Value(y) * DecPower + u[k].rem = Horner(Radix, ws, k)
      <3> DEFINE a == Value(z)
                 b == Horner(Radix, ws, k - 1)
                 P == DecPower
                 q == quot[k]
                 rm == u[k - 1].rem
                 t == u[k].rem
                 w == ws[k]
      <3>1. /\ a \in Nat /\ b \in Nat /\ P \in Nat /\ q \in Nat /\ rm \in Nat /\ t \in Nat /\ w \in Nat
            /\ a * P + rm = b /\ rm * Radix + w = q * P + t /\ Radix \in Nat
        BY <2>1, <2>2, <2>3, <2>7, DecFacts, RadixIsNat
      <3>2. Value(y) = a * Radix + q /\ Horner(Radix, ws, k) = b * Radix + w
        BY <2>5, <2>6
      <3>3. Value(y) * DecPower + u[k].rem = Value(y) * P + t
        OBVIOUS
      <3>. HIDE DEF a, b, P, q, rm, t, w
      <3>4. b * Radix = (a * P) * Radix + rm * Radix
        BY <3>1
      <3>5. (a * Radix + q) * P = (a * P) * Radix + q * P
        BY <3>1
      <3>6. (a * Radix + q) * P + t = b * Radix + w
        BY <3>1, <3>4, <3>5
      <3>. QED
        BY <3>2, <3>3, <3>6
    <2>. QED
      BY <2>1, <2>4, <2>9 DEF y
  <1>. HIDE DEF T
  <1>6. 0 .. n \subseteq T
    BY <1>0, <1>4, <1>5, InductionOnRange
  <1> DEFINE z == DivideWords(ws).words
             rm == DivideWords(ws).rem
  <1>7. n \in T /\ z = u[n].words /\ rm = u[n].rem /\ n \in 0 .. n /\ n \in 1 .. n
    BY <1>0, <1>1, <1>6
  <1>8. /\ z \in Seq(Word) /\ Len(z) = n /\ rm \in 0 .. DecPower - 1
        /\ Value(z) * DecPower + rm = Horner(Radix, ws, n)
        /\ \A j \in 1 .. n : z[j] = quot[j]
    BY <1>7, <1>2, <1>3 DEF T
  <1>. HIDE DEF z, rm
  <1>9. /\ ws[1] \in Nat /\ quot[1] \in Nat /\ u[1].rem \in Nat /\ u[1].rem < DecPower
        /\ ws[1] = quot[1] * DecPower + u[1].rem
    <2>1. 1 \in 1 .. n /\ 1 - 1 = 0 /\ u[0].rem = 0 /\ 1 \in 0 .. n
      BY <1>0, <1>1 DEF NoWords
    <2>2. /\ quot[1] \in Word /\ u[1].rem \in 0 .. DecPower - 1
          /\ 0 * Radix + ws[1] = quot[1] * DecPower + u[1].rem
      BY <2>1, <1>2
    <2>3. ws[1] \in Nat /\ quot[1] \in Nat
      BY <2>1, <2>2, <1>0, RadixIsNat DEF Word
    <2>. QED
      BY <2>2, <2>3, RadixIsNat, DecFacts
  <1>10. quot[1] <= ws[1] /\ (ws[1] # 0 => quot[1] < ws[1])
    <2>1. \A q, p, t, w \in Nat : p > 1 /\ w = q * p + t => q <= w /\ (w # 0 => q < w)
      <3>1. ASSUME NEW q \in Nat, NEW p \in Nat, NEW t \in Nat, p > 1
            PROVE  q <= q * p + t /\ (q * p + t # 0 => q < q * p + t)
        <4>1. PICK e \in Nat : p = 2 + e
          <5>1. p - 2 \in Nat /\ p = 2 + (p - 2)
            BY <3>1
          <5>. QED
            BY <5>1
        <4>2. q * p = q + q + q * e /\ q * e \in Nat
          BY <4>1
        <4>3. q = 0 => q * e = 0
          OBVIOUS
        <4>. QED
          BY <4>2, <4>3
      <3>. QED
        BY <3>1
    <2>. QED
      BY <2>1, <1>9, DecFacts
  <1>11. ws[1] # 0 /\ quot[1] = 0 /\ n > 1 => quot[2] # 0
    <2>. SUFFICES ASSUME ws[1] # 0, quot[1] = 0, n > 1, quot[2] = 0 PROVE FALSE
      OBVIOUS
    <2>1. 2 \in 1 .. n /\ 2 - 1 = 1 /\ ws[2] \in Word /\ 1 \in 0 .. n /\ 2 \in 0 .. n
      BY <1>0
    <2>2. u[1].rem * Radix + ws[2] = 0 * DecPower + u[2].rem /\ u[2].rem \in 0 .. DecPower - 1
      BY <2>1, <1>2
    <2>3. u[1].rem >= 1
      <3>1. ws[1] = 0 * DecPower + u[1].rem
        BY <1>9
      <3>. QED
        BY <3>1, <1>9, DecFacts
    <2>4. u[1].rem * Radix >= Radix
      BY <2>3, <1>9, RadixIsNat
    <2>5. ws[2] \in Nat /\ u[1].rem * Radix \in Nat
      BY <2>1, <1>9, RadixIsNat DEF Word
    <2>. QED
      BY <2>2, <2>4, <2>5, DecFacts, RadixIsNat
  <1>12. 1 \in 1 .. n /\ (n > 1 => 2 \in 1 .. n)
    BY <1>0
  <1>13. z[1] = quot[1] /\ (n > 1 => z[2] = quot[2])
    BY <1>8, <1>12
  <1>14. Value(z) * DecPower + rm = Value(ws)
    BY <1>8, HornerIs, ValueIs, RadixIsNat DEF Value, n
  <1>15. z[1] <= ws[1] /\ (ws[1] # 0 => z[1] < ws[1])
    BY <1>10, <1>13
  <1>16. ws[1] # 0 /\ z[1] = 0 /\ Len(ws) > 1 => z[2] # 0
    BY <1>11, <1>13 DEF n
  <1>. QED
    BY <1>8, <1>14, <1>15, <1>16 DEF z, rm, n

-----------------------------------------------------------------------------
(* The words that are left when the lowest DecChunk digits are taken away.  *)

Rest(ws) == LET s == DivideWords(ws) IN IF s.words[1] = 0 THEN Tail(s.words) ELSE s.words

Rank(ws) == Radix * Len(ws) + ws[1]

LEMMA RestIs ==
  ASSUME NEW ws \in Seq(Word), ws # <<>>
  PROVE  /\ Rest(ws) \in Seq(Word)
         /\ DivideWords(ws).rem \in 0 .. DecPower - 1
         /\ Value(Rest(ws)) \in Nat
         /\ Value(Rest(ws)) * DecPower + DivideWords(ws).rem = Value(ws)
         /\ Rank(ws) \in Nat
         /\ Rest(ws) # <<>> => Rank(Rest(ws)) < Rank(ws)
         /\ Rest(ws) # <<>> /\ ws[1] # 0 => Rest(ws)[1] # 0
  <1> DEFINE z == DivideWords(ws).words
             rm == DivideWords(ws).rem
  <1>1. /\ z \in Seq(Word) /\ Len(z) = Len(ws)
        /\ rm \in 0 .. DecPower - 1
        /\ Value(z) * DecPower + rm = Value(ws)
        /\ z[1] <= ws[1] /\ (ws[1] # 0 => z[1] < ws[1])
        /\ ws[1] # 0 /\ z[1] = 0 /\ Len(ws) > 1 => z[2] # 0
    BY DivisionKeeps
  <1>2. Rest(ws) = IF z[1] = 0 THEN Tail(z) ELSE z
    BY DEF Rest
  <1>3. Len(ws) \in Nat /\ Len(ws) >= 1 /\ ws[1] \in Word
    OBVIOUS
  <1>. HIDE DEF z
  <1>3a. z # <<>>
    BY <1>1, <1>3
  <1>4. \A v \in Seq(Word) : Value(v) \in Nat
    BY ValueIs
  <1>5. \A w \in Word : w \in Nat /\ w < Radix
    BY RadixIsNat DEF Word
  <1>6. Rank(ws) \in Nat
    <2>1. ws[1] \in Nat /\ Radix * Len(ws) \in Nat
      BY <1>3, <1>5, RadixIsNat
    <2>. QED
      BY <2>1 DEF Rank
  <1>7. CASE z[1] = 0
    <2> DEFINE t == Tail(z)
    <2>1. /\ t \in Seq(Word) /\ Len(t) = Len(ws) - 1 /\ Rest(ws) = t
          /\ (t # <<>> => Len(ws) > 1 /\ t[1] = z[2] /\ t[1] \in Word)
      BY <1>1, <1>2, <1>3a, <1>7
    <2>2. Value(t) = Value(z)
      BY <1>1, <1>3a, <1>7, ValueIs
    <2>. HIDE DEF t
    <2>3. ASSUME t # <<>> PROVE Rank(t) < Rank(ws) /\ (ws[1] # 0 => t[1] # 0)
      <3>1. t[1] \in Nat /\ t[1] < Radix /\ ws[1] \in Nat
        BY <2>1, <2>3, <1>3, <1>5
      <3>2. Radix * (Len(ws) - 1) = Radix * Len(ws) - Radix /\ Radix * Len(ws) \in Nat
        BY <1>3, RadixIsNat
      <3>3. Radix * Len(t) + t[1] < Radix * Len(ws) + ws[1]
        BY <3>1, <3>2, <2>1, RadixIsNat
      <3>4. ws[1] # 0 => t[1] # 0
        BY <2>1, <2>3, <1>1, <1>7
      <3>. QED
        BY <3>3, <3>4 DEF Rank
    <2>. QED
      BY <2>1, <2>2, <2>3, <1>1, <1>4, <1>6
  <1>8. CASE z[1] # 0
    <2>1. z[1] \in Nat /\ ws[1] \in Nat
      BY <1>1, <1>3, <1>3a, <1>5
    <2>2. z[1] < ws[1]
      BY <2>1, <1>1, <1>8
    <2>3. Radix * Len(ws) \in Nat
      BY <1>3, RadixIsNat
    <2>4. Rank(z) < Rank(ws)
      BY <2>1, <2>2, <2>3, <1>1 DEF Rank
    <2>. QED
      BY <2>4, <1>1, <1>2, <1>4, <1>6, <1>8
  <1>. QED
    BY <1>7, <1>8

LEMMA PowerMonotone ==
  ASSUME NEW b \in Nat, b >= 1, NEW m \in Nat, NEW n \in Nat, m <= n
  PROVE  Power(b, m) <= Power(b, n)
  <1>1. n - m \in Nat /\ n = m + (n - m)
    OBVIOUS
  <1>2. Power(b, m + (n - m)) = Power(b, m) * Power(b, n - m)
    BY <1>1, PowerOfSum
  <1>3. Power(b, m) \in Nat /\ Power(b, n - m) \in Nat /\ Power(b, n - m) >= 1
    BY <1>1, PowerPositive
  <1>4. \A p, q \in Nat : q >= 1 => p <= p * q
    <2>1. ASSUME NEW p \in Nat, NEW q \in Nat, q >= 1 PROVE p <= p * q
      <3>1. PICK e \in Nat : q = 1 + e
        <4>1. q - 1 \in Nat /\ q = 1 + (q - 1)
          BY <2>1
        <4>. QED
          BY <4>1
      <3>2. p * q = p + p * e /\ p * e \in Nat
        BY <3>1
      <3>. QED
        BY <3>2
    <2>. QED
      BY <2>1
  <1>5. Power(b, m) <= Power(b, m) * Power(b, n - m)
    BY <1>3, <1>4
  <1>. QED
    BY <1>1, <1>2, <1>5

LEMMA PowerOfPower ==
  ASSUME NEW b \in Nat, NEW m \in Nat, NEW n \in Nat
  PROVE  Power(Power(b, m), n) = Power(b, m * n)
  <1> DEFINE p == Power(b, m)
             T == {k \in Nat : Power(p, k) = Power(b, m * k)}
  <1>0. p \in Nat
    BY PowerIs
  <1>. HIDE DEF p
  <1>1. 0 \in T
    <2>1. Power(p, 0) = 1 /\ Power(b, 0) = 1 /\ m * 0 = 0
      BY <1>0, PowerIs
    <2>. QED
      BY <2>1
  <1>2. ASSUME NEW k \in Nat, k \in T PROVE k + 1 \in T
    <2>1. m * k \in Nat /\ m * (k + 1) = m * k + m
      OBVIOUS
    <2>2. Power(b, m * k + m) = Power(b, m * k) * Power(b, m)
      BY <2>1, PowerOfSum
    <2>3. Power(p, k + 1) = p * Power(p, k) /\ Power(p, k) \in Nat
      BY <1>0, PowerIs
    <2>4. Power(p, k) = Power(b, m * k)
      BY <1>2
    <2>5. p * Power(p, k) = Power(p, k) * p
      BY <1>0, <2>3
    <2>. QED
      BY <2>1, <2>2, <2>3, <2>4, <2>5 DEF p
  <1>. HIDE DEF T
  <1>3. Nat \subseteq T
    BY <1>1, <1>2, InductionOnSet
  <1>. QED
    BY <1>3 DEF T, p

LEMMA BaseMonotone ==
  ASSUME NEW a \in Nat, NEW b \in Nat, a <= b, NEW n \in Nat
  PROVE  /\ Power(a, n) <= Power(b, n)
         /\ a < b /\ n >= 1 => Power(a, n) < Power(b, n)
  <1> DEFINE T == {k \in Nat : /\ Power(a, k) <= Power(b, k)
                               /\ a < b /\ k >= 1 => Power(a, k) < Power(b, k)}
  <1>1. 0 \in T
    <2>1. Power(a, 0) = 1 /\ Power(b, 0) = 1
      BY PowerIs
    <2>. QED
      BY <2>1
  <1>2. ASSUME NEW k \in Nat, k \in T PROVE k + 1 \in T
    <2>1. /\ Power(a, k) \in Nat /\ Power(a, k + 1) = a * Power(a, k)
          /\ Power(b, k) \in Nat /\ Power(b, k + 1) = b * Power(b, k)
      BY PowerIs
    <2>2. Power(a, k) <= Power(b, k)
      BY <1>2
    <2>3. \A p, q \in Nat : p <= q => a * p <= b * q
      <3>1. ASSUME NEW p \in Nat, NEW q \in Nat, p <= q PROVE a * p <= b * q
        <4>1. a * p <= a * q
          <5>1. PICK d \in Nat : q = p + d
            <6>1. q - p \in Nat /\ q = p + (q - p)
              BY <3>1
            <6>. QED
              BY <6>1
          <5>2. a * q = a * p + a * d /\ a * d \in Nat /\ a * p \in Nat
            BY <5>1
          <5>. QED
            BY <5>2
        <4>2. a * q <= b * q
          <5>1. PICK d \in Nat : b = a + d
            <6>1. b - a \in Nat /\ b = a + (b - a)
              OBVIOUS
            <6>. QED
              BY <6>1
          <5>2. b * q = a * q + d * q /\ d * q \in Nat /\ a * q \in Nat
            BY <5>1
          <5>. QED
            BY <5>2
        <4>3. a * p \in Nat /\ a * q \in Nat /\ b * q \in Nat
          OBVIOUS
        <4>. QED
          BY <4>1, <4>2, <4>3
      <3>. QED
        BY <3>1
    <2>4. a * Power(a, k) <= b * Power(b, k)
      BY <2>1, <2>2, <2>3
    <2>5. ASSUME a < b PROVE a * Power(a, k) < b * Power(b, k)
      <3>1. Power(b, k) >= 1
        <4>1. b >= 1
          BY <2>5
        <4>. QED
          BY <4>1, PowerPositive
      <3>2. \A p, q \in Nat : p <= q /\ q >= 1 => a * p < b * q
        <4>1. ASSUME NEW p \in Nat, NEW q \in Nat, p <= q, q >= 1 PROVE a * p < b * q
          <5>2. PICK d \in Nat : b = a + 1 + d
            <6>1. b - a - 1 \in Nat /\ b = a + 1 + (b - a - 1)
              BY <2>5
            <6>. QED
              BY <6>1
          <5>3. b * q = a * q + q + d * q /\ d * q \in Nat /\ a * q \in Nat /\ a * p \in Nat
            BY <5>2
          <5>4. a * p <= a * q
            <6>1. PICK e \in Nat : q = p + e
              <7>1. q - p \in Nat /\ q = p + (q - p)
                BY <4>1
              <7>. QED
                BY <7>1
            <6>2. a * q = a * p + a * e /\ a * e \in Nat
              BY <6>1
            <6>. QED
              BY <6>2, <5>3
          <5>. QED
            BY <5>3, <5>4, <4>1
        <4>. QED
          BY <4>1
      <3>. QED
        BY <3>1, <3>2, <2>1, <2>2
    <2>. QED
      BY <2>1, <2>4, <2>5
  <1>. HIDE DEF T
  <1>3. Nat \subseteq T
    BY <1>1, <1>2, InductionOnSet
  <1>. QED
    BY <1>3 DEF T

\* Twenty-eight decimal digits are more than ninety-three bits.
LEMMA DigitsAndBits == Power(2, 93) < Power(10, 28)
  <1>1. /\ \A n \in Nat : Power(10, n + 1) = 10 * Power(10, n) /\ Power(10, n) \in Nat
        /\ \A n \in Nat : Power(2, n + 1) = 2 * Power(2, n) /\ Power(2, n) \in Nat
        /\ Power(10, 0) = 1 /\ Power(2, 0) = 1
    BY PowerIs
  <1>2. Power(10, 4) = 10000
    <2>1. /\ Power(10, 0 + 1) = 10 * Power(10, 0) /\ Power(10, 1 + 1) = 10 * Power(10, 1)
          /\ Power(10, 2 + 1) = 10 * Power(10, 2) /\ Power(10, 3 + 1) = 10 * Power(10, 3)
      BY <1>1
    <2>2. Power(10, 1) = 10
      BY <2>1, <1>1
    <2>3. Power(10, 2) = 100
      BY <2>1, <2>2
    <2>4. Power(10, 3) = 1000
      BY <2>1, <2>3
    <2>. QED
      BY <2>1, <2>4
  <1>3. Power(2, 13) = 8192
    <2>1. /\ Power(2, 0 + 1) = 2 * Power(2, 0) /\ Power(2, 1 + 1) = 2 * Power(2, 1)
          /\ Power(2, 2 + 1) = 2 * Power(2, 2) /\ Power(2, 3 + 1) = 2 * Power(2, 3)
          /\ Power(2, 4 + 1) = 2 * Power(2, 4) /\ Power(2, 5 + 1) = 2 * Power(2, 5)
          /\ Power(2, 6 + 1) = 2 * Power(2, 6) /\ Power(2, 7 + 1) = 2 * Power(2, 7)
          /\ Power(2, 8 + 1) = 2 * Power(2, 8) /\ Power(2, 9 + 1) = 2 * Power(2, 9)
          /\ Power(2, 10 + 1) = 2 * Power(2, 10) /\ Power(2, 11 + 1) = 2 * Power(2, 11)
          /\ Power(2, 12 + 1) = 2 * Power(2, 12)
      BY <1>1
    <2>2. Power(2, 1) = 2
      BY <2>1, <1>1
    <2>3. Power(2, 2) = 4 /\ Power(2, 3) = 8
      BY <2>1, <2>2
    <2>4. Power(2, 4) = 16 /\ Power(2, 5) = 32
      BY <2>1, <2>3
    <2>5. Power(2, 6) = 64 /\ Power(2, 7) = 128
      BY <2>1, <2>4
    <2>6. Power(2, 8) = 256 /\ Power(2, 9) = 512
      BY <2>1, <2>5
    <2>7. Power(2, 10) = 1024 /\ Power(2, 11) = 2048
      BY <2>1, <2>6
    <2>8. Power(2, 12) = 4096
      BY <2>1, <2>7
    <2>. QED
      BY <2>1, <2>8
  <1>4. Power(2, 13 * 7) = Power(8192, 7) /\ Power(10, 4 * 7) = Power(10000, 7)
    <2>1. Power(Power(2, 13), 7) = Power(2, 13 * 7) /\ Power(Power(10, 4), 7) = Power(10, 4 * 7)
      BY PowerOfPower
    <2>. QED
      BY <2>1, <1>2, <1>3
  <1>5. Power(2, 93) = Power(2, 91) * 4
    <2>1. Power(2, 91 + 1) = 2 * Power(2, 91) /\ Power(2, 92 + 1) = 2 * Power(2, 92)
      BY <1>1
    <2>2. Power(2, 91) \in Nat
      BY <1>1
    <2>. QED
      BY <2>1, <2>2
  <1>6. \A b \in Nat : Power(b, 7) = b * ((b * b * b) * (b * b * b))
    <2>1. ASSUME NEW b \in Nat PROVE Power(b, 7) = b * ((b * b * b) * (b * b * b))
      <3>0. Power(b, 0) = 1 /\ \A n \in Nat : Power(b, n + 1) = b * Power(b, n) /\ Power(b, n) \in Nat
        BY PowerIs
      <3>1. Power(b, 0 + 1) = b * Power(b, 0) /\ Power(b, 1 + 1) = b * Power(b, 1)
            /\ Power(b, 2 + 1) = b * Power(b, 2)
        BY <3>0
      <3>2. Power(b, 1) = b
        BY <3>0, <3>1
      <3>3. Power(b, 2) = b * b
        BY <3>1, <3>2
      <3>4. Power(b, 3) = b * b * b
        BY <3>1, <3>3
      <3>5. Power(b, 3 + 3) = Power(b, 3) * Power(b, 3)
        BY PowerOfSum
      <3>6. Power(b, 6 + 1) = b * Power(b, 6)
        BY <3>0
      <3>. QED
        BY <3>4, <3>5, <3>6
    <2>. QED
      BY <2>1
  <1> DEFINE a == 8192
             b == 10000
  <1>7. a \in Nat /\ b \in Nat /\ 4 * (a * ((a * a * a) * (a * a * a))) < b * ((b * b * b) * (b * b * b))
    BY SMT
  <1>8. Power(2, 91) = Power(a, 7) /\ Power(10, 28) = Power(b, 7)
    BY <1>4, SMT
  <1>. HIDE DEF a, b
  <1>9. /\ Power(a, 7) = a * ((a * a * a) * (a * a * a))
        /\ Power(b, 7) = b * ((b * b * b) * (b * b * b))
    BY <1>6, <1>7
  <1>. QED
    BY <1>5, <1>7, <1>8, <1>9

LEMMA DigitCountIs ==
  ASSUME NEW n \in Nat, n < DecPower
  PROVE  /\ DigitCount(n) \in 0 .. DecChunk
         /\ n < Power(10, DigitCount(n))
         /\ n >= 1 => DigitCount(n) >= 1 /\ Power(10, DigitCount(n) - 1) <= n
  <1> DEFINE T == {k \in 0 .. DecChunk : Power(10, k) > n}
  <1>0. DecChunk \in Nat
    BY DecimalAssumption
  <1>1. DecChunk \in T /\ T \in SUBSET Nat
    BY <1>0 DEF DecPower
  <1>2. PICK q \in T : \A y \in T : q <= y
    <2>. HIDE DEF T
    <2>. QED
      BY <1>1, LeastNumber
  <1>3. \A j \in 0 .. q - 1 : Power(10, j) <= n
    <2>1. ASSUME NEW j \in 0 .. q - 1 PROVE Power(10, j) <= n
      <3>1. j \in 0 .. DecChunk /\ ~(q <= j) /\ j \in Nat
        <4>1. q \in 0 .. DecChunk
          BY <1>2
        <4>2. j \in Nat /\ j < q
          BY <4>1, <1>0
        <4>. QED
          BY <4>1, <4>2, <1>0
      <3>2. ~(Power(10, j) > n)
        BY <3>1, <1>2
      <3>3. Power(10, j) \in Nat
        BY <3>1, PowerIs
      <3>. QED
        BY <3>2, <3>3
    <2>. QED
      BY <2>1
  <1>4. \E k \in 0 .. DecChunk : Power(10, k) > n /\ \A j \in 0 .. k - 1 : Power(10, j) <= n
    BY <1>2, <1>3
  <1> DEFINE d == DigitCount(n)
  <1>5. d \in 0 .. DecChunk /\ Power(10, d) > n /\ \A j \in 0 .. d - 1 : Power(10, j) <= n
    BY <1>4 DEF DigitCount
  <1>. HIDE DEF d
  <1>6. ASSUME n >= 1 PROVE d >= 1 /\ Power(10, d - 1) <= n
    <2>1. d # 0
      <3>1. Power(10, 0) = 1
        BY PowerIs
      <3>. QED
        BY <3>1, <1>5, <1>6
    <2>2. d >= 1 /\ d - 1 \in 0 .. d - 1
      BY <2>1, <1>0, <1>5
    <2>. QED
      BY <2>2, <1>5
  <1>7. n < Power(10, d)
    <2>1. d \in Nat
      BY <1>0, <1>5
    <2>2. Power(10, d) \in Nat
      BY <2>1, PowerIs
    <2>. QED
      BY <2>2, <1>5
  <1>. QED
    BY <1>5, <1>6, <1>7 DEF d

LEMMA LastDigitsIs ==
  ASSUME NEW n \in Nat, NEW k \in Nat
  PROVE  LastDigits(n, k) \in Seq(Cell) /\ Len(LastDigits(n, k)) = k
  <1>1. ASSUME NEW i \in 1 .. k PROVE Char(Zero + ((n \div Power(10, k - i)) % 10)) \in Cell
    <2>1. k - i \in Nat
      OBVIOUS
    <2>2. Power(10, k - i) \in Nat \ {0}
      <3>1. Power(10, k - i) \in Nat /\ Power(10, k - i) >= 1
        BY <2>1, PowerPositive
      <3>. QED
        BY <3>1
    <2>3. n \div Power(10, k - i) \in Nat
      BY <2>2, QuotientFacts
    <2>4. \A q \in Nat : q % 10 \in Nat /\ \A d \in Nat : Zero + d \in Nat
      BY DEF Zero
    <2>5. (n \div Power(10, k - i)) % 10 \in Nat
      BY <2>3, <2>4
    <2>6. Zero + ((n \div Power(10, k - i)) % 10) \in Nat
      BY <2>4, <2>5
    <2>. QED
      BY <2>6, CellsAre
  <1> DEFINE s == [i \in 1 .. k |-> Char(Zero + ((n \div Power(10, k - i)) % 10))]
  <1>2. s \in [1 .. k -> Cell]
    BY <1>1
  <1>3. s = LastDigits(n, k)
    BY DEF LastDigits
  <1>. HIDE DEF s
  <1>4. s \in Seq(Cell) /\ Len(s) = k
    BY <1>2
  <1>. QED
    BY <1>3, <1>4

-----------------------------------------------------------------------------
Numerals == Seq(Word) \ {<<>>}

LowDigits(ws) ==
  LastDigits(DivideWords(ws).rem, IF Rest(ws) = <<>> THEN DigitCount(DivideWords(ws).rem) ELSE DecChunk)

LEMMA LowDigitsIs ==
  ASSUME NEW ws \in Numerals
  PROVE  /\ DivideWords(ws).rem \in Nat
         /\ LowDigits(ws) \in Seq(Cell)
         /\ Rest(ws) = <<>> => Len(LowDigits(ws)) = DigitCount(DivideWords(ws).rem)
         /\ Rest(ws) # <<>> => Len(LowDigits(ws)) = DecChunk
  <1> DEFINE rm == DivideWords(ws).rem
  <1>1. rm \in Nat /\ rm < DecPower
    <2>1. rm \in 0 .. DecPower - 1
      BY RestIs DEF Numerals
    <2>. QED
      BY <2>1, DecFacts
  <1>. HIDE DEF rm
  <1>2. DigitCount(rm) \in Nat
    BY <1>1, DigitCountIs
  <1>3. DecChunk \in Nat
    BY DecimalAssumption
  <1>4. CASE Rest(ws) = <<>>
    <2>1. LowDigits(ws) = LastDigits(rm, DigitCount(rm))
      BY <1>4 DEF LowDigits, rm
    <2>. QED
      BY <2>1, <1>1, <1>2, <1>4, LastDigitsIs DEF rm
  <1>5. CASE Rest(ws) # <<>>
    <2>1. LowDigits(ws) = LastDigits(rm, DecChunk)
      BY <1>5 DEF LowDigits, rm
    <2>. QED
      BY <2>1, <1>1, <1>3, <1>5, LastDigitsIs DEF rm
  <1>. QED
    BY <1>4, <1>5

LEMMA DigitsIs ==
  \E loop : /\ \A ws \in Numerals :
                 loop[ws] = (IF Rest(ws) = <<>> THEN <<>> ELSE loop[Rest(ws)]) \o LowDigits(ws)
            /\ \A ws : Digits(ws) = loop[ws]
  <1> DEFINE V    == Seq(Cell)
             rank == [ws \in Numerals |-> Rank(ws)]
             end  == {ws \in Numerals : Rest(ws) = <<>>}
             next == [ws \in Numerals |-> IF Rest(ws) = <<>> THEN ws ELSE Rest(ws)]
             base == [ws \in Numerals |-> <<>> \o LowDigits(ws)]
             comb == [ws \in Numerals |-> [v \in V |-> v \o LowDigits(ws)]]
             Body(l) == [ws \in Seq(Word) \ {<<>>} |->
                           (IF Rest(ws) = <<>> THEN <<>> ELSE l[Rest(ws)]) \o LowDigits(ws)]
             loop == CHOOSE l : l = Body(l)
  <1>1. ASSUME NEW ws \in Numerals
        PROVE  rank[ws] \in Nat /\ next[ws] \in Numerals /\ base[ws] \in V /\ comb[ws] \in [V -> V]
    <2>1. ws \in Seq(Word) /\ ws # <<>>
      BY DEF Numerals
    <2>2. LowDigits(ws) \in V
      BY LowDigitsIs
    <2>3. <<>> \in V /\ \A v \in V : v \o LowDigits(ws) \in V
      BY <2>2
    <2>4. Rank(ws) \in Nat /\ Rest(ws) \in Seq(Word)
      BY <2>1, RestIs
    <2>5. next[ws] \in Numerals
      BY <2>1, <2>4 DEF Numerals
    <2>6. base[ws] \in V
      <3>1. base[ws] = <<>> \o LowDigits(ws)
        OBVIOUS
      <3>. HIDE DEF base, V
      <3>. QED
        BY <3>1, <2>3
    <2>7. comb[ws] = [v \in V |-> v \o LowDigits(ws)]
      OBVIOUS
    <2>. HIDE DEF V, base, next, comb
    <2>. QED
      BY <2>3, <2>4, <2>5, <2>6, <2>7
  <1>2. ASSUME NEW ws \in Numerals \ end PROVE rank[next[ws]] < rank[ws]
    <2>1. ws \in Seq(Word) /\ ws # <<>> /\ Rest(ws) # <<>> /\ ws \in Numerals
      BY DEF Numerals
    <2>2. Rank(Rest(ws)) < Rank(ws) /\ Rest(ws) \in Numerals
      BY <2>1, RestIs DEF Numerals
    <2>3. next[ws] = Rest(ws)
      BY <2>1
    <2>. QED
      BY <2>1, <2>2, <2>3
  <1>3. Descends(Numerals, V, rank, end, next, base, comb)
    <2>1. rank \in [Numerals -> Nat]
      BY <1>1
    <2>2. next \in [Numerals -> Numerals]
      BY <1>1
    <2>3. base \in [Numerals -> V]
      BY <1>1
    <2>4. comb \in [Numerals -> [V -> V]]
      BY <1>1
    <2>. HIDE DEF rank, end, next, base, comb, V
    <2>. QED
      BY <2>1, <2>2, <2>3, <2>4, <1>2 DEF Descends
  <1>4. PICK f : Recursion(f, Numerals, V, end, next, base, comb)
    <2>. HIDE DEF rank, end, next, base, comb, V
    <2>. QED
      BY <1>3, RecursionByRank
  <1>5. f \in [Numerals -> V]
    BY <1>4 DEF Recursion
  <1>6. ASSUME NEW ws \in Numerals
        PROVE  f[ws] = (IF Rest(ws) = <<>> THEN <<>> ELSE f[Rest(ws)]) \o LowDigits(ws)
    <2>1. f[ws] = IF ws \in end THEN base[ws] ELSE comb[ws][f[next[ws]]]
      <3>. HIDE DEF end, next, base, comb, V
      <3>. QED
        BY <1>4 DEF Recursion
    <2>2. CASE Rest(ws) = <<>>
      <3>1. ws \in end /\ base[ws] = <<>> \o LowDigits(ws)
        BY <2>2
      <3>. QED
        BY <2>1, <2>2, <3>1
    <2>3. CASE Rest(ws) # <<>>
      <3>1. next[ws] = Rest(ws) /\ next[ws] \in Numerals /\ ws \notin end
        BY <2>3, <1>1
      <3>2. f[Rest(ws)] \in V
        BY <3>1, <1>5
      <3>3. comb[ws][f[Rest(ws)]] = f[Rest(ws)] \o LowDigits(ws)
        BY <3>2
      <3>. HIDE DEF next, base, comb, end
      <3>. QED
        BY <2>1, <2>3, <3>1, <3>3
    <2>. QED
      BY <2>2, <2>3
  <1>7. f = Body(f)
    BY <1>5, <1>6 DEF Numerals
  <1>8. loop = Body(loop)
    <2>. HIDE DEF Body
    <2>. QED
      BY <1>7
  <1>9. \A ws : Digits(ws) = loop[ws]
    BY DEF Digits, LowDigits, Rest
  <1>. HIDE DEF loop
  <1>10. \A ws \in Numerals :
           loop[ws] = (IF Rest(ws) = <<>> THEN <<>> ELSE loop[Rest(ws)]) \o LowDigits(ws)
    BY <1>8 DEF Numerals
  <1>. QED
    BY <1>9, <1>10

\* As many digits as the number has.
LEMMA DigitsCount ==
  ASSUME NEW ws \in Numerals, ws[1] # 0
  PROVE  /\ Digits(ws) \in Seq(Cell)
         /\ Len(Digits(ws)) >= 1
         /\ Power(10, Len(Digits(ws)) - 1) <= Value(ws)
  <1>1. PICK loop : /\ \A us \in Numerals :
                        loop[us] = (IF Rest(us) = <<>> THEN <<>> ELSE loop[Rest(us)]) \o LowDigits(us)
                    /\ \A us : Digits(us) = loop[us]
    BY DigitsIs
  <1> DEFINE Good(us) == /\ loop[us] \in Seq(Cell)
                         /\ Len(loop[us]) >= 1
                         /\ Power(10, Len(loop[us]) - 1) <= Value(us)
             T == {n \in Nat : \A us \in Numerals : us[1] # 0 /\ Rank(us) < n => Good(us)}
  <1>2. \A us \in Numerals : Rank(us) \in Nat
    BY RestIs DEF Numerals
  <1>3. 0 \in T
    BY <1>2
  <1>4. ASSUME NEW n \in Nat, n \in T PROVE n + 1 \in T
    <2>1. ASSUME NEW us \in Numerals, us[1] # 0, Rank(us) < n + 1 PROVE Good(us)
      <3> DEFINE rm == DivideWords(us).rem
                 low == LowDigits(us)
                 rest == Rest(us)
      <3>1. us \in Seq(Word) /\ us # <<>>
        BY DEF Numerals
      <3>2. /\ rest \in Seq(Word) /\ rm \in 0 .. DecPower - 1
            /\ Value(rest) \in Nat /\ Value(rest) * DecPower + rm = Value(us)
            /\ Rank(us) \in Nat
            /\ rest # <<>> => Rank(rest) < Rank(us) /\ rest[1] # 0
        BY <3>1, <2>1, RestIs
      <3>3. /\ low \in Seq(Cell)
            /\ rest = <<>> => Len(low) = DigitCount(rm)
            /\ rest # <<>> => Len(low) = DecChunk
        BY LowDigitsIs
      <3>4. loop[us] = (IF rest = <<>> THEN <<>> ELSE loop[rest]) \o low
        BY <1>1
      <3>. HIDE DEF rm, low, rest
      <3>5. CASE rest = <<>>
        <4>1. loop[us] = low
          BY <3>3, <3>4, <3>5
        <4>2. Value(rest) = 0
          <5>1. <<>> \in Seq(Word) /\ Len(<<>>) = 0
            OBVIOUS
          <5>2. Value(<<>>) = 0
            BY NumberOfShort, RadixIsNat DEF Value
          <5>. QED
            BY <5>1, <5>2, <3>5 DEF Value
        <4>3. rm = Value(us) /\ rm \in Nat /\ rm < DecPower
          <5>1. 0 * DecPower = 0
            BY DecFacts
          <5>2. rm \in Nat /\ rm < DecPower
            BY <3>2, DecFacts
          <5>. QED
            BY <5>1, <5>2, <3>2, <4>2
        <4>4. Value(us) >= 1
          BY <3>1, <2>1, ValuePositive
        <4>5. DigitCount(rm) >= 1 /\ Power(10, DigitCount(rm) - 1) <= rm
          BY <4>3, <4>4, DigitCountIs
        <4>. QED
          BY <4>1, <4>3, <4>5, <3>3, <3>5
      <3>6. CASE rest # <<>>
        <4>1. loop[us] = loop[rest] \o low
          BY <3>4, <3>6
        <4>2. rest \in Numerals /\ Rank(rest) \in Nat
          BY <3>2, <3>6, <1>2 DEF Numerals
        <4>3. Rank(rest) < n
          BY <4>2, <3>2, <3>6, <2>1
        <4>4. Good(rest)
          <5>. HIDE DEF Good
          <5>. QED
            BY <4>2, <4>3, <3>2, <3>6, <1>4
        <4> DEFINE l == Len(loop[rest])
        <4>5. l \in Nat /\ l >= 1 /\ Power(10, l - 1) <= Value(rest)
          BY <4>4
        <4>6. loop[us] \in Seq(Cell) /\ Len(loop[us]) = l + DecChunk
          <5>1. low \in Seq(Cell) /\ Len(low) = DecChunk /\ loop[rest] \in Seq(Cell)
            BY <4>4, <3>3, <3>6
          <5>2. loop[rest] \o low \in Seq(Cell) /\ Len(loop[rest] \o low) = Len(loop[rest]) + Len(low)
            BY <5>1
          <5>. QED
            BY <4>1, <5>1, <5>2
        <4>. HIDE DEF l
        <4>7. DecChunk \in Nat /\ l - 1 \in Nat /\ (l + DecChunk) - 1 = (l - 1) + DecChunk
          BY <4>5, DecimalAssumption
        <4>8. /\ Power(10, (l - 1) + DecChunk) = Power(10, l - 1) * DecPower
              /\ Power(10, l - 1) \in Nat
          BY <4>7, PowerOfSum, PowerIs DEF DecPower
        <4>9. Power(10, l - 1) * DecPower <= Value(rest) * DecPower
          <5>1. \A a, b, p \in Nat : a <= b => a * p <= b * p
            <6>1. ASSUME NEW a \in Nat, NEW b \in Nat, NEW p \in Nat, a <= b PROVE a * p <= b * p
              <7>1. PICK d \in Nat : b = a + d
                <8>1. b - a \in Nat /\ b = a + (b - a)
                  BY <6>1
                <8>. QED
                  BY <8>1
              <7>2. b * p = a * p + d * p /\ d * p \in Nat /\ a * p \in Nat
                BY <7>1
              <7>. QED
                BY <7>2
            <6>. QED
              BY <6>1
          <5>. QED
            BY <5>1, <4>5, <4>8, <3>2, DecFacts
        <4>10. Value(rest) * DecPower \in Nat /\ rm \in Nat /\ Power(10, l - 1) * DecPower \in Nat
          BY <3>2, <4>8, DecFacts
        <4>11. Power(10, (l + DecChunk) - 1) <= Value(us)
          BY <4>7, <4>8, <4>9, <4>10, <3>2
        <4>12. l + DecChunk >= 1
          BY <4>5, <4>7
        <4>. QED
          BY <4>6, <4>11, <4>12
      <3>. QED
        BY <3>5, <3>6
    <2>. HIDE DEF Good
    <2>. QED
      BY <2>1
  <1>. HIDE DEF T
  <1>5. Nat \subseteq T
    BY <1>3, <1>4, InductionOnSet
  <1>6. Good(ws)
    <2>1. Rank(ws) + 1 \in T /\ Rank(ws) < Rank(ws) + 1
      BY <1>2, <1>5
    <2>. HIDE DEF Good
    <2>. QED
      BY <2>1 DEF T
  <1>. QED
    BY <1>1, <1>6

LEMMA DigitsOfBits ==
  ASSUME NEW e \in Nat, NEW B \in Nat, Power(10, e) < Power(2, B)
  PROVE  93 * e < 28 * B
  <1>. SUFFICES ASSUME 28 * B <= 93 * e PROVE FALSE
    OBVIOUS
  <1> DEFINE x == Power(10, e)
             y == Power(2, B)
             d == Power(10, 28)
             b == Power(2, 93)
  <1>1. x \in Nat /\ y \in Nat /\ d \in Nat /\ b \in Nat
    BY PowerIs
  <1>2. /\ Power(x, 93) = Power(10, e * 93) /\ Power(y, 93) = Power(2, B * 93)
        /\ Power(d, B) = Power(10, 28 * B) /\ Power(b, B) = Power(2, 93 * B)
    <2>1. Power(x, 93) = Power(10, e * 93)
      BY PowerOfPower
    <2>2. Power(y, 93) = Power(2, B * 93)
      BY PowerOfPower
    <2>3. Power(d, B) = Power(10, 28 * B)
      BY PowerOfPower
    <2>4. Power(b, B) = Power(2, 93 * B)
      BY PowerOfPower
    <2>. QED
      BY <2>1, <2>2, <2>3, <2>4
  <1>3. b < d
    BY DigitsAndBits
  <1>4. x < y
    OBVIOUS
  <1>. HIDE DEF x, y, d, b
  <1>5. Power(x, 93) < Power(y, 93)
    BY <1>1, <1>4, BaseMonotone
  <1>6. Power(b, B) <= Power(d, B)
    BY <1>1, <1>3, BaseMonotone
  <1>7. Power(10, 28 * B) <= Power(10, e * 93)
    <2>1. 28 * B \in Nat /\ e * 93 \in Nat /\ 28 * B <= e * 93
      OBVIOUS
    <2>. QED
      BY <2>1, PowerMonotone
  <1>8. B * 93 = 93 * B
    OBVIOUS
  <1>9. /\ Power(x, 93) \in Nat /\ Power(y, 93) \in Nat
        /\ Power(b, B) \in Nat /\ Power(d, B) \in Nat
    BY <1>1, PowerIs
  <1>10. Power(y, 93) = Power(b, B) /\ Power(d, B) <= Power(x, 93)
    BY <1>2, <1>7, <1>8
  <1>. QED
    BY <1>5, <1>6, <1>9, <1>10

LEMMA DigitsFit ==
  ASSUME NEW ws \in Numerals, ws[1] # 0
  PROVE  Digits(ws) \in Seq(Cell) /\ Len(Digits(ws)) <= DecDigits(Len(ws))
  <1> DEFINE n == Len(ws)
             B == n * 4 * PortionBits
             D == Len(Digits(ws))
  <1>1. Digits(ws) \in Seq(Cell) /\ D \in Nat /\ D >= 1 /\ Power(10, D - 1) <= Value(ws)
    <2>1. /\ Digits(ws) \in Seq(Cell) /\ Len(Digits(ws)) >= 1
          /\ Power(10, Len(Digits(ws)) - 1) <= Value(ws)
      BY DigitsCount
    <2>. QED
      BY <2>1
  <1>2. n \in Nat /\ ws \in Seq(Word) /\ PortionBits \in Nat
    BY DecimalAssumption DEF Numerals
  <1>3. Value(ws) < Power(Radix, n) /\ Value(ws) \in Nat
    BY <1>2, ValueIs
  <1>. HIDE DEF n, D
  <1>4. B \in Nat /\ B = (4 * PortionBits) * n /\ 4 * PortionBits \in Nat
    BY <1>2
  <1>5. Power(Radix, n) = Power(2, B)
    <2>1. Power(Power(2, 4 * PortionBits), n) = Power(2, (4 * PortionBits) * n)
      BY <1>2, <1>4, PowerOfPower
    <2>2. Power(2, 4 * PortionBits) = Radix
      BY OffsetIs DEF Offset
    <2>. QED
      BY <2>1, <2>2, <1>4
  <1>6. n * 4 * PortionBits * 28 = 28 * B
    BY <1>2
  <1>. HIDE DEF B
  <1>7. D - 1 \in Nat /\ Power(10, D - 1) \in Nat /\ Power(2, B) \in Nat
    <2>1. D - 1 \in Nat
      BY <1>1
    <2>. QED
      BY <2>1, <1>4, PowerIs
  <1>8. 93 * (D - 1) < 28 * B
    <2>1. Power(10, D - 1) < Power(2, B)
      BY <1>1, <1>3, <1>5, <1>7
    <2>. QED
      BY <2>1, <1>4, <1>7, DigitsOfBits
  <1>9. D <= (28 * B + 92) \div 93
    <2>1. \A x, c \in Nat : 93 * (c - 1) < x => c <= (x + 92) \div 93
      OBVIOUS
    <2>2. 28 * B \in Nat
      BY <1>4
    <2>. QED
      BY <2>1, <2>2, <1>1, <1>8
  <1>10. DecDigits(n) = (28 * B + 92) \div 93
    BY <1>6 DEF DecDigits
  <1>. QED
    BY <1>1, <1>9, <1>10 DEF n, D

LEMMA LeftIsWell ==
  /\ \A s \in Seq(Cell) : Left(s) \in WellLeft
  /\ RecognitionImpossible \in WellLeft /\ BuiltinError \in WellLeft
  BY DEF Left, WellLeft, RecognitionImpossible, BuiltinError

LEMMA SymbStays ==
  ASSUME NEW cells \in CallCells
  PROVE  Symb(cells) \in WellLeft
  <1> DEFINE n      == Len(cells)
             start  == NumberPlace(cells, 3)
             sign   == SubSeq(cells, 3, start - 1)
             Found(q) == cells[q] # Number(0) /\ \A i \in start .. q - 1 : cells[i] = Number(0)
             value  == CHOOSE q \in start .. Len(cells) : Found(q)
             words  == [i \in 1 .. Len(cells) - value |-> cells[value + i - 1].value]
             digits == Digits(words)
  <1>1. /\ cells \in Seq(Cell) /\ n \in Nat /\ n >= 3
        /\ cells[n] = Other("close_call") /\ cells[n].tag = "close_call"
    BY CharsDiffer DEF CallCells
  <1>2. Symb(cells) =
          CASE ~IsSignedNumber(cells, 3)                    -> RecognitionImpossible
            [] IsSignedNumber(cells, 3) /\ value = Len(cells) -> Left(sign \o <<Char(Zero)>>)
            [] IsSignedNumber(cells, 3) /\ value # Len(cells) ->
                 IF \E i \in value .. Len(cells) - 1 : cells[i].tag # "number"
                 THEN RecognitionImpossible
                 ELSE IF Len(digits) <= DecDigits(Len(words)) THEN Left(sign \o digits) ELSE Overrun
    BY DEF Symb
  <1>3. start \in 3 .. n
    <2>1. cells[3].tag = "char" => n # 3
      BY <1>1
    <2>. HIDE DEF n
    <2>. QED
      BY <2>1, <1>1 DEF NumberPlace
  <1>4. sign \in Seq(Cell)
    <2>1. 3 \in 1 .. n /\ start - 1 \in 0 .. n
      BY <1>1, <1>3
    <2>. HIDE DEF start
    <2>. QED
      BY <2>1, <1>1
  <1>. HIDE DEF start, sign
  <1>5. value \in start .. n /\ Found(value)
    <2> DEFINE T == {q \in start .. n : cells[q] # Number(0)}
    <2>1. n \in T /\ T \in SUBSET Nat
      <3>1. cells[n] # Number(0)
        BY <1>1, CharsDiffer
      <3>. QED
        BY <3>1, <1>1, <1>3
    <2>2. PICK q \in T : \A y \in T : q <= y
      <3>. HIDE DEF T
      <3>. QED
        BY <2>1, LeastNumber
    <2>3. \A i \in start .. q - 1 : cells[i] = Number(0)
      <3>1. ASSUME NEW i \in start .. q - 1 PROVE cells[i] = Number(0)
        <4>1. i \in start .. n /\ ~(q <= i)
          BY <1>1, <1>3, <2>2
        <4>. QED
          BY <4>1, <2>2
      <3>. QED
        BY <3>1
    <2>4. q \in start .. Len(cells) /\ Found(q)
      BY <2>2, <2>3
    <2>. HIDE DEF Found
    <2>. QED
      BY <2>4
  <1>. HIDE DEF value
  <1>6. CASE ~IsSignedNumber(cells, 3)
    <2>1. Symb(cells) = RecognitionImpossible
      <3>. HIDE DEF words, digits
      <3>. QED
        BY <1>2, <1>6
    <2>. QED
      BY <2>1, LeftIsWell
  <1>7. CASE IsSignedNumber(cells, 3) /\ value = n
    <2>1. Symb(cells) = Left(sign \o <<Char(Zero)>>)
      <3>. HIDE DEF words, digits
      <3>. QED
        BY <1>2, <1>7
    <2>2. Char(Zero) \in Cell
      BY CellsAre DEF Zero
    <2>3. sign \o <<Char(Zero)>> \in Seq(Cell)
      BY <2>2, <1>4
    <2>. QED
      BY <2>1, <2>3, LeftIsWell
  <1>8. CASE IsSignedNumber(cells, 3) /\ value # n
    <2>1. Symb(cells) = IF \E i \in value .. Len(cells) - 1 : cells[i].tag # "number"
                        THEN RecognitionImpossible
                        ELSE IF Len(digits) <= DecDigits(Len(words)) THEN Left(sign \o digits) ELSE Overrun
      <3>1. ~(~IsSignedNumber(cells, 3)) /\ IsSignedNumber(cells, 3) /\ ~(value = Len(cells))
            /\ value # Len(cells)
        BY <1>8
      <3>. HIDE DEF words, digits
      <3>. QED
        BY <1>2, <3>1
    <2>2. CASE \E i \in value .. Len(cells) - 1 : cells[i].tag # "number"
      <3>1. Symb(cells) = RecognitionImpossible
        <4>. HIDE DEF words, digits
        <4>. QED
          BY <2>1, <2>2
      <3>. QED
        BY <3>1, LeftIsWell
    <2>3. CASE ~\E i \in value .. Len(cells) - 1 : cells[i].tag # "number"
      <3>1. value \in 3 .. n - 1
        BY <1>1, <1>3, <1>5, <1>8
      <3>2. ASSUME NEW i \in 1 .. n - value
            PROVE  cells[value + i - 1].tag = "number" /\ cells[value + i - 1].value \in Word
        <4>1. value + i - 1 \in value .. Len(cells) - 1 /\ value + i - 1 \in 1 .. Len(cells)
          BY <3>1, <1>1
        <4>2. cells[value + i - 1].tag = "number" /\ cells[value + i - 1] \in Cell
          BY <4>1, <2>3, <1>1
        <4>. QED
          BY <4>2 DEF Cell
      <3>3. words \in [1 .. n - value -> Word] /\ n - value \in Nat /\ n - value >= 1
        <4>1. words \in [1 .. n - value -> Word]
          BY <3>2
        <4>. HIDE DEF words
        <4>. QED
          BY <4>1, <3>1, <1>1
      <3>4. words[1] # 0
        <4>1. 1 \in 1 .. n - value /\ value + 1 - 1 = value
          BY <3>1, <1>1
        <4>2. words[1] = cells[value].value /\ cells[value].tag = "number" /\ cells[value] \in Cell
          BY <4>1, <3>1, <3>2, <1>1
        <4>3. cells[value].value = 0 => cells[value] = Number(0)
          BY <4>2 DEF Cell, Number
        <4>. QED
          BY <4>2, <4>3, <1>5
      <3>. HIDE DEF words
      <3>5. words \in Numerals
        <4>1. words \in Seq(Word) /\ Len(words) = n - value
          BY <3>3
        <4>2. words # <<>>
          BY <4>1, <3>3
        <4>. QED
          BY <4>1, <4>2 DEF Numerals
      <3>6. digits \in Seq(Cell) /\ Len(digits) <= DecDigits(Len(words))
        BY <3>4, <3>5, DigitsFit
      <3>. HIDE DEF digits
      <3>7. sign \o digits \in Seq(Cell)
        BY <3>6, <1>4
      <3>8. Symb(cells) = Left(sign \o digits)
        BY <2>1, <2>3, <3>6
      <3>. QED
        BY <3>7, <3>8, LeftIsWell
    <2>. QED
      BY <2>2, <2>3
  <1>. QED
    BY <1>6, <1>7, <1>8

-----------------------------------------------------------------------------
(* Chains of calls.                                                         *)

LEMMA ParsedIsSigned ==
  ASSUME NEW cells \in Seq(Cell), NEW p \in Nat, NumberPlace(cells, p) \in 1 .. Len(cells),
         IsSignedNumber(cells, p)
  PROVE  ParseSignedNumber(cells, p) \in SignedNumber
  <1> DEFINE c == cells[NumberPlace(cells, p)]
  <1>1. c \in Cell
    OBVIOUS
  <1>2. c.tag = "number"
    BY DEF IsSignedNumber
  <1>. HIDE DEF c
  <1>3. c.value \in Word
    BY <1>1, <1>2 DEF Cell
  <1>. QED
    BY <1>3 DEF ParseSignedNumber, SignedNumber, Signed, c

LEMMA ArgumentsAreSigned ==
  ASSUME NEW cells \in Seq(Cell), IsArithmArg(cells)
  PROVE  ArithmArg(cells).x \in SignedNumber /\ ArithmArg(cells).y \in SignedNumber
  <1> DEFINE first  == Places(cells)[1]
             second == Places(cells)[2]
  <1>1. \A p \in Nat : /\ NumberPlace(cells, p) \in Nat /\ NumberPlace(cells, p) >= p
                       /\ Behind(cells, p) = NumberPlace(cells, p) + 1
    BY DEF Behind, NumberPlace
  <1>2. \/ first = 3 /\ second = Behind(cells, 3)
        \/ first = 4 /\ second = Behind(cells, 4) + 1
    BY DEF Places
  <1>3. /\ IsSignedNumber(cells, first) /\ IsSignedNumber(cells, second)
        /\ Behind(cells, second) = Len(cells)
    BY DEF IsArithmArg
  <1>4. /\ ArithmArg(cells).x = ParseSignedNumber(cells, first)
        /\ ArithmArg(cells).y = ParseSignedNumber(cells, second)
    BY DEF ArithmArg
  <1>. HIDE DEF first, second
  <1>5. first \in Nat /\ first >= 3 /\ second \in Nat /\ second > NumberPlace(cells, first)
    <2>1. /\ NumberPlace(cells, 3) \in Nat /\ NumberPlace(cells, 3) >= 3
          /\ Behind(cells, 3) = NumberPlace(cells, 3) + 1
      BY <1>1
    <2>2. /\ NumberPlace(cells, 4) \in Nat /\ NumberPlace(cells, 4) >= 4
          /\ Behind(cells, 4) = NumberPlace(cells, 4) + 1
      BY <1>1
    <2>3. CASE first = 3 /\ second = Behind(cells, 3)
      BY <2>1, <2>3
    <2>4. CASE first = 4 /\ second = Behind(cells, 4) + 1
      BY <2>2, <2>4
    <2>. QED
      BY <2>3, <2>4, <1>2
  <1>6. NumberPlace(cells, second) \in Nat /\ NumberPlace(cells, second) >= second
    BY <1>1, <1>5
  <1>7. Behind(cells, second) = NumberPlace(cells, second) + 1
    BY <1>1, <1>5
  <1>8. NumberPlace(cells, first) \in Nat /\ NumberPlace(cells, first) >= first
    BY <1>1, <1>5
  <1>9. /\ NumberPlace(cells, second) \in 1 .. Len(cells)
        /\ NumberPlace(cells, first) \in 1 .. Len(cells)
    BY <1>3, <1>5, <1>6, <1>7, <1>8
  <1>. QED
    BY <1>3, <1>4, <1>5, <1>9, ParsedIsSigned

LEMMA EmplacedIsCells ==
  ASSUME NEW res, res.sign \in Int, res.value \in Word, NEW high \in Word
  PROVE  EmplaceNumber(res, high) \in Seq(Cell)
  <1> DEFINE S == {Minus, Number(high), Number(res.value)}
  <1>1. S \subseteq Cell
    BY CellsAre
  <1>2. EmplaceNumber(res, high) \in Seq(S)
    BY LengthOfNumber
  <1>. HIDE DEF S
  <1>3. \A s \in Seq(S) : s \in Seq(Cell)
    BY <1>1
  <1>. QED
    BY <1>2, <1>3

LEMMA InPlaceIsWell ==
  ASSUME NEW cells, NEW written \in Seq(Cell), InPlaceOf(cells, written).exit # "undefined"
  PROVE  InPlaceOf(cells, written) \in WellLeft
  BY LeftIsWell DEF InPlaceOf, Overrun

LEMMA SumIsWell ==
  ASSUME NEW cells, NEW arg, arg.x \in SignedNumber, arg.y \in SignedNumber,
         AddUp(cells, arg).exit # "undefined"
  PROVE  AddUp(cells, arg) \in WellLeft
  <1> DEFINE s == SumOf(arg.x, arg.y)
             c == Carry(arg.x, arg.y)
  <1>1. s.value \in Word /\ c \in Word
    <2>1. s.value \in Word /\ c \in {0, 1}
      BY SumIsExact
    <2>. QED
      BY <2>1, RadixIsNat DEF Word
  <1>2. s.sign \in Int
    <2>1. arg.x.sign \in {-1, 1} /\ arg.y.sign \in {-1, 1}
      BY DEF SignedNumber
    <2>. QED
      BY <2>1, SumHasSign
  <1>3. EmplaceNumber(s, c) \in Seq(Cell)
    <2>. HIDE DEF s, c
    <2>. QED
      BY <1>1, <1>2, EmplacedIsCells
  <1>. QED
    BY <1>3, InPlaceIsWell DEF AddUp

LEMMA QuotientIsWord ==
  ASSUME NEW a \in Word, NEW b \in Word, b # 0
  PROVE  a \div b \in Word /\ a % b \in Word
  <1>1. a \in Nat /\ b \in Nat \ {0} /\ a < Radix /\ b < Radix
    BY RadixIsNat DEF Word
  <1>2. /\ a \div b \in Nat /\ a % b \in Nat /\ a % b < b
        /\ a = b * (a \div b) + (a % b)
    BY <1>1, QuotientFacts
  <1> DEFINE q == a \div b
             m == a % b
  <1>3. q \in Nat /\ m \in Nat /\ m < b /\ a = b * q + m
    BY <1>2
  <1>. HIDE DEF q, m
  <1>4. q <= a
    <2>1. b * q >= q /\ b * q \in Nat
      BY <1>1, <1>3
    <2>. QED
      BY <2>1, <1>3
  <1>5. q \in Word /\ m \in Word
    BY <1>1, <1>3, <1>4, RadixIsNat DEF Word
  <1>. QED
    BY <1>5 DEF q, m

(* What the functions on words leave is made of cells. *)
LEMMA WordsLeaveCells ==
  ASSUME NEW cells \in Seq(Cell), NEW left \in WordFunctions(cells)
  PROVE  left \in WellLeft
  <1> DEFINE arg == ArithmArg(cells)
             x == arg.x
             y == arg.y
  <1>1. left.exit # "undefined"
    BY WordsStayInCall
  <1>2. IsArithmArg(cells) => x \in SignedNumber /\ y \in SignedNumber
    BY ArgumentsAreSigned
  <1>3. ASSUME NEW n \in SignedNumber PROVE n.value \in Word /\ n.sign \in {-1, 1} /\ n.sign \in Int
    BY DEF SignedNumber
  <1>4. RecognitionImpossible \in WellLeft /\ BuiltinError \in WellLeft
    BY LeftIsWell
  <1>5. ASSUME NEW ok, Division(cells, ok).exit # "undefined",
               IsArithmArg(cells) /\ y.value # 0 /\ ok.exit # "undefined" => ok \in WellLeft
        PROVE  Division(cells, ok) \in WellLeft
    <2>1. CASE ~IsArithmArg(cells)
      BY <2>1, <1>4 DEF Division
    <2>2. CASE IsArithmArg(cells) /\ y.value = 0
      BY <2>2, <1>4 DEF Division
    <2>3. CASE IsArithmArg(cells) /\ y.value # 0
      <3>1. Division(cells, ok) = ok
        BY <2>3 DEF Division
      <3>. QED
        BY <3>1, <2>3, <1>5
    <2>. QED
      BY <2>1, <2>2, <2>3
  <1>6. 0 \in Word
    BY RadixIsNat DEF Word
  <1>7. CASE left = Inc(cells)
    <2>1. CASE IsSignedNumber(cells, 3) /\ Behind(cells, 3) = Len(cells)
      <3> DEFINE one == [x |-> ParseSignedNumber(cells, 3), y |-> Signed(1, 1)]
      <3>1. NumberPlace(cells, 3) \in 1 .. Len(cells)
        BY <2>1 DEF Behind, NumberPlace
      <3>2. one.x \in SignedNumber
        BY <2>1, <3>1, ParsedIsSigned
      <3>3. one.y \in SignedNumber
        BY RadixIsNat DEF SignedNumber, Signed, Word
      <3>4. Inc(cells) = AddUp(cells, one)
        BY <2>1 DEF Inc
      <3>. HIDE DEF one
      <3>. QED
        BY <3>2, <3>3, <3>4, <1>1, <1>7, SumIsWell
    <2>2. CASE ~(IsSignedNumber(cells, 3) /\ Behind(cells, 3) = Len(cells))
      <3>1. Inc(cells) = RecognitionImpossible
        BY <2>2 DEF Inc
      <3>. QED
        BY <3>1, <1>4, <1>7
    <2>. QED
      BY <2>1, <2>2
  <1>8. CASE left = Add(cells)
    <2>. HIDE DEF arg
    <2>1. Add(cells) = IF IsArithmArg(cells) THEN AddUp(cells, arg) ELSE RecognitionImpossible
      BY DEF Add, arg
    <2>. QED
      BY <2>1, <1>1, <1>2, <1>4, <1>8, SumIsWell
  <1>9. CASE left = Sub(cells)
    <2> DEFINE neg == [arg EXCEPT !.y = Negated(@)]
    <2>1. neg.x = x /\ neg.y = Negated(y)
      BY DEF ArithmArg
    <2>2. IsArithmArg(cells) => neg.x \in SignedNumber /\ neg.y \in SignedNumber
      <3>1. ASSUME NEW n \in SignedNumber PROVE Negated(n) \in SignedNumber
        BY DEF SignedNumber, Negated, Signed
      <3>. HIDE DEF neg, arg
      <3>. QED
        BY <2>1, <3>1, <1>2
    <2>3. Sub(cells) = IF IsArithmArg(cells) THEN AddUp(cells, neg) ELSE RecognitionImpossible
      BY DEF Sub
    <2>. HIDE DEF neg, arg
    <2>. QED
      BY <2>2, <2>3, <1>1, <1>4, <1>9, SumIsWell
  <1>10. CASE left = Mul(cells)
    <2> DEFINE both == LongProduct(x.value, y.value)
               res  == Signed(x.sign * y.sign, both.value)
    <2>1. Mul(cells) = IF IsArithmArg(cells)
                       THEN InPlaceOf(cells, EmplaceNumber(res, both.high))
                       ELSE RecognitionImpossible
      BY DEF Mul
    <2>2. ASSUME IsArithmArg(cells) PROVE EmplaceNumber(res, both.high) \in Seq(Cell)
      <3>1. x.value \in Word /\ y.value \in Word /\ x.sign \in {-1, 1} /\ y.sign \in {-1, 1}
        BY <1>2, <1>3, <2>2
      <3>. HIDE DEF arg
      <3>2. both.value \in Word /\ both.high \in Word
        BY <3>1, LongProductIsExact
      <3>3. res.sign \in Int /\ res.value = both.value
        BY <3>1 DEF Signed
      <3>. HIDE DEF res, both
      <3>. QED
        BY <3>2, <3>3, EmplacedIsCells
    <2>. HIDE DEF res, both
    <2>3. CASE IsArithmArg(cells)
      BY <2>1, <2>2, <2>3, <1>1, <1>10, InPlaceIsWell
    <2>4. CASE ~IsArithmArg(cells)
      BY <2>1, <2>4, <1>4, <1>10
    <2>. QED
      BY <2>3, <2>4
  <1>10a. ASSUME IsArithmArg(cells), y.value # 0
          PROVE  /\ EmplaceNumber(Quotient(x, y), 0) \in Seq(Cell)
                 /\ EmplaceNumber(Remainder(x, y), 0) \in Seq(Cell)
    <2>1. x.value \in Word /\ y.value \in Word /\ x.sign \in {-1, 1} /\ y.sign \in {-1, 1}
      BY <1>2, <1>3, <1>10a
    <2>. HIDE DEF arg
    <2>2. /\ Quotient(x, y).value \in Word /\ Quotient(x, y).sign \in Int
          /\ Remainder(x, y).value \in Word /\ Remainder(x, y).sign \in Int
      <3>1. x.value \div y.value \in Word /\ x.value % y.value \in Word
        BY <2>1, <1>10a, QuotientIsWord
      <3>2. x.sign * y.sign \in Int /\ x.sign \in Int
        <4>1. \A a, b \in {-1, 1} : a * b \in Int /\ a \in Int
          OBVIOUS
        <4>. QED
          BY <4>1, <2>1
      <3>. QED
        BY <3>1, <3>2 DEF Quotient, Remainder, Signed
    <2>. QED
      BY <2>2, <1>6, EmplacedIsCells
  <1>11. CASE left = Div(cells)
    <2> DEFINE ok == InPlaceOf(cells, EmplaceNumber(Quotient(x, y), 0))
    <2>1. Div(cells) = Division(cells, ok)
      BY DEF Div
    <2>2. IsArithmArg(cells) /\ y.value # 0 /\ ok.exit # "undefined" => ok \in WellLeft
      BY <1>10a, InPlaceIsWell
    <2>. HIDE DEF ok, arg
    <2>. QED
      BY <2>1, <2>2, <1>1, <1>5, <1>11
  <1>12. CASE left = Mod(cells)
    <2> DEFINE ok == InPlaceOf(cells, EmplaceNumber(Remainder(x, y), 0))
    <2>1. Mod(cells) = Division(cells, ok)
      BY DEF Mod
    <2>2. IsArithmArg(cells) /\ y.value # 0 /\ ok.exit # "undefined" => ok \in WellLeft
      BY <1>10a, InPlaceIsWell
    <2>. HIDE DEF ok, arg
    <2>. QED
      BY <2>1, <2>2, <1>1, <1>5, <1>12
  <1>13. CASE left = Divmod(cells)
    <2> DEFINE written == QuotientAndRemainder(arg)
               ok == IF Len(written) = Len(cells) THEN Left(written) ELSE InPlaceOf(cells, written)
    <2>1. Divmod(cells) = Division(cells, ok)
      BY DEF Divmod
    <2>2. ASSUME IsArithmArg(cells), y.value # 0 PROVE written \in Seq(Cell)
      <3> DEFINE q == EmplaceNumber(Quotient(x, y), 0)
                 m == EmplaceNumber(Remainder(x, y), 0)
      <3>1. q \in Seq(Cell) /\ m \in Seq(Cell)
        BY <1>10a, <2>2
      <3>2. <<Other("open")>> \in Seq(Cell) /\ <<Other("close")>> \in Seq(Cell)
        BY CellsAre
      <3>3. written = ((<<Other("open")>> \o q) \o <<Other("close")>>) \o m
        BY DEF QuotientAndRemainder
      <3>. HIDE DEF q, m, written
      <3>4. \A a, b \in Seq(Cell) : a \o b \in Seq(Cell)
        OBVIOUS
      <3>. QED
        BY <3>1, <3>2, <3>3, <3>4
    <2>. HIDE DEF written
    <2>3. IsArithmArg(cells) /\ y.value # 0 /\ ok.exit # "undefined" => ok \in WellLeft
      BY <2>2, InPlaceIsWell, LeftIsWell
    <2>. HIDE DEF ok, arg
    <2>. QED
      BY <2>1, <2>3, <1>1, <1>5, <1>13
  <1>14. CASE left = Compare(cells)
    <2> DEFINE order == Order(x, y)
               sign == <<IF order < 0 THEN Minus ELSE IF order > 0 THEN Plus ELSE Char(Zero)>>
    <2>1. sign \in Seq(Cell)
      <3>1. Minus \in Cell /\ Plus \in Cell /\ Char(Zero) \in Cell
        BY CellsAre DEF Zero
      <3>. HIDE DEF order
      <3>. QED
        BY <3>1
    <2>2. Compare(cells) = IF IsArithmArg(cells) THEN InPlaceOf(cells, sign) ELSE RecognitionImpossible
      BY DEF Compare
    <2>. HIDE DEF sign
    <2>. QED
      BY <2>1, <2>2, <1>1, <1>4, <1>14, InPlaceIsWell
  <1>. QED
    BY <1>7, <1>8, <1>9, <1>10, <1>11, <1>12, <1>13, <1>14 DEF WordFunctions

LEMMA CallIsCells ==
  ASSUME NEW f, NEW x \in Seq(Cell), NEW y \in Seq(Cell), NEW bracket
  PROVE  CallOf(f, x, y, bracket) \in CallCells
  <1> DEFINE begin == <<Other("open_call"), Other("function")>>
             first == IF bracket THEN <<Other("open")>> \o x \o <<Other("close")>> ELSE x
             second == IF f \in Unary THEN <<>> ELSE y
             end == <<Other("close_call")>>
             open == <<Other("open")>>
             close == <<Other("close")>>
  <1>1. begin \in Seq(Cell) /\ Len(begin) = 2
    BY CellsAre
  <1>2. end \in Seq(Cell) /\ Len(end) = 1 /\ end[1] = Other("close_call")
    BY CellsAre
  <1>3. open \in Seq(Cell) /\ close \in Seq(Cell)
    BY CellsAre
  <1>4. \A s, t \in Seq(Cell) : s \o t \in Seq(Cell) /\ Len(s \o t) = Len(s) + Len(t) /\ Len(s) \in Nat
    OBVIOUS
  <1>5. \A s \in Seq(Cell) : (s \o end)[Len(s) + 1] = end[1]
    BY <1>2
  <1>6. CallOf(f, x, y, bracket) = ((begin \o first) \o second) \o end
    BY DEF CallOf
  <1>7. first = IF bracket THEN (open \o x) \o close ELSE x
    OBVIOUS
  <1>. HIDE DEF begin, first, end, open, close
  <1>8. first \in Seq(Cell)
    <2>1. (open \o x) \o close \in Seq(Cell)
      BY <1>3, <1>4
    <2>. QED
      BY <1>7, <2>1
  <1>9. second \in Seq(Cell)
    OBVIOUS
  <1>. HIDE DEF second
  <1> DEFINE s == (begin \o first) \o second
  <1>10. s \in Seq(Cell) /\ Len(s) \in Nat /\ Len(s) >= 2
    <2>1. begin \o first \in Seq(Cell) /\ Len(begin \o first) = 2 + Len(first) /\ Len(first) \in Nat
      BY <1>1, <1>4, <1>8
    <2>2. s \in Seq(Cell) /\ Len(s) = Len(begin \o first) + Len(second) /\ Len(second) \in Nat
      BY <2>1, <1>4, <1>9
    <2>. QED
      BY <2>1, <2>2
  <1>. HIDE DEF s
  <1>11. s \o end \in Seq(Cell) /\ Len(s \o end) = Len(s) + 1
    <2>1. s \o end \in Seq(Cell) /\ Len(s \o end) = Len(s) + Len(end)
      BY <1>2, <1>4, <1>10
    <2>. QED
      BY <2>1, <1>2
  <1>12. (s \o end)[Len(s) + 1] = Other("close_call")
    BY <1>2, <1>5, <1>10
  <1>13. s \o end \in CallCells
    <2> DEFINE c == s \o end
    <2>1. c \in Seq(Cell) /\ Len(c) = Len(s) + 1 /\ c[Len(s) + 1] = Other("close_call")
      BY <1>11, <1>12
    <2>. HIDE DEF c
    <2>2. Len(c) >= 3 /\ c[Len(c)] = Other("close_call")
      BY <2>1, <1>10
    <2>3. c \in CallCells
      BY <2>1, <2>2 DEF CallCells
    <2>. QED
      BY <2>3 DEF c
  <1>. QED
    BY <1>6, <1>13 DEF s

LEMMA PerformStays ==
  ASSUME NEW f \in Unary \cup Binary, NEW cells \in CallCells
  PROVE  Perform(f, cells) \in WellLeft
  <1>1. cells \in Seq(Cell)
    BY DEF CallCells
  <1>2. \A left \in WordFunctions(cells) : left \in WellLeft
    BY <1>1, WordsLeaveCells
  <1>3. /\ Inc(cells) \in WellLeft /\ Add(cells) \in WellLeft /\ Sub(cells) \in WellLeft
        /\ Mul(cells) \in WellLeft /\ Div(cells) \in WellLeft /\ Mod(cells) \in WellLeft
        /\ Divmod(cells) \in WellLeft /\ Compare(cells) \in WellLeft
    BY <1>2 DEF WordFunctions
  <1>4. Symb(cells) \in WellLeft /\ Numb(cells) \in WellLeft
    BY SymbStays, NumbStays
  <1>5. f \in {"Inc", "Symb", "Numb", "Add", "Sub", "Mul", "Div", "Mod", "Divmod", "Compare"}
    BY DEF Unary, Binary
  <1>. QED
    BY <1>3, <1>4, <1>5 DEF Perform

\* What is between two calls, and what a call is made of.
CallsTyped ==
  /\ result \in WellLeft
  /\ \/ call = NoCall
     \/ call \in [callee : Unary \cup Binary, operand : Seq(Cell), bracket : BOOLEAN]

(* Numb, Symb and the functions on words never write over the end of their call, in whatever
   chain: each gets what another one left, or numbers and texts of the program. *)
THEOREM ChainsStayInCall == Spec => []StaysInCall
  <1>1. Init => CallsTyped
    <2>. SUFFICES ASSUME Init PROVE CallsTyped
      OBVIOUS
    <2>1. result.cells \in Seq(Cell) /\ result = Left(result.cells)
      BY ProgramAssumption DEF Init, Left
    <2>2. result \in WellLeft
      BY <2>1, LeftIsWell
    <2>. QED
      BY <2>2 DEF Init, CallsTyped
  <1>2. CallsTyped /\ [Next]_avars => CallsTyped'
    <2>. SUFFICES ASSUME CallsTyped, [Next]_avars PROVE CallsTyped'
      OBVIOUS
    <2>1. ASSUME NEW f \in Unary, AskUnary(f) PROVE CallsTyped'
      <3>1. <<Number(0)>> \in Seq(Cell)
        <4>1. Number(0) \in Cell
          BY CellsAre, RadixIsNat DEF Word
        <4>. QED
          BY <4>1
      <3>2. call' = [callee |-> f, operand |-> <<Number(0)>>, bracket |-> FALSE] /\ result' = result
        BY <2>1 DEF AskUnary, NoCall
      <3>. QED
        BY <3>1, <3>2 DEF CallsTyped
    <2>2. ASSUME NEW f \in Binary, NEW y \in Operands, NEW bracket \in BOOLEAN, AskBinary(f, y, bracket)
          PROVE  CallsTyped'
      <3>1. y \in Seq(Cell)
        BY ProgramAssumption
      <3>. QED
        BY <2>2, <3>1 DEF AskBinary, CallsTyped
    <2>3. CASE Step
      <3> DEFINE cells == CallOf(call.callee, result.cells, call.operand, call.bracket)
      <3>1. /\ call.callee \in Unary \cup Binary /\ call.operand \in Seq(Cell)
            /\ result.cells \in Seq(Cell)
        BY <2>3 DEF Step, CallsTyped, WellLeft
      <3>2. cells \in CallCells
        BY <3>1, CallIsCells
      <3>. HIDE DEF cells
      <3>3. Perform(call.callee, cells) \in WellLeft
        BY <3>1, <3>2, PerformStays
      <3>4. result' = Perform(call.callee, cells) /\ call' = NoCall
        BY <2>3 DEF Step, cells
      <3>. QED
        BY <3>3, <3>4 DEF CallsTyped
    <2>4. CASE UNCHANGED avars
      BY <2>4 DEF avars, CallsTyped
    <2>. QED
      BY <2>1, <2>2, <2>3, <2>4 DEF Next
  <1>3. CallsTyped => StaysInCall
    BY DEF CallsTyped, WellLeft, StaysInCall
  <1>. QED
    BY <1>1, <1>2, <1>3, PTL DEF Spec

-----------------------------------------------------------------------------
(* What the digits of Symb stand for.                                       *)

LEMMA DivisionUnique ==
  ASSUME NEW d \in Nat \ {0}, NEW q \in Nat, NEW rr \in Nat, rr < d
  PROVE  (d * q + rr) \div d = q /\ (d * q + rr) % d = rr
  <1> DEFINE a == d * q + rr
             x == a \div d
             y == a % d
  <1>1. a \in Nat /\ a = d * q + rr
    OBVIOUS
  <1>. HIDE DEF a
  <1>2. x \in Nat /\ y \in Nat /\ y < d /\ a = d * x + y
    BY <1>1, QuotientFacts
  <1>. HIDE DEF x, y
  <1>3. \A m, n \in Nat, s, t \in Nat : m < n /\ s < d => d * m + s < d * n + t
    <2>1. ASSUME NEW m \in Nat, NEW n \in Nat, NEW s \in Nat, NEW t \in Nat, m < n, s < d
          PROVE  d * m + s < d * n + t
      <3>1. PICK e \in Nat : n = m + 1 + e
        <4>1. n - m - 1 \in Nat /\ n = m + 1 + (n - m - 1)
          BY <2>1
        <4>. QED
          BY <4>1
      <3>2. d * n = d * m + d + d * e /\ d * e \in Nat /\ d * m \in Nat
        BY <3>1
      <3>. QED
        BY <3>2, <2>1
    <2>. QED
      BY <2>1
  <1>4. ~(x < q) /\ ~(q < x)
    BY <1>1, <1>2, <1>3
  <1>5. x = q
    BY <1>2, <1>4
  <1>6. y = rr
    <2>1. d * x \in Nat /\ d * x = d * q
      BY <1>2, <1>5
    <2>. QED
      BY <2>1, <1>1, <1>2
  <1>. QED
    BY <1>5, <1>6 DEF a, x, y

\* Division in two steps.
LEMMA DivisionOfQuotient ==
  ASSUME NEW a \in Nat, NEW b \in Nat \ {0}, NEW c \in Nat \ {0}
  PROVE  /\ (a \div b) \div c = a \div (b * c)
         /\ a % (b * c) = b * ((a \div b) % c) + (a % b)
  <1> DEFINE x == a \div b
             rr == a % b
             y == x \div c
             s == x % c
  <1>1. x \in Nat /\ rr \in Nat /\ rr < b /\ a = b * x + rr
    BY QuotientFacts
  <1>. HIDE DEF x, rr
  <1>2. y \in Nat /\ s \in Nat /\ s < c /\ x = c * y + s
    BY <1>1, QuotientFacts
  <1>. HIDE DEF y, s
  <1>3. s * b + rr \in Nat /\ s * b + rr < c * b
    BY <1>1, <1>2, MixedSmall
  <1> DEFINE e == b * c
             t == s * b + rr
  <1>4. e \in Nat \ {0} /\ e = c * b
    OBVIOUS
  <1>5. a = e * y + t
    <2>1. b * (c * y + s) = (b * c) * y + s * b
      BY <1>2
    <2>2. (b * c) * y \in Nat /\ s * b \in Nat
      BY <1>2
    <2>. QED
      BY <2>1, <2>2, <1>1, <1>2
  <1>6. b * s + rr = t
    BY <1>2
  <1>7. t \in Nat /\ t < e
    BY <1>3, <1>4
  <1>. HIDE DEF e, t
  <1>8. a \div e = y /\ a % e = t
    BY <1>2, <1>4, <1>5, <1>7, DivisionUnique
  <1>9. (a \div b) \div c = y /\ (a \div b) % c = s /\ a % b = rr /\ b * c = e
    BY Zenon DEF e, x, rr, y, s
  <1>10. (a \div b) \div c = a \div (b * c)
    BY <1>8, <1>9
  <1>11. b * ((a \div b) % c) + (a % b) = b * s + rr
    BY <1>9
  <1>12. a % (b * c) = t
    BY <1>8, <1>9
  <1>. QED
    BY <1>6, <1>10, <1>11, <1>12

\* The last k figures of n stand for the remainder of n.
LEMMA LastFigures ==
  ASSUME NEW n \in Nat, NEW k \in Nat
  PROVE  LET v == [i \in 1 .. k |-> (n \div Power(10, k - i)) % 10]
         IN  /\ v \in Seq(0 .. 9) /\ Len(v) = k
             /\ NumberOf(10, v) = n % Power(10, k)
             /\ k >= 1 /\ Power(10, k - 1) <= n /\ n < Power(10, k) => v[1] # 0
  <1> DEFINE v == [i \in 1 .. k |-> (n \div Power(10, k - i)) % 10]
             Up(j) == n \div Power(10, k - j)
             T == {j \in 0 .. k : Horner(10, v, j) = Up(j) % Power(10, j)}
  <1>1. \A j \in 0 .. k : k - j \in Nat
    OBVIOUS
  <1>2. \A j \in Nat : /\ Power(10, j) \in Nat \ {0}
                       /\ Power(10, j + 1) = 10 * Power(10, j)
    <2>1. \A j \in Nat : Power(10, j) \in Nat /\ Power(10, j) >= 1 /\ Power(10, j + 1) = 10 * Power(10, j)
      BY PowerIs, PowerPositive
    <2>. QED
      BY <2>1
  <1>3. \A j \in 0 .. k : Up(j) \in Nat
    <2>1. ASSUME NEW j \in 0 .. k PROVE Up(j) \in Nat
      <3>1. Power(10, k - j) \in Nat \ {0}
        BY <1>1, <1>2
      <3>. QED
        BY <3>1, QuotientFacts
    <2>. QED
      BY <2>1
  <1>4. \A x \in Nat : x % 10 \in 0 .. 9
    OBVIOUS
  <1>5. \A i \in 1 .. k : v[i] = Up(i) % 10 /\ v[i] \in 0 .. 9 /\ i \in 0 .. k
    <2>1. \A i \in 1 .. k : v[i] = Up(i) % 10 /\ i \in 0 .. k
      OBVIOUS
    <2>. HIDE DEF v, Up
    <2>. QED
      BY <2>1, <1>3, <1>4
  <1>6. v \in Seq(0 .. 9) /\ v \in Seq(Nat) /\ Len(v) = k
    <2>1. v = [i \in 1 .. k |-> v[i]]
      OBVIOUS
    <2>. HIDE DEF v, Up
    <2>2. v \in [1 .. k -> 0 .. 9]
      BY <2>1, <1>5
    <2>3. v \in Seq(0 .. 9) /\ Len(v) = k
      BY <2>2, FunctionIsSeq
    <2>4. v \in Seq(Nat)
      BY <2>3
    <2>. QED
      BY <2>3, <2>4
  <1>7. Power(10, 0) = 1
    BY PowerIs
  <1>8. \A x \in Nat : x % 1 = 0 /\ x \div 1 = x
    OBVIOUS
  <1>. HIDE DEF v
  <1>9. 0 \in T
    <2>1. Horner(10, v, 0) = 0
      BY <1>6, HornerIs
    <2>2. Up(0) \in Nat
      BY <1>3
    <2>. HIDE DEF Up
    <2>. QED
      BY <2>1, <2>2, <1>7, <1>8
  <1>10. ASSUME NEW j \in 1 .. k, j - 1 \in T PROVE j \in T
    <2> DEFINE m == Up(j)
               P == Power(10, j - 1)
    <2>1. /\ j \in 0 .. k /\ j - 1 \in 0 .. k /\ j - 1 \in Nat /\ (j - 1) + 1 = j
          /\ k - j \in Nat /\ k - (j - 1) = (k - j) + 1
      OBVIOUS
    <2>2. m \in Nat /\ P \in Nat \ {0} /\ Power(10, j) = 10 * P
      BY <2>1, <1>2, <1>3
    <2>3. Up(j - 1) = m \div 10
      <3> DEFINE Q == Power(10, k - j)
      <3>1. Q \in Nat \ {0} /\ Power(10, k - (j - 1)) = Q * 10
        <4>1. Q \in Nat \ {0} /\ Power(10, (k - j) + 1) = 10 * Q
          BY <2>1, <1>2
        <4>2. 10 * Q = Q * 10
          BY <4>1
        <4>. QED
          BY <4>1, <4>2, <2>1
      <3>2. 10 \in Nat \ {0}
        OBVIOUS
      <3>. HIDE DEF Q
      <3>3. (n \div Q) \div 10 = n \div (Q * 10)
        BY <3>1, <3>2, DivisionOfQuotient
      <3>. QED
        BY <3>1, <3>3 DEF Q
    <2>4. Horner(10, v, j) = Horner(10, v, j - 1) * 10 + v[j] /\ v[j] = m % 10
      <3>1. j \in 1 .. Len(v)
        BY <1>6
      <3>. QED
        BY <3>1, <1>5, <1>6, HornerIs
    <2>5. Horner(10, v, j - 1) = (m \div 10) % P
      BY <2>3, <1>10
    <2>6. m % (10 * P) = 10 * ((m \div 10) % P) + (m % 10)
      <3>2. 10 \in Nat \ {0}
        OBVIOUS
      <3>. HIDE DEF m, P
      <3>. QED
        BY <2>2, <3>2, DivisionOfQuotient
    <2>7. (m \div 10) % P \in Nat /\ m % 10 \in Nat
      <3>1. m \div 10 \in Nat /\ m % 10 \in Nat
        BY <2>2
      <3>. HIDE DEF m, P
      <3>. QED
        BY <3>1, <2>2, QuotientFacts
    <2>8. Horner(10, v, j) = m % Power(10, j)
      <3> DEFINE x == (m \div 10) % P
                 y == m % 10
      <3>1. 10 * x + y = x * 10 + y
        BY <2>7
      <3>. QED
        BY <3>1, <2>2, <2>4, <2>5, <2>6
    <2>. QED
      BY <2>1, <2>8
  <1>. HIDE DEF T
  <1>11. 0 .. k \subseteq T
    BY <1>9, <1>10, InductionOnRange
  <1>12. NumberOf(10, v) = n % Power(10, k)
    <2>1. k \in T
      BY <1>11
    <2>2. Horner(10, v, k) = (n \div Power(10, k - k)) % Power(10, k)
      BY <2>1 DEF T
    <2>3. k - k = 0 /\ n \div 1 = n
      BY <1>8
    <2>. QED
      BY <2>2, <2>3, <1>6, <1>7, HornerIs
  <1>13. ASSUME k >= 1, Power(10, k - 1) <= n, n < Power(10, k) PROVE v[1] # 0
    <2> DEFINE P == Power(10, k - 1)
               x == n \div P
    <2>1. k - 1 \in Nat /\ (k - 1) + 1 = k /\ 1 \in 1 .. k
      BY <1>13
    <2>2. P \in Nat \ {0} /\ Power(10, k) = 10 * P
      BY <2>1, <1>2
    <2>3. v[1] = x % 10
      BY <2>1, <1>5
    <2>4. P <= n /\ n < 10 * P
      BY <1>13, <2>2
    <2> DEFINE y == n % P
    <2>. HIDE DEF P
    <2>5. x \in Nat /\ y \in Nat /\ y < P /\ n = P * x + y
      BY <2>2, QuotientFacts
    <2>. HIDE DEF x, y
    <2>6. x < 10
      <3>1. P * x <= n /\ n < P * 10
        <4>1. P * x \in Nat /\ P * 10 = 10 * P
          BY <2>2, <2>5
        <4>2. P * x <= n
          BY <4>1, <2>5
        <4>. QED
          BY <4>1, <4>2, <2>4
      <3>. QED
        BY <3>1, <2>2, <2>5, FactorSmall
    <2>7. x # 0
      <3>1. P * 0 = 0
        BY <2>2
      <3>. QED
        BY <3>1, <2>2, <2>4, <2>5
    <2>8. x % 10 = x
      BY <2>5, <2>6
    <2>. QED
      BY <2>3, <2>7, <2>8
  <1>. QED
    BY <1>6, <1>12, <1>13 DEF v

\* The figures that digits show.
Figures(cells) == [i \in DOMAIN cells |-> cells[i].value - Zero]

LEMMA FiguresAre ==
  /\ \A c \in Digit : c \in Cell /\ c.value - Zero \in 0 .. 9 /\ (c.value - Zero = 0 <=> c = Char(Zero))
  /\ \A s \in Seq(Digit) : /\ Figures(s) \in Seq(0 .. 9) /\ Figures(s) \in Seq(Nat) /\ Len(Figures(s)) = Len(s)
                           /\ s \in Seq(Cell)
                           /\ \A i \in 1 .. Len(s) : Figures(s)[i] = s[i].value - Zero
  /\ \A s, t \in Seq(Digit) : Figures(s \o t) = Figures(s) \o Figures(t)
  <1>1. ASSUME NEW c \in Digit
        PROVE  c \in Cell /\ c.value - Zero \in 0 .. 9 /\ (c.value - Zero = 0 <=> c = Char(Zero))
    <2>1. PICK d \in 0 .. 9 : c = Char(Zero + d)
      BY DEF Digit
    <2>2. c.value = Zero + d /\ Zero + d \in Nat /\ Zero \in Nat
      BY <2>1 DEF Char, Zero
    <2>3. c \in Cell
      BY <2>1, <2>2, CellsAre
    <2>4. c.value - Zero = d
      BY <2>2
    <2>5. d = 0 <=> c = Char(Zero)
      <3>1. Char(Zero).value = Zero
        BY DEF Char
      <3>. QED
        BY <3>1, <2>1, <2>2
    <2>. QED
      BY <2>3, <2>4, <2>5
  <1>2. ASSUME NEW s \in Seq(Digit)
        PROVE  /\ Figures(s) \in Seq(0 .. 9) /\ Figures(s) \in Seq(Nat) /\ Len(Figures(s)) = Len(s)
               /\ s \in Seq(Cell)
               /\ \A i \in 1 .. Len(s) : Figures(s)[i] = s[i].value - Zero
    <2> DEFINE n == Len(s)
    <2>1. n \in Nat /\ DOMAIN s = 1 .. n /\ \A i \in 1 .. n : s[i] \in Digit
      OBVIOUS
    <2>. HIDE DEF n
    <2>2. Figures(s) = [i \in 1 .. n |-> s[i].value - Zero]
      BY <2>1 DEF Figures
    <2>3. Figures(s) \in [1 .. n -> 0 .. 9] /\ Figures(s) \in [1 .. n -> Nat]
      BY <2>1, <2>2, <1>1
    <2>4. Figures(s) \in Seq(0 .. 9) /\ Figures(s) \in Seq(Nat) /\ Len(Figures(s)) = n
      BY <2>1, <2>3, FunctionIsSeq
    <2>5. s \in Seq(Cell)
      BY <2>1, <1>1 DEF n
    <2>. QED
      BY <2>2, <2>4, <2>5 DEF n
  <1>3. ASSUME NEW s \in Seq(Digit), NEW t \in Seq(Digit)
        PROVE  Figures(s \o t) = Figures(s) \o Figures(t)
    <2> DEFINE m == Len(s)
               n == Len(t)
               u == s \o t
               a == Figures(s)
               b == Figures(t)
    <2>1. /\ m \in Nat /\ n \in Nat /\ u \in Seq(Digit) /\ Len(u) = m + n
          /\ \A i \in 1 .. m : u[i] = s[i]
          /\ \A i \in 1 .. n : u[m + i] = t[i]
      OBVIOUS
    <2>2. /\ a \in Seq(Nat) /\ Len(a) = m /\ b \in Seq(Nat) /\ Len(b) = n
          /\ \A i \in 1 .. m : a[i] = s[i].value - Zero
          /\ \A i \in 1 .. n : b[i] = t[i].value - Zero
      BY <1>2
    <2>. HIDE DEF u, a, b, m, n
    <2>3. /\ Figures(u) \in Seq(Nat) /\ Len(Figures(u)) = m + n
          /\ \A i \in 1 .. m + n : Figures(u)[i] = u[i].value - Zero
      BY <2>1, <1>2
    <2>4. /\ a \o b \in Seq(Nat) /\ Len(a \o b) = m + n
          /\ \A i \in 1 .. m : (a \o b)[i] = a[i]
          /\ \A i \in 1 .. n : (a \o b)[m + i] = b[i]
      <3>1. \A x, y \in Seq(Nat) :
              /\ x \o y \in Seq(Nat) /\ Len(x \o y) = Len(x) + Len(y)
              /\ \A i \in 1 .. Len(x) : (x \o y)[i] = x[i]
              /\ \A i \in 1 .. Len(y) : (x \o y)[Len(x) + i] = y[i]
        OBVIOUS
      <3>. QED
        BY <3>1, <2>2
    <2>5. ASSUME NEW i \in 1 .. m + n PROVE Figures(u)[i] = (a \o b)[i]
      <3>1. CASE i <= m
        <4>1. i \in 1 .. m /\ (a \o b)[i] = a[i]
          BY <3>1, <2>1, <2>4
        <4>. QED
          BY <4>1, <2>1, <2>2, <2>3
      <3>2. CASE i > m
        <4>1. PICK j \in 1 .. n : i = m + j
          <5>1. i - m \in 1 .. n /\ i = m + (i - m)
            BY <3>2, <2>1
          <5>. QED
            BY <5>1
        <4>2. (a \o b)[m + j] = b[j]
          BY <2>4
        <4>3. u[m + j] = t[j] /\ b[j] = t[j].value - Zero
          BY <2>1, <2>2
        <4>4. Figures(u)[i] = u[i].value - Zero
          BY <2>3
        <4>. QED
          BY <4>1, <4>2, <4>3, <4>4
      <3>3. i <= m \/ i > m
        BY <2>1
      <3>. QED
        BY <3>1, <3>2, <3>3
    <2>. HIDE DEF Figures
    <2>6. Figures(u) = a \o b
      <3> DEFINE x == Figures(u)
                 y == a \o b
      <3>1. x \in Seq(Nat) /\ y \in Seq(Nat) /\ Len(x) = Len(y) /\ \A i \in 1 .. Len(x) : x[i] = y[i]
        BY <2>3, <2>4, <2>5
      <3>. HIDE DEF x, y
      <3>2. x = y
        BY <3>1
      <3>. QED
        BY <3>2 DEF x, y
    <2>. QED
      BY <2>6 DEF u, a, b
  <1>. QED
    BY <1>1, <1>2, <1>3

LEMMA LastDigitsShow ==
  ASSUME NEW n \in Nat, NEW k \in Nat
  PROVE  LET s == LastDigits(n, k)
         IN  /\ s \in Seq(Digit) /\ Len(s) = k
             /\ NumberOf(10, Figures(s)) = n % Power(10, k)
             /\ k >= 1 /\ Power(10, k - 1) <= n /\ n < Power(10, k) => s[1] # Char(Zero)
  <1> DEFINE v == [i \in 1 .. k |-> (n \div Power(10, k - i)) % 10]
             s == LastDigits(n, k)
  <1>1. /\ v \in Seq(0 .. 9) /\ Len(v) = k
        /\ NumberOf(10, v) = n % Power(10, k)
        /\ k >= 1 /\ Power(10, k - 1) <= n /\ n < Power(10, k) => v[1] # 0
    BY LastFigures
  <1>2. s = [i \in 1 .. k |-> Char(Zero + v[i])]
    BY DEF LastDigits
  <1>. HIDE DEF v, s
  <1>3. \A i \in 1 .. k : v[i] \in 0 .. 9
    BY <1>1
  <1>4. s \in [1 .. k -> Digit]
    BY <1>2, <1>3 DEF Digit
  <1>5. s \in Seq(Digit) /\ Len(s) = k
    BY <1>4, FunctionIsSeq
  <1>6. \A i \in 1 .. k : s[i].value - Zero = v[i]
    <2>1. \A x \in 0 .. 9 : Char(Zero + x).value - Zero = x
      BY DEF Char, Zero
    <2>. QED
      BY <2>1, <1>2, <1>3
  <1>7. Figures(s) = v
    <2> DEFINE f == Figures(s)
    <2>1. f \in Seq(0 .. 9) /\ Len(f) = k /\ \A i \in 1 .. k : f[i] = v[i]
      BY <1>5, <1>6, FiguresAre
    <2>. HIDE DEF f
    <2>2. f = v
      BY <2>1, <1>1
    <2>. QED
      BY <2>2 DEF f
  <1>8. ASSUME k >= 1, v[1] # 0 PROVE s[1] # Char(Zero)
    <2>1. 1 \in 1 .. k
      BY <1>8
    <2>2. s[1] \in Digit /\ s[1].value - Zero = v[1]
      BY <2>1, <1>4, <1>6
    <2>. QED
      BY <2>2, <1>8, FiguresAre
  <1>. QED
    BY <1>1, <1>5, <1>7, <1>8 DEF s

LEMMA RemainderOfSmall ==
  ASSUME NEW n \in Nat, NEW m \in Nat, n < m
  PROVE  n % m = n
  OBVIOUS

\* The digits of Symb are those of the number.
LEMMA DigitsShow ==
  ASSUME NEW ws \in Numerals, ws[1] # 0
  PROVE  /\ Digits(ws) \in Seq(Digit) \ {<<>>}
         /\ Digits(ws)[1] # Char(Zero)
         /\ NumberOf(10, Figures(Digits(ws))) = Value(ws)
  <1>1. PICK loop : /\ \A us \in Numerals :
                        loop[us] = (IF Rest(us) = <<>> THEN <<>> ELSE loop[Rest(us)]) \o LowDigits(us)
                    /\ \A us : Digits(us) = loop[us]
    BY DigitsIs
  <1> DEFINE Good(us) == /\ loop[us] \in Seq(Digit)
                         /\ loop[us] # <<>>
                         /\ loop[us][1] # Char(Zero)
                         /\ NumberOf(10, Figures(loop[us])) = Value(us)
             T == {n \in Nat : \A us \in Numerals : us[1] # 0 /\ Rank(us) < n => Good(us)}
  <1>2. \A us \in Numerals : Rank(us) \in Nat
    BY RestIs DEF Numerals
  <1>3. 0 \in T
    BY <1>2
  <1>4. ASSUME NEW n \in Nat, n \in T PROVE n + 1 \in T
    <2>1. ASSUME NEW us \in Numerals, us[1] # 0, Rank(us) < n + 1 PROVE Good(us)
      <3> DEFINE rm == DivideWords(us).rem
                 low == LowDigits(us)
                 rest == Rest(us)
      <3>1. us \in Seq(Word) /\ us # <<>>
        BY DEF Numerals
      <3>2. /\ rest \in Seq(Word) /\ rm \in 0 .. DecPower - 1
            /\ Value(rest) \in Nat /\ Value(rest) * DecPower + rm = Value(us)
            /\ Rank(us) \in Nat
            /\ rest # <<>> => Rank(rest) < Rank(us) /\ rest[1] # 0
        BY <3>1, <2>1, RestIs
      <3>3. low = LastDigits(rm, IF rest = <<>> THEN DigitCount(rm) ELSE DecChunk)
        BY DEF LowDigits
      <3>4. loop[us] = (IF rest = <<>> THEN <<>> ELSE loop[rest]) \o low
        BY <1>1
      <3>. HIDE DEF rm, low, rest
      <3>5. rm \in Nat /\ rm < DecPower
        BY <3>2, DecFacts
      <3>6. CASE rest = <<>>
        <4> DEFINE d == DigitCount(rm)
        <4>1. Value(rest) = 0
          BY <3>6, NumberOfShort, RadixIsNat DEF Value
        <4>2. rm = Value(us)
          <5>1. 0 * DecPower = 0
            BY DecFacts
          <5>. QED
            BY <5>1, <3>2, <3>5, <4>1
        <4>3. Value(us) >= 1
          BY <3>1, <2>1, ValuePositive
        <4>4. d \in Nat /\ d >= 1 /\ Power(10, d - 1) <= rm /\ rm < Power(10, d)
          <5>1. d \in 0 .. DecChunk /\ DecChunk \in Nat
            BY <3>5, DigitCountIs, DecimalAssumption
          <5>. QED
            BY <5>1, <3>5, <4>2, <4>3, DigitCountIs
        <4>. HIDE DEF d
        <4>5. /\ low \in Seq(Digit) /\ Len(low) = d /\ low[1] # Char(Zero)
              /\ NumberOf(10, Figures(low)) = rm % Power(10, d)
          <5>1. low = LastDigits(rm, d)
            BY <3>3, <3>6 DEF d
          <5>. QED
            BY <5>1, <3>5, <4>4, LastDigitsShow
        <4>6. rm % Power(10, d) = rm
          <5>1. Power(10, d) \in Nat
            BY <4>4, PowerIs
          <5>. QED
            BY <5>1, <3>5, <4>4, RemainderOfSmall
        <4>7. loop[us] = low /\ low # <<>>
          BY <3>4, <3>6, <4>4, <4>5
        <4>. QED
          BY <4>2, <4>5, <4>6, <4>7
      <3>7. CASE rest # <<>>
        <4> DEFINE high == loop[rest]
        <4>1. loop[us] = high \o low
          BY <3>4, <3>7
        <4>2. rest \in Numerals /\ Rank(rest) \in Nat
          BY <3>2, <3>7, <1>2 DEF Numerals
        <4>3. Rank(rest) < n
          BY <4>2, <3>2, <3>7, <2>1
        <4>4. Good(rest)
          <5>. HIDE DEF Good
          <5>. QED
            BY <4>2, <4>3, <3>2, <3>7, <1>4
        <4>5. /\ high \in Seq(Digit) /\ high # <<>> /\ high[1] # Char(Zero)
              /\ NumberOf(10, Figures(high)) = Value(rest)
          BY <4>4
        <4>. HIDE DEF high
        <4>6. /\ low \in Seq(Digit) /\ Len(low) = DecChunk
              /\ NumberOf(10, Figures(low)) = rm
          <5>1. low = LastDigits(rm, DecChunk) /\ DecChunk \in Nat
            BY <3>3, <3>7, DecimalAssumption
          <5>2. NumberOf(10, Figures(low)) = rm % DecPower /\ low \in Seq(Digit) /\ Len(low) = DecChunk
            BY <5>1, <3>5, LastDigitsShow DEF DecPower
          <5>3. rm % DecPower = rm
            BY <3>5, DecFacts, RemainderOfSmall
          <5>. QED
            BY <5>2, <5>3
        <4>7. /\ Figures(high \o low) = Figures(high) \o Figures(low)
              /\ Figures(high) \in Seq(Nat) /\ Figures(low) \in Seq(Nat)
              /\ Len(Figures(low)) = DecChunk
          BY <4>5, <4>6, FiguresAre
        <4>8. NumberOf(10, Figures(high \o low)) = Value(rest) * DecPower + rm
          <5> DEFINE a == Figures(high)
                     b == Figures(low)
          <5>1. NumberOf(10, a \o b) = NumberOf(10, a) * Power(10, Len(b)) + NumberOf(10, b)
            <6>. HIDE DEF a, b
            <6>1. a \in Seq(Nat) /\ b \in Seq(Nat)
              BY <4>7 DEF a, b
            <6>. QED
              BY <6>1, NumberOfConcat
          <5>. QED
            BY <5>1, <4>5, <4>6, <4>7 DEF DecPower
        <4>9. /\ high \o low \in Seq(Digit) /\ high \o low # <<>>
              /\ (high \o low)[1] = high[1]
          BY <4>5, <4>6
        <4>. QED
          BY <4>1, <4>5, <4>8, <4>9, <3>2
      <3>. QED
        BY <3>6, <3>7
    <2>. HIDE DEF Good
    <2>. QED
      BY <2>1
  <1>. HIDE DEF T
  <1>5. Nat \subseteq T
    BY <1>3, <1>4, InductionOnSet
  <1>6. Good(ws)
    <2>1. Rank(ws) + 1 \in T /\ Rank(ws) < Rank(ws) + 1
      BY <1>2, <1>5
    <2>. HIDE DEF Good
    <2>. QED
      BY <2>1 DEF T
  <1>. QED
    BY <1>1, <1>6

-----------------------------------------------------------------------------
(* What the words of Numb stand for.                                        *)

LEMMA PowerOfProduct ==
  ASSUME NEW a \in Nat, NEW b \in Nat, NEW n \in Nat
  PROVE  Power(a * b, n) = Power(a, n) * Power(b, n)
  <1> DEFINE c == a * b
             T == {k \in Nat : Power(c, k) = Power(a, k) * Power(b, k)}
  <1>0. c \in Nat
    OBVIOUS
  <1>. HIDE DEF c
  <1>1. 0 \in T
    <2>1. Power(c, 0) = 1 /\ Power(a, 0) = 1 /\ Power(b, 0) = 1
      BY <1>0, PowerIs
    <2>. QED
      BY <2>1
  <1>2. ASSUME NEW k \in Nat, k \in T PROVE k + 1 \in T
    <2>1. /\ Power(c, k + 1) = c * Power(c, k) /\ Power(c, k) \in Nat
          /\ Power(a, k + 1) = a * Power(a, k) /\ Power(a, k) \in Nat
          /\ Power(b, k + 1) = b * Power(b, k) /\ Power(b, k) \in Nat
      BY <1>0, PowerIs
    <2>2. Power(c, k) = Power(a, k) * Power(b, k)
      BY <1>2
    <2>3. \A x, y \in Nat : (a * b) * (x * y) = (a * x) * (b * y)
      OBVIOUS
    <2>4. c * Power(c, k) = (a * Power(a, k)) * (b * Power(b, k))
      BY <2>1, <2>2, <2>3 DEF c
    <2>. QED
      BY <2>1, <2>4
  <1>. HIDE DEF T
  <1>3. Nat \subseteq T
    BY <1>1, <1>2, InductionOnSet
  <1>. QED
    BY <1>3 DEF T, c

\* Portions are digits in this base.
TenPart == Power(10, PortionBits)
Power5  == Power(25, PortionBits \div 2)

LEMMA TenFacts ==
  /\ TenPart \in Nat /\ TenPart > 1 /\ TenPart < Radix
  /\ Power5 \in Nat /\ Power5 >= 1
  /\ TenPart = Part * Power5
  <1> DEFINE m == PortionBits \div 2
  <1>1. m \in Nat /\ PortionBits = 2 * m /\ PortionBits \in Nat /\ PortionBits >= 1
    BY DecimalAssumption
  <1>. HIDE DEF m
  <1>2. Power(10, 2) = 100 /\ Power(2, 2) = 4 /\ Power(2, 4) = 16
    <2>1. /\ Power(10, 0) = 1 /\ Power(2, 0) = 1
          /\ Power(10, 0 + 1) = 10 * Power(10, 0) /\ Power(10, 1 + 1) = 10 * Power(10, 1)
          /\ Power(2, 0 + 1) = 2 * Power(2, 0) /\ Power(2, 1 + 1) = 2 * Power(2, 1)
          /\ Power(2, 2 + 1) = 2 * Power(2, 2) /\ Power(2, 3 + 1) = 2 * Power(2, 3)
      BY PowerIs
    <2>. QED
      BY <2>1
  <1>3. Power(10, 2 * m) = Power(100, m) /\ Power(2, 2 * m) = Power(4, m)
    <2>1. Power(Power(10, 2), m) = Power(10, 2 * m)
      BY <1>1, PowerOfPower
    <2>2. Power(Power(2, 2), m) = Power(2, 2 * m)
      BY <1>1, PowerOfPower
    <2>. QED
      BY <2>1, <2>2, <1>2
  <1>4. Power(100, m) = Power(4, m) * Power(25, m)
    <2>1. Power(4 * 25, m) = Power(4, m) * Power(25, m)
      BY <1>1, PowerOfProduct
    <2>2. 4 * 25 = 100
      OBVIOUS
    <2>. QED
      BY <2>1, <2>2
  <1>5. TenPart = Part * Power5
    BY <1>1, <1>3, <1>4 DEF TenPart, Part, Power5, m
  <1>6. Power5 \in Nat /\ Power5 >= 1
    <2>1. Power(25, m) \in Nat /\ Power(25, m) >= 1
      BY <1>1, PowerPositive
    <2>. QED
      BY <2>1 DEF Power5, m
  <1>7. TenPart \in Nat /\ TenPart > PortionBits
    BY <1>1, PowerIs, PowerGrows DEF TenPart
  <1>8. TenPart < Radix
    <2>1. Power(Power(2, 4), PortionBits) = Power(2, 4 * PortionBits)
      BY <1>1, PowerOfPower
    <2>2. Radix = Power(16, PortionBits)
      BY <2>1, <1>2, OffsetIs DEF Offset
    <2>3. Power(10, PortionBits) < Power(16, PortionBits)
      <3>1. 10 \in Nat /\ 16 \in Nat /\ 10 <= 16 /\ 10 < 16
        OBVIOUS
      <3>. QED
        BY <3>1, <1>1, BaseMonotone
    <2>. QED
      BY <2>2, <2>3 DEF TenPart
  <1>. QED
    BY <1>1, <1>5, <1>6, <1>7, <1>8

LEMMA NextRemainder ==
  ASSUME NEW a \in Nat, NEW b \in Nat, b >= 2
  PROVE  (a + 1) % b = IF a % b = b - 1 THEN 0 ELSE (a % b) + 1
  <1> DEFINE q == a \div b
             rr == a % b
  <1>1. b \in Nat \ {0}
    OBVIOUS
  <1>2. q \in Nat /\ rr \in Nat /\ rr < b /\ a = b * q + rr
    BY <1>1, QuotientFacts
  <1>. HIDE DEF q, rr
  <1>3. CASE rr = b - 1
    <2>1. a + 1 = b * (q + 1) + 0 /\ q + 1 \in Nat
      BY <1>2, <1>3
    <2> DEFINE p == q + 1
    <2>. HIDE DEF p
    <2>2. (b * p + 0) % b = 0
      <3>1. p \in Nat /\ 0 \in Nat /\ 0 < b
        BY <2>1 DEF p
      <3>. QED
        BY <3>1, <1>1, DivisionUnique
    <2>. QED
      BY <2>1, <2>2, <1>3 DEF p, rr
  <1>4. CASE rr # b - 1
    <2> DEFINE s == rr + 1
    <2>1. a + 1 = b * q + s /\ s \in Nat /\ s < b
      BY <1>2, <1>4
    <2>. HIDE DEF s
    <2>2. (b * q + s) % b = s
      BY <2>1, <1>1, <1>2, DivisionUnique
    <2>. QED
      BY <2>1, <2>2, <1>4 DEF s, rr
  <1>. QED
    BY <1>3, <1>4

\* The number of digits in the portion that is being read, if the next digit is that behind i.
Filled(n, i) == LET rest == (n - i) % PortionBits IN IF rest = 0 THEN 0 ELSE PortionBits - rest

LEMMA FilledIs ==
  ASSUME NEW n \in Nat, NEW i \in 1 .. n
  PROVE  /\ Filled(n, i - 1) \in Nat /\ Filled(n, i) \in Nat /\ Filled(n, i - 1) + 1 <= PortionBits
         /\ (n - i) % PortionBits = 0 => Filled(n, i) = 0 /\ Filled(n, i - 1) + 1 = PortionBits
         /\ (n - i) % PortionBits # 0 => Filled(n, i) = Filled(n, i - 1) + 1
  <1> DEFINE x == (n - i) % PortionBits
             y == (n - (i - 1)) % PortionBits
  <1>1. PortionBits \in Nat /\ PortionBits >= 2
    BY DecimalAssumption
  <1>2. n - i \in Nat /\ n - (i - 1) = (n - i) + 1
    OBVIOUS
  <1>3. y = IF x = PortionBits - 1 THEN 0 ELSE x + 1
    BY <1>1, <1>2, NextRemainder
  <1>4. x \in Nat /\ x < PortionBits
    BY <1>1, <1>2, QuotientFacts
  <1>5. /\ Filled(n, i) = (IF x = 0 THEN 0 ELSE PortionBits - x)
        /\ Filled(n, i - 1) = (IF y = 0 THEN 0 ELSE PortionBits - y)
    BY DEF Filled
  <1>6. x = (n - i) % PortionBits
    OBVIOUS
  <1>. HIDE DEF x, y
  <1>. QED
    BY <1>1, <1>3, <1>4, <1>5, <1>6

LEMMA PortionsShow ==
  ASSUME NEW digits \in Seq(Digit) \ {<<>>}, digits[1] # Char(Zero)
  PROVE  /\ Portions(digits) \in Seq(0 .. TenPart - 1) \ {<<>>}
         /\ Portions(digits)[1] # 0
         /\ NumberOf(TenPart, Portions(digits)) = NumberOf(10, Figures(digits))
  <1> DEFINE n == Len(digits)
             f == Figures(digits)
             W == 0 .. TenPart - 1
             c(i) == Filled(n, i)
  <1>1. n \in Nat /\ n >= 1 /\ DOMAIN digits = 1 .. n /\ \A i \in 1 .. n : digits[i] \in Digit
    OBVIOUS
  <1>2. /\ f \in Seq(Nat) /\ Len(f) = n
        /\ \A i \in 1 .. n : digits[i].value \in Int /\ f[i] = digits[i].value - Zero /\ f[i] \in 0 .. 9
        /\ f[1] # 0
    <2>1. f \in Seq(0 .. 9) /\ f \in Seq(Nat) /\ Len(f) = n /\ \A i \in 1 .. n : f[i] = digits[i].value - Zero
      BY FiguresAre
    <2>2. \A i \in 1 .. n : digits[i].value \in Int
      <3>1. \A d \in Digit : d.value \in Int
        BY CharsDiffer DEF Digit, Zero
      <3>. QED
        BY <3>1, <1>1
    <2>3. f[1] # 0
      <3>1. 1 \in 1 .. n /\ digits[1] \in Digit
        BY <1>1
      <3>. HIDE DEF n, f
      <3>. QED
        BY <3>1, <2>1, FiguresAre
    <2>. HIDE DEF n, f
    <2>. QED
      BY <2>1, <2>2, <2>3
  <1>. HIDE DEF n, f
  <1>3. PICK u : /\ u \in [0 .. n -> PortionState]
                 /\ u[0] = NoPortions
                 /\ \A i \in 1 .. n : u[i] = ReadDigit(digits, u[i - 1], i)
                 /\ Portions(digits) = u[n].done
    BY <1>1, <1>2, PortionsRun
  <1>4. TenPart \in Nat /\ TenPart > 1 /\ TenPart < Radix /\ Radix \in Nat /\ W \subseteq Nat
    BY TenFacts, RadixIsNat
  <1> DEFINE Good(i) == /\ u[i].done \in Seq(W)
                        /\ u[i].accum \in Nat /\ u[i].accum < Power(10, c(i))
                        /\ NumberOf(TenPart, u[i].done) * Power(10, c(i)) + u[i].accum = Horner(10, f, i)
                        /\ i >= 1 /\ u[i].done = <<>> => u[i].accum # 0
                        /\ u[i].done # <<>> => u[i].done[1] # 0
             T == {i \in 0 .. n : Good(i)}
  <1>5. c(0) \in Nat
    <2>1. 1 \in 1 .. n /\ 1 - 1 = 0
      BY <1>1
    <2>. QED
      BY <2>1, <1>1, FilledIs
  <1>6. 0 \in T
    <2>1. u[0].done = <<>> /\ u[0].accum = 0
      BY <1>3 DEF NoPortions
    <2>2. NumberOf(TenPart, <<>>) = 0 /\ Horner(10, f, 0) = 0
      <3>1. NumberOf(TenPart, <<>>) = 0
        BY <1>4, NumberOfShort
      <3>2. Horner(10, f, 0) = 0
        BY <1>2, HornerIs
      <3>. QED
        BY <3>1, <3>2
    <2>3. Power(10, c(0)) \in Nat /\ Power(10, c(0)) >= 1
      <3>1. 10 \in Nat /\ 10 >= 1
        OBVIOUS
      <3>. QED
        BY <3>1, <1>5, PowerPositive
    <2>4. 0 * Power(10, c(0)) + 0 = 0
      BY <2>3
    <2>5. <<>> \in Seq(W) /\ 0 \in 0 .. n /\ ~(0 >= 1) /\ 0 \in Nat
      BY <1>1
    <2>6. 0 < Power(10, c(0))
      BY <2>3
    <2>. HIDE DEF c, W
    <2>. QED
      BY <2>1, <2>2, <2>4, <2>5, <2>6
  <1>7. ASSUME NEW i \in 1 .. n, i - 1 \in T PROVE i \in T
    <2> DEFINE s == u[i - 1]
               x == c(i - 1)
               a == s.accum * 10 + digits[i].value - Zero
               N == NumberOf(TenPart, s.done)
               p == Power(10, x)
    <2>1. i - 1 \in 0 .. n /\ i \in 0 .. n /\ i >= 1
      BY <1>1
    <2>2. /\ s.done \in Seq(W) /\ s.accum \in Nat /\ s.accum < p
          /\ N * p + s.accum = Horner(10, f, i - 1)
          /\ i - 1 >= 1 /\ s.done = <<>> => s.accum # 0
          /\ s.done # <<>> => s.done[1] # 0
      BY <1>7
    <2>3. /\ x \in Nat /\ c(i) \in Nat /\ x + 1 <= PortionBits
          /\ (n - i) % PortionBits = 0 => c(i) = 0 /\ x + 1 = PortionBits
          /\ (n - i) % PortionBits # 0 => c(i) = x + 1
      BY <1>1, FilledIs
    <2>4. u[i] = ReadDigit(digits, s, i)
      BY <1>3
    <2>5. N \in Nat
      <3>1. s.done \in Seq(Nat)
        BY <2>2, <1>4
      <3>. HIDE DEF s
      <3>. QED
        BY <3>1, <1>4, NumberOfShort
    <2>. HIDE DEF s, x, c
    <2>6. p \in Nat /\ Power(10, x + 1) = 10 * p
      BY <2>3, PowerIs
    <2>7. a = s.accum * 10 + f[i] /\ f[i] \in Nat /\ f[i] < 10
      <3>1. f[i] = digits[i].value - Zero /\ f[i] \in 0 .. 9 /\ digits[i].value \in Int /\ Zero \in Int
        BY <1>2 DEF Zero
      <3> DEFINE z == s.accum * 10
                 v == digits[i].value
      <3>2. z \in Nat /\ a = z + v - Zero
        BY <2>2
      <3>. HIDE DEF z, a
      <3>3. a = z + f[i]
        BY <3>1, <3>2
      <3>4. a = s.accum * 10 + f[i]
        BY <3>3 DEF z
      <3>5. \A g \in 0 .. 9 : g \in Nat /\ g < 10
        OBVIOUS
      <3>. QED
        BY <3>1, <3>4, <3>5
    <2>. HIDE DEF a, p, N
    <2>8. a \in Nat /\ a < Power(10, x + 1)
      <3>1. s.accum * 10 + f[i] \in Nat /\ s.accum * 10 + f[i] < p * 10
        BY <2>2, <2>6, <2>7, MixedSmall
      <3>. QED
        BY <3>1, <2>6, <2>7
    <2>9. a < TenPart
      <3>1. Power(10, x + 1) <= TenPart
        <4>1. x + 1 \in Nat /\ PortionBits \in Nat /\ 10 \in Nat /\ 10 >= 1
          BY <2>3, DecimalAssumption
        <4>. QED
          BY <4>1, <2>3, PowerMonotone DEF TenPart
      <3>2. Power(10, x + 1) \in Nat
        BY <2>6
      <3>. QED
        BY <3>1, <3>2, <2>8, <1>4
    <2>10. a % Radix = a /\ a \in W
      BY <2>8, <2>9, <1>4
    <2>11. Horner(10, f, i) = (N * p + s.accum) * 10 + f[i]
      <3>1. i \in 1 .. Len(f)
        BY <1>2
      <3>2. Horner(10, f, i) = Horner(10, f, i - 1) * 10 + f[i]
        BY <3>1, <1>2, HornerIs
      <3>. QED
        BY <3>2, <2>2
    <2>12. Horner(10, f, i) = N * (10 * p) + a
      <3> DEFINE z == s.accum
                 g == f[i]
      <3>1. z \in Nat /\ g \in Nat
        BY <2>2, <2>7
      <3>. HIDE DEF z, g
      <3>2. (N * p + z) * 10 + g = N * (10 * p) + (z * 10 + g)
        BY <3>1, <2>5, <2>6
      <3>. QED
        BY <3>2, <2>11, <2>7 DEF z, g
    <2>13. s.done = <<>> => a # 0
      <3>1. CASE i = 1
        <4>1. f[i] # 0
          BY <3>1, <1>2
        <4>. QED
          BY <4>1, <2>2, <2>7
      <3>2. CASE i # 1
        <4>1. i - 1 >= 1
          BY <3>2
        <4>. QED
          BY <4>1, <2>2, <2>7
      <3>. QED
        BY <3>1, <3>2
    <2>13a. (s.accum * 10 + digits[i].value - Zero) % Radix = a
      BY <2>10 DEF a
    <2>14. CASE (n - i) % PortionBits = 0
      <3> DEFINE d == Append(s.done, a)
      <3>1. u[i] = [accum |-> 0, done |-> d]
        BY <2>4, <2>13a, <2>14 DEF ReadDigit, n
      <3>2. d \in Seq(W) /\ d # <<>> /\ d[1] = IF s.done = <<>> THEN a ELSE s.done[1]
        <4>1. \A e \in Seq(W) : /\ Append(e, a) \in Seq(W) /\ Append(e, a) # <<>>
                                 /\ Append(e, a)[1] = IF e = <<>> THEN a ELSE e[1]
          <5>. HIDE DEF W
          <5>1. ASSUME NEW e \in Seq(W)
                PROVE  /\ Append(e, a) \in Seq(W) /\ Append(e, a) # <<>>
                       /\ Append(e, a)[1] = IF e = <<>> THEN a ELSE e[1]
            <6>1. Append(e, a) \in Seq(W) /\ Append(e, a) # <<>>
              BY <2>10
            <6>2. CASE e = <<>>
              <7>1. Append(<<>>, a)[1] = a
                BY <2>10
              <7>. QED
                BY <6>1, <6>2, <7>1
            <6>3. CASE e # <<>>
              <7>1. Len(e) \in Nat /\ Len(e) >= 1
                BY <6>3
              <7>2. 1 \in 1 .. Len(e)
                BY <7>1
              <7>3. Append(e, a)[1] = e[1]
                BY <7>2, <2>10
              <7>. QED
                BY <6>1, <6>3, <7>3
            <6>. QED
              BY <6>2, <6>3
          <5>. QED
            BY <5>1
        <4>. QED
          BY <2>2, <4>1
      <3>3. NumberOf(TenPart, d) = N * TenPart + a
        <4>1. s.done \in Seq(Nat)
          BY <2>2, <1>4
        <4>. QED
          BY <4>1, <1>4, <2>8, NumberOfAppend DEF N
      <3>. HIDE DEF d
      <3>4. TenPart = 10 * p
        BY <2>3, <2>6, <2>14 DEF TenPart
      <3>5. NumberOf(TenPart, d) = Horner(10, f, i) /\ NumberOf(TenPart, d) \in Nat
        <4>1. N * TenPart \in Nat
          BY <2>5, <1>4
        <4>. QED
          BY <4>1, <3>3, <3>4, <2>8, <2>12
      <3>6. c(i) = 0 /\ Power(10, 0) = 1
        BY <2>3, <2>14, PowerIs
      <3>7. NumberOf(TenPart, d) * 1 + 0 = NumberOf(TenPart, d)
        BY <3>5
      <3>8. u[i].done = d /\ u[i].accum = 0
        BY <3>1
      <3>. QED
        BY <3>2, <3>5, <3>6, <3>7, <3>8, <2>1, <2>2, <2>13
    <2>15. CASE (n - i) % PortionBits # 0
      <3>1. u[i] = [accum |-> a, done |-> s.done]
        BY <2>4, <2>13a, <2>15 DEF ReadDigit, n
      <3>2. u[i].done = s.done /\ u[i].accum = a
        BY <3>1
      <3>3. c(i) = x + 1 /\ Power(10, c(i)) = 10 * p
        BY <2>3, <2>6, <2>15
      <3>4. NumberOf(TenPart, u[i].done) * Power(10, c(i)) + u[i].accum = Horner(10, f, i)
        BY <3>2, <3>3, <2>12 DEF N
      <3>. QED
        BY <3>2, <3>3, <3>4, <2>1, <2>2, <2>8, <2>13
    <2>. QED
      BY <2>14, <2>15
  <1>. HIDE DEF T
  <1>8. 0 .. n \subseteq T
    BY <1>1, <1>6, <1>7, InductionOnRange
  <1>9. Good(n)
    <2>1. n \in T
      BY <1>1, <1>8
    <2>. QED
      BY <2>1 DEF T
  <1>10. c(n) = 0 /\ Power(10, 0) = 1
    <2>1. n - n = 0 /\ 0 % PortionBits = 0
      BY <1>1, DecimalAssumption
    <2>. QED
      BY <2>1, PowerIs DEF Filled
  <1> DEFINE d == u[n].done
  <1>11. d \in Seq(W) /\ NumberOf(TenPart, d) \in Nat
    <2>1. d \in Seq(W)
      BY <1>9
    <2>2. d \in Seq(Nat)
      BY <2>1, <1>4
    <2>. HIDE DEF d
    <2>. QED
      BY <2>1, <2>2, <1>4, NumberOfShort
  <1>12. u[n].accum = 0
    <2>1. u[n].accum \in Nat /\ u[n].accum < 1
      BY <1>9, <1>10
    <2>. QED
      BY <2>1
  <1>13. NumberOf(TenPart, d) = Horner(10, f, n)
    <2>1. NumberOf(TenPart, d) * 1 + 0 = Horner(10, f, n)
      BY <1>9, <1>10, <1>12
    <2>. QED
      BY <2>1, <1>11
  <1>14. NumberOf(10, f) = Horner(10, f, n)
    BY <1>2, HornerIs
  <1>15. d # <<>> /\ d[1] # 0
    BY <1>1, <1>9, <1>12
  <1>. HIDE DEF d
  <1>. QED
    BY <1>3, <1>11, <1>13, <1>14, <1>15 DEF d, f

TenDigit == 0 .. TenPart - 1

LEMMA TenDigitIs ==
  /\ \A x \in TenDigit : x \in Nat /\ x < TenPart /\ x \in Word
  /\ \A x \in Nat : x < TenPart => x \in TenDigit
  /\ \A ps \in Seq(TenDigit) : ps \in Seq(Word) /\ ps \in Seq(Nat) /\ NumberOf(TenPart, ps) \in Nat
  <1>1. TenPart \in Nat /\ TenPart < Radix /\ Radix \in Nat
    BY TenFacts, RadixIsNat
  <1>2. \A x \in TenDigit : x \in Nat /\ x < TenPart /\ x \in Word
    BY <1>1 DEF TenDigit, Word
  <1>3. \A x \in Nat : x < TenPart => x \in TenDigit
    BY <1>1 DEF TenDigit
  <1>4. ASSUME NEW ps \in Seq(TenDigit)
        PROVE  ps \in Seq(Word) /\ ps \in Seq(Nat) /\ NumberOf(TenPart, ps) \in Nat
    <2>1. ps \in Seq(Word) /\ ps \in Seq(Nat)
      BY <1>2
    <2>. QED
      BY <2>1, <1>1, NumberOfShort
  <1>. QED
    BY <1>2, <1>3, <1>4

\* A zero in front does not count.
LEMMA NumberOfTail ==
  ASSUME NEW b \in Nat, NEW v \in Seq(Nat), v # <<>>, v[1] = 0
  PROVE  NumberOf(b, Tail(v)) = NumberOf(b, v)
  <1> DEFINE t == Tail(v)
  <1>1. v = <<0>> \o t /\ t \in Seq(Nat) /\ Len(t) \in Nat
    OBVIOUS
  <1>. HIDE DEF t
  <1>2. NumberOf(b, <<0>> \o t) = 0 * Power(b, Len(t)) + NumberOf(b, t)
    <2>1. 0 \in Nat
      OBVIOUS
    <2>. QED
      BY <2>1, <1>1, NumberOfFirst
  <1>3. Power(b, Len(t)) \in Nat /\ NumberOf(b, t) \in Nat
    BY <1>1, PowerIs, NumberOfShort
  <1>4. 0 * Power(b, Len(t)) + NumberOf(b, t) = NumberOf(b, t)
    BY <1>3
  <1>. QED
    BY <1>1, <1>2, <1>4 DEF t

LEMMA NumberOfPositive ==
  ASSUME NEW b \in Nat, b >= 1, NEW v \in Seq(Nat), v # <<>>, v[1] # 0
  PROVE  NumberOf(b, v) >= 1
  <1> DEFINE t == Tail(v)
             x == v[1]
  <1>1. v = <<x>> \o t /\ t \in Seq(Nat) /\ Len(t) \in Nat /\ x \in Nat /\ x >= 1
    OBVIOUS
  <1>. HIDE DEF t, x
  <1>2. NumberOf(b, <<x>> \o t) = x * Power(b, Len(t)) + NumberOf(b, t)
    BY <1>1, NumberOfFirst
  <1>3. Power(b, Len(t)) \in Nat /\ Power(b, Len(t)) >= 1 /\ NumberOf(b, t) \in Nat
    BY <1>1, PowerPositive, NumberOfShort
  <1>4. \A p, q, rr \in Nat : p >= 1 /\ q >= 1 => p * q + rr >= 1
    <2>1. \A p, q \in Nat : p >= 1 /\ q >= 1 => p * q >= 1 /\ p * q \in Nat
      OBVIOUS
    <2>. QED
      BY <2>1
  <1>. QED
    BY <1>1, <1>2, <1>3, <1>4

LEMMA QuarterShows ==
  ASSUME NEW ps \in Seq(TenDigit) \ {<<>>}, ps[1] # 0
  PROVE  /\ Quarter(ps) \in Seq(TenDigit)
         /\ Quarter(ps) # <<>> => Quarter(ps)[1] # 0
         /\ NumberOf(TenPart, ps) = Part * NumberOf(TenPart, Quarter(ps)) + (Last(ps) % Part)
  <1> DEFINE next == [i \in DOMAIN ps |->
                        ((IF i = 1 THEN 0 ELSE (ps[i - 1] % Part) * Power5) + ps[i] \div Part) % Radix]
             n == Len(ps)
             q(i) == ps[i] \div Part
             rr(i) == IF i = 0 THEN 0 ELSE ps[i] % Part
  <1>1. /\ n \in Nat /\ n >= 1 /\ DOMAIN ps = 1 .. n /\ ps \in Seq(Nat)
        /\ \A i \in 1 .. n : ps[i] \in Nat /\ ps[i] < TenPart
    BY TenDigitIs
  <1>2. /\ Part \in Nat /\ Part > 1 /\ Power5 \in Nat /\ Power5 >= 1
        /\ TenPart \in Nat /\ TenPart = Part * Power5 /\ TenPart < Radix /\ Radix \in Nat
    BY PartFacts, TenFacts, RadixIsNat
  <1>3. ASSUME NEW i \in 1 .. n
        PROVE  /\ q(i) \in Nat /\ q(i) < Power5
               /\ rr(i) \in Nat /\ rr(i) < Part
               /\ ps[i] = Part * q(i) + rr(i)
    <2> DEFINE x == ps[i]
               y == x \div Part
               z == x % Part
    <2>1. x \in Nat /\ x < Part * Power5 /\ Part \in Nat \ {0}
      BY <1>1, <1>2
    <2>2. q(i) = y /\ rr(i) = z
      OBVIOUS
    <2>. HIDE DEF x, q, rr
    <2>3. y \in Nat /\ z \in Nat /\ z < Part /\ x = Part * y + z
      BY <2>1, QuotientFacts
    <2>. HIDE DEF y, z
    <2>4. Part * y <= x
      <3>1. Part * y \in Nat
        BY <1>2, <2>3
      <3>. QED
        BY <3>1, <2>3
    <2>5. y < Power5
      BY <2>1, <2>3, <2>4, <1>2, FactorSmall
    <2>. QED
      BY <2>2, <2>3, <2>5 DEF x
  <1>4. rr(0) = 0
    OBVIOUS
  <1>5. \A i \in 1 .. n : i # 1 => i - 1 \in 1 .. n
    BY <1>1
  <1>6. ASSUME NEW i \in 1 .. n
        PROVE  rr(i - 1) \in Nat /\ rr(i - 1) < Part
    <2>1. CASE i = 1
      <3>1. i - 1 = 0
        BY <2>1
      <3>. HIDE DEF rr
      <3>. QED
        BY <3>1, <1>2, <1>4
    <2>2. CASE i # 1
      <3>1. i - 1 \in 1 .. n
        BY <2>2, <1>5
      <3>. HIDE DEF rr, q, n
      <3>. QED
        BY <3>1, <1>3
    <2>. QED
      BY <2>1, <2>2
  <1>7. ASSUME NEW i \in 1 .. n
        PROVE  next[i] = rr(i - 1) * Power5 + q(i) /\ next[i] \in TenDigit
    <2>1. next[i] = ((IF i = 1 THEN 0 ELSE (ps[i - 1] % Part) * Power5) + ps[i] \div Part) % Radix
      BY <1>1
    <2>2. (IF i = 1 THEN 0 ELSE (ps[i - 1] % Part) * Power5) = rr(i - 1) * Power5
      <3>1. CASE i = 1
        <4>1. rr(i - 1) = 0
          BY <3>1
        <4>. HIDE DEF rr
        <4>2. rr(i - 1) * Power5 = 0
          BY <4>1, <1>2
        <4>. QED
          BY <3>1, <4>2
      <3>2. CASE i # 1
        <4>1. i - 1 # 0
          BY <3>2
        <4>2. rr(i - 1) = ps[i - 1] % Part
          BY <4>1
        <4>. HIDE DEF rr
        <4>. QED
          BY <3>2, <4>2
      <3>. QED
        BY <3>1, <3>2
    <2> DEFINE a == rr(i - 1)
               b == q(i)
               m == a * Power5 + b
    <2>3. a \in Nat /\ a < Part /\ b \in Nat /\ b < Power5
      <3>. HIDE DEF rr, q
      <3>. QED
        BY <1>3, <1>6
    <2>4. next[i] = m % Radix
      BY <2>1, <2>2
    <2>. HIDE DEF next, a, b
    <2>5. m \in Nat /\ m < Part * Power5
      BY <2>3, <1>2, MixedSmall
    <2>. HIDE DEF m
    <2>6. m % Radix = m
      <3>1. m < Radix
        BY <2>5, <1>2
      <3>. QED
        BY <3>1, <2>5, <1>2
    <2>7. m \in TenDigit
      BY <2>5, <1>2, TenDigitIs
    <2>. QED
      BY <2>4, <2>6, <2>7 DEF m, a, b
  <1>8. next = [i \in 1 .. n |-> next[i]]
    BY <1>1
  <1>9. Quarter(ps) = IF next[1] = 0 THEN Tail(next) ELSE next
    BY DEF Quarter, Power5
  <1>. HIDE DEF next, q, rr, n
  <1>10. next \in [1 .. n -> TenDigit]
    BY <1>7, <1>8
  <1>11. next \in Seq(TenDigit) /\ Len(next) = n /\ next # <<>> /\ next \in Seq(Nat)
    <2>1. next \in Seq(TenDigit) /\ Len(next) = n
      BY <1>1, <1>10, FunctionIsSeq
    <2>2. next # <<>>
      BY <2>1, <1>1
    <2>. QED
      BY <2>1, <2>2, TenDigitIs
  <1> DEFINE H(k) == Horner(TenPart, ps, k)
             N(k) == Horner(TenPart, next, k)
             T == {k \in 0 .. n : H(k) = Part * N(k) + rr(k)}
  <1>12. 0 \in T
    <2>1. H(0) = 0 /\ N(0) = 0
      BY <1>1, <1>2, <1>11, HornerIs
    <2>2. Part * 0 + 0 = 0
      BY <1>2
    <2>. HIDE DEF H, N
    <2>. QED
      BY <2>1, <2>2, <1>1, <1>4
  <1>13. ASSUME NEW k \in 1 .. n, k - 1 \in T PROVE k \in T
    <2>1. k \in 0 .. n /\ k - 1 \in 0 .. n /\ k \in 1 .. Len(ps) /\ k \in 1 .. Len(next)
      BY <1>1, <1>11 DEF n
    <2>2. H(k) = H(k - 1) * TenPart + ps[k]
      BY <2>1, <1>1, <1>2, HornerIs
    <2>3. N(k) = N(k - 1) * TenPart + next[k] /\ N(k - 1) \in Nat
      <3>1. k - 1 \in 0 .. Len(next)
        BY <2>1
      <3>. QED
        BY <3>1, <2>1, <1>2, <1>11, HornerIs
    <2>4. H(k - 1) = Part * N(k - 1) + rr(k - 1)
      BY <1>13
    <2>5. next[k] = rr(k - 1) * Power5 + q(k) /\ ps[k] = Part * q(k) + rr(k)
      BY <1>3, <1>7
    <2> DEFINE x == N(k - 1)
               a == rr(k - 1)
               b == q(k)
               d == rr(k)
    <2>6. x \in Nat /\ a \in Nat /\ b \in Nat /\ d \in Nat
      BY <2>3, <1>3, <1>6
    <2>. HIDE DEF H, N
    <2>7. H(k) = (Part * x + a) * TenPart + (Part * b + d) /\ N(k) = x * TenPart + (a * Power5 + b)
      BY <2>2, <2>3, <2>4, <2>5
    <2>. HIDE DEF x, a, b, d
    <2>8. (Part * x + a) * TenPart + (Part * b + d) = Part * (x * TenPart + (a * Power5 + b)) + d
      <3>1. (Part * x + a) * TenPart = Part * (x * TenPart) + a * TenPart
        BY <2>6, <1>2
      <3>2. a * TenPart = Part * (a * Power5)
        BY <2>6, <1>2
      <3> DEFINE e == x * TenPart
                 g == a * Power5
      <3>3. e \in Nat /\ g \in Nat
        BY <2>6, <1>2
      <3>. HIDE DEF e, g
      <3>4. Part * (e + (g + b)) + d = (Part * e + Part * g) + (Part * b + d)
        BY <3>3, <2>6, <1>2
      <3>. QED
        BY <3>1, <3>2, <3>4 DEF e, g
    <2>9. H(k) = Part * N(k) + d
      BY <2>7, <2>8
    <2>. QED
      BY <2>9, <2>1 DEF H, N, d
  <1>. HIDE DEF T
  <1>14. 0 .. n \subseteq T
    BY <1>1, <1>12, <1>13, InductionOnRange
  <1>15. n \in T
    BY <1>1, <1>14
  <1>16. NumberOf(TenPart, ps) = Part * NumberOf(TenPart, next) + rr(n)
    <2>1. NumberOf(TenPart, ps) = H(n)
      BY <1>1, <1>2, HornerIs DEF n
    <2>2. NumberOf(TenPart, next) = N(n)
      BY <1>2, <1>11, HornerIs
    <2>. HIDE DEF H, N
    <2>. QED
      BY <2>1, <2>2, <1>15 DEF T
  <1>17. rr(n) = Last(ps) % Part
    BY <1>1 DEF rr, n, Last
  <1>18. CASE next[1] = 0
    <2> DEFINE t == Tail(next)
    <2>1. /\ Quarter(ps) = t /\ t \in Seq(TenDigit)
          /\ t # <<>> => n > 1 /\ t[1] = next[2]
      BY <1>9, <1>11, <1>18
    <2>2. NumberOf(TenPart, t) = NumberOf(TenPart, next)
      BY <1>2, <1>11, <1>18, NumberOfTail
    <2>. HIDE DEF t
    <2>3. ASSUME t # <<>> PROVE t[1] # 0
      <3>1. 2 \in 1 .. n /\ 1 \in 1 .. n /\ 2 - 1 = 1 /\ 1 - 1 = 0
        BY <2>1, <2>3, <1>1
      <3>2. next[2] = rr(1) * Power5 + q(2) /\ next[1] = rr(0) * Power5 + q(1)
        <4>1. next[2] = rr(2 - 1) * Power5 + q(2) /\ next[1] = rr(1 - 1) * Power5 + q(1)
          BY <3>1, <1>7
        <4>. QED
          BY <3>1, <4>1
      <3>3. rr(1) \in Nat /\ q(1) \in Nat /\ q(2) \in Nat /\ ps[1] = Part * q(1) + rr(1)
        BY <3>1, <1>3
      <3>4. q(1) = 0
        <4>1. 0 * Power5 + q(1) = q(1)
          BY <3>3, <1>2
        <4>. QED
          BY <4>1, <3>2, <1>4, <1>18
      <3>5. rr(1) # 0
        <4>1. Part * 0 + 0 = 0
          BY <1>2
        <4>. QED
          BY <4>1, <3>3, <3>4
      <3>6. \A a, b, d \in Nat : a # 0 /\ b >= 1 => a * b + d # 0
        <4>1. \A a, b \in Nat : a # 0 /\ b >= 1 => a * b >= 1 /\ a * b \in Nat
          OBVIOUS
        <4>. QED
          BY <4>1
      <3>. QED
        BY <2>1, <2>3, <3>2, <3>3, <3>5, <3>6, <1>2
    <2>. QED
      BY <2>1, <2>2, <2>3, <1>16, <1>17
  <1>19. CASE next[1] # 0
    BY <1>9, <1>11, <1>16, <1>17, <1>19
  <1>. QED
    BY <1>18, <1>19

\* What is left of the portions, the word that is being put together, and the words.
Amount(s, j) ==
  (NumberOf(TenPart, s.portions) * Offset(j) + s.accum) * Power(Radix, Len(s.words)) + Value(s.words)

\* Nothing begins with zero.
Leading(s) ==
  /\ s.portions \in Seq(TenDigit)
  /\ s.portions # <<>> => s.portions[1] # 0
  /\ s.portions = <<>> => s.accum > 0 \/ (s.words # <<>> /\ s.words[1] # 0)

LEMMA CollectingIs ==
  ASSUME NEW j \in 0 .. 3, NEW s, Collecting(s, j)
  PROVE  /\ s \in WordsState /\ s.words \in Seq(Word) /\ s.accum \in Nat /\ s.accum < Offset(j)
         /\ s.portions \in Seq(Word) /\ s.accum \in Word
         /\ Value(s.words) \in Nat /\ Power(Radix, Len(s.words)) \in Nat
         /\ Power(Radix, Len(s.words) + 1) = Radix * Power(Radix, Len(s.words))
         /\ Offset(j) \in Nat /\ Offset(j) >= 1
  <1>1. /\ s \in WordsState /\ s.words \in Seq(Word) /\ s.accum \in Nat /\ s.accum < Offset(j)
        /\ s.portions \in Seq(Word) /\ Len(s.words) \in Nat
    BY DEF Collecting, WordsState
  <1>2. Offset(j) \in Nat /\ Offset(j) >= 1 /\ Offset(j) <= Radix
    <2>1. j \in Nat
      OBVIOUS
    <2>2. Offset(j) \in Nat /\ Offset(j) > 0
      BY <2>1, OffsetIs
    <2>. QED
      BY <2>2, OffsetsSmall
  <1>3. s.accum \in Word
    BY <1>1, <1>2, RadixIsNat DEF Word
  <1>4. Value(s.words) \in Nat
    BY <1>1, ValueIs
  <1>. QED
    BY <1>1, <1>2, <1>3, <1>4, PowerIs, RadixIsNat

LEMMA RoundShows ==
  ASSUME NEW j \in 0 .. 3, NEW s, Collecting(s, j), s.portions # <<>>, Leading(s)
  PROVE  LET k == IF j = 3 THEN 0 ELSE j + 1
             t == WordsRound(s)
         IN  Leading(t) /\ Amount(t, k) = Amount(s, j)
  <1> DEFINE ps   == s.portions
             low  == Last(ps) % Part
             accum == s.accum + low * Power(2, s.offset)
             t    == WordsRound(s)
             Q    == NumberOf(TenPart, Quarter(ps))
             N    == NumberOf(TenPart, ps)
             L    == Len(s.words)
  <1>1. /\ s \in WordsState /\ s.words \in Seq(Word) /\ s.accum \in Nat
        /\ Value(s.words) \in Nat /\ Power(Radix, L) \in Nat
        /\ Power(Radix, L + 1) = Radix * Power(Radix, L)
        /\ Offset(j) \in Nat /\ Offset(j) >= 1 /\ L \in Nat
    BY CollectingIs
  <1>2. ps \in Seq(TenDigit) /\ ps # <<>> /\ ps[1] # 0 /\ ps \in Seq(Nat)
    BY TenDigitIs DEF Leading
  <1>3. Part \in Nat /\ Part > 1 /\ Radix \in Nat /\ Radix > 1 /\ TenPart \in Nat /\ TenPart > 1
    BY PartFacts, RadixIsNat, TenFacts
  <1>4. low \in Nat
    <2>1. Last(ps) \in Nat
      <3>1. Len(ps) \in 1 .. Len(ps) /\ \A i \in 1 .. Len(ps) : ps[i] \in Nat
        BY <1>2
      <3>. QED
        BY <3>1 DEF Last
    <2>. QED
      BY <2>1, <1>3
  <1>5. /\ Quarter(ps) \in Seq(TenDigit)
        /\ Quarter(ps) # <<>> => Quarter(ps)[1] # 0
        /\ N = Part * Q + low
    BY <1>2, QuarterShows
  <1>6. Q \in Nat /\ N \in Nat /\ N >= 1
    <2>1. Q \in Nat /\ N \in Nat
      BY <1>2, <1>5, TenDigitIs
    <2>2. N >= 1
      <3>1. TenPart >= 1
        BY <1>3
      <3>. HIDE DEF ps
      <3>. QED
        BY <3>1, <1>2, <1>3, NumberOfPositive
    <2>. QED
      BY <2>1, <2>2
  <1>7. accum = s.accum + low * Offset(j)
    BY DEF Collecting, Offset
  <1>8. s.offset = 3 * PortionBits <=> j = 3
    <2>1. s.offset = j * PortionBits /\ PortionBits \in Nat /\ PortionBits > 0
      BY DecimalAssumption DEF Collecting
    <2>. QED
      BY <2>1
  <1>9. t = [portions |-> Quarter(s.portions),
             accum    |-> IF j = 3 THEN 0 ELSE accum,
             offset   |-> IF j = 3 THEN 0 ELSE s.offset + PortionBits,
             words    |-> IF j = 3 THEN <<accum>> \o s.words ELSE s.words]
    BY <1>8 DEF WordsRound
  <1>10. t.portions = Quarter(ps)
    BY <1>9
  <1>10a. N = NumberOf(TenPart, s.portions)
    OBVIOUS
  <1>. HIDE DEF low, accum, t, Q, N, ps
  <1>11. accum \in Nat
    BY <1>1, <1>4, <1>7
  <1>12. Quarter(ps) = <<>> => accum > 0
    <2>1. ASSUME Quarter(ps) = <<>> PROVE accum > 0
      <3>1. Q = 0
        BY <2>1, <1>3, NumberOfShort DEF Q
      <3>2. low >= 1
        <4>1. Part * 0 + low = low
          BY <1>3, <1>4
        <4>. QED
          BY <4>1, <3>1, <1>5, <1>6
      <3>3. low * Offset(j) >= 1
        <4>1. \A a, b \in Nat : a >= 1 /\ b >= 1 => a * b >= 1
          OBVIOUS
        <4>. QED
          BY <4>1, <3>2, <1>1, <1>4
      <3>4. low * Offset(j) \in Nat
        BY <1>1, <1>4
      <3>. QED
        BY <3>3, <3>4, <1>1, <1>7
    <2>. QED
      BY <2>1
  <1>13. Offset(j + 1) = Offset(j) * Part /\ Offset(0) = 1 /\ Offset(4) = Radix
    <2>1. j \in Nat
      OBVIOUS
    <2>. QED
      BY <2>1, OffsetIs
  <1>14. Amount(s, j) = (N * Offset(j) + s.accum) * Power(Radix, L) + Value(s.words)
    BY <1>10a DEF Amount
  <1>15. N * Offset(j) + s.accum = Q * (Offset(j) * Part) + accum
    <2> DEFINE o == Offset(j)
               a == s.accum
    <2>1. o \in Nat /\ a \in Nat
      BY <1>1
    <2>. HIDE DEF o, a
    <2>2. (Part * Q + low) * o + a = Q * (o * Part) + (a + low * o)
      BY <2>1, <1>3, <1>4, <1>6
    <2>. QED
      BY <2>2, <1>5, <1>7 DEF o, a
  <1>16. CASE j = 3
    <2>1. /\ t.accum = 0 /\ t.words = <<accum>> \o s.words
          /\ Offset(j) * Part = Radix
      BY <1>9, <1>13, <1>16
    <2>2. t.words \in Seq(Nat) /\ Len(t.words) = L + 1 /\ t.words # <<>> /\ t.words[1] = accum
      <3>1. s.words \in Seq(Nat)
        BY <1>1, ValueIs
      <3>. QED
        BY <3>1, <2>1, <1>11
    <2>3. Value(t.words) = accum * Power(Radix, L) + Value(s.words)
      <3>1. s.words \in Seq(Nat)
        BY <1>1, ValueIs
      <3>2. NumberOf(Radix, <<accum>> \o s.words) = accum * Power(Radix, Len(s.words)) + NumberOf(Radix, s.words)
        BY <3>1, <1>3, <1>11, NumberOfFirst
      <3>. QED
        BY <3>2, <2>1 DEF Value
    <2>4. Amount(t, 0) = (Q * 1 + 0) * Power(Radix, L + 1) + Value(t.words)
      BY <2>1, <2>2, <1>10, <1>13 DEF Amount, Q
    <2>5. Amount(t, 0) = Amount(s, j)
      <3> DEFINE p == Power(Radix, L)
                 v == Value(s.words)
      <3>1. p \in Nat /\ v \in Nat
        BY <1>1
      <3>2. Amount(t, 0) = (Q * 1 + 0) * (Radix * p) + (accum * p + v)
        BY <2>3, <2>4, <1>1
      <3>3. Amount(s, j) = (Q * Radix + accum) * p + v
        BY <2>1, <1>14, <1>15
      <3>. HIDE DEF p, v
      <3>4. (Q * 1 + 0) * (Radix * p) + (accum * p + v) = (Q * Radix + accum) * p + v
        BY <3>1, <1>3, <1>6, <1>11
      <3>. QED
        BY <3>2, <3>3, <3>4
    <2>6. Leading(t)
      BY <2>2, <1>5, <1>10, <1>11, <1>12 DEF Leading
    <2>. QED
      BY <2>5, <2>6, <1>16 DEF t
  <1>17. CASE j # 3
    <2>1. t.accum = accum /\ t.words = s.words
      BY <1>9, <1>17
    <2>2. Amount(t, j + 1) = (Q * Offset(j + 1) + accum) * Power(Radix, L) + Value(s.words)
      BY <2>1, <1>10 DEF Amount, Q
    <2>3. Leading(t)
      BY <2>1, <1>5, <1>10, <1>12 DEF Leading
    <2>. QED
      BY <2>2, <2>3, <1>13, <1>14, <1>15, <1>17 DEF t
  <1>. QED
    BY <1>16, <1>17

(* The words of Numb are the number, and the first of them is not zero. *)
LEMMA WordsShow ==
  ASSUME NEW portions \in Seq(TenDigit) \ {<<>>}, portions[1] # 0
  PROVE  /\ Words(portions) \in Numerals
         /\ Words(portions)[1] # 0
         /\ Value(Words(portions)) = NumberOf(TenPart, portions)
  <1>1. PICK loop : /\ \A s \in WordsState :
                         loop[s] = IF s.portions = <<>> THEN WordsEnd(s) ELSE loop[WordsRound(s)]
                    /\ \A ps : Words(ps) = loop[WordsStart(ps)]
    BY WordsIs
  <1> DEFINE Good(s, j) ==
               loop[s] \in Seq(Word) /\ loop[s] # <<>> /\ loop[s][1] # 0 /\ Value(loop[s]) = Amount(s, j)
             T == {n \in Nat : \A j \in 0 .. 3 : \A s \in WordsState :
                     Collecting(s, j) /\ Leading(s) /\ Effort(s.portions) < n => Good(s, j)}
  <1>2. 0 \in T
    <2>1. \A s \in WordsState : Effort(s.portions) \in Nat
      BY EffortIsNat DEF WordsState
    <2>2. \A s \in WordsState : ~(Effort(s.portions) < 0)
      BY <2>1
    <2>. HIDE DEF Good
    <2>. QED
      BY <2>2
  <1>3. ASSUME NEW n \in Nat, n \in T PROVE n + 1 \in T
    <2>1. ASSUME NEW j \in 0 .. 3, NEW s \in WordsState, Collecting(s, j), Leading(s),
                 Effort(s.portions) < n + 1
          PROVE  Good(s, j)
      <3>1. /\ s.words \in Seq(Word) /\ s.portions \in Seq(Word) /\ s.accum \in Nat /\ s.accum \in Word
            /\ Value(s.words) \in Nat /\ Power(Radix, Len(s.words)) \in Nat /\ Offset(j) \in Nat
        BY <2>1, CollectingIs
      <3>2. Effort(s.portions) \in Nat
        BY <3>1, EffortIsNat
      <3>3. CASE s.portions = <<>>
        <4>1. loop[s] = WordsEnd(s)
          BY <1>1, <3>3
        <4>2. NumberOf(TenPart, s.portions) = 0
          BY <3>3, TenFacts, NumberOfShort
        <4>3. Amount(s, j) = s.accum * Power(Radix, Len(s.words)) + Value(s.words)
          <5>1. 0 * Offset(j) + s.accum = s.accum
            BY <3>1
          <5>. QED
            BY <5>1, <4>2 DEF Amount
        <4>4. CASE s.accum > 0
          <5> DEFINE w == s.words
                     a == s.accum
          <5>1. loop[s] = <<a>> \o w /\ w \in Seq(Word) /\ w \in Seq(Nat) /\ a \in Word /\ a \in Nat /\ a # 0
            BY <4>1, <4>4, <3>1, ValueIs DEF WordsEnd
          <5>. HIDE DEF w, a
          <5>2. Value(<<a>> \o w) = a * Power(Radix, Len(w)) + Value(w)
            BY <5>1, RadixIsNat, NumberOfFirst DEF Value
          <5>3. <<a>> \o w \in Seq(Word) /\ <<a>> \o w # <<>> /\ (<<a>> \o w)[1] = a
            BY <5>1
          <5>. QED
            BY <5>1, <5>2, <5>3, <4>3 DEF w, a
        <4>5. CASE ~(s.accum > 0)
          <5>1. s.accum = 0 /\ loop[s] = s.words
            BY <4>1, <4>5, <3>1 DEF WordsEnd
          <5>2. s.words # <<>> /\ s.words[1] # 0
            BY <4>5, <3>3, <2>1 DEF Leading
          <5>3. 0 * Power(Radix, Len(s.words)) + Value(s.words) = Value(s.words)
            BY <3>1
          <5>. QED
            BY <5>1, <5>2, <5>3, <4>3, <3>1
        <4>. QED
          BY <4>4, <4>5
      <3>4. CASE s.portions # <<>>
        <4> DEFINE t == WordsRound(s)
                   k == IF j = 3 THEN 0 ELSE j + 1
        <4>1. Collecting(t, k) /\ t.portions = Quarter(s.portions)
          BY <2>1, <3>4, RoundCollects
        <4>2. Effort(t.portions) \in Nat /\ Effort(t.portions) < Effort(s.portions)
          BY <3>1, <3>4, <4>1, QuarterFalls
        <4>3. t \in WordsState /\ k \in 0 .. 3
          BY <3>4, WordsRoundTyped
        <4>4. loop[s] = loop[t]
          BY <1>1, <3>4
        <4>5. Leading(t) /\ Amount(t, k) = Amount(s, j)
          BY <2>1, <3>4, RoundShows
        <4>. HIDE DEF t, k
        <4>6. Effort(t.portions) < n
          BY <4>2, <2>1, <3>2
        <4>7. Good(t, k)
          <5>. HIDE DEF Good
          <5>. QED
            BY <1>3, <4>1, <4>3, <4>5, <4>6
        <4>. QED
          BY <4>4, <4>5, <4>7
      <3>. QED
        BY <3>3, <3>4
    <2>. HIDE DEF Good
    <2>. QED
      BY <2>1
  <1>. HIDE DEF T
  <1>4. Nat \subseteq T
    BY <1>2, <1>3, InductionOnSet
  <1> DEFINE s == WordsStart(portions)
  <1>5. portions \in Seq(Word) /\ NumberOf(TenPart, portions) \in Nat /\ portions # <<>>
    BY TenDigitIs
  <1>6. /\ s \in WordsState /\ Collecting(s, 0) /\ s.words = <<>> /\ s.portions = portions /\ s.accum = 0
    BY <1>5, OffsetIs, DecimalAssumption DEF WordsStart, WordsState, Collecting
  <1>7. Leading(s)
    BY <1>5, <1>6 DEF Leading
  <1>8. Words(portions) = loop[s]
    BY <1>1
  <1>. HIDE DEF s
  <1>9. Effort(portions) \in Nat
    BY <1>5, EffortIsNat
  <1>10. Good(s, 0)
    <2>1. Effort(portions) + 1 \in T /\ Effort(portions) < Effort(portions) + 1
      BY <1>4, <1>9
    <2>. HIDE DEF Good
    <2>. QED
      BY <2>1, <1>6, <1>7 DEF T
  <1>11. Amount(s, 0) = NumberOf(TenPart, portions)
    <2> DEFINE N == NumberOf(TenPart, portions)
    <2>1. /\ Offset(0) = 1 /\ Len(<<>>) = 0 /\ Power(Radix, 0) = 1 /\ Value(<<>>) = 0
      BY OffsetIs, PowerIs, RadixIsNat, NumberOfShort DEF Value
    <2>2. Amount(s, 0) = (N * 1 + 0) * 1 + 0
      BY <2>1, <1>6 DEF Amount
    <2>. HIDE DEF N
    <2>3. N \in Nat
      BY <1>5 DEF N
    <2>. QED
      BY <2>2, <2>3 DEF N
  <1>. QED
    BY <1>8, <1>10, <1>11 DEF Numerals

-----------------------------------------------------------------------------
(* Numbers in cells.                                                        *)

\* A number of the words ws behind the sign s.
Numeral(s, ws) == s \o [i \in DOMAIN ws |-> Number(ws[i])]

SignCells == {<<>>, <<Minus>>, <<Plus>>}

(* What is behind a sign, and the sign. *)
LEMMA SignedIs ==
  ASSUME NEW s \in SignCells, NEW w \in Seq(Cell), w # <<>>, w[1] \notin {Minus, Plus}
  PROVE  /\ s \o w \in Seq(Cell) /\ Unsigned(s \o w) = w
         /\ SignOf(s \o w) = IF s = <<Minus>> THEN -1 ELSE 1
         /\ Len(s \o w) = Len(s) + Len(w)
         /\ s = <<>> => Len(s) = 0 /\ s \o w = w
         /\ s # <<>> => Len(s) = 1 /\ s[1] \in {Minus, Plus} /\ (s \o w)[1] = s[1] /\ Tail(s \o w) = w
  <1> DEFINE c == s \o w
  <1>5. Minus # Plus
    BY CharsDiffer DEF Minus, Plus
  <1>0. <<>> # <<Minus>> /\ <<Plus>> # <<Minus>> /\ <<>> # <<Plus>>
    <2>1. <<Plus>>[1] = Plus /\ <<Minus>>[1] = Minus /\ Len(<<>>) = 0 /\ Len(<<Minus>>) = 1 /\ Len(<<Plus>>) = 1
      OBVIOUS
    <2>. QED
      BY <2>1, <1>5
  <1>7. c = s \o w
    OBVIOUS
  <1>. HIDE DEF c
  <1>1. CASE s = <<>>
    <2>1. c = w
      BY <1>7, <1>1
    <2>2. Unsigned(c) = w
      BY <2>1 DEF Unsigned
    <2>3. SignOf(c) = 1
      BY <2>1 DEF SignOf
    <2>4. Len(s) = 0 /\ Len(w) = 0 + Len(w)
      BY <1>1
    <2>. QED
      BY <2>1, <2>2, <2>3, <2>4, <1>0, <1>1 DEF c
  <1>2. ASSUME NEW g \in Cell, s = <<g>>
        PROVE  /\ c \in Seq(Cell) /\ c # <<>> /\ c[1] = g /\ Tail(c) = w /\ Len(c) = Len(s) + Len(w)
               /\ Len(s) = 1 /\ s[1] = g
    <2>1. \A v \in Seq(Cell) : <<g>> \o v \in Seq(Cell) /\ <<g>> \o v # <<>>
                            /\ (<<g>> \o v)[1] = g /\ Tail(<<g>> \o v) = v /\ Len(<<g>> \o v) = 1 + Len(v)
      OBVIOUS
    <2>2. Len(<<g>>) = 1 /\ <<g>>[1] = g
      OBVIOUS
    <2>. QED
      BY <2>1, <2>2, <1>2, <1>7
  <1>3. CASE s = <<Minus>>
    <2>1. c \in Seq(Cell) /\ c # <<>> /\ c[1] = Minus /\ Tail(c) = w /\ Len(c) = Len(s) + Len(w)
          /\ Len(s) = 1 /\ s[1] = Minus
      BY <1>2, <1>3, CellsAre
    <2>2. Unsigned(c) = w
      BY <2>1 DEF Unsigned
    <2>3. SignOf(c) = -1
      BY <2>1 DEF SignOf
    <2>. QED
      BY <2>1, <2>2, <2>3, <1>0, <1>3 DEF c
  <1>4. CASE s = <<Plus>>
    <2>1. c \in Seq(Cell) /\ c # <<>> /\ c[1] = Plus /\ Tail(c) = w /\ Len(c) = Len(s) + Len(w)
          /\ Len(s) = 1 /\ s[1] = Plus
      BY <1>2, <1>4, CellsAre
    <2>2. Unsigned(c) = w
      BY <2>1 DEF Unsigned
    <2>3. SignOf(c) = 1
      BY <2>1, <1>5 DEF SignOf
    <2>. QED
      BY <2>1, <2>2, <2>3, <1>0, <1>4 DEF c
  <1>. QED
    BY <1>1, <1>3, <1>4 DEF SignCells

LEMMA NumeralIs ==
  ASSUME NEW s \in SignCells, NEW ws \in Numerals
  PROVE  /\ Numeral(s, ws) \in Seq(Cell) /\ IsNumeral(Numeral(s, ws))
         /\ Len(Unsigned(Numeral(s, ws))) = Len(ws)
         /\ SignOf(Numeral(s, ws)) = IF s = <<Minus>> THEN -1 ELSE 1
         /\ NumeralValue(Numeral(s, ws)) = (IF s = <<Minus>> THEN -1 ELSE 1) * Value(ws)
  <1> DEFINE n == Len(ws)
             w == [i \in DOMAIN ws |-> Number(ws[i])]
             c == Numeral(s, ws)
  <1>1. n \in Nat /\ n >= 1 /\ DOMAIN ws = 1 .. n /\ \A i \in 1 .. n : ws[i] \in Word
    BY DEF Numerals
  <1>. HIDE DEF n
  <1>2. w = [i \in 1 .. n |-> Number(ws[i])]
    BY <1>1
  <1>3. w \in Seq(Cell) /\ Len(w) = n /\ \A i \in 1 .. n : w[i] = Number(ws[i])
    <2>1. w \in [1 .. n -> Cell]
      BY <1>1, <1>2, CellsAre
    <2>. HIDE DEF w
    <2>2. w \in Seq(Cell) /\ Len(w) = n
      BY <2>1, <1>1, FunctionIsSeq
    <2>. QED
      BY <2>2, <1>2
  <1>4. \A i \in 1 .. n : w[i].tag = "number" /\ w[i].value = ws[i]
    BY <1>3, CharsDiffer
  <1>. HIDE DEF w
  <1>5. Minus.tag = "char" /\ Plus.tag = "char" /\ Minus # Plus /\ "char" # "number"
    BY CharsDiffer DEF Minus, Plus
  <1>6. w # <<>> /\ w[1] \notin {Minus, Plus} /\ 1 \in 1 .. n /\ DOMAIN w = 1 .. n
    <2>1. 1 \in 1 .. n
      BY <1>1
    <2>2. w[1].tag = "number"
      BY <2>1, <1>4
    <2>. QED
      BY <2>1, <2>2, <1>3, <1>5
  <1>7. c = s \o w
    BY DEF Numeral, w
  <1>8. /\ c \in Seq(Cell) /\ Unsigned(c) = w
        /\ SignOf(c) = IF s = <<Minus>> THEN -1 ELSE 1
    BY <1>3, <1>6, <1>7, SignedIs
  <1>9. IsNumeral(c)
    BY <1>4, <1>6, <1>8 DEF IsNumeral
  <1>10. NumeralValue(c) = SignOf(c) * Value(ws)
    <2>1. [i \in DOMAIN w |-> w[i].value] = ws
      <3>1. [i \in DOMAIN w |-> w[i].value] = [i \in 1 .. n |-> ws[i]]
        BY <1>4, <1>6
      <3>2. ws = [i \in 1 .. n |-> ws[i]]
        BY <1>1 DEF Numerals
      <3>. QED
        BY <3>1, <3>2
    <2>2. NumeralValue(c) = SignOf(c) * NumberOf(Radix, [i \in DOMAIN w |-> w[i].value])
      BY <1>8 DEF NumeralValue
    <2>. QED
      BY <2>1, <2>2 DEF Value
  <1>. QED
    BY <1>3, <1>8, <1>9, <1>10 DEF n, c

(* A number without a zero word in front shows itself as Calculator has it. *)
LEMMA NumeralShows ==
  ASSUME NEW s \in SignCells, NEW ws \in Numerals, ws[1] # 0 \/ Len(ws) = 1
  PROVE  ShownNumber(Numeral(s, ws))
           = Integer!Exact((IF s = <<Minus>> THEN -1 ELSE 1) * Value(ws))
  <1> DEFINE g == IF s = <<Minus>> THEN -1 ELSE 1
             v == Value(ws)
             n == Len(ws)
             c == Numeral(s, ws)
  <1>1. IsNumeral(c) /\ Len(Unsigned(c)) = n /\ NumeralValue(c) = g * v
    BY NumeralIs
  <1>2. ws \in Seq(Word) /\ ws # <<>> /\ n \in Nat /\ n >= 1
    BY DEF Numerals
  <1>3. v \in Nat /\ v < Power(Radix, n) /\ (ws[1] # 0 => v >= Power(Radix, n - 1))
    BY <1>2, ValueIs
  <1>4. g \in {-1, 1}
    OBVIOUS
  <1>5. ws[1] # 0 \/ n = 1
    OBVIOUS
  <1>6. n > 1 <=> v >= Radix
    <2>. HIDE DEF n, v
    <2>1. CASE n = 1
      <3>1. Power(Radix, 1) = Radix
        BY RadixIsNat, PowerIs
      <3>. QED
        BY <3>1, <2>1, <1>3, RadixIsNat
    <2>2. CASE n # 1
      <3>1. n - 1 \in Nat /\ n - 1 >= 1 /\ n > 1
        BY <2>2, <1>2
      <3>2. Power(Radix, 1) = Radix
        BY RadixIsNat, PowerIs
      <3>3. Power(Radix, 1) <= Power(Radix, n - 1)
        <4>1. Radix \in Nat /\ Radix >= 1 /\ 1 \in Nat
          BY RadixIsNat
        <4>. QED
          BY <4>1, <3>1, PowerMonotone
      <3>4. Power(Radix, n - 1) \in Nat
        BY <3>1, RadixIsNat, PowerIs
      <3>. QED
        BY <3>1, <3>2, <3>3, <3>4, <1>3, <1>5, <2>2, RadixIsNat
    <2>. QED
      BY <2>1, <2>2
  <1>. HIDE DEF g, v, n
  <1>7. Integer!Abs(g * v) = v
    BY <1>3, <1>4 DEF Integer!Abs
  <1>8. ShownNumber(c) = [kind |-> "number", value |-> g * v, long |-> n > 1]
    BY <1>1 DEF ShownNumber
  <1>9. Integer!Exact(g * v) = [kind |-> "number", value |-> g * v, long |-> v >= Radix]
    BY <1>7 DEF Integer!Exact
  <1>. QED
    BY <1>6, <1>8, <1>9 DEF g, v, c

-----------------------------------------------------------------------------
(* Texts.                                                                   *)

(* Zeros in front do not count. *)
LEMMA ZerosDoNotCount ==
  ASSUME NEW base \in Nat, NEW z \in Seq({0}), NEW v \in Seq(Nat)
  PROVE  NumberOf(base, z \o v) = NumberOf(base, v)
  <1> DEFINE T == {u \in Seq({0}) : \A e \in Seq(Nat) : NumberOf(base, u \o e) = NumberOf(base, e)}
  <1>1. <<>> \in T
    <2>1. \A e \in Seq(Nat) : <<>> \o e = e
      OBVIOUS
    <2>2. <<>> \in Seq({0})
      OBVIOUS
    <2>. QED
      BY <2>1, <2>2
  <1>2. ASSUME NEW u \in Seq({0}), NEW x \in {0}, u \in T PROVE Append(u, x) \in T
    <2>1. Append(u, x) \in Seq({0})
      OBVIOUS
    <2>2. ASSUME NEW e \in Seq(Nat) PROVE NumberOf(base, Append(u, x) \o e) = NumberOf(base, e)
      <3> DEFINE k == <<0>> \o e
      <3>1. \A rr, q \in Seq(Nat) : Append(rr, 0) \o q = rr \o (<<0>> \o q)
        OBVIOUS
      <3>2. u \in Seq(Nat) /\ x = 0
        OBVIOUS
      <3>3. Append(u, x) \o e = u \o k
        BY <3>1, <3>2
      <3>4. k \in Seq(Nat) /\ k # <<>> /\ k[1] = 0 /\ Tail(k) = e
        OBVIOUS
      <3>. HIDE DEF k
      <3>5. NumberOf(base, u \o k) = NumberOf(base, k)
        BY <3>4, <1>2
      <3>6. NumberOf(base, e) = NumberOf(base, k)
        BY <3>4, NumberOfTail
      <3>. QED
        BY <3>3, <3>5, <3>6
    <2>. QED
      BY <2>1, <2>2
  <1>. HIDE DEF T
  <1>3. Seq({0}) \subseteq T
    BY <1>1, <1>2, InductionOnSeq
  <1>. QED
    BY <1>3 DEF T

LEMMA ZerosInFront ==
  ASSUME NEW z \in Seq({Char(Zero)}), NEW d \in Seq(Digit)
  PROVE  z \o d \in Seq(Digit) /\ NumberOf(10, Figures(z \o d)) = NumberOf(10, Figures(d))
  <1>1. Char(Zero) \in Digit /\ Char(Zero).value - Zero = 0
    <2>1. 0 \in 0 .. 9 /\ Zero + 0 = Zero
      BY DEF Zero
    <2>2. Char(Zero) \in Digit
      BY <2>1 DEF Digit
    <2>. QED
      BY <2>2, FiguresAre
  <1>2. z \in Seq(Digit) /\ \A i \in 1 .. Len(z) : z[i] = Char(Zero)
    BY <1>1
  <1>3. z \o d \in Seq(Digit)
    BY <1>2
  <1>4. Figures(z \o d) = Figures(z) \o Figures(d) /\ Figures(d) \in Seq(Nat)
    BY <1>2, FiguresAre
  <1>5. Figures(z) \in Seq({0})
    <2> DEFINE n == Len(z)
    <2>1. n \in Nat /\ DOMAIN z = 1 .. n
      BY <1>2
    <2>2. Figures(z) \in [1 .. n -> {0}]
      BY <2>1, <1>1, <1>2 DEF Figures
    <2>. HIDE DEF n
    <2>. QED
      BY <2>1, <2>2, FunctionIsSeq
  <1>6. 10 \in Nat
    OBVIOUS
  <1>. QED
    BY <1>3, <1>4, <1>5, <1>6, ZerosDoNotCount

\* Where the sign and the digits of a text are.
SignedAt(t, a) == a \in DOMAIN t /\ t[a] \in {Minus, Plus}
DigitsFrom(t, a) == IF SignedAt(t, a) THEN a + 1 ELSE a

NumberAt(t, a, b) ==
  /\ \A i \in 1 .. a - 1 : t[i] \in Blank
  /\ a \in DOMAIN t => t[a] \notin Blank
  /\ b + 1 >= DigitsFrom(t, a)
  /\ \A i \in DigitsFrom(t, a) .. b : t[i] \in Digit
  /\ b + 1 \in DOMAIN t => t[b + 1] \notin Digit

(* There is only one such range. *)
LEMMA NumberIsUnique ==
  ASSUME NEW t \in Seq(Cell), NEW a \in 1 .. Len(t) + 1, NEW b \in 0 .. Len(t), NumberAt(t, a, b),
         NEW c \in 1 .. Len(t) + 1, NEW d \in 0 .. Len(t), NumberAt(t, c, d)
  PROVE  a = c /\ b = d
  <1> DEFINE n == Len(t)
  <1>1. n \in Nat /\ DOMAIN t = 1 .. n
    OBVIOUS
  <1>. HIDE DEF n
  <1>2. ASSUME NEW p \in 1 .. n + 1, NEW q \in 1 .. n + 1, \A i \in 1 .. q - 1 : t[i] \in Blank,
               p \in DOMAIN t => t[p] \notin Blank
        PROVE  ~(p < q)
    BY <1>1, <1>2
  <1>3. a = c
    <2>1. ~(a < c) /\ ~(c < a)
      BY <1>2 DEF NumberAt, n
    <2>. QED
      BY <2>1, <1>1 DEF n
  <1> DEFINE s == DigitsFrom(t, a)
  <1>4. s \in Nat /\ s >= 1
    BY DEF DigitsFrom
  <1>5. /\ b + 1 >= s /\ (\A i \in s .. b : t[i] \in Digit) /\ (b + 1 \in DOMAIN t => t[b + 1] \notin Digit)
        /\ d + 1 >= s /\ (\A i \in s .. d : t[i] \in Digit) /\ (d + 1 \in DOMAIN t => t[d + 1] \notin Digit)
    BY <1>3 DEF NumberAt
  <1>. HIDE DEF s
  <1>6. ASSUME NEW p \in 0 .. n, NEW q \in 0 .. n, p + 1 >= s, p < q, \A i \in s .. q : t[i] \in Digit,
               p + 1 \in DOMAIN t => t[p + 1] \notin Digit
        PROVE  FALSE
    <2>1. p + 1 \in DOMAIN t /\ p + 1 \in s .. q
      BY <1>1, <1>4, <1>6
    <2>. QED
      BY <2>1, <1>6
  <1>7. ~(b < d) /\ ~(d < b)
    <2>1. ASSUME b < d PROVE FALSE
      BY <2>1, <1>5, <1>6 DEF n
    <2>2. ASSUME d < b PROVE FALSE
      BY <2>2, <1>5, <1>6 DEF n
    <2>. QED
      BY <2>1, <2>2
  <1>. QED
    BY <1>1, <1>3, <1>7 DEF n

LEMMA TextIs ==
  ASSUME NEW t \in Seq(Cell), NEW a \in 1 .. Len(t) + 1, NEW b \in 0 .. Len(t), NumberAt(t, a, b)
  PROVE  TextValue(t) =
           SignOf(SubSeq(t, a, b)) * NumberOf(10, Figures(Unsigned(SubSeq(t, a, b))))
  <1> DEFINE R == (1 .. Len(t) + 1) \X (0 .. Len(t))
             Good(range) == NumberAt(t, range[1], range[2])
             number == CHOOSE range \in R : Good(range)
  <1>1. TextValue(t) = SignOf(SubSeq(t, number[1], number[2]))
                       * NumberOf(10, Figures(Unsigned(SubSeq(t, number[1], number[2]))))
    BY DEF TextValue, NumberAt, SignedAt, DigitsFrom, Figures
  <1> DEFINE rr == <<a, b>>
  <1>2. rr \in R /\ rr[1] = a /\ rr[2] = b
    OBVIOUS
  <1>3. Good(rr)
    BY <1>2
  <1>. HIDE DEF rr
  <1>4. number \in R /\ Good(number)
    <2>. HIDE DEF R, Good
    <2>. QED
      BY <1>2, <1>3
  <1>. HIDE DEF number
  <1>5. number[1] \in 1 .. Len(t) + 1 /\ number[2] \in 0 .. Len(t) /\ NumberAt(t, number[1], number[2])
    BY <1>4
  <1>6. number[1] = a /\ number[2] = b
    <2> DEFINE c == number[1]
               d == number[2]
    <2>1. c \in 1 .. Len(t) + 1 /\ d \in 0 .. Len(t) /\ NumberAt(t, c, d)
      BY <1>5
    <2>. HIDE DEF c, d
    <2>2. a = c /\ b = d
      BY <2>1, NumberIsUnique
    <2>. QED
      BY <2>2 DEF c, d
  <1>. QED
    BY <1>1, <1>6

-----------------------------------------------------------------------------
(* Numb and Symb show what they got.                                        *)

LEMMA RangeIs ==
  ASSUME NEW X, NEW s \in Seq(X), NEW p \in 1 .. Len(s) + 1, NEW q \in 0 .. Len(s), q + 1 >= p
  PROVE  /\ SubSeq(s, p, q) \in Seq(X) /\ Len(SubSeq(s, p, q)) = q + 1 - p
         /\ \A i \in 1 .. q + 1 - p : SubSeq(s, p, q)[i] = s[p + i - 1]
  OBVIOUS

(* The nodes of a call of a function with one argument. *)
LEMMA UnaryCall ==
  ASSUME NEW f \in Unary, NEW t \in Seq(Cell), NEW y \in Seq(Cell)
  PROVE  LET cells == CallOf(f, t, y, FALSE)
         IN  /\ cells \in CallCells /\ Len(cells) = Len(t) + 3
             /\ \A i \in 1 .. Len(t) : cells[i + 2] = t[i]
  <1> DEFINE begin == <<Other("open_call"), Other("function")>>
             end == <<Other("close_call")>>
             cells == CallOf(f, t, y, FALSE)
             b == begin \o t
             n == Len(t)
  <1>1. begin \in Seq(Cell) /\ Len(begin) = 2 /\ end \in Seq(Cell) /\ Len(end) = 1
    BY CellsAre
  <1>2. cells = ((begin \o t) \o <<>>) \o end
    BY DEF CallOf
  <1>0. n \in Nat
    OBVIOUS
  <1>. HIDE DEF begin, end, n
  <1>3. b \in Seq(Cell) /\ Len(b) = 2 + n /\ (\A i \in 1 .. 2 + n : b[i] = IF i <= 2 THEN begin[i] ELSE t[i - 2])
    <2>1. /\ b \in Seq(Cell) /\ Len(b) = Len(begin) + n
          /\ \A i \in 1 .. Len(begin) + n : b[i] = IF i <= Len(begin) THEN begin[i] ELSE t[i - Len(begin)]
      BY <1>1, ConcatProperties DEF n
    <2>. HIDE DEF b
    <2>. QED
      BY <2>1, <1>1
  <1>4. b \o <<>> = b
    BY <1>3, ConcatEmptySeq
  <1>5. cells = b \o end
    BY <1>2, <1>4
  <1>. HIDE DEF b
  <1>6. Len(b \o end) = 3 + n /\ \A i \in 1 .. 3 + n : (b \o end)[i] = IF i <= 2 + n THEN b[i] ELSE end[i - (2 + n)]
    <2>1. /\ Len(b \o end) = Len(b) + Len(end)
          /\ \A i \in 1 .. Len(b) + Len(end) : (b \o end)[i] = IF i <= Len(b) THEN b[i] ELSE end[i - Len(b)]
      BY <1>1, <1>3, ConcatProperties
    <2>2. Len(b) + Len(end) = 3 + n /\ Len(b) = 2 + n
      BY <1>0, <1>1, <1>3
    <2>. QED
      BY <2>1, <2>2
  <1>7. cells \in CallCells
    BY CallIsCells
  <1>. HIDE DEF cells
  <1>8. Len(cells) = n + 3
    BY <1>0, <1>5, <1>6
  <1>9. ASSUME NEW i \in 1 .. n PROVE cells[i + 2] = t[i]
    <2>1. i + 2 \in 1 .. 3 + n /\ i + 2 \in 1 .. 2 + n /\ i + 2 <= 2 + n /\ ~(i + 2 <= 2) /\ (i + 2) - 2 = i
      BY <1>0
    <2>2. cells[i + 2] = b[i + 2]
      BY <2>1, <1>5, <1>6
    <2>3. b[i + 2] = t[(i + 2) - 2]
      BY <2>1, <1>3
    <2>. QED
      BY <2>1, <2>2, <2>3
  <1>. QED
    BY <1>7, <1>8, <1>9 DEF cells, n

(* Numb leaves the number that the text shows. *)
LEMMA NumbShows ==
  ASSUME NEW t \in Seq(Cell), NEW cells \in CallCells, Len(cells) = Len(t) + 3,
         \A i \in 1 .. Len(t) : cells[i + 2] = t[i]
  PROVE  \E s \in SignCells, ws \in Numerals :
           /\ Numb(cells) = Left(Numeral(s, ws))
           /\ ws[1] # 0 \/ Len(ws) = 1
           /\ (IF s = <<Minus>> THEN -1 ELSE 1) * Value(ws) = TextValue(t)
  <1> DEFINE n == Len(cells)
             m == Len(t)
             at       == Skip(cells, 3, Blank)
             signed   == cells[at] \in {Minus, Plus}
             sign     == IF cells[at] = Minus THEN <<Minus>> ELSE <<>>
             start    == IF signed THEN at + 1 ELSE at
             first    == Skip(cells, start, {Char(Zero)})
             end      == Skip(cells, first, Digit)
             digits   == SubSeq(cells, first, end - 1)
             portions == Portions(digits)
             words    == Words(portions)
             g        == IF sign = <<Minus>> THEN -1 ELSE 1
  <1>1. /\ cells \in Seq(Cell) /\ n \in Nat /\ n >= 3 /\ n = m + 3 /\ m \in Nat
        /\ cells[n].tag = "close_call"
    BY CharsDiffer DEF CallCells
  <1>2. /\ \A c \in Blank \cup Digit \cup {Minus, Plus, Char(Zero)} : c.tag = "char"
        /\ cells[n] \notin Blank /\ cells[n] \notin Digit /\ cells[n] \notin {Minus, Plus}
        /\ cells[n] \notin {Char(Zero)}
    <2>1. \A c \in Blank \cup Digit \cup {Minus, Plus, Char(Zero)} : c.tag = "char"
      BY CharsDiffer DEF Blank, Digit, Minus, Plus
    <2>. QED
      BY <1>1, <2>1
  <1>3. at \in 3 .. n /\ cells[at] \notin Blank /\ \A i \in 3 .. at - 1 : cells[i] \in Blank
    <2>1. 3 \in 1 .. Len(cells)
      BY <1>1
    <2>. QED
      BY <2>1, <1>1, <1>2, SkipIs
  <1>4. start \in 3 .. n /\ start \in 1 .. n /\ (signed => at # n)
    <2>1. cells[at] \in {Minus, Plus} => at # n
      BY <1>2
    <2>. HIDE DEF at, n
    <2>. QED
      BY <2>1, <1>1, <1>3
  <1>5. sign \in {<<>>, <<Minus>>} /\ g = (IF cells[at] = Minus THEN -1 ELSE 1) /\ sign \in SignCells
    <2>1. <<>> # <<Minus>>
      <3>1. Len(<<>>) = 0 /\ Len(<<Minus>>) = 1
        OBVIOUS
      <3>. QED
        BY <3>1
    <2>. HIDE DEF at
    <2>. QED
      BY <2>1 DEF SignCells
  <1> DEFINE neg == cells[at] = Minus
  <1>. HIDE DEF at, sign, start, signed, g, neg
  <1>6. first \in start .. n /\ cells[first] # Char(Zero) /\ \A i \in start .. first - 1 : cells[i] = Char(Zero)
    <2>1. first \in start .. n /\ cells[first] \notin {Char(Zero)} /\ \A i \in start .. first - 1 : cells[i] \in {Char(Zero)}
      BY <1>1, <1>2, <1>4, SkipIs
    <2>. HIDE DEF first
    <2>. QED
      BY <2>1
  <1>. HIDE DEF first
  <1>6a. first \in 1 .. n /\ first \in Nat /\ start \in Nat /\ start >= 3 /\ start <= first /\ first <= n
         /\ at \in Nat /\ at >= 3 /\ at <= n
    BY <1>1, <1>3, <1>4, <1>6
  <1>7. end \in first .. n /\ cells[end] \notin Digit /\ \A i \in first .. end - 1 : cells[i] \in Digit
    BY <1>1, <1>2, <1>6a, SkipIs
  <1>. HIDE DEF end
  <1>7a. end \in Nat /\ first <= end /\ end <= n
    BY <1>1, <1>6a, <1>7
  <1>8. \A i \in start .. end - 1 : cells[i] \in Digit
    <2>1. Char(Zero) \in Digit
      <3>1. 0 \in 0 .. 9 /\ Zero + 0 = Zero
        BY DEF Zero
      <3>. QED
        BY <3>1 DEF Digit
    <2>2. ASSUME NEW i \in start .. end - 1 PROVE cells[i] \in Digit
      <3>1. i \in start .. first - 1 \/ i \in first .. end - 1
        BY <1>6a, <1>7a
      <3>. QED
        BY <3>1, <2>1, <1>6, <1>7
    <2>. QED
      BY <2>2
  \* The same places in the text.
  <1> DEFINE a == at - 2
             b == end - 3
  <1>9. a \in 1 .. m + 1 /\ b \in 0 .. m /\ a \in Nat /\ b \in Nat
    BY <1>1, <1>6a, <1>7a
  <1>10. \A i \in 1 .. m : t[i] = cells[i + 2]
    BY DEF m
  <1>11. DOMAIN t = 1 .. m /\ m = Len(t)
    OBVIOUS
  <1>. HIDE DEF n, m
  <1>12. /\ a \in DOMAIN t => t[a] = cells[at]
         /\ b + 1 \in DOMAIN t => t[b + 1] = cells[end]
    <2>1. a + 2 = at /\ (b + 1) + 2 = end
      BY <1>6a, <1>7a
    <2>. HIDE DEF a, b
    <2>. QED
      BY <2>1, <1>10, <1>11
  <1>13. SignedAt(t, a) <=> signed
    <2>1. a \in DOMAIN t <=> at # n
      BY <1>1, <1>6a, <1>11
    <2>2. at = n => ~signed
      BY <1>4
    <2>. HIDE DEF a
    <2>. QED
      BY <2>1, <2>2, <1>12 DEF SignedAt, signed
  <1>14. DigitsFrom(t, a) = start - 2
    BY <1>6a, <1>13 DEF DigitsFrom, start
  <1>15. NumberAt(t, a, b)
    <2>1. ASSUME NEW i \in 1 .. a - 1 PROVE t[i] \in Blank
      <3>1. i \in 1 .. m /\ i + 2 \in 3 .. at - 1
        BY <1>1, <1>6a
      <3>. QED
        BY <3>1, <1>3, <1>10
    <2>2. b + 1 >= start - 2
      BY <1>6a, <1>7a
    <2>3. ASSUME NEW i \in start - 2 .. b PROVE t[i] \in Digit
      <3>1. i \in 1 .. m /\ i + 2 \in start .. end - 1
        BY <1>1, <1>6a, <1>7a
      <3>. QED
        BY <3>1, <1>8, <1>10
    <2>. HIDE DEF a, b
    <2>. QED
      BY <2>1, <2>2, <2>3, <1>3, <1>7, <1>12, <1>14 DEF NumberAt
  <1> DEFINE u == SubSeq(t, a, b)
             v == SubSeq(cells, start, end - 1)
             z == SubSeq(cells, start, first - 1)
  <1>16. TextValue(t) = SignOf(u) * NumberOf(10, Figures(Unsigned(u)))
    <2>1. a \in 1 .. Len(t) + 1 /\ b \in 0 .. Len(t)
      BY <1>9, <1>11
    <2>. HIDE DEF a, b
    <2>. QED
      BY <2>1, <1>15, TextIs
  <1>17. z \in Seq({Char(Zero)}) /\ digits \in Seq(Digit) /\ v = z \o digits /\ (digits # <<>> => digits[1] = cells[first])
         /\ Len(v) = end - start /\ \A i \in 1 .. end - start : v[i] = cells[start + i - 1]
    <2> DEFINE k == first - 1
               e == end - 1
    <2>1. /\ k \in Int /\ e \in Int /\ start \in Int /\ first \in Int /\ k + 1 = first
          /\ start \in 1 .. Len(cells) + 1 /\ k \in start - 1 .. Len(cells) /\ e \in k .. Len(cells)
      BY <1>6a, <1>7a DEF n
    <2>2. (\A i \in start .. k : cells[i] \in {Char(Zero)}) /\ \A i \in first .. e : cells[i] \in Digit
      BY <1>6, <1>7
    <2>2a. e + 1 >= start /\ e \in 0 .. Len(cells) /\ e + 1 - start = end - start
      BY <1>6a, <1>7a DEF n
    <2>. HIDE DEF k, e
    <2>3. SubSeq(cells, start, k) \in Seq({Char(Zero)})
      BY <2>1, <2>2, SubSeqProperties
    <2>4. /\ SubSeq(cells, first, e) \in Seq(Digit)
          /\ Len(SubSeq(cells, first, e)) = IF first <= e THEN e - first + 1 ELSE 0
          /\ \A i \in 1 .. e - first + 1 : SubSeq(cells, first, e)[i] = cells[first + i - 1]
      BY <2>1, <2>2, SubSeqProperties
    <2>5. SubSeq(cells, start, k) \o SubSeq(cells, k + 1, e) = SubSeq(cells, start, e)
      BY <1>1, <2>1, ConcatAdjacentSubSeq
    <2>6. SubSeq(cells, first, e) # <<>> => SubSeq(cells, first, e)[1] = cells[first]
      <3> DEFINE d == SubSeq(cells, first, e)
      <3>. HAVE d # <<>>
      <3>0. d \in Seq(Digit) /\ Len(d) = (IF first <= e THEN e - first + 1 ELSE 0)
            /\ \A i \in 1 .. e - first + 1 : d[i] = cells[first + i - 1]
        BY <2>4
      <3>. HIDE DEF d
      <3>1. Len(d) # 0
        BY <3>0
      <3>2. 1 \in 1 .. e - first + 1 /\ first + 1 - 1 = first
        BY <3>0, <3>1, <2>1
      <3>3. d[1] = cells[first]
        BY <3>0, <3>2
      <3>. QED
        BY <3>3 DEF d
    <2>7. /\ Len(SubSeq(cells, start, e)) = e + 1 - start
          /\ \A i \in 1 .. e + 1 - start : SubSeq(cells, start, e)[i] = cells[start + i - 1]
      BY <1>1, <2>1, <2>2a, RangeIs
    <2>. QED
      BY <2>1, <2>2a, <2>3, <2>4, <2>5, <2>6, <2>7 DEF k, e
  <1>. HIDE DEF z, digits
  <1>18. v \in Seq(Digit) /\ v \in Seq(Cell) /\ NumberOf(10, Figures(v)) = NumberOf(10, Figures(digits))
    <2>1. v \in Seq(Digit) /\ NumberOf(10, Figures(v)) = NumberOf(10, Figures(digits))
      BY <1>17, ZerosInFront
    <2>. QED
      BY <2>1, FiguresAre
  <1>19. SubSeq(t, start - 2, b) = v
    <2> DEFINE p == start - 2
               w == SubSeq(t, p, b)
    <2>1. p \in 1 .. Len(t) + 1 /\ b \in 0 .. Len(t) /\ b + 1 >= p /\ b + 1 - p = end - start
      BY <1>1, <1>6a, <1>7a, <1>11
    <2>2. \A i \in 1 .. end - start : p + i - 1 \in 1 .. m /\ (p + i - 1) + 2 = start + i - 1
      BY <1>1, <1>6a, <1>7a
    <2>. HIDE DEF p, b, v
    <2>3. w \in Seq(Cell) /\ Len(w) = end - start /\ \A i \in 1 .. end - start : w[i] = t[p + i - 1]
      BY <2>1, RangeIs
    <2>. HIDE DEF w
    <2>4. ASSUME NEW i \in 1 .. Len(w) PROVE w[i] = v[i]
      <3>1. i \in 1 .. end - start
        BY <2>3
      <3>2. w[i] = t[p + i - 1] /\ v[i] = cells[start + i - 1]
        BY <3>1, <2>3, <1>17
      <3>3. t[p + i - 1] = cells[(p + i - 1) + 2]
        BY <3>1, <2>2, <1>10
      <3>4. (p + i - 1) + 2 = start + i - 1
        BY <3>1, <2>2
      <3>. QED
        BY <3>2, <3>3, <3>4
    <2>5. w = v
      BY <2>3, <2>4, <1>17, <1>18, SeqEqual
    <2>. QED
      BY <2>5 DEF w, p
  <1>20. Unsigned(u) = v /\ SignOf(u) = g
    <2>1. CASE signed
      <3>1. start = at + 1
        BY <2>1 DEF start
      <3>2. a \in 1 .. Len(t) /\ b \in a .. Len(t) /\ a + 1 = start - 2
        <4>1. at # n
          BY <2>1, <1>4
        <4>. QED
          BY <4>1, <3>1, <1>1, <1>6a, <1>7a, <1>11
      <3>3. t[a] = cells[at]
        BY <3>2, <1>11, <1>12
      <3>4. b + 1 >= a /\ a \in 1 .. Len(t) + 1 /\ b \in 0 .. Len(t) /\ 1 \in 1 .. b + 1 - a /\ a + 1 - 1 = a
            /\ b + 1 - a >= 1
        BY <3>2, <1>9, <1>11
      <3>. HIDE DEF a, b
      <3>5. Head(u) = t[a] /\ Tail(u) = SubSeq(t, a + 1, b)
        BY <3>2, HeadTailOfSubSeq
      <3>6. u \in Seq(Cell) /\ Len(u) = b + 1 - a /\ \A i \in 1 .. b + 1 - a : u[i] = t[a + i - 1]
        BY <3>4, RangeIs
      <3>7. u # <<>> /\ u[1] = cells[at]
        <4>. HIDE DEF u
        <4>1. Len(u) >= 1 /\ u[1] = t[a]
          BY <3>4, <3>6
        <4>. QED
          BY <4>1, <3>3, <3>6
      <3>8. Tail(u) = v
        BY <3>2, <3>5, <1>19
      <3>. HIDE DEF u, v
      <3>9. Unsigned(u) = v
        BY <3>7, <3>8, <2>1 DEF Unsigned, signed
      <3>10. SignOf(u) = IF cells[at] = Minus THEN -1 ELSE 1
        BY <3>7 DEF SignOf
      <3>. QED
        BY <3>9, <3>10, <1>5
    <2>2. CASE ~signed
      <3>1. u = v
        <4>1. start - 2 = a
          BY <2>2 DEF start
        <4>. HIDE DEF a, b, v
        <4>. QED
          BY <4>1, <1>19
      <3>. HIDE DEF u, v
      <3>2. v # <<>> => v[1] \notin {Minus, Plus}
        <4>1. v # <<>> => v[1] \in Digit
          BY <1>18
        <4>2. \A d \in Digit : d \notin {Minus, Plus}
          <5>1. ASSUME NEW d \in Digit PROVE d.value \notin {45, 43}
            <6>1. PICK k \in 0 .. 9 : d = Char(Zero + k)
              BY DEF Digit
            <6>. QED
              BY <6>1, CharsDiffer DEF Zero
          <5>2. Minus.value = 45 /\ Plus.value = 43
            BY CharsDiffer DEF Minus, Plus
          <5>. QED
            BY <5>1, <5>2
        <4>. QED
          BY <4>1, <4>2
      <3>3. Unsigned(v) = v
        BY <3>2 DEF Unsigned
      <3>4. SignOf(v) = 1
        BY <3>2 DEF SignOf
      <3>5. cells[at] # Minus
        BY <2>2 DEF signed
      <3>. QED
        BY <3>1, <3>3, <3>4, <3>5, <1>5
    <2>. QED
      BY <2>1, <2>2
  <1>21. TextValue(t) = g * NumberOf(10, Figures(digits))
    <2>. HIDE DEF u, v
    <2>. QED
      BY <1>16, <1>18, <1>20
  <1>. HIDE DEF u, v, a, b
  <1>22. Numb(cells) =
           CASE digits = <<>>        -> Left(<<Number(0)>>)
             [] Len(portions) = 1    -> Left(sign \o <<Number(portions[1])>>)
             [] Len(portions) > 1    ->
                  IF Len(sign \o words) <= Len(cells) - 1 - Len(portions)
                  THEN Left(sign \o [i \in DOMAIN words |-> Number(words[i])])
                  ELSE Overrun
    BY DEF Numb, at, sign, start, signed, first, end, digits
  <1>23. \A w \in Word : /\ <<w>> \in Numerals /\ Len(<<w>>) = 1 /\ Value(<<w>>) = w
                         /\ \A s : Numeral(s, <<w>>) = s \o <<Number(w)>>
    <2>1. ASSUME NEW w \in Word PROVE Value(<<w>>) = w
      <3>1. w \in Nat /\ Radix \in Nat
        BY RadixIsNat DEF Word
      <3>. QED
        BY <3>1, NumberOfShort DEF Value
    <2>2. ASSUME NEW w \in Word, NEW s PROVE Numeral(s, <<w>>) = s \o <<Number(w)>>
      <3>1. [i \in DOMAIN <<w>> |-> Number(<<w>>[i])] = <<Number(w)>>
        OBVIOUS
      <3>. QED
        BY <3>1 DEF Numeral
    <2>3. ASSUME NEW w \in Word PROVE <<w>> \in Numerals /\ Len(<<w>>) = 1
      BY DEF Numerals
    <2>. QED
      BY <2>1, <2>2, <2>3
  <1>24. CASE digits = <<>>
    <2>1. Numb(cells) = Left(<<Number(0)>>)
      <3>1. portions = <<>>
        BY <1>24, NoDigits
      <3>2. Len(portions) = 0
        BY <3>1
      <3>. HIDE DEF portions, words
      <3>. QED
        BY <1>22, <1>24, <3>2
    <2>2. 0 \in Word /\ <<>> \in SignCells /\ <<>> # <<Minus>>
      <3>1. Len(<<>>) = 0 /\ Len(<<Minus>>) = 1
        OBVIOUS
      <3>. QED
        BY <3>1, RadixIsNat DEF Word, SignCells
    <2>3. Figures(digits) = <<>>
      BY <1>24 DEF Figures
    <2>4. NumberOf(10, <<>>) = 0
      <3>1. 10 \in Nat
        OBVIOUS
      <3>. QED
        BY <3>1, NumberOfShort
    <2>5. TextValue(t) = 0
      <3>1. g \in Int
        BY <1>5
      <3>. QED
        BY <3>1, <2>3, <2>4, <1>21
    <2> DEFINE o == <<0>>
    <2>6. o \in Numerals /\ Len(o) = 1 /\ Value(o) = 0 /\ Numeral(<<>>, o) = <<>> \o <<Number(0)>>
      BY <2>2, <1>23
    <2>7. <<>> \o <<Number(0)>> = <<Number(0)>>
      OBVIOUS
    <2>. HIDE DEF o
    <2>. QED
      BY <2>1, <2>2, <2>5, <2>6, <2>7
  <1>25. CASE digits # <<>>
    <2>1. digits \in Seq(Digit) \ {<<>>} /\ digits[1] # Char(Zero)
      BY <1>6, <1>17, <1>25
    <2>2. /\ portions \in Seq(TenDigit) \ {<<>>} /\ portions[1] # 0
          /\ NumberOf(TenPart, portions) = NumberOf(10, Figures(digits))
      BY <2>1, PortionsShow DEF TenDigit
    <2>. HIDE DEF portions
    <2>3. Len(portions) \in Nat /\ Len(portions) >= 1
      BY <2>2
    <2>4. CASE Len(portions) = 1
      <3> DEFINE p == portions[1]
                 o == <<p>>
      <3>1. p \in TenDigit /\ portions = o
        BY <2>2, <2>4
      <3>. HIDE DEF p
      <3>2. p \in Word /\ p \in Nat
        BY <3>1, TenDigitIs
      <3>3. NumberOf(TenPart, o) = p
        <4>1. TenPart \in Nat
          BY TenFacts
        <4>. QED
          BY <4>1, <3>2, NumberOfShort
      <3>4. o \in Numerals /\ Len(o) = 1 /\ Value(o) = p /\ Numeral(sign, o) = sign \o <<Number(p)>>
        BY <3>2, <1>23
      <3>5. Numb(cells) = Left(sign \o <<Number(p)>>)
        BY <1>22, <1>25, <2>4 DEF p
      <3>. HIDE DEF o
      <3>. QED
        <4>1. g * Value(o) = TextValue(t)
          BY <3>1, <3>3, <3>4, <2>2, <1>21
        <4>. QED
          BY <4>1, <3>4, <3>5, <1>5 DEF g
    <2>5. CASE Len(portions) # 1
      <3>1. words \in Numerals /\ words[1] # 0 /\ Value(words) = NumberOf(TenPart, portions)
        BY <2>2, WordsShow
      <3>. HIDE DEF words
      <3>2. Numb(cells) = IF Len(sign \o words) <= Len(cells) - 1 - Len(portions)
                  THEN Left(sign \o [i \in DOMAIN words |-> Number(words[i])])
                  ELSE Overrun
        <4>1. Len(portions) > 1
          <5>1. \A l \in Nat : l >= 1 /\ l # 1 => l > 1
            OBVIOUS
          <5>. QED
            BY <5>1, <2>3, <2>5
        <4>2. ~(digits = <<>>) /\ ~(Len(portions) = 1)
          BY <1>25, <2>5
        <4>. QED
          BY <4>1, <4>2, <1>22
      <3>3. Numb(cells) # Overrun
        <4>1. Numb(cells) \in WellLeft
          BY NumbStays
        <4>2. Overrun \notin WellLeft
          BY DEF WellLeft, Overrun
        <4>. QED
          BY <4>1, <4>2
      <3>4. Numb(cells) = Left(Numeral(sign, words))
        BY <3>2, <3>3 DEF Numeral
      <3>. QED
        <4>1. g * Value(words) = TextValue(t)
          BY <3>1, <2>2, <1>21
        <4>. QED
          BY <4>1, <3>1, <3>4, <1>5 DEF g
    <2>. QED
      BY <2>4, <2>5
  <1>. QED
    BY <1>24, <1>25

(* Digits behind a sign, without zeros in front, are a plain text. *)
LEMMA PlainText ==
  ASSUME NEW s \in SignCells, NEW d \in Seq(Digit), d # <<>>, d[1] = Char(Zero) => Len(d) = 1
  PROVE  /\ s \o d \in Seq(Cell) /\ IsPlain(s \o d)
         /\ TextValue(s \o d) = (IF s = <<Minus>> THEN -1 ELSE 1) * NumberOf(10, Figures(d))
  <1> DEFINE z == s \o d
             n == Len(d)
             k == Len(s)
  <1>1. /\ \A c \in Digit : c \notin {Minus, Plus} /\ c \notin Blank
        /\ Minus \notin Blank /\ Plus \notin Blank
    <2>1. ASSUME NEW c \in Digit PROVE c.value \notin {45, 43, 32, 9}
      <3>1. PICK j \in 0 .. 9 : c = Char(Zero + j)
        BY DEF Digit
      <3>. QED
        BY <3>1, CharsDiffer DEF Zero
    <2>2. Minus.value = 45 /\ Plus.value = 43 /\ \A c \in Blank : c.value \in {32, 9}
      BY CharsDiffer DEF Minus, Plus, Blank
    <2>. QED
      BY <2>1, <2>2
  <1>2. /\ d \in Seq(Cell) /\ n \in Nat /\ n >= 1 /\ DOMAIN d = 1 .. n /\ (\A i \in 1 .. n : d[i] \in Digit)
        /\ d[1] \notin {Minus, Plus} /\ 1 \in 1 .. n
    <2>1. d \in Seq(Cell)
      BY FiguresAre
    <2>2. n \in Nat /\ n >= 1 /\ DOMAIN d = 1 .. n /\ (\A i \in 1 .. n : d[i] \in Digit)
      OBVIOUS
    <2>. QED
      BY <2>1, <2>2, <1>1
  <1>3. /\ z \in Seq(Cell) /\ Unsigned(z) = d
        /\ SignOf(z) = IF s = <<Minus>> THEN -1 ELSE 1
        /\ Len(z) = k + n
        /\ s = <<>> => k = 0 /\ z = d
        /\ s # <<>> => k = 1 /\ s[1] \in {Minus, Plus} /\ z[1] = s[1] /\ Tail(z) = d
    BY <1>2, SignedIs
  <1>. HIDE DEF z, n, k
  <1>4. IsPlain(z)
    BY <1>2, <1>3 DEF IsPlain, n
  <1>5. Len(z) \in Nat /\ DOMAIN z = 1 .. Len(z) /\ Len(z) >= 1 /\ k \in 0 .. 1
    <2>1. k \in 0 .. 1
      BY <1>3
    <2>2. DOMAIN z = 1 .. Len(z)
      BY <1>3
    <2>. QED
      BY <2>1, <2>2, <1>2, <1>3
  <1>6. DigitsFrom(z, 1) = 1 + k
    <2>1. CASE s = <<>>
      BY <2>1, <1>2, <1>3, <1>5 DEF DigitsFrom, SignedAt
    <2>2. CASE s # <<>>
      BY <2>2, <1>3, <1>5 DEF DigitsFrom, SignedAt
    <2>. QED
      BY <2>1, <2>2
  <1>7. \A i \in 1 + k .. Len(z) : z[i] \in Digit
    <2>1. ASSUME NEW i \in 1 + k .. Len(z) PROVE z[i] \in Digit
      <3>1. CASE s = <<>>
        <4>1. i \in 1 .. n /\ z[i] = d[i]
          BY <3>1, <1>2, <1>3, <1>5
        <4>. QED
          BY <4>1, <1>2
      <3>2. CASE s # <<>>
        <4>1. i - 1 \in 1 .. n /\ i \in Int
          BY <3>2, <1>2, <1>3, <1>5
        <4>2. \A q \in Seq(Cell) : \A j \in 1 .. Len(Tail(q)) : q # <<>> => Tail(q)[j] = q[j + 1]
          OBVIOUS
        <4>3. i - 1 \in 1 .. Len(Tail(z)) /\ (i - 1) + 1 = i
          BY <4>1, <3>2, <1>3 DEF n
        <4>4. z # <<>>
          BY <1>5
        <4>5. Tail(z)[i - 1] = z[i]
          BY <4>2, <4>3, <4>4, <1>3
        <4>. QED
          BY <4>1, <4>5, <3>2, <1>2, <1>3
      <3>. QED
        BY <3>1, <3>2
    <2>. QED
      BY <2>1
  <1>8. z[1] \notin Blank
    <2>1. CASE s = <<>>
      BY <2>1, <1>1, <1>2, <1>3
    <2>2. CASE s # <<>>
      BY <2>2, <1>1, <1>3
    <2>. QED
      BY <2>1, <2>2
  <1> DEFINE b == Len(z)
  <1>9. NumberAt(z, 1, b)
    <2>1. b + 1 >= 1 + k /\ b + 1 \notin DOMAIN z
      BY <1>2, <1>3, <1>5
    <2>2. \A i \in 1 .. 1 - 1 : z[i] \in Blank
      OBVIOUS
    <2>. HIDE DEF b
    <2>. QED
      BY <2>1, <2>2, <1>6, <1>7, <1>8 DEF NumberAt, b
  <1>10. TextValue(z) = SignOf(SubSeq(z, 1, b)) * NumberOf(10, Figures(Unsigned(SubSeq(z, 1, b))))
    <2>1. 1 \in 1 .. Len(z) + 1 /\ b \in 0 .. Len(z)
      BY <1>5
    <2>. HIDE DEF b
    <2>. QED
      BY <2>1, <1>3, <1>9, TextIs
  <1>11. SubSeq(z, 1, b) = z
    BY <1>3, SubSeqFull
  <1>. QED
    BY <1>3, <1>4, <1>10, <1>11 DEF z

(* A number is a sign and words. *)
LEMMA NumeralParts ==
  ASSUME NEW x \in Seq(Cell), IsNumeral(x)
  PROVE  \E s \in SignCells, ws \in Numerals : x = Numeral(s, ws)
  <1> DEFINE w == Unsigned(x)
             n == Len(w)
             ws == [i \in 1 .. n |-> w[i].value]
  <1>1. w \in Seq(Cell) /\ w # <<>> /\ \A i \in DOMAIN w : w[i].tag = "number"
    BY DEF Unsigned, IsNumeral
  <1>2. \E s \in SignCells : x = s \o w
    <2>1. CASE x # <<>> /\ x[1] \in {Minus, Plus}
      <3>1. w = Tail(x)
        BY <2>1 DEF Unsigned
      <3>2. \A q \in Seq(Cell) : q # <<>> => q = <<q[1]>> \o Tail(q)
        OBVIOUS
      <3>3. x = <<x[1]>> \o w
        BY <2>1, <3>1, <3>2
      <3>4. <<x[1]>> \in SignCells
        BY <2>1 DEF SignCells
      <3>. QED
        BY <3>3, <3>4
    <2>2. CASE ~(x # <<>> /\ x[1] \in {Minus, Plus})
      <3>1. w = x
        BY <2>2 DEF Unsigned
      <3>2. <<>> \o x = x /\ <<>> \in SignCells
        BY DEF SignCells
      <3>. QED
        BY <3>1, <3>2
    <2>. QED
      BY <2>1, <2>2
  <1>. HIDE DEF w
  <1>3. n \in Nat /\ n >= 1 /\ DOMAIN w = 1 .. n /\ \A i \in 1 .. n : w[i] \in Cell
    BY <1>1
  <1>. HIDE DEF n
  <1>4. \A i \in 1 .. n : w[i].value \in Word /\ w[i] = Number(w[i].value)
    <2>1. ASSUME NEW c \in Cell, c.tag = "number" PROVE c.value \in Word /\ c = Number(c.value)
      BY <2>1 DEF Cell, Number
    <2>. QED
      BY <2>1, <1>1, <1>3
  <1>5. ws \in [1 .. n -> Word]
    BY <1>4
  <1>6. ws \in Numerals
    <2>. HIDE DEF ws
    <2>1. ws \in Seq(Word) /\ Len(ws) = n
      BY <1>3, <1>5, FunctionIsSeq
    <2>2. ws # <<>>
      BY <2>1, <1>3
    <2>. QED
      BY <2>1, <2>2 DEF Numerals
  <1>7. [i \in DOMAIN ws |-> Number(ws[i])] = w
    <2>1. [i \in DOMAIN ws |-> Number(ws[i])] = [i \in 1 .. n |-> w[i]]
      BY <1>4
    <2>2. w = [i \in 1 .. n |-> w[i]]
      BY <1>1, <1>3
    <2>. QED
      BY <2>1, <2>2
  <1>8. \A s : Numeral(s, ws) = s \o w
    BY <1>7 DEF Numeral
  <1>. HIDE DEF ws
  <1>. QED
    BY <1>2, <1>6, <1>8

(* Symb leaves the digits of the number. *)
LEMMA SymbShows ==
  ASSUME NEW s \in SignCells, NEW ws \in Numerals, NEW cells \in CallCells,
         Len(cells) = Len(Numeral(s, ws)) + 3,
         \A i \in 1 .. Len(Numeral(s, ws)) : cells[i + 2] = Numeral(s, ws)[i]
  PROVE  \E z \in Seq(Cell) :
           /\ Symb(cells) = Left(z) /\ IsPlain(z)
           /\ TextValue(z) = (IF s = <<Minus>> THEN -1 ELSE 1) * Value(ws)
  <1> DEFINE n      == Len(cells)
             l      == Len(ws)
             k      == Len(s)
             w      == [i \in DOMAIN ws |-> Number(ws[i])]
             t      == Numeral(s, ws)
             start  == NumberPlace(cells, 3)
             sign   == SubSeq(cells, 3, start - 1)
             Found(q) == cells[q] # Number(0) /\ \A i \in start .. q - 1 : cells[i] = Number(0)
             value  == CHOOSE q \in start .. Len(cells) : Found(q)
             words  == [i \in 1 .. Len(cells) - value |-> cells[value + i - 1].value]
             digits == Digits(words)
  <1>1. /\ cells \in Seq(Cell) /\ n \in Nat /\ n >= 3
        /\ cells[n] = Other("close_call") /\ cells[n].tag = "close_call"
    BY CharsDiffer DEF CallCells
  <1>2. Symb(cells) =
          CASE ~IsSignedNumber(cells, 3)                    -> RecognitionImpossible
            [] IsSignedNumber(cells, 3) /\ value = Len(cells) -> Left(sign \o <<Char(Zero)>>)
            [] IsSignedNumber(cells, 3) /\ value # Len(cells) ->
                 IF \E i \in value .. Len(cells) - 1 : cells[i].tag # "number"
                 THEN RecognitionImpossible
                 ELSE IF Len(digits) <= DecDigits(Len(words)) THEN Left(sign \o digits) ELSE Overrun
    BY DEF Symb
  <1>3. l \in Nat /\ l >= 1 /\ DOMAIN ws = 1 .. l /\ ws \in Seq(Word) /\ \A i \in 1 .. l : ws[i] \in Word /\ ws[i] \in Nat
    <2>1. Word \subseteq Nat
      BY RadixIsNat DEF Word
    <2>2. l \in Nat /\ l >= 1 /\ DOMAIN ws = 1 .. l /\ ws \in Seq(Word) /\ \A i \in 1 .. l : ws[i] \in Word
      BY DEF Numerals
    <2>. QED
      BY <2>1, <2>2
  <1>. HIDE DEF l
  <1>4. w = [i \in 1 .. l |-> Number(ws[i])]
    BY <1>3
  <1>5. w \in Seq(Cell) /\ Len(w) = l /\ (\A i \in 1 .. l : w[i] = Number(ws[i]) /\ w[i].tag = "number")
    <2>1. w \in [1 .. l -> Cell]
      BY <1>3, <1>4, CellsAre
    <2>. HIDE DEF w
    <2>2. w \in Seq(Cell) /\ Len(w) = l
      BY <2>1, <1>3, FunctionIsSeq
    <2>. QED
      BY <2>2, <1>4, CharsDiffer
  <1>6. t = s \o w
    BY DEF Numeral
  <1>. HIDE DEF w
  <1>7. \A c \in {Minus, Plus} : c.tag = "char"
    BY CharsDiffer DEF Minus, Plus
  <1>8. /\ Len(t) = k + l /\ t \in Seq(Cell) /\ k \in 0 .. 1
        /\ s = <<>> => k = 0 /\ t = w
        /\ s # <<>> => k = 1 /\ s[1] \in {Minus, Plus} /\ t[1] = s[1] /\ Tail(t) = w
    <2>1. w # <<>> /\ 1 \in 1 .. l
      BY <1>3, <1>5
    <2>2. w[1] \notin {Minus, Plus}
      BY <2>1, <1>5, <1>7
    <2>3. /\ t \in Seq(Cell) /\ Len(t) = k + Len(w)
          /\ s = <<>> => k = 0 /\ t = w
          /\ s # <<>> => k = 1 /\ s[1] \in {Minus, Plus} /\ t[1] = s[1] /\ Tail(t) = w
      BY <2>1, <2>2, <1>5, <1>6, SignedIs
    <2>. HIDE DEF t, k
    <2>. QED
      BY <2>3, <1>5
  <1>9. \A i \in 1 .. l : t[k + i] = w[i]
    <2>1. CASE s = <<>>
      BY <2>1, <1>3, <1>8
    <2>2. CASE s # <<>>
      <3>1. \A q \in Seq(Cell) : q # <<>> => \A j \in 1 .. Len(Tail(q)) : Tail(q)[j] = q[j + 1]
        OBVIOUS
      <3>2. t # <<>>
        BY <2>2, <1>3, <1>8
      <3>. HIDE DEF t, k
      <3>3. \A j \in 1 .. l : w[j] = t[j + 1]
        BY <3>1, <3>2, <2>2, <1>5, <1>8
      <3>4. k = 1 /\ \A j \in 1 .. l : j + 1 = k + j
        BY <2>2, <1>3, <1>8
      <3>. QED
        BY <3>3, <3>4
    <2>. QED
      BY <2>1, <2>2
  <1>10. \A i \in 1 .. k + l : cells[i + 2] = t[i]
    BY <1>8
  <1>11. n = k + l + 3
    BY <1>8
  <1>. HIDE DEF t, n, k
  <1>12. \A i \in 1 .. l : cells[2 + k + i] = Number(ws[i]) /\ cells[2 + k + i].tag = "number" /\ cells[2 + k + i].value = ws[i]
    <2>1. ASSUME NEW i \in 1 .. l PROVE cells[2 + k + i] = w[i]
      <3>1. k + i \in 1 .. k + l /\ (k + i) + 2 = 2 + k + i
        BY <1>3, <1>8
      <3>2. cells[(k + i) + 2] = t[k + i]
        BY <3>1, <1>10
      <3>. QED
        BY <3>1, <3>2, <1>9
    <2>. QED
      BY <2>1, <1>5, CharsDiffer
  <1>13. start = 3 + k /\ IsSignedNumber(cells, 3) /\ sign = s
    <2>1. cells[3 + k].tag = "number"
      <3>1. 1 \in 1 .. l /\ 2 + k + 1 = 3 + k
        BY <1>3, <1>8
      <3>. QED
        BY <3>1, <1>12
    <2>2. CASE s = <<>>
      <3>1. k = 0 /\ 3 + k = 3
        BY <2>2, <1>8
      <3>2. cells[3].tag = "number"
        BY <2>1, <3>1
      <3>3. start = 3 /\ IsSignedNumber(cells, 3)
        BY <3>2 DEF NumberPlace, IsSignedNumber
      <3>4. sign = <<>>
        BY <3>3
      <3>. QED
        BY <3>1, <3>3, <3>4, <2>2
    <2>3. CASE s # <<>>
      <3>1. k = 1 /\ 3 + k = 4 /\ s[1] \in {Minus, Plus} /\ t[1] = s[1]
        BY <2>3, <1>8
      <3>2. cells[3] = s[1]
        <4>1. 1 \in 1 .. k + l /\ 1 + 2 = 3
          BY <1>3, <3>1
        <4>. QED
          BY <4>1, <3>1, <1>10
      <3>3. cells[3].tag = "char"
        BY <3>1, <3>2, <1>7
      <3>4. start = 4
        BY <3>3 DEF NumberPlace
      <3>5. IsSignedNumber(cells, 3)
        BY <2>1, <3>1, <3>2, <3>4 DEF IsSignedNumber
      <3>6. sign = SubSeq(cells, 3, 3)
        BY <3>4
      <3>7. SubSeq(cells, 3, 3) = <<cells[3]>>
        <4> DEFINE d == SubSeq(cells, 3, 3)
        <4>1. 3 \in 1 .. Len(cells) + 1 /\ 3 \in 0 .. Len(cells) /\ 3 + 1 >= 3 /\ 3 + 1 - 3 = 1 /\ 3 + 1 - 1 = 3
          BY <1>1 DEF n
        <4>2. /\ d \in Seq(Cell) /\ Len(d) = 3 + 1 - 3
              /\ \A i \in 1 .. 3 + 1 - 3 : d[i] = cells[3 + i - 1]
          BY <4>1, <1>1, RangeIs
        <4>. HIDE DEF d
        <4>3. d \in Seq(Cell) /\ Len(d) = 1 /\ d[1] = cells[3]
          <5>1. 1 \in 1 .. 3 + 1 - 3
            BY <4>1
          <5>2. d[1] = cells[3 + 1 - 1]
            BY <4>2, <5>1
          <5>. QED
            BY <5>2, <4>1, <4>2
        <4>4. d = <<d[1]>>
          BY <4>3
        <4>. QED
          BY <4>3, <4>4 DEF d
      <3>8. s = <<s[1]>>
        BY <2>3 DEF SignCells
      <3>. QED
        BY <3>1, <3>2, <3>4, <3>5, <3>6, <3>7, <3>8
    <2>. QED
      BY <2>2, <2>3
  <1>. HIDE DEF start, sign
  <1>14. value \in start .. n /\ Found(value)
    <2> DEFINE T == {q \in start .. n : cells[q] # Number(0)}
    <2>1. n \in T /\ T \in SUBSET Nat
      <3>1. cells[n] # Number(0)
        BY <1>1, CharsDiffer
      <3>. QED
        BY <3>1, <1>1, <1>3, <1>8, <1>11, <1>13
    <2>2. PICK q \in T : \A y \in T : q <= y
      <3>. HIDE DEF T
      <3>. QED
        BY <2>1, LeastNumber
    <2>3. \A i \in start .. q - 1 : cells[i] = Number(0)
      <3>1. ASSUME NEW i \in start .. q - 1 PROVE cells[i] = Number(0)
        <4>1. i \in start .. n /\ ~(q <= i)
          BY <1>1, <1>8, <1>13, <2>2
        <4>. QED
          BY <4>1, <2>2
      <3>. QED
        BY <3>1
    <2>4. q \in start .. Len(cells) /\ Found(q)
      BY <2>2, <2>3 DEF n
    <2>. HIDE DEF Found
    <2>. QED
      BY <2>4 DEF n
  <1>. HIDE DEF value
  <1> DEFINE j == value - start
             zeros == SubSeq(ws, 1, j)
             rest  == SubSeq(ws, j + 1, l)
  <1>15. j \in 0 .. l /\ value = 3 + k + j /\ value \in Nat /\ n - value = l - j
    <2>1. k \in Nat
      BY <1>8
    <2>2. value \in start .. n
      BY <1>14
    <2>3. n \in Nat /\ l \in Nat /\ start = 3 + k /\ n = k + l + 3
      BY <1>1, <1>3, <1>11, <1>13
    <2>. QED
      BY <2>1, <2>2, <2>3
  <1>16. \A i \in 1 .. j : ws[i] = 0
    <2>1. ASSUME NEW i \in 1 .. j PROVE ws[i] = 0
      <3>1. i \in 1 .. l /\ 2 + k + i \in start .. value - 1
        <4>1. /\ j \in 0 .. l /\ value = 3 + k + j
              /\ k \in Nat
              /\ l \in Nat /\ start = 3 + k
          <5>1. j \in 0 .. l /\ value = 3 + k + j
            BY <1>15
          <5>2. k \in Nat
            BY <1>8
          <5>3. l \in Nat
            BY <1>3
          <5>4. start = 3 + k
            BY <1>13
          <5>. HIDE DEF j, k, l
          <5>. QED
            BY <5>1, <5>2, <5>3, <5>4
        <4>2. i \in Nat /\ 1 <= i /\ i <= j
          BY <4>1
        <4>. HIDE DEF j, k, l
        <4>. QED
          BY <4>1, <4>2
      <3>2. cells[2 + k + i] = Number(0)
        BY <3>1, <1>14
      <3>. QED
        BY <3>1, <3>2, <1>12, CharsDiffer
    <2>. QED
      BY <2>1
  <1>. HIDE DEF j, Found
  <1>17. Value(ws) = Value(rest) /\ rest \in Seq(Nat) /\ Len(rest) = l - j /\ (\A i \in 1 .. l - j : rest[i] = ws[j + i])
    <2>1. zeros \in Seq({0})
      <3>1. 1 \in Int /\ j \in Int /\ \A i \in 1 .. j : ws[i] \in {0}
        BY <1>15, <1>16
      <3>. QED
        BY <3>1, SubSeqProperties
    <2>2. zeros \o rest = ws
      <3>1. 1 \in 1 .. Len(ws) + 1 /\ j \in 1 - 1 .. Len(ws) /\ l \in j .. Len(ws)
        BY <1>3, <1>15 DEF l
      <3>2. SubSeq(ws, 1, j) \o SubSeq(ws, j + 1, l) = SubSeq(ws, 1, l)
        BY <3>1, <1>3, ConcatAdjacentSubSeq
      <3>3. SubSeq(ws, 1, l) = ws
        BY <1>3, SubSeqFull DEF l
      <3>. QED
        BY <3>2, <3>3
    <2>3. rest \in Seq(Nat) /\ Len(rest) = l - j /\ \A i \in 1 .. l - j : rest[i] = ws[(j + 1) + i - 1]
      <3> DEFINE p == j + 1
      <3>1. p \in 1 .. Len(ws) + 1 /\ l \in 0 .. Len(ws) /\ l + 1 >= p /\ l + 1 - p = l - j /\ ws \in Seq(Nat)
        <4>1. ws \in Seq(Nat)
          BY <1>3, ValueIs
        <4>. QED
          <5>1. p \in 1 .. l + 1 /\ l \in 0 .. l /\ l + 1 >= p /\ l + 1 - p = l - j
            BY <1>3, <1>15
          <5>2. l = Len(ws)
            BY DEF l
          <5>. QED
            BY <5>1, <5>2, <4>1
      <3>. HIDE DEF p
      <3>2. /\ SubSeq(ws, p, l) \in Seq(Nat) /\ Len(SubSeq(ws, p, l)) = l + 1 - p
            /\ \A i \in 1 .. l + 1 - p : SubSeq(ws, p, l)[i] = ws[p + i - 1]
        BY <3>1, RangeIs
      <3>. QED
        BY <3>1, <3>2 DEF p
    <2>4. \A i \in 1 .. l - j : (j + 1) + i - 1 = j + i
      BY <1>3, <1>15
    <2>. HIDE DEF zeros, rest
    <2>5. Value(zeros \o rest) = Value(rest)
      <3>1. Radix \in Nat
        BY RadixIsNat
      <3>. QED
        BY <3>1, <2>1, <2>3, ZerosDoNotCount DEF Value
    <2>. QED
      BY <2>2, <2>3, <2>4, <2>5
  <1>. HIDE DEF zeros, rest
  <1>18. CASE value = n
    <2> DEFINE d == <<Char(Zero)>>
    <2>1. Symb(cells) = Left(s \o d)
      <3>1. value = Len(cells)
        BY <1>18 DEF n
      <3>. HIDE DEF words, digits
      <3>. QED
        BY <3>1, <1>2, <1>13
    <2>2. d \in Seq(Digit) /\ d # <<>> /\ Len(d) = 1 /\ d[1] = Char(Zero)
      <3>1. 0 \in 0 .. 9 /\ Zero + 0 = Zero
        BY DEF Zero
      <3>2. Char(Zero) \in Digit
        BY <3>1 DEF Digit
      <3>. QED
        BY <3>2
    <2>. HIDE DEF d
    <2>3. /\ s \o d \in Seq(Cell) /\ IsPlain(s \o d)
          /\ TextValue(s \o d) = (IF s = <<Minus>> THEN -1 ELSE 1) * NumberOf(10, Figures(d))
      BY <2>2, PlainText
    <2>4. NumberOf(10, Figures(d)) = 0
      <3>1. Figures(d) = <<0>>
        <4>1. Figures(d) \in Seq(Nat) /\ Len(Figures(d)) = 1 /\ 1 \in 1 .. Len(d)
          BY <2>2, FiguresAre
        <4>2. Figures(d)[1] = d[1].value - Zero
          BY <4>1, <2>2, FiguresAre
        <4>3. d[1].value - Zero = 0
          BY <2>2, CharsDiffer DEF Zero
        <4>. QED
          BY <4>1, <4>2, <4>3
      <3>2. 10 \in Nat /\ 0 \in Nat
        OBVIOUS
      <3>. QED
        BY <3>1, <3>2, NumberOfShort
    <2>5. Value(ws) = 0
      <3>1. rest = <<>>
        <4>1. Len(rest) = 0
          BY <1>17, <1>15, <1>18, <1>1
        <4>. QED
          BY <4>1, <1>17
      <3>2. Radix \in Nat
        BY RadixIsNat
      <3>. QED
        BY <3>1, <3>2, <1>17, NumberOfShort DEF Value
    <2>. QED
      BY <2>1, <2>3, <2>4, <2>5
  <1>19. CASE value # n
    <2>1. Symb(cells) = IF \E i \in value .. Len(cells) - 1 : cells[i].tag # "number"
                        THEN RecognitionImpossible
                        ELSE IF Len(digits) <= DecDigits(Len(words)) THEN Left(sign \o digits) ELSE Overrun
      <3>1. ~(~IsSignedNumber(cells, 3)) /\ IsSignedNumber(cells, 3) /\ ~(value = Len(cells))
            /\ value # Len(cells)
        BY <1>13, <1>19 DEF n
      <3>. HIDE DEF words, digits
      <3>. QED
        BY <1>2, <3>1
    <2>2. ~\E i \in value .. Len(cells) - 1 : cells[i].tag # "number"
      <3>1. ASSUME NEW i \in value .. n - 1 PROVE cells[i].tag = "number"
        <4> DEFINE q == i - 2 - k
        <4>1. q \in 1 .. l /\ 2 + k + q = i
          BY <1>1, <1>3, <1>8, <1>11, <1>15
        <4>. HIDE DEF q
        <4>. QED
          BY <4>1, <1>12
      <3>. QED
        BY <3>1 DEF n
    <2>3. words = rest
      <3>1. ASSUME NEW i \in 1 .. l - j PROVE cells[value + i - 1].value = rest[i]
        <4>1. j + i \in 1 .. l /\ 2 + k + (j + i) = value + i - 1
          BY <1>3, <1>8, <1>15
        <4>2. cells[2 + k + (j + i)].value = ws[j + i]
          BY <4>1, <1>12
        <4>. QED
          BY <4>1, <4>2, <1>17
      <3>2. words = [i \in 1 .. l - j |-> cells[value + i - 1].value]
        BY <1>15 DEF n
      <3>. HIDE DEF words
      <3>3. words = [i \in 1 .. l - j |-> rest[i]]
        BY <3>1, <3>2
      <3>4. rest = [i \in 1 .. l - j |-> rest[i]]
        BY <1>17
      <3>. QED
        BY <3>3, <3>4
    <2>4. rest \in Numerals /\ rest[1] # 0
      <3>1. l - j \in Nat /\ l - j >= 1 /\ j + 1 \in 1 .. l /\ 1 \in 1 .. l - j
        BY <1>1, <1>3, <1>15, <1>19
      <3>2. \A i \in 1 .. l - j : rest[i] \in Word
        <4>1. \A i \in 1 .. l - j : j + i \in 1 .. l
          BY <1>3, <1>15
        <4>. QED
          BY <4>1, <1>3, <1>17
      <3>3. rest \in Seq(Word) /\ rest # <<>>
        <4>1. rest = [i \in 1 .. l - j |-> rest[i]]
          BY <1>17
        <4>2. rest \in [1 .. l - j -> Word]
          BY <4>1, <3>2
        <4>3. rest \in Seq(Word)
          BY <4>2, <3>1, FunctionIsSeq
        <4>. QED
          BY <4>3, <3>1, <1>17
      <3>4. rest[1] = ws[j + 1]
        BY <3>1, <1>17
      <3>5. ws[j + 1] # 0
        <4>1. 2 + k + (j + 1) = value
          BY <1>8, <1>15
        <4>2. cells[value] = Number(ws[j + 1])
          BY <4>1, <3>1, <1>12
        <4>3. cells[value] # Number(0)
          BY <1>14 DEF Found
        <4>. QED
          BY <4>2, <4>3
      <3>. QED
        BY <3>3, <3>4, <3>5 DEF Numerals
    <2>5. /\ digits \in Seq(Digit) \ {<<>>} /\ digits[1] # Char(Zero)
          /\ NumberOf(10, Figures(digits)) = Value(rest)
      <3>. HIDE DEF words
      <3>. QED
        BY <2>3, <2>4, DigitsShow
    <2>. HIDE DEF words, digits
    <2>6. Symb(cells) = Left(s \o digits)
      <3>1. Symb(cells) \in WellLeft
        BY SymbStays
      <3>2. Overrun \notin WellLeft
        BY DEF WellLeft, Overrun
      <3>. QED
        BY <3>1, <3>2, <2>1, <2>2, <1>13
    <2>7. /\ s \o digits \in Seq(Cell) /\ IsPlain(s \o digits)
          /\ TextValue(s \o digits) = (IF s = <<Minus>> THEN -1 ELSE 1) * NumberOf(10, Figures(digits))
      BY <2>5, PlainText
    <2>. QED
      BY <2>5, <2>6, <2>7, <1>17
  <1>. QED
    BY <1>18, <1>19

-----------------------------------------------------------------------------
(* Numbers in a call.                                                       *)

(* The cells of a number. *)
LEMMA NumeralCells ==
  ASSUME NEW s \in SignCells, NEW ws \in Numerals
  PROVE  /\ Len(s) \in 0 .. 1 /\ Len(ws) \in Nat /\ Len(ws) >= 1
         /\ Numeral(s, ws) \in Seq(Cell)
         /\ Len(Numeral(s, ws)) = Len(s) + Len(ws)
         /\ \A i \in 1 .. Len(ws) : /\ ws[i] \in Word
                                    /\ Numeral(s, ws)[Len(s) + i] = Number(ws[i])
         /\ Len(s) = 0 => s # <<Minus>>
         /\ Len(s) = 1 => /\ Numeral(s, ws)[1] \in {Minus, Plus}
                          /\ s = <<Minus>> <=> Numeral(s, ws)[1] = Minus
  <1> DEFINE l == Len(ws)
             k == Len(s)
             w == [i \in DOMAIN ws |-> Number(ws[i])]
             t == Numeral(s, ws)
  <1>1. l \in Nat /\ l >= 1 /\ DOMAIN ws = 1 .. l /\ \A i \in 1 .. l : ws[i] \in Word
    BY DEF Numerals
  <1>. HIDE DEF l
  <1>2. w = [i \in 1 .. l |-> Number(ws[i])]
    BY <1>1
  <1>3. w \in Seq(Cell) /\ Len(w) = l /\ (\A i \in 1 .. l : w[i] = Number(ws[i]) /\ w[i].tag = "number")
    <2>1. w \in [1 .. l -> Cell]
      BY <1>1, <1>2, CellsAre
    <2>. HIDE DEF w
    <2>2. w \in Seq(Cell) /\ Len(w) = l
      BY <2>1, <1>1, FunctionIsSeq
    <2>. QED
      BY <2>2, <1>2, CharsDiffer
  <1>4. t = s \o w
    BY DEF Numeral
  <1>. HIDE DEF w
  <1>5. Minus.tag = "char" /\ Plus.tag = "char"
    BY CharsDiffer DEF Minus, Plus
  <1>6. /\ Len(t) = k + l /\ t \in Seq(Cell) /\ k \in 0 .. 1
        /\ s = <<>> => k = 0 /\ t = w
        /\ s # <<>> => k = 1 /\ s[1] \in {Minus, Plus} /\ t[1] = s[1] /\ Tail(t) = w
    <2>1. w # <<>> /\ 1 \in 1 .. l
      BY <1>1, <1>3
    <2>2. w[1] \notin {Minus, Plus}
      BY <2>1, <1>3, <1>5
    <2>3. /\ t \in Seq(Cell) /\ Len(t) = k + Len(w)
          /\ s = <<>> => k = 0 /\ t = w
          /\ s # <<>> => k = 1 /\ s[1] \in {Minus, Plus} /\ t[1] = s[1] /\ Tail(t) = w
      BY <2>1, <2>2, <1>3, <1>4, SignedIs
    <2>. HIDE DEF t, k
    <2>. QED
      BY <2>3, <1>3
  <1>7. ASSUME NEW i \in 1 .. l PROVE t[k + i] = Number(ws[i])
    <2>1. CASE s = <<>>
      BY <2>1, <1>1, <1>3, <1>6
    <2>2. CASE s # <<>>
      <3>1. \A q \in Seq(Cell) : q # <<>> => \A j \in 1 .. Len(Tail(q)) : Tail(q)[j] = q[j + 1]
        OBVIOUS
      <3>2. t # <<>>
        BY <2>2, <1>1, <1>6
      <3>. HIDE DEF t, k
      <3>3. \A j \in 1 .. l : w[j] = t[j + 1]
        BY <3>1, <3>2, <2>2, <1>3, <1>6
      <3>4. k = 1 /\ i + 1 = k + i
        BY <2>2, <1>1, <1>6
      <3>. QED
        BY <3>3, <3>4, <1>3
    <2>. QED
      BY <2>1, <2>2
  <1>. HIDE DEF t, k
  <1>8. k = 1 => t[1] \in {Minus, Plus} /\ (s = <<Minus>> <=> t[1] = Minus)
    <2>. HAVE k = 1
    <2>1. s # <<>>
      BY <1>6
    <2>2. t[1] = s[1] /\ s[1] \in {Minus, Plus}
      BY <2>1, <1>6
    <2>3. s = <<Minus>> <=> s[1] = Minus
      BY <2>1 DEF SignCells
    <2>. QED
      BY <2>2, <2>3
  <1>9. k = 0 => s # <<Minus>>
    BY DEF k
  <1>. QED
    BY <1>1, <1>6, <1>7, <1>8, <1>9 DEF l, k, t

\* x begins at p.
StandsAt(cells, p, x) == \A i \in 1 .. Len(x) : cells[(p - 1) + i] = x[i]

\* What the parser makes of a number that begins at p in a call: only its first word counts.
ParsedAt(cells, p, s, ws) ==
  /\ NumberPlace(cells, p) = p + Len(s) /\ Behind(cells, p) = p + Len(s) + 1
  /\ IsSignedNumber(cells, p)
  /\ cells[p].tag \in {"char", "number"}
  /\ LET n == ParseSignedNumber(cells, p)
     IN  /\ n \in SignedNumber /\ n.value = ws[1]
         /\ IntOf(n) = (IF s = <<Minus>> THEN -1 ELSE 1) * ws[1]
         /\ n.value = 0 => n.sign = 1

LEMMA NumberInCall ==
  ASSUME NEW s \in SignCells, NEW ws \in Numerals, NEW cells \in Seq(Cell), NEW p \in Nat, p >= 1,
         StandsAt(cells, p, Numeral(s, ws))
  PROVE  ParsedAt(cells, p, s, ws)
  <1> DEFINE k == Len(s)
             t == Numeral(s, ws)
             g == IF s = <<Minus>> THEN -1 ELSE 1
             w == ws[1]
  <1>1. /\ k \in 0 .. 1 /\ w \in Word /\ t[k + 1] = Number(w) /\ Len(t) \in Nat /\ Len(t) >= k + 1
        /\ k = 0 => s # <<Minus>>
        /\ k = 1 => t[1] \in {Minus, Plus} /\ (s = <<Minus>> <=> t[1] = Minus)
    <2>1. 1 \in 1 .. Len(ws)
      BY NumeralCells
    <2>. QED
      BY <2>1, NumeralCells
  <1>2. \A i \in 1 .. Len(t) : cells[(p - 1) + i] = t[i]
    BY DEF StandsAt
  <1>. HIDE DEF t, w, k
  <1>3. Minus.tag = "char" /\ Plus.tag = "char" /\ \A v : Number(v).tag = "number" /\ Number(v).value = v
    BY CharsDiffer DEF Minus, Plus
  <1>4. cells[p + k] = Number(w)
    <2>1. k + 1 \in 1 .. Len(t) /\ (p - 1) + (k + 1) = p + k
      BY <1>1
    <2>2. cells[(p - 1) + (k + 1)] = t[k + 1]
      BY <2>1, <1>2
    <2>. QED
      BY <2>1, <2>2, <1>1
  <1>5. /\ NumberPlace(cells, p) = p + k /\ IsSignedNumber(cells, p) /\ cells[p].tag \in {"char", "number"}
        /\ cells[p] = Minus <=> s = <<Minus>>
    <2>1. CASE k = 0
      <3>1. p + k = p
        BY <2>1
      <3>2. cells[p].tag = "number"
        BY <3>1, <1>3, <1>4
      <3>3. NumberPlace(cells, p) = p
        BY <3>2 DEF NumberPlace
      <3>4. IsSignedNumber(cells, p)
        BY <3>2, <3>3 DEF IsSignedNumber
      <3>. QED
        BY <3>1, <3>2, <3>3, <3>4, <2>1, <1>1, <1>3
    <2>2. CASE k = 1
      <3>1. 1 \in 1 .. Len(t) /\ (p - 1) + 1 = p
        BY <2>2, <1>1
      <3>2. cells[(p - 1) + 1] = t[1]
        BY <3>1, <1>2
      <3>3. cells[p] = t[1] /\ t[1] \in {Minus, Plus}
        BY <3>1, <3>2, <2>2, <1>1
      <3>4. cells[p].tag = "char"
        BY <3>3, <1>3
      <3>5. NumberPlace(cells, p) = p + k
        BY <3>4, <2>2 DEF NumberPlace
      <3>6. IsSignedNumber(cells, p)
        BY <3>3, <3>5, <1>3, <1>4 DEF IsSignedNumber
      <3>. QED
        BY <3>3, <3>4, <3>5, <3>6, <2>2, <1>1
    <2>. QED
      BY <2>1, <2>2, <1>1
  <1>6. Behind(cells, p) = p + k + 1
    BY <1>5 DEF Behind
  <1> DEFINE n == ParseSignedNumber(cells, p)
  <1>7. n = [sign |-> IF s = <<Minus>> /\ w # 0 THEN -1 ELSE 1, value |-> w]
    BY <1>3, <1>4, <1>5 DEF ParseSignedNumber, Signed
  <1>. HIDE DEF n
  <1>8. n \in SignedNumber /\ n.value = w /\ (n.value = 0 => n.sign = 1)
    BY <1>1, <1>7 DEF SignedNumber
  <1>9. IntOf(n) = g * w
    <2>1. w \in Nat
      BY <1>1, RadixIsNat DEF Word
    <2>2. n.sign = (IF s = <<Minus>> /\ w # 0 THEN -1 ELSE 1) /\ n.value = w
      BY <1>7
    <2>3. CASE s = <<Minus>> /\ w # 0
      BY <2>1, <2>2, <2>3 DEF IntOf
    <2>4. CASE s = <<Minus>> /\ w = 0
      BY <2>1, <2>2, <2>4 DEF IntOf
    <2>5. CASE s # <<Minus>>
      BY <2>1, <2>2, <2>5 DEF IntOf
    <2>. QED
      BY <2>3, <2>4, <2>5
  <1>. QED
    BY <1>5, <1>6, <1>8, <1>9 DEF n, k, w, ParsedAt

Joined(c, u, v) ==
         /\ Len(c) = Len(u) + Len(v)
         /\ \A i \in 1 .. Len(u) : c[i] = u[i]
         /\ \A i \in 1 .. Len(v) : c[Len(u) + i] = v[i]

LEMMA PlacesOfConcat ==
  ASSUME NEW X, NEW u \in Seq(X), NEW v \in Seq(X)
  PROVE  u \o v \in Seq(X) /\ Joined(u \o v, u, v)
  <1> DEFINE m == Len(u)
             n == Len(v)
             c == u \o v
  <1>1. m \in Nat /\ n \in Nat
    OBVIOUS
  <1>2. c \in Seq(X) /\ Len(c) = m + n /\ \A i \in 1 .. m + n : c[i] = IF i <= m THEN u[i] ELSE v[i - m]
    BY ConcatProperties
  <1>. HIDE DEF m, n, c
  <1>3. \A i \in 1 .. m : c[i] = u[i]
    BY <1>1, <1>2
  <1>4. ASSUME NEW i \in 1 .. n PROVE c[m + i] = v[i]
    <2>1. m + i \in 1 .. m + n /\ ~(m + i <= m) /\ (m + i) - m = i
      BY <1>1
    <2>. QED
      BY <2>1, <1>2
  <1>. QED
    BY <1>2, <1>3, <1>4 DEF m, n, c, Joined

\* The nodes of a call of a function with two arguments, of m and n cells, that begin at p and q.
InCall(cells, p, q, m, n, x, y, bracket) ==
  /\ Len(cells) = q + n
  /\ StandsAt(cells, p, x) /\ StandsAt(cells, q, y)
  /\ bracket => cells[3].tag = "open" /\ cells[4 + m].tag = "close"

LEMMA BinaryCall ==
  ASSUME NEW f, f \notin Unary, NEW x \in Seq(Cell), NEW y \in Seq(Cell), NEW bracket \in BOOLEAN,
         NEW m, m = Len(x), NEW n, n = Len(y),
         NEW cells, cells = CallOf(f, x, y, bracket),
         NEW p, p = (IF bracket THEN 4 ELSE 3), NEW q, q = (IF bracket THEN m + 5 ELSE m + 3)
  PROVE  cells \in Seq(Cell) /\ InCall(cells, p, q, m, n, x, y, bracket)
  <1> DEFINE begin == <<Other("open_call"), Other("function")>>
             end == <<Other("close_call")>>
             open == <<Other("open")>>
             close == <<Other("close")>>
  <1>1. /\ begin \in Seq(Cell) /\ Len(begin) = 2 /\ end \in Seq(Cell) /\ Len(end) = 1
        /\ open \in Seq(Cell) /\ Len(open) = 1 /\ close \in Seq(Cell) /\ Len(close) = 1
        /\ open[1].tag = "open" /\ close[1].tag = "close"
    BY CellsAre, CharsDiffer
  <1>2. m \in Nat /\ n \in Nat
    OBVIOUS
  <1>3. cells = ((begin \o (IF bracket THEN (open \o x) \o close ELSE x)) \o y) \o end
    BY DEF CallOf
  <1>. HIDE DEF begin, end, open, close
  <1>4. ASSUME NEW u \in Seq(Cell), NEW k \in Nat, Len(u) = k, cells = ((begin \o u) \o y) \o end
        PROVE  /\ cells \in Seq(Cell) /\ Len(cells) = k + n + 3
               /\ \A i \in 1 .. k : cells[2 + i] = u[i]
               /\ \A i \in 1 .. n : cells[(k + 2) + i] = y[i]
    <2> DEFINE a == begin \o u
               b == a \o y
    <2>0. a = begin \o u /\ b = a \o y
      OBVIOUS
    <2>. HIDE DEF a, b
    <2>1. a \in Seq(Cell) /\ Len(a) = 2 + k /\ \A i \in 1 .. k : a[2 + i] = u[i]
      <3>1. a \in Seq(Cell) /\ Joined(a, begin, u)
        BY <2>0, <1>1, <1>4, PlacesOfConcat
      <3>. QED
        BY <3>1, <1>1, <1>4 DEF Joined
    <2> DEFINE d == 2 + k
    <2>1a. d = Len(a) /\ d \in Nat
      BY <2>1
    <2>2. /\ b \in Seq(Cell) /\ Len(b) = d + n /\ (\A i \in 1 .. d : b[i] = a[i])
          /\ \A i \in 1 .. n : b[d + i] = y[i]
      <3>. HIDE DEF d
      <3>1. b \in Seq(Cell) /\ Joined(b, a, y)
        BY <2>0, <2>1, PlacesOfConcat
      <3>2. n = Len(y)
        OBVIOUS
      <3>. QED
        BY <3>1, <3>2, <2>1a DEF Joined
    <2>3. cells = b \o end
      BY <1>4, <2>0
    <2> DEFINE e == d + n
    <2>4. /\ cells \in Seq(Cell) /\ Len(cells) = e + 1 /\ \A i \in 1 .. e : cells[i] = b[i]
      <3>1. e = Len(b) /\ 1 = Len(end)
        BY <2>2, <1>1
      <3>. HIDE DEF e
      <3>2. cells \in Seq(Cell) /\ Joined(cells, b, end)
        BY <2>2, <2>3, <1>1, PlacesOfConcat
      <3>. QED
        BY <3>1, <3>2 DEF Joined
    <2>5. ASSUME NEW i \in 1 .. k PROVE cells[2 + i] = u[i]
      <3>1. 2 + i \in 1 .. 2 + k /\ 2 + i \in 1 .. (2 + k) + n
        BY <1>2
      <3>. QED
        BY <3>1, <2>1, <2>2, <2>4
    <2>6. ASSUME NEW i \in 1 .. n PROVE cells[(k + 2) + i] = y[i]
      <3>1. (2 + k) + i \in 1 .. (2 + k) + n /\ (2 + k) + i = (k + 2) + i
        BY <1>2
      <3>2. cells[(2 + k) + i] = b[(2 + k) + i]
        BY <3>1, <2>4
      <3>. QED
        BY <3>1, <3>2, <2>2
    <2>7. Len(cells) = k + n + 3
      BY <2>4, <1>2
    <2>. QED
      BY <2>4, <2>5, <2>6, <2>7
  <1>5. CASE ~bracket
    <2>1. /\ cells \in Seq(Cell) /\ Len(cells) = m + n + 3
          /\ \A i \in 1 .. m : cells[2 + i] = x[i]
          /\ \A i \in 1 .. n : cells[(m + 2) + i] = y[i]
      <3>1. cells = ((begin \o x) \o y) \o end
        BY <1>3, <1>5
      <3>. QED
        BY <3>1, <1>2, <1>4
    <2>2. (m + 3) - 1 = m + 2 /\ 3 - 1 = 2 /\ m + n + 3 = (m + 3) + n
      BY <1>2
    <2>. QED
      BY <2>1, <2>2, <1>5 DEF InCall, StandsAt
  <1>6. CASE bracket
    <2> DEFINE a == open \o x
               u == a \o close
    <2>0. a = open \o x /\ u = a \o close
      OBVIOUS
    <2>. HIDE DEF a, u
    <2>1. a \in Seq(Cell) /\ Len(a) = 1 + m /\ a[1] = open[1] /\ \A i \in 1 .. m : a[1 + i] = x[i]
      <3>1. 1 \in 1 .. 1 /\ 1 = Len(open)
        BY <1>1
      <3>2. a \in Seq(Cell) /\ Joined(a, open, x)
        BY <2>0, <1>1, PlacesOfConcat
      <3>. QED
        BY <3>1, <3>2 DEF Joined
    <2> DEFINE d == 1 + m
    <2>2. /\ u \in Seq(Cell) /\ Len(u) = d + 1 /\ (\A i \in 1 .. d : u[i] = a[i])
          /\ u[d + 1] = close[1]
      <3>1. 1 \in 1 .. 1 /\ 1 = Len(close) /\ d = Len(a)
        BY <1>1, <2>1
      <3>. HIDE DEF d
      <3>2. u \in Seq(Cell) /\ Joined(u, a, close)
        BY <2>0, <2>1, <1>1, PlacesOfConcat
      <3>. QED
        BY <3>1, <3>2 DEF Joined
    <2>3. cells = ((begin \o u) \o y) \o end
      BY <1>3, <1>6, <2>0
    <2> DEFINE k == m + 2
    <2>4. k \in Nat /\ Len(u) = k
      BY <2>2, <1>2
    <2>5. /\ cells \in Seq(Cell) /\ Len(cells) = k + n + 3
          /\ \A i \in 1 .. k : cells[2 + i] = u[i]
          /\ \A i \in 1 .. n : cells[(k + 2) + i] = y[i]
      <3>. HIDE DEF k
      <3>. QED
        BY <2>2, <2>3, <2>4, <1>4
    <2>6. ASSUME NEW i \in 1 .. m PROVE cells[3 + i] = x[i]
      <3>1. 1 + i \in 1 .. k /\ 1 + i \in 1 .. 1 + m /\ 2 + (1 + i) = 3 + i
        BY <1>2
      <3>2. cells[2 + (1 + i)] = u[1 + i]
        BY <3>1, <2>5
      <3>. QED
        BY <3>1, <3>2, <2>1, <2>2
    <2>7. cells[3].tag = "open"
      <3>1. 1 \in 1 .. k /\ 1 \in 1 .. 1 + m /\ 2 + 1 = 3
        BY <1>2
      <3>2. cells[2 + 1] = u[1]
        BY <3>1, <2>5
      <3>. QED
        BY <3>1, <3>2, <2>1, <2>2, <1>1
    <2>8. cells[4 + m].tag = "close"
      <3>1. k \in 1 .. k /\ 2 + k = 4 + m /\ (1 + m) + 1 = k
        BY <1>2
      <3>2. cells[2 + k] = u[k]
        BY <3>1, <2>5
      <3>. QED
        BY <3>1, <3>2, <2>2, <1>1
    <2>9. k + 2 = (m + 5) - 1 /\ k + n + 3 = (m + 5) + n /\ 4 - 1 = 3
      BY <1>2
    <2>. HIDE DEF k
    <2>. QED
      BY <2>5, <2>6, <2>7, <2>8, <2>9, <1>6 DEF InCall, StandsAt
  <1>. QED
    BY <1>5, <1>6

(* Two numbers are recognised as arguments if the first has one word. *)
Recognised(cells, s, ws, rr, vs) ==
  LET arg == ArithmArg(cells)
  IN  /\ IsArithmArg(cells) <=> Len(ws) = 1
      /\ Len(ws) = 1 =>
         /\ arg.x \in SignedNumber /\ (arg.x.value = 0 => arg.x.sign = 1)
         /\ IntOf(arg.x) = (IF s = <<Minus>> THEN -1 ELSE 1) * ws[1]
         /\ arg.y \in SignedNumber /\ (arg.y.value = 0 => arg.y.sign = 1)
         /\ IntOf(arg.y) = (IF rr = <<Minus>> THEN -1 ELSE 1) * vs[1]

LEMMA ArgumentsShow ==
  ASSUME NEW f, f \notin Unary, NEW s \in SignCells, NEW ws \in Numerals,
         NEW rr \in SignCells, NEW vs \in Numerals, Len(vs) = 1, NEW bracket \in BOOLEAN
  PROVE  /\ CallOf(f, Numeral(s, ws), Numeral(rr, vs), bracket) \in Seq(Cell)
         /\ Recognised(CallOf(f, Numeral(s, ws), Numeral(rr, vs), bracket), s, ws, rr, vs)
  <1> DEFINE x == Numeral(s, ws)
             y == Numeral(rr, vs)
             cells == CallOf(f, x, y, bracket)
             arg == ArithmArg(cells)
             k == Len(s)
             j == Len(rr)
             l == Len(ws)
             m == Len(x)
             n == Len(y)
             p == IF bracket THEN 4 ELSE 3
             q == IF bracket THEN m + 5 ELSE m + 3
  <1>1. /\ x \in Seq(Cell) /\ m = k + l /\ k \in 0 .. 1 /\ l \in Nat /\ l >= 1
        /\ \A i \in 1 .. l : x[k + i] = Number(ws[i])
    BY NumeralCells
  <1>2. y \in Seq(Cell) /\ n = j + 1 /\ j \in 0 .. 1
    BY NumeralCells
  <1>3. /\ cells \in Seq(Cell) /\ Len(cells) = q + n
        /\ \A i \in 1 .. m : cells[(p - 1) + i] = x[i]
        /\ \A i \in 1 .. n : cells[(q - 1) + i] = y[i]
        /\ bracket => cells[3].tag = "open" /\ cells[4 + m].tag = "close"
    <2>1. /\ m = Len(x) /\ n = Len(y) /\ cells = CallOf(f, x, y, bracket)
          /\ p = (IF bracket THEN 4 ELSE 3) /\ q = (IF bracket THEN m + 5 ELSE m + 3)
      OBVIOUS
    <2>. HIDE DEF x, y, m, n, cells, p, q
    <2>2. cells \in Seq(Cell) /\ InCall(cells, p, q, m, n, x, y, bracket)
      BY <2>1, <1>1, <1>2, BinaryCall
    <2>. QED
      BY <2>1, <2>2 DEF InCall, StandsAt
  <1>. HIDE DEF cells, arg
  <1>4. p \in Nat /\ p >= 3 /\ q \in Nat /\ q >= 4 /\ p <= 4
    BY <1>1
  <1>5. /\ NumberPlace(cells, p) = p + k /\ Behind(cells, p) = p + k + 1
        /\ IsSignedNumber(cells, p) /\ cells[p].tag \in {"char", "number"}
        /\ LET a == ParseSignedNumber(cells, p)
           IN  /\ a \in SignedNumber /\ a.value = ws[1]
               /\ IntOf(a) = (IF s = <<Minus>> THEN -1 ELSE 1) * ws[1]
               /\ a.value = 0 => a.sign = 1
    <2>1. p \in Nat /\ p >= 1
      BY <1>4
    <2>2. StandsAt(cells, p, Numeral(s, ws))
      BY <1>3 DEF StandsAt
    <2>. HIDE DEF p, x, y, m, n, k, j, l
    <2>3. ParsedAt(cells, p, s, ws)
      BY <1>3, <2>1, <2>2, NumberInCall
    <2>. QED
      BY <2>3 DEF ParsedAt, k
  <1>6. /\ NumberPlace(cells, q) = q + j /\ Behind(cells, q) = q + j + 1
        /\ IsSignedNumber(cells, q) /\ cells[q].tag \in {"char", "number"}
        /\ LET a == ParseSignedNumber(cells, q)
           IN  /\ a \in SignedNumber /\ a.value = vs[1]
               /\ IntOf(a) = (IF rr = <<Minus>> THEN -1 ELSE 1) * vs[1]
               /\ a.value = 0 => a.sign = 1
    <2>1. q \in Nat /\ q >= 1
      BY <1>4
    <2>2. StandsAt(cells, q, Numeral(rr, vs))
      BY <1>3 DEF StandsAt
    <2>. HIDE DEF q, x, y, m, n, k, j, l
    <2>3. ParsedAt(cells, q, rr, vs)
      BY <1>3, <2>1, <2>2, NumberInCall
    <2>. QED
      BY <2>3 DEF ParsedAt, j
  <1>. HIDE DEF x, y, m, n, k, j, l
  <1>7. Places(cells) = IF bracket THEN <<4, Behind(cells, 4) + 1>> ELSE <<3, Behind(cells, 3)>>
    <2>1. CASE bracket
      BY <2>1, <1>3 DEF Places
    <2>2. CASE ~bracket
      <3>1. cells[3].tag \in {"char", "number"}
        BY <2>2, <1>5
      <3>. QED
        BY <3>1, <2>2 DEF Places
    <2>. QED
      BY <2>1, <2>2
  <1> DEFINE first  == Places(cells)[1]
             second == Places(cells)[2]
  <1>8. first = p /\ second = IF bracket THEN 4 + k + 2 ELSE 3 + k + 1
    BY <1>1, <1>5, <1>7
  <1>9. arg.x = ParseSignedNumber(cells, p) /\ arg.y = ParseSignedNumber(cells, second)
    <2>. HIDE DEF p, second
    <2>. QED
      BY <1>8 DEF ArithmArg, arg, second
  <1>10. IsArithmArg(cells) <=>
           /\ first = 4 => cells[Behind(cells, first)].tag = "close"
           /\ IsSignedNumber(cells, second)
           /\ Behind(cells, second) = Len(cells)
    <2>1. IsSignedNumber(cells, first)
      <3>. HIDE DEF first, p
      <3>. QED
        BY <1>5, <1>8
    <2>. QED
      BY <2>1 DEF IsArithmArg
  <1>. HIDE DEF first, second
  <1>11. CASE l = 1
    <2>1. second = q
      BY <1>1, <1>8, <1>11
    <2>2. Behind(cells, q) = Len(cells)
      BY <1>1, <1>2, <1>3, <1>6
    <2>3. first = 4 => cells[Behind(cells, first)].tag = "close"
      <3>1. CASE bracket
        <4>1. first = 4 /\ p = 4 /\ 4 + k + 1 = 4 + m
          BY <3>1, <1>1, <1>8, <1>11
        <4>2. Behind(cells, 4) = 4 + m
          BY <4>1, <1>5
        <4>. QED
          BY <3>1, <4>1, <4>2, <1>3
      <3>2. CASE ~bracket
        BY <3>2, <1>8
      <3>. QED
        BY <3>1, <3>2
    <2>4. IsArithmArg(cells)
      <3>. HIDE DEF q
      <3>. QED
        BY <2>1, <2>2, <2>3, <1>6, <1>10
    <2>5. arg.y = ParseSignedNumber(cells, q)
      <3>. HIDE DEF q, p
      <3>. QED
        BY <2>1, <1>9
    <2>. HIDE DEF q, p
    <2>. QED
      BY <2>4, <2>5, <1>3, <1>5, <1>6, <1>9, <1>11 DEF cells, arg, x, y, l, Recognised
  <1>12. CASE l # 1
    <2>1. 2 \in 1 .. l /\ k + 2 \in 1 .. m
      BY <1>1, <1>12
    <2>2. cells[(p - 1) + (k + 2)] = Number(ws[2])
      <3>1. cells[(p - 1) + (k + 2)] = x[k + 2]
        <4>. HIDE DEF p
        <4>. QED
          BY <2>1, <1>3
      <3>. QED
        BY <3>1, <2>1, <1>1
    <2>3. cells[(p - 1) + (k + 2)].tag = "number"
      <3>. HIDE DEF p
      <3>. QED
        BY <2>2, CharsDiffer
    <2>4. ~IsArithmArg(cells)
      <3>1. CASE bracket
        <4>1. p = 4 /\ first = 4 /\ (p - 1) + (k + 2) = Behind(cells, 4)
          BY <3>1, <1>1, <1>5, <1>8
        <4>2. cells[Behind(cells, 4)].tag = "number"
          <5>. HIDE DEF p
          <5>. QED
            BY <4>1, <2>3
        <4>. HIDE DEF p
        <4>. QED
          BY <4>1, <4>2, <1>10
      <3>2. CASE ~bracket
        <4>1. p = 3 /\ second = 4 + k /\ (p - 1) + (k + 2) = 4 + k
          BY <3>2, <1>1, <1>8
        <4>2. cells[second].tag = "number"
          <5>. HIDE DEF p
          <5>. QED
            BY <4>1, <2>3
        <4>3. Behind(cells, second) = second + 1
          BY <4>2 DEF Behind, NumberPlace
        <4>4. second + 1 # Len(cells)
          <5>1. Len(cells) = m + 3 + n
            BY <3>2, <1>3
          <5>. QED
            BY <5>1, <4>1, <1>1, <1>2, <1>12
        <4>. HIDE DEF p
        <4>. QED
          BY <4>3, <4>4, <1>10
      <3>. QED
        BY <3>1, <3>2
    <2>. HIDE DEF q, p
    <2>. QED
      BY <2>4, <1>3, <1>5, <1>9, <1>12 DEF cells, arg, x, y, l, Recognised
  <1>. QED
    BY <1>11, <1>12

-----------------------------------------------------------------------------
(* The functions on words show what integers would.                         *)

\* The arguments of a call are the numbers x and y, unless x has more than one word.
ArgumentsOf(cells, x, y) ==
  LET arg == ArithmArg(cells)
  IN  /\ IsArithmArg(cells) <=> ~(Len(Unsigned(x)) > 1)
      /\ IsArithmArg(cells) =>
           /\ arg.x \in SignedNumber /\ (arg.x.value = 0 => arg.x.sign = 1)
           /\ arg.y \in SignedNumber /\ (arg.y.value = 0 => arg.y.sign = 1)
           /\ IntOf(arg.x) = NumeralValue(x) /\ IntOf(arg.y) = NumeralValue(y)

LEMMA NumeralOfOneWord ==
  ASSUME NEW s \in SignCells, NEW ws \in Numerals, Len(ws) = 1
  PROVE  NumeralValue(Numeral(s, ws)) = (IF s = <<Minus>> THEN -1 ELSE 1) * ws[1]
  <1> DEFINE w == ws[1]
             o == <<w>>
  <1>1. ws = o /\ w \in Word
    BY DEF Numerals
  <1>. HIDE DEF w
  <1>2. Value(o) = w
    <2>1. w \in Nat /\ Radix \in Nat
      BY <1>1, RadixIsNat DEF Word
    <2>. QED
      BY <2>1, NumberOfShort DEF Value
  <1>. HIDE DEF o
  <1>3. Value(ws) = w
    BY <1>1, <1>2
  <1>. QED
    BY <1>3, NumeralIs DEF w

LEMMA ArgumentsAre ==
  ASSUME NEW f, f \notin Unary, NEW x \in Seq(Cell), IsNumeral(x),
         NEW y \in Seq(Cell), IsNumeral(y), Len(Unsigned(y)) = 1, NEW bracket \in BOOLEAN
  PROVE  CallOf(f, x, y, bracket) \in Seq(Cell) /\ ArgumentsOf(CallOf(f, x, y, bracket), x, y)
  <1>1. PICK s \in SignCells, ws \in Numerals : x = Numeral(s, ws)
    BY NumeralParts
  <1>2. PICK rr \in SignCells, vs \in Numerals : y = Numeral(rr, vs)
    BY NumeralParts
  <1>3. Len(Unsigned(x)) = Len(ws) /\ Len(vs) = 1 /\ Len(ws) \in Nat /\ Len(ws) >= 1
    BY <1>1, <1>2, NumeralIs, NumeralCells
  <1> DEFINE cells == CallOf(f, x, y, bracket)
  <1>4. cells \in Seq(Cell) /\ Recognised(cells, s, ws, rr, vs)
    BY <1>1, <1>2, <1>3, ArgumentsShow
  <1>. HIDE DEF cells
  <1>5. Len(ws) = 1 => NumeralValue(x) = (IF s = <<Minus>> THEN -1 ELSE 1) * ws[1]
    BY <1>1, NumeralOfOneWord
  <1>6. NumeralValue(y) = (IF rr = <<Minus>> THEN -1 ELSE 1) * vs[1]
    BY <1>2, <1>3, NumeralOfOneWord
  <1>7. Len(ws) = 1 <=> ~(Len(Unsigned(x)) > 1)
    BY <1>3
  <1>. QED
    BY <1>4, <1>5, <1>6, <1>7 DEF ArgumentsOf, Recognised, cells

\* A function leaves the number v.
LeavesNumber(left, v) ==
  left.exit = "none" /\ IsNumeral(left.cells) /\ ShownNumber(left.cells) = Integer!Exact(v)

LEMMA EmplacedIs ==
  ASSUME NEW res, res.sign \in {-1, 0, 1}, res.value \in Word, NEW high \in Word,
         res.sign = 0 => res.value = 0 /\ high = 0
  PROVE  /\ EmplaceNumber(res, high) \in Seq(Cell) /\ IsNumeral(EmplaceNumber(res, high))
         /\ NumeralValue(EmplaceNumber(res, high)) = res.sign * (high * Radix + res.value)
         /\ ShownNumber(EmplaceNumber(res, high)) = Integer!Exact(res.sign * (high * Radix + res.value))
  <1> DEFINE v == res.value
             g == res.sign
             s == IF g < 0 THEN <<Minus>> ELSE <<>>
             ws == IF high # 0 THEN <<high, v>> ELSE <<v>>
  <1>0. v \in Word /\ g \in {-1, 0, 1} /\ (g = 0 => v = 0 /\ high = 0)
    OBVIOUS
  <1>. HIDE DEF v, g
  <1>1. s \in SignCells /\ (s = <<Minus>> <=> g = -1)
    <2>1. <<>> # <<Minus>>
      <3>1. Len(<<>>) = 0 /\ Len(<<Minus>>) = 1
        OBVIOUS
      <3>. QED
        BY <3>1
    <2>. QED
      BY <2>1, <1>0 DEF SignCells
  <1>2. /\ v \in Nat /\ high \in Nat /\ Radix \in Nat
    BY <1>0, RadixIsNat DEF Word
  <1>3. ws \in Numerals /\ (ws[1] # 0 \/ Len(ws) = 1) /\ Value(ws) = high * Radix + v
    <2>1. CASE high # 0
      <3>1. ws = <<high, v>>
        BY <2>1
      <3>2. <<high, v>> \in Numerals /\ <<high, v>>[1] = high
        BY <1>0 DEF Numerals
      <3>3. <<high, v>> = Append(<<high>>, v) /\ <<high>> \in Seq(Nat)
        BY <1>2
      <3>4. NumberOf(Radix, <<high>>) = high
        BY <1>2, NumberOfShort
      <3>5. NumberOf(Radix, Append(<<high>>, v)) = NumberOf(Radix, <<high>>) * Radix + v
        BY <1>2, <3>3, NumberOfAppend
      <3>. QED
        BY <3>1, <3>2, <3>3, <3>4, <3>5, <2>1 DEF Value
    <2>2. CASE high = 0
      <3>1. ws = <<v>>
        BY <2>2
      <3>2. <<v>> \in Numerals /\ Len(<<v>>) = 1
        BY <1>0 DEF Numerals
      <3>3. NumberOf(Radix, <<v>>) = v
        BY <1>2, NumberOfShort
      <3>4. high * Radix + v = v
        BY <1>2, <2>2
      <3>. QED
        BY <3>1, <3>2, <3>3, <3>4 DEF Value
    <2>. QED
      BY <2>1, <2>2
  <1>4. EmplaceNumber(res, high) = Numeral(s, ws)
    <2>1. CASE high # 0
      <3>1. ws = <<high, v>>
        BY <2>1
      <3>2. [i \in DOMAIN ws |-> Number(ws[i])] = <<Number(high)>> \o <<Number(v)>>
        <4>1. [i \in DOMAIN <<high, v>> |-> Number(<<high, v>>[i])] = <<Number(high), Number(v)>>
          OBVIOUS
        <4>2. <<Number(high)>> \o <<Number(v)>> = <<Number(high), Number(v)>>
          <5>1. Number(high) \in Cell /\ Number(v) \in Cell
            BY <1>0, CellsAre
          <5>2. \A q \in Seq(Cell), e \in Cell : q \o <<e>> = Append(q, e)
            OBVIOUS
          <5>3. ASSUME NEW d \in Cell, NEW e \in Cell PROVE <<d>> \in Seq(Cell) /\ Append(<<d>>, e) = <<d, e>>
            <6>1. <<d>> \in Seq(Cell) /\ Len(<<d>>) = 1 /\ <<d>>[1] = d
              OBVIOUS
            <6>2. <<d, e>> \in Seq(Cell) /\ Len(<<d, e>>) = 2 /\ <<d, e>>[1] = d /\ <<d, e>>[2] = e
              OBVIOUS
            <6> DEFINE a == Append(<<d>>, e)
            <6>3. a \in Seq(Cell) /\ Len(a) = 2 /\ a[1] = d /\ a[2] = e
              BY <6>1
            <6>. HIDE DEF a
            <6>4. a = <<d, e>>
              <7> DEFINE b == <<d, e>>
              <7>1. b \in Seq(Cell) /\ Len(b) = 2 /\ b[1] = d /\ b[2] = e
                BY <6>2
              <7>. HIDE DEF b
              <7>2. \A i \in 1 .. Len(a) : a[i] = b[i]
                BY <6>3, <7>1
              <7>3. a = b
                BY <6>3, <7>1, <7>2, SeqEqual
              <7>. QED
                BY <7>3 DEF b
            <6>. QED
              BY <6>1, <6>4 DEF a
          <5>. QED
            BY <5>1, <5>2, <5>3
        <4>. QED
          BY <3>1, <4>1, <4>2
      <3>3. EmplaceNumber(res, high) = (s \o <<Number(high)>>) \o <<Number(v)>>
        BY <2>1 DEF EmplaceNumber, v, g
      <3>4. (s \o <<Number(high)>>) \o <<Number(v)>> = s \o (<<Number(high)>> \o <<Number(v)>>)
        <4>1. s \in Seq(Cell) /\ <<Number(high)>> \in Seq(Cell) /\ <<Number(v)>> \in Seq(Cell)
          <5>1. <<>> \in Seq(Cell) /\ <<Minus>> \in Seq(Cell) /\ Number(high) \in Cell /\ Number(v) \in Cell
            BY <1>0, CellsAre
          <5>. QED
            BY <5>1
        <4>. HIDE DEF s
        <4>. QED
          BY <4>1, ConcatAssociative
      <3>. HIDE DEF s, ws
      <3>. QED
        BY <3>2, <3>3, <3>4 DEF Numeral
    <2>2. CASE high = 0
      <3>1. ws = <<v>>
        BY <2>2
      <3>2. [i \in DOMAIN ws |-> Number(ws[i])] = <<Number(v)>>
        <4>1. [i \in DOMAIN <<v>> |-> Number(<<v>>[i])] = <<Number(v)>>
          OBVIOUS
        <4>. QED
          BY <3>1, <4>1
      <3>3. EmplaceNumber(res, high) = (s \o <<>>) \o <<Number(v)>>
        BY <2>2 DEF EmplaceNumber, v, g
      <3>4. s \o <<>> = s
        <4>1. s \in Seq(Cell)
          <5>1. <<>> \in Seq(Cell) /\ <<Minus>> \in Seq(Cell)
            BY CellsAre
          <5>. QED
            BY <5>1
        <4>. HIDE DEF s
        <4>. QED
          BY <4>1, ConcatEmptySeq
      <3>. HIDE DEF s, ws
      <3>. QED
        BY <3>2, <3>3, <3>4 DEF Numeral
    <2>. QED
      BY <2>1, <2>2
  <1> DEFINE c == Numeral(s, ws)
             h == IF s = <<Minus>> THEN -1 ELSE 1
  <1>5. /\ c \in Seq(Cell) /\ IsNumeral(c) /\ NumeralValue(c) = h * Value(ws)
        /\ ShownNumber(c) = Integer!Exact(h * Value(ws))
    <2>. HIDE DEF s, ws
    <2>. QED
      BY <1>1, <1>3, NumeralIs, NumeralShows
  <1>6. h * (high * Radix + v) = g * (high * Radix + v)
    <2>1. high * Radix + v \in Nat
      BY <1>2
    <2>2. g = 0 => high * Radix + v = 0
      BY <1>0, <1>2
    <2>3. h = IF g = -1 THEN -1 ELSE 1
      BY <1>1
    <2> DEFINE a == high * Radix + v
    <2>. HIDE DEF a, h
    <2>4. h * a = g * a
      <3>1. CASE g = 0
        <4>1. a = 0
          BY <3>1, <2>2 DEF a
        <4>. QED
          BY <4>1, <3>1, <2>3
      <3>2. CASE g # 0
        <4>1. h = g
          BY <3>2, <2>3, <1>0
        <4>. QED
          BY <4>1
      <3>. QED
        BY <3>1, <3>2
    <2>. QED
      BY <2>4 DEF a
  <1>. HIDE DEF h, c, s, ws
  <1>. QED
    BY <1>3, <1>4, <1>5, <1>6 DEF c, v, g

LEMMA InPlaceShows ==
  ASSUME NEW cells, NEW res, res.sign \in {-1, 0, 1}, res.value \in Word, NEW high \in Word,
         res.sign = 0 => res.value = 0 /\ high = 0,
         InPlaceOf(cells, EmplaceNumber(res, high)).exit # "undefined"
  PROVE  LeavesNumber(InPlaceOf(cells, EmplaceNumber(res, high)), res.sign * (high * Radix + res.value))
  <1> DEFINE w == EmplaceNumber(res, high)
  <1>1. IsNumeral(w) /\ ShownNumber(w) = Integer!Exact(res.sign * (high * Radix + res.value))
    BY EmplacedIs
  <1>. HIDE DEF w
  <1>2. InPlaceOf(cells, w) = Left(w)
    <2>1. InPlaceOf(cells, w).exit # "undefined"
      BY DEF w
    <2>. QED
      BY <2>1 DEF InPlaceOf, Overrun
  <1>. QED
    BY <1>1, <1>2 DEF LeavesNumber, Left, w

(* The sum of the arguments. *)
LEMMA SumShows ==
  ASSUME NEW cells, NEW arg, arg.x \in SignedNumber, arg.y \in SignedNumber,
         AddUp(cells, arg).exit # "undefined"
  PROVE  LeavesNumber(AddUp(cells, arg), IntOf(arg.x) + IntOf(arg.y))
  <1> DEFINE x == arg.x
             y == arg.y
             s == SumOf(x, y)
             c == Carry(x, y)
  <1>1. c \in {0, 1} /\ s.value \in Word /\ s.sign * (c * Radix + s.value) = IntOf(x) + IntOf(y)
    BY SumIsExact
  <1>2. s.sign \in {-1, 0, 1} /\ (s.sign = 0 => s.value = 0 /\ c = 0)
    <2>1. x.sign \in {-1, 1} /\ y.sign \in {-1, 1}
      BY DEF SignedNumber
    <2>2. s.sign \in {-1, 0, 1}
      BY <2>1, SumHasSign
    <2>3. s.sign = 0 => s.value = 0 /\ c = 0
      BY <2>1 DEF SumOf, Carry, Signed
    <2>. QED
      BY <2>2, <2>3
  <1>3. c \in Word
    BY <1>1, RadixIsNat DEF Word
  <1>4. AddUp(cells, arg) = InPlaceOf(cells, EmplaceNumber(s, c))
    BY DEF AddUp
  <1>. HIDE DEF s, c, x, y
  <1>5. LeavesNumber(InPlaceOf(cells, EmplaceNumber(s, c)), s.sign * (c * Radix + s.value))
    BY <1>1, <1>2, <1>3, <1>4, InPlaceShows
  <1>. QED
    BY <1>1, <1>4, <1>5 DEF x, y

LEMMA NumbersStay ==
  ASSUME NEW cells \in Seq(Cell)
  PROVE  \A left \in WordFunctions(cells) : left.exit # "undefined"
  BY WordsStayInCall

LEMMA AddShows ==
  ASSUME NEW cells \in Seq(Cell), NEW x, NEW y, ArgumentsOf(cells, x, y)
  PROVE  /\ Len(Unsigned(x)) > 1 => Add(cells) = RecognitionImpossible
         /\ ~(Len(Unsigned(x)) > 1) => LeavesNumber(Add(cells), NumeralValue(x) + NumeralValue(y))
  <1> DEFINE arg == ArithmArg(cells)
  <1>1. Add(cells) = IF IsArithmArg(cells) THEN AddUp(cells, arg) ELSE RecognitionImpossible
    BY DEF Add
  <1>2. Add(cells).exit # "undefined"
    BY NumbersStay DEF WordFunctions
  <1>3. IsArithmArg(cells) => /\ arg.x \in SignedNumber /\ arg.y \in SignedNumber
                              /\ IntOf(arg.x) = NumeralValue(x) /\ IntOf(arg.y) = NumeralValue(y)
    BY DEF ArgumentsOf
  <1>4. IsArithmArg(cells) <=> ~(Len(Unsigned(x)) > 1)
    BY DEF ArgumentsOf
  <1>. HIDE DEF arg
  <1>5. CASE IsArithmArg(cells)
    <2>1. LeavesNumber(AddUp(cells, arg), IntOf(arg.x) + IntOf(arg.y))
      BY <1>1, <1>2, <1>3, <1>5, SumShows
    <2>. QED
      BY <2>1, <1>1, <1>3, <1>4, <1>5
  <1>6. CASE ~IsArithmArg(cells)
    BY <1>1, <1>4, <1>6
  <1>. QED
    BY <1>5, <1>6

LEMMA SubShows ==
  ASSUME NEW cells \in Seq(Cell), NEW x, NEW y, ArgumentsOf(cells, x, y)
  PROVE  /\ Len(Unsigned(x)) > 1 => Sub(cells) = RecognitionImpossible
         /\ ~(Len(Unsigned(x)) > 1) => LeavesNumber(Sub(cells), NumeralValue(x) - NumeralValue(y))
  <1> DEFINE arg == ArithmArg(cells)
             neg == [arg EXCEPT !.y = Negated(@)]
  <1>1. Sub(cells) = IF IsArithmArg(cells) THEN AddUp(cells, neg) ELSE RecognitionImpossible
    BY DEF Sub
  <1>2. Sub(cells).exit # "undefined"
    BY NumbersStay DEF WordFunctions
  <1>3. IsArithmArg(cells) => /\ arg.x \in SignedNumber /\ arg.y \in SignedNumber
                              /\ IntOf(arg.x) = NumeralValue(x) /\ IntOf(arg.y) = NumeralValue(y)
    BY DEF ArgumentsOf
  <1>4. IsArithmArg(cells) <=> ~(Len(Unsigned(x)) > 1)
    BY DEF ArgumentsOf
  <1>5. neg.x = arg.x /\ neg.y = Negated(arg.y)
    BY DEF ArithmArg
  <1>. HIDE DEF arg, neg
  <1>6. \A n \in SignedNumber : Negated(n) \in SignedNumber /\ IntOf(Negated(n)) = -IntOf(n) /\ IntOf(n) \in Int
    <2>1. ASSUME NEW n \in SignedNumber
          PROVE  Negated(n) \in SignedNumber /\ IntOf(Negated(n)) = -IntOf(n) /\ IntOf(n) \in Int
      <3>1. n.sign \in {-1, 1} /\ n.value \in Word /\ n.value \in Int
        BY RadixIsNat DEF SignedNumber, Word
      <3>2. Negated(n) = [sign |-> -n.sign, value |-> n.value]
        BY DEF Negated, Signed
      <3>3. Negated(n) \in SignedNumber
        BY <3>1, <3>2 DEF SignedNumber
      <3> DEFINE v == n.value
                 g == n.sign
      <3>4. g \in {-1, 1} /\ v \in Int
        BY <3>1
      <3>5. IntOf(Negated(n)) = (-g) * v /\ IntOf(n) = g * v
        BY <3>2 DEF IntOf
      <3>. HIDE DEF v, g
      <3>6. (-g) * v = -(g * v) /\ g * v \in Int
        <4>1. CASE g = 1
          BY <4>1, <3>4
        <4>2. CASE g = -1
          BY <4>2, <3>4
        <4>. QED
          BY <4>1, <4>2, <3>4
      <3>. QED
        BY <3>3, <3>5, <3>6
    <2>. QED
      BY <2>1
  <1>7. CASE IsArithmArg(cells)
    <2>1. neg.x \in SignedNumber /\ neg.y \in SignedNumber
      BY <1>3, <1>5, <1>6, <1>7
    <2>2. LeavesNumber(AddUp(cells, neg), IntOf(neg.x) + IntOf(neg.y))
      BY <2>1, <1>1, <1>2, <1>7, SumShows
    <2>3. IntOf(neg.x) + IntOf(neg.y) = NumeralValue(x) - NumeralValue(y)
      <3>1. /\ IntOf(neg.x) = NumeralValue(x) /\ IntOf(neg.y) = -NumeralValue(y)
            /\ NumeralValue(x) \in Int /\ NumeralValue(y) \in Int
        BY <1>3, <1>5, <1>6, <1>7
      <3>. QED
        BY <3>1
    <2>. QED
      BY <2>2, <2>3, <1>1, <1>4, <1>7
  <1>8. CASE ~IsArithmArg(cells)
    BY <1>1, <1>4, <1>8
  <1>. QED
    BY <1>7, <1>8

LEMMA MulShows ==
  ASSUME NEW cells \in Seq(Cell), NEW x, NEW y, ArgumentsOf(cells, x, y)
  PROVE  /\ Len(Unsigned(x)) > 1 => Mul(cells) = RecognitionImpossible
         /\ ~(Len(Unsigned(x)) > 1) => LeavesNumber(Mul(cells), NumeralValue(x) * NumeralValue(y))
  <1> DEFINE arg == ArithmArg(cells)
             both == LongProduct(arg.x.value, arg.y.value)
             res  == Signed(arg.x.sign * arg.y.sign, both.value)
  <1>1. Mul(cells) = IF IsArithmArg(cells)
                     THEN InPlaceOf(cells, EmplaceNumber(res, both.high))
                     ELSE RecognitionImpossible
    BY DEF Mul
  <1>2. Mul(cells).exit # "undefined"
    BY NumbersStay DEF WordFunctions
  <1>3. IsArithmArg(cells) => /\ arg.x \in SignedNumber /\ arg.y \in SignedNumber
                              /\ IntOf(arg.x) = NumeralValue(x) /\ IntOf(arg.y) = NumeralValue(y)
    BY DEF ArgumentsOf
  <1>4. IsArithmArg(cells) <=> ~(Len(Unsigned(x)) > 1)
    BY DEF ArgumentsOf
  <1>. HIDE DEF arg
  <1>5. CASE IsArithmArg(cells)
    <2> DEFINE a == arg.x.value
               b == arg.y.value
               g == arg.x.sign
               h == arg.y.sign
    <2>1. a \in Word /\ b \in Word /\ g \in {-1, 1} /\ h \in {-1, 1} /\ a \in Nat /\ b \in Nat
      BY <1>3, <1>5, RadixIsNat DEF SignedNumber, Word
    <2>2. both.value \in Word /\ both.high \in Word /\ both.high * Radix + both.value = a * b
      <3>. HIDE DEF a, b
      <3>1. /\ LongProduct(a, b) \in [value : Word, high : Word]
            /\ LongProduct(a, b).high * Radix + LongProduct(a, b).value = a * b
        BY <2>1, LongProductIsExact
      <3>. QED
        BY <3>1 DEF a, b
    <2>3. res.sign = g * h /\ res.value = both.value
      BY DEF Signed
    <2>4. g * h \in {-1, 1}
      BY <2>1
    <2>5. (g * h) * (a * b) = NumeralValue(x) * NumeralValue(y)
      <3>1. NumeralValue(x) = g * a /\ NumeralValue(y) = h * b
        BY <1>3, <1>5 DEF IntOf
      <3>. HIDE DEF a, b, g, h
      <3>2. \A p, q \in Nat : \A u, v \in {-1, 1} : (u * v) * (p * q) = (u * p) * (v * q)
        OBVIOUS
      <3>. QED
        BY <3>1, <3>2, <2>1
    <2>. HIDE DEF res, both, a, b, g, h
    <2>6. LeavesNumber(InPlaceOf(cells, EmplaceNumber(res, both.high)), res.sign * (both.high * Radix + both.value))
      <3>1. res.sign \in {-1, 0, 1} /\ res.sign # 0
        BY <2>3, <2>4
      <3>2. InPlaceOf(cells, EmplaceNumber(res, both.high)).exit # "undefined"
        BY <1>1, <1>2, <1>5
      <3> DEFINE hi == both.high
      <3>3. hi \in Word /\ res.value \in Word /\ res.value = both.value
        BY <2>2, <2>3
      <3>4. InPlaceOf(cells, EmplaceNumber(res, hi)).exit # "undefined"
        BY <3>2
      <3>. HIDE DEF hi
      <3>5. LeavesNumber(InPlaceOf(cells, EmplaceNumber(res, hi)), res.sign * (hi * Radix + res.value))
        BY <3>1, <3>3, <3>4, InPlaceShows
      <3>. QED
        BY <3>3, <3>5 DEF hi
    <2>. QED
      BY <2>2, <2>3, <2>5, <2>6, <1>1, <1>4, <1>5
  <1>6. CASE ~IsArithmArg(cells)
    BY <1>1, <1>4, <1>6
  <1>. QED
    BY <1>5, <1>6

(* Quotient and remainder of signs and values are those of integers. *)
LEMMA DivisionShows ==
  ASSUME NEW x \in SignedNumber, NEW y \in SignedNumber, x.value = 0 => x.sign = 1, y.value # 0
  PROVE  /\ Quotient(x, y) \in SignedNumber /\ Remainder(x, y) \in SignedNumber
         /\ IntOf(Quotient(x, y)) = Integer!Quotient(IntOf(x), IntOf(y))
         /\ IntOf(Remainder(x, y)) = Integer!Remainder(IntOf(x), IntOf(y))
  <1> DEFINE a == x.value
             b == y.value
             g == x.sign
             h == y.sign
             X == IntOf(x)
             Y == IntOf(y)
             d == a \div b
  <1>1. a \in Nat /\ b \in Nat /\ b >= 1 /\ g \in {-1, 1} /\ h \in {-1, 1} /\ (a = 0 => g = 1)
    <2>1. x.value \in Nat /\ y.value \in Nat
      BY RadixIsNat DEF SignedNumber, Word
    <2>. QED
      BY <2>1 DEF SignedNumber
  <1>2. X = g * a /\ Y = h * b
    BY DEF IntOf
  <1>3. /\ Quotient(x, y) \in SignedNumber /\ Remainder(x, y) \in SignedNumber
        /\ IntOf(Quotient(x, y)) * IntOf(y) + IntOf(Remainder(x, y)) = IntOf(x)
    BY DivisionIsExact
  <1>4. IntOf(Quotient(x, y)) = (g * h) * d
    BY DEF Quotient, IntOf, Signed
  <1>. HIDE DEF a, b, g, h, X, Y
  <1>5. d \in Nat
    BY <1>1
  <1>6. /\ Integer!Abs(X) = a /\ Integer!Abs(Y) = b
        /\ X < 0 <=> g = -1
        /\ Y < 0 <=> h = -1
    <2>1. g * a = (IF g = 1 THEN a ELSE -a) /\ h * b = (IF h = 1 THEN b ELSE -b)
      BY <1>1
    <2>2. (X < 0 <=> g = -1) /\ (Y < 0 <=> h = -1)
      BY <2>1, <1>1, <1>2
    <2>3. (IF X < 0 THEN -X ELSE X) = a /\ (IF Y < 0 THEN -Y ELSE Y) = b
      BY <2>1, <2>2, <1>1, <1>2
    <2>. QED
      BY <2>2, <2>3 DEF Integer!Abs
  <1>7. Integer!Quotient(X, Y) = IF X < 0 <=> Y < 0 THEN d ELSE -d
    BY <1>6 DEF Integer!Quotient
  <1>. HIDE DEF d
  <1>8. Integer!Quotient(X, Y) = (g * h) * d
    <2>1. CASE g = h
      <3>1. g * h = 1
        BY <2>1, <1>1
      <3>2. (X < 0) <=> (Y < 0)
        BY <2>1, <1>6
      <3>. QED
        BY <3>1, <3>2, <1>5, <1>7
    <2>2. CASE g # h
      <3>1. g * h = -1
        BY <2>2, <1>1
      <3>2. ~((X < 0) <=> (Y < 0))
        BY <2>2, <1>1, <1>6
      <3>. QED
        BY <3>1, <3>2, <1>5, <1>7
    <2>. QED
      BY <2>1, <2>2
  <1> DEFINE q == IntOf(Quotient(x, y))
             rr == IntOf(Remainder(x, y))
  <1>9. q = Integer!Quotient(X, Y)
    BY <1>4, <1>8
  <1>10. q \in Int /\ rr \in Int /\ X \in Int /\ Y \in Int
    <2>1. \A n \in SignedNumber : IntOf(n) \in Int
      <3>1. ASSUME NEW n \in SignedNumber PROVE IntOf(n) \in Int
        <4>1. n.sign \in Int /\ n.value \in Int
          BY RadixIsNat DEF SignedNumber, Word
        <4>. QED
          BY <4>1 DEF IntOf
      <3>. QED
        BY <3>1
    <2>. QED
      BY <2>1, <1>3 DEF X, Y
  <1>11. q * Y + rr = X
    BY <1>3 DEF X, Y
  <1>12. Integer!Remainder(X, Y) = X - Y * q
    BY <1>9 DEF Integer!Remainder
  <1>. HIDE DEF q, rr
  <1>13. rr = Integer!Remainder(X, Y)
    <2>1. Y * q = q * Y
      BY <1>10
    <2>. QED
      BY <2>1, <1>10, <1>11, <1>12
  <1>. QED
    BY <1>3, <1>9, <1>13 DEF X, Y, q, rr

LEMMA IncShows ==
  ASSUME NEW x \in Seq(Cell), IsNumeral(x), NEW y \in Seq(Cell),
         NEW cells, cells = CallOf("Inc", x, y, FALSE)
  PROVE  /\ Len(Unsigned(x)) > 1 => Inc(cells) = RecognitionImpossible
         /\ ~(Len(Unsigned(x)) > 1) => LeavesNumber(Inc(cells), NumeralValue(x) + 1)
  <1>1. PICK s \in SignCells, ws \in Numerals : x = Numeral(s, ws)
    BY NumeralParts
  <1> DEFINE k == Len(s)
             l == Len(ws)
  <1>2. Len(Unsigned(x)) = l /\ l \in Nat /\ l >= 1 /\ k \in 0 .. 1 /\ Len(x) = k + l
    BY <1>1, NumeralIs, NumeralCells
  <1>3. cells \in CallCells /\ Len(cells) = Len(x) + 3 /\ \A i \in 1 .. Len(x) : cells[i + 2] = x[i]
    <2>1. "Inc" \in Unary
      BY DEF Unary
    <2>. QED
      BY <2>1, UnaryCall
  <1>4. cells \in Seq(Cell)
    BY <1>3 DEF CallCells
  <1>5. StandsAt(cells, 3, x)
    <2>1. ASSUME NEW i \in 1 .. Len(x) PROVE cells[(3 - 1) + i] = x[i]
      <3>1. (3 - 1) + i = i + 2
        OBVIOUS
      <3>. QED
        BY <3>1, <1>3
    <2>. QED
      BY <2>1 DEF StandsAt
  <1>6. ParsedAt(cells, 3, s, ws)
    <2>1. 3 \in Nat /\ 3 >= 1
      OBVIOUS
    <2>. QED
      BY <2>1, <1>1, <1>4, <1>5, NumberInCall
  <1> DEFINE n == ParseSignedNumber(cells, 3)
             arg == [x |-> n, y |-> Signed(1, 1)]
  <1>7. /\ Behind(cells, 3) = 3 + k + 1 /\ IsSignedNumber(cells, 3) /\ n \in SignedNumber
        /\ IntOf(n) = (IF s = <<Minus>> THEN -1 ELSE 1) * ws[1]
    BY <1>6 DEF ParsedAt
  <1>8. Behind(cells, 3) = Len(cells) <=> l = 1
    <2> DEFINE m == Len(x)
               c == Len(cells)
               b == Behind(cells, 3)
    <2>1. c = m + 3 /\ m = k + l /\ b = 3 + k + 1
      BY <1>2, <1>3, <1>7
    <2>. HIDE DEF k, l, m, c, b
    <2>2. b = c <=> l = 1
      BY <2>1, <1>2
    <2>. QED
      BY <2>2 DEF b, c
  <1>9. Inc(cells) = IF l = 1 THEN AddUp(cells, arg) ELSE RecognitionImpossible
    BY <1>7, <1>8 DEF Inc
  <1>10. Inc(cells).exit # "undefined"
    BY <1>4, NumbersStay DEF WordFunctions
  <1>11. CASE l = 1
    <2>1. NumeralValue(x) = (IF s = <<Minus>> THEN -1 ELSE 1) * ws[1]
      BY <1>1, <1>11, NumeralOfOneWord
    <2>2. arg.x = n /\ arg.y \in SignedNumber /\ IntOf(arg.y) = 1
      BY RadixIsNat DEF SignedNumber, Signed, Word, IntOf
    <2>. HIDE DEF n, arg, l
    <2>3. LeavesNumber(AddUp(cells, arg), IntOf(arg.x) + IntOf(arg.y))
      BY <2>2, <1>7, <1>9, <1>10, <1>11, SumShows
    <2>4. IntOf(arg.x) = NumeralValue(x)
      BY <2>1, <2>2, <1>7
    <2>5. ~(Len(Unsigned(x)) > 1)
      BY <1>2, <1>11
    <2>6. Inc(cells) = AddUp(cells, arg)
      BY <1>9, <1>11
    <2>. QED
      BY <2>2, <2>3, <2>4, <2>5, <2>6
  <1>12. CASE l # 1
    <2>. HIDE DEF l, arg
    <2>1. Len(Unsigned(x)) > 1
      BY <1>2, <1>12
    <2>. QED
      BY <2>1, <1>9, <1>12
  <1>. QED
    BY <1>11, <1>12

(* What division asks of its arguments. *)
LEMMA DivisorShows ==
  ASSUME NEW cells \in Seq(Cell), NEW x, NEW y, ArgumentsOf(cells, x, y), ~(Len(Unsigned(x)) > 1)
  PROVE  /\ IsArithmArg(cells)
         /\ ArithmArg(cells).x \in SignedNumber /\ ArithmArg(cells).y \in SignedNumber
         /\ ArithmArg(cells).x.value = 0 => ArithmArg(cells).x.sign = 1
         /\ ArithmArg(cells).y.value = 0 <=> NumeralValue(y) = 0
         /\ IntOf(ArithmArg(cells).x) = NumeralValue(x)
         /\ IntOf(ArithmArg(cells).y) = NumeralValue(y)
  <1> DEFINE n == ArithmArg(cells).y
  <1>1. /\ IsArithmArg(cells) /\ n \in SignedNumber /\ IntOf(n) = NumeralValue(y)
        /\ ArithmArg(cells).x \in SignedNumber /\ IntOf(ArithmArg(cells).x) = NumeralValue(x)
        /\ ArithmArg(cells).x.value = 0 => ArithmArg(cells).x.sign = 1
    BY DEF ArgumentsOf
  <1>. HIDE DEF n
  <1>2. n.value = 0 <=> IntOf(n) = 0
    <2>1. n.sign \in {-1, 1} /\ n.value \in Nat
      BY <1>1, RadixIsNat DEF SignedNumber, Word
    <2>. QED
      BY <2>1 DEF IntOf
  <1>. QED
    BY <1>1, <1>2 DEF n

LEMMA OneWordShows ==
  ASSUME NEW cells, NEW n \in SignedNumber,
         InPlaceOf(cells, EmplaceNumber(n, 0)).exit # "undefined"
  PROVE  LeavesNumber(InPlaceOf(cells, EmplaceNumber(n, 0)), IntOf(n))
  <1>1. n.sign \in {-1, 0, 1} /\ n.sign # 0 /\ n.value \in Word /\ 0 \in Word
    BY RadixIsNat DEF SignedNumber, Word
  <1>2. LeavesNumber(InPlaceOf(cells, EmplaceNumber(n, 0)), n.sign * (0 * Radix + n.value))
    BY <1>1, InPlaceShows
  <1>3. 0 * Radix + n.value = n.value
    BY <1>1, RadixIsNat DEF Word
  <1>. QED
    BY <1>2, <1>3 DEF IntOf

LEMMA DivShows ==
  ASSUME NEW cells \in Seq(Cell), NEW x, NEW y, ArgumentsOf(cells, x, y)
  PROVE  /\ Len(Unsigned(x)) > 1 => Div(cells) = RecognitionImpossible
         /\ ~(Len(Unsigned(x)) > 1) =>
              IF NumeralValue(y) = 0 THEN Div(cells) = BuiltinError
              ELSE LeavesNumber(Div(cells), Integer!Quotient(NumeralValue(x), NumeralValue(y)))
  <1> DEFINE a == ArithmArg(cells).x
             b == ArithmArg(cells).y
             ok == InPlaceOf(cells, EmplaceNumber(Quotient(a, b), 0))
  <1>1. Div(cells) = Division(cells, ok)
    BY DEF Div
  <1>2. Div(cells).exit # "undefined"
    BY NumbersStay DEF WordFunctions
  <1>3. CASE Len(Unsigned(x)) > 1
    <2>1. ~IsArithmArg(cells)
      BY <1>3 DEF ArgumentsOf
    <2>. QED
      BY <2>1, <1>1, <1>3 DEF Division
  <1>4. CASE ~(Len(Unsigned(x)) > 1)
    <2>1. /\ IsArithmArg(cells) /\ a \in SignedNumber /\ b \in SignedNumber
          /\ a.value = 0 => a.sign = 1
          /\ b.value = 0 <=> NumeralValue(y) = 0
          /\ IntOf(a) = NumeralValue(x) /\ IntOf(b) = NumeralValue(y)
      BY <1>4, DivisorShows
    <2>2. CASE b.value = 0
      BY <2>1, <2>2, <1>1, <1>4 DEF Division
    <2>3. CASE b.value # 0
      <3>1. Div(cells) = ok
        BY <2>1, <2>3, <1>1 DEF Division
      <3>. HIDE DEF a, b
      <3>2. Quotient(a, b) \in SignedNumber /\ IntOf(Quotient(a, b)) = Integer!Quotient(IntOf(a), IntOf(b))
        BY <2>1, <2>3, DivisionShows
      <3>3. LeavesNumber(ok, IntOf(Quotient(a, b)))
        BY <3>1, <3>2, <1>2, OneWordShows
      <3>. QED
        BY <2>1, <2>3, <3>1, <3>2, <3>3, <1>4
    <2>. QED
      BY <2>2, <2>3
  <1>. QED
    BY <1>3, <1>4

LEMMA ModShows ==
  ASSUME NEW cells \in Seq(Cell), NEW x, NEW y, ArgumentsOf(cells, x, y)
  PROVE  /\ Len(Unsigned(x)) > 1 => Mod(cells) = RecognitionImpossible
         /\ ~(Len(Unsigned(x)) > 1) =>
              IF NumeralValue(y) = 0 THEN Mod(cells) = BuiltinError
              ELSE LeavesNumber(Mod(cells), Integer!Remainder(NumeralValue(x), NumeralValue(y)))
  <1> DEFINE a == ArithmArg(cells).x
             b == ArithmArg(cells).y
             ok == InPlaceOf(cells, EmplaceNumber(Remainder(a, b), 0))
  <1>1. Mod(cells) = Division(cells, ok)
    BY DEF Mod
  <1>2. Mod(cells).exit # "undefined"
    BY NumbersStay DEF WordFunctions
  <1>3. CASE Len(Unsigned(x)) > 1
    <2>1. ~IsArithmArg(cells)
      BY <1>3 DEF ArgumentsOf
    <2>. QED
      BY <2>1, <1>1, <1>3 DEF Division
  <1>4. CASE ~(Len(Unsigned(x)) > 1)
    <2>1. /\ IsArithmArg(cells) /\ a \in SignedNumber /\ b \in SignedNumber
          /\ a.value = 0 => a.sign = 1
          /\ b.value = 0 <=> NumeralValue(y) = 0
          /\ IntOf(a) = NumeralValue(x) /\ IntOf(b) = NumeralValue(y)
      BY <1>4, DivisorShows
    <2>2. CASE b.value = 0
      BY <2>1, <2>2, <1>1, <1>4 DEF Division
    <2>3. CASE b.value # 0
      <3>1. Mod(cells) = ok
        BY <2>1, <2>3, <1>1 DEF Division
      <3>. HIDE DEF a, b
      <3>2. Remainder(a, b) \in SignedNumber /\ IntOf(Remainder(a, b)) = Integer!Remainder(IntOf(a), IntOf(b))
        BY <2>1, <2>3, DivisionShows
      <3>3. LeavesNumber(ok, IntOf(Remainder(a, b)))
        BY <3>1, <3>2, <1>2, OneWordShows
      <3>. QED
        BY <2>1, <2>3, <3>1, <3>2, <3>3, <1>4
    <2>. QED
      BY <2>2, <2>3
  <1>. QED
    BY <1>3, <1>4

LEMMA CompareShows ==
  ASSUME NEW cells \in Seq(Cell), NEW x, NEW y, ArgumentsOf(cells, x, y)
  PROVE  /\ Len(Unsigned(x)) > 1 => Compare(cells) = RecognitionImpossible
         /\ ~(Len(Unsigned(x)) > 1) =>
              /\ Compare(cells).exit = "none"
              /\ ShownSign(Compare(cells).cells) = Integer!Sign(NumeralValue(x) - NumeralValue(y))
  <1> DEFINE a == ArithmArg(cells).x
             b == ArithmArg(cells).y
             o == Order(a, b)
             c == IF o < 0 THEN Minus ELSE IF o > 0 THEN Plus ELSE Char(Zero)
  <1>1. Compare(cells) = IF IsArithmArg(cells) THEN InPlaceOf(cells, <<c>>) ELSE RecognitionImpossible
    BY DEF Compare
  <1>2. Compare(cells).exit # "undefined"
    BY NumbersStay DEF WordFunctions
  <1>3. CASE Len(Unsigned(x)) > 1
    <2>1. ~IsArithmArg(cells)
      BY <1>3 DEF ArgumentsOf
    <2>. QED
      BY <2>1, <1>1, <1>3
  <1>4. CASE ~(Len(Unsigned(x)) > 1)
    <2>1. /\ IsArithmArg(cells) /\ a \in SignedNumber /\ b \in SignedNumber
          /\ a.value = 0 => a.sign = 1
          /\ b.value = 0 => b.sign = 1
          /\ IntOf(a) = NumeralValue(x) /\ IntOf(b) = NumeralValue(y)
      BY <1>4 DEF ArgumentsOf
    <2>. HIDE DEF a, b
    <2>2. (o < 0 <=> IntOf(a) < IntOf(b)) /\ (o > 0 <=> IntOf(a) > IntOf(b))
      BY <2>1, OrderIsExact
    <2>3. IntOf(a) \in Int /\ IntOf(b) \in Int
      <3>1. \A n \in SignedNumber : IntOf(n) \in Int
        <4>1. ASSUME NEW n \in SignedNumber PROVE IntOf(n) \in Int
          <5>1. n.sign \in Int /\ n.value \in Int
            BY RadixIsNat DEF SignedNumber, Word
          <5>. QED
            BY <5>1 DEF IntOf
        <4>. QED
          BY <4>1
      <3>. QED
        BY <3>1, <2>1
    <2> DEFINE X == IntOf(a)
               Y == IntOf(b)
    <2>4. X = NumeralValue(x) /\ Y = NumeralValue(y) /\ X \in Int /\ Y \in Int
          /\ (o < 0 <=> X < Y) /\ (o > 0 <=> X > Y)
      BY <2>1, <2>2, <2>3
    <2>. HIDE DEF X, Y, o
    <2>5. Compare(cells) = Left(<<c>>)
      <3>1. Compare(cells) = InPlaceOf(cells, <<c>>)
        BY <2>1, <1>1
      <3>. HIDE DEF c
      <3>2. InPlaceOf(cells, <<c>>) = Left(<<c>>)
        BY <3>1, <1>2 DEF InPlaceOf, Overrun
      <3>. QED
        BY <3>1, <3>2
    <2>6. Minus # Plus /\ Minus # Char(Zero) /\ Plus # Char(Zero)
      BY CharsDiffer DEF Minus, Plus, Zero
    <2>7. \A d, e : <<d>> = <<e>> => d = e
      <3>1. ASSUME NEW d, NEW e, <<d>> = <<e>> PROVE d = e
        <4>1. <<d>>[1] = <<e>>[1]
          BY <3>1
        <4>. QED
          BY <4>1
      <3>. QED
        BY <3>1
    <2>8. ShownSign(<<c>>) = Integer!Sign(X - Y)
      <3> DEFINE D == X - Y
      <3>1. D \in Int /\ (D < 0 <=> X < Y) /\ (D > 0 <=> X > Y)
        BY <2>4
      <3>. HIDE DEF D
      <3>2. CASE D < 0
        <4>1. c = Minus
          BY <3>1, <3>2, <2>4
        <4>2. ShownSign(<<Minus>>) = [kind |-> "sign", value |-> -1]
          BY <2>6, <2>7 DEF ShownSign
        <4>3. Integer!Sign(D) = [kind |-> "sign", value |-> -1]
          BY <3>2 DEF Integer!Sign
        <4>. QED
          BY <4>1, <4>2, <4>3 DEF D
      <3>3. CASE D > 0
        <4>0. ~(D < 0)
          BY <3>1, <3>3
        <4>1. c = Plus
          BY <4>0, <3>1, <3>3, <2>4
        <4>2. <<Plus>> # <<Minus>> /\ <<Plus>> # <<Char(Zero)>>
          BY <2>6, <2>7
        <4>2a. ShownSign(<<Plus>>) = [kind |-> "sign", value |-> 1]
          BY <4>2 DEF ShownSign
        <4>3. Integer!Sign(D) = [kind |-> "sign", value |-> 1]
          BY <4>0, <3>3 DEF Integer!Sign
        <4>. QED
          BY <4>1, <4>2a, <4>3 DEF D
      <3>4. CASE ~(D < 0) /\ ~(D > 0)
        <4>1. c = Char(Zero)
          BY <3>1, <3>4, <2>4
        <4>2. <<Char(Zero)>> # <<Minus>> /\ <<Char(Zero)>> # <<Plus>>
          BY <2>6, <2>7
        <4>2a. ShownSign(<<Char(Zero)>>) = [kind |-> "sign", value |-> 0]
          BY <4>2 DEF ShownSign
        <4>3. Integer!Sign(D) = [kind |-> "sign", value |-> 0]
          BY <3>4 DEF Integer!Sign
        <4>. QED
          BY <4>1, <4>2a, <4>3 DEF D
      <3>. QED
        BY <3>2, <3>3, <3>4
    <2>. HIDE DEF c
    <2>. QED
      BY <2>4, <2>5, <2>8, <1>4 DEF Left
  <1>. QED
    BY <1>3, <1>4

(* The first of the closing brackets. *)
LEMMA FirstClose ==
  ASSUME NEW s \in Seq(Cell), NEW k \in 1 .. Len(s), s[k] = Other("close"),
         \A i \in 1 .. k - 1 : s[i] # Other("close")
  PROVE  Half1(s) = SubSeq(s, 2, k - 1) /\ Half2(s) = SubSeq(s, k + 1, Len(s))
  <1> DEFINE I == {i \in 1 .. Len(s) : s[i] = Other("close")}
             f == IF I # {} THEN Min(I) ELSE 0
  <1>1. Half1(s) = SubSeq(s, 2, f - 1) /\ Half2(s) = SubSeq(s, f + 1, Len(s))
    BY DEF Half1, Half2, SelectInSeq
  <1>2. k \in I /\ \A y \in I : k <= y
    <2>1. k \in I
      OBVIOUS
    <2>2. ASSUME NEW y \in I PROVE k <= y
      <3>1. y \in 1 .. Len(s) /\ s[y] = Other("close")
        OBVIOUS
      <3>. QED
        BY <3>1
    <2>. QED
      BY <2>1, <2>2
  <1>3. I \subseteq Nat
    OBVIOUS
  <1>. HIDE DEF I
  <1>4. Min(I) = k
    <2>1. Min(I) \in I /\ \A y \in I : Min(I) <= y
      BY <1>2 DEF Min
    <2>2. Min(I) <= k /\ k <= Min(I)
      BY <2>1, <1>2
    <2> DEFINE m == Min(I)
    <2>3. m \in Nat /\ k \in Nat /\ m <= k /\ k <= m
      BY <2>1, <2>2, <1>2, <1>3
    <2>. HIDE DEF m
    <2>4. m = k
      BY <2>3
    <2>. QED
      BY <2>4 DEF m
  <1>5. f = k
    BY <1>2, <1>4
  <1>. HIDE DEF f
  <1>. QED
    BY <1>1, <1>5

LEMMA PairOf ==
  ASSUME NEW q \in Seq(Cell), NEW m \in Seq(Cell),
         \A i \in 1 .. Len(q) : q[i] # Other("close"),
         NEW w, w = ((<<Other("open")>> \o q) \o <<Other("close")>>) \o m
  PROVE  /\ w[1] = Other("open") /\ Other("close") \in ToSet(w)
         /\ Half1(w) = q /\ Half2(w) = m
  <1> DEFINE open == <<Other("open")>>
             close == <<Other("close")>>
             a == open \o q
             b == a \o close
             l == Len(q)
             n == Len(m)
  <1>0. l \in Nat /\ n \in Nat
    OBVIOUS
  <1>1. /\ open \in Seq(Cell) /\ Len(open) = 1 /\ close \in Seq(Cell) /\ Len(close) = 1
        /\ open[1] = Other("open") /\ close[1] = Other("close")
    BY CellsAre
  <1>2. w = b \o m
    OBVIOUS
  <1>3. Other("open") # Other("close")
    <2>1. Other("open").tag = "open" /\ Other("close").tag = "close"
      BY CharsDiffer
    <2>. QED
      BY <2>1
  <1>4. a \in Seq(Cell) /\ Joined(a, open, q)
    <2>. HIDE DEF open
    <2>. QED
      BY <1>1, PlacesOfConcat
  <1>5. b \in Seq(Cell) /\ Joined(b, a, close)
    <2>. HIDE DEF a, close
    <2>. QED
      BY <1>1, <1>4, PlacesOfConcat
  <1>6. w \in Seq(Cell) /\ Joined(w, b, m)
    <2>. HIDE DEF b
    <2>. QED
      BY <1>2, <1>5, PlacesOfConcat
  <1>. HIDE DEF open, close, a, b
  <1>7. Len(a) = 1 + l /\ a[1] = Other("open") /\ \A i \in 1 .. l : a[1 + i] = q[i]
    <2>1. 1 \in 1 .. 1
      OBVIOUS
    <2>. QED
      BY <2>1, <1>1, <1>4 DEF Joined
  <1> DEFINE k == l + 2
  <1>8. Len(b) = k /\ b[k] = Other("close") /\ \A i \in 1 .. l + 1 : b[i] = a[i]
    <2>1. 1 \in 1 .. 1 /\ (1 + l) + 1 = k /\ 1 + l = l + 1
      BY <1>0
    <2>2. Len(b) = (1 + l) + 1 /\ b[(1 + l) + 1] = close[1] /\ \A i \in 1 .. 1 + l : b[i] = a[i]
      <3>1. 1 \in 1 .. Len(close) /\ Len(close) = 1 /\ Len(a) = 1 + l
        BY <1>1, <1>7
      <3>. HIDE DEF k, l
      <3>2. /\ Len(b) = (1 + l) + 1
            /\ \A i \in 1 .. 1 : b[(1 + l) + i] = close[i]
            /\ \A i \in 1 .. 1 + l : b[i] = a[i]
        BY <3>1, <1>5 DEF Joined
      <3>. QED
        BY <3>2, <2>1
    <2>. HIDE DEF k
    <2>. QED
      BY <2>1, <2>2, <1>1
  <1>9. Len(w) = k + n /\ (\A i \in 1 .. k : w[i] = b[i]) /\ \A i \in 1 .. n : w[k + i] = m[i]
    <2>. HIDE DEF k
    <2>. QED
      BY <1>6, <1>8 DEF Joined
  <1>. HIDE DEF n, l
  <1>10. w[1] = Other("open") /\ w[k] = Other("close") /\ k \in 1 .. Len(w)
    <2>1. 1 \in 1 .. k /\ k \in 1 .. k /\ 1 \in 1 .. l + 1 /\ k \in 1 .. k + n
      BY <1>0
    <2>. HIDE DEF k
    <2>2. w[1] = b[1] /\ b[1] = a[1] /\ w[k] = b[k]
      BY <2>1, <1>8, <1>9
    <2>. QED
      BY <2>1, <2>2, <1>7, <1>8, <1>9
  <1>11. ASSUME NEW i \in 1 .. l PROVE w[i + 1] = q[i]
    <2>1. i + 1 \in 1 .. k /\ i + 1 \in 1 .. l + 1 /\ i + 1 = 1 + i
      BY <1>0
    <2>. HIDE DEF k
    <2>2. w[i + 1] = b[i + 1] /\ b[i + 1] = a[i + 1]
      BY <2>1, <1>8, <1>9
    <2>. QED
      BY <2>1, <2>2, <1>7
  <1>12. ASSUME NEW i \in 1 .. k - 1 PROVE w[i] # Other("close")
    <2>1. CASE i = 1
      BY <2>1, <1>3, <1>10
    <2>2. CASE i # 1
      <3>1. i - 1 \in 1 .. l /\ (i - 1) + 1 = i
        BY <2>2, <1>0
      <3>2. w[(i - 1) + 1] = q[i - 1]
        BY <3>1, <1>11
      <3>3. q[i - 1] # Other("close")
        BY <3>1 DEF l
      <3>. QED
        BY <3>1, <3>2, <3>3
    <2>. QED
      BY <2>1, <2>2
  <1>13. Half1(w) = SubSeq(w, 2, k - 1) /\ Half2(w) = SubSeq(w, k + 1, Len(w))
    <2>. HIDE DEF k
    <2>. QED
      BY <1>6, <1>10, <1>12, FirstClose
  <1>14. SubSeq(w, 2, k - 1) = q
    <2> DEFINE e == k - 1
               u == SubSeq(w, 2, e)
    <2>1. 2 \in 1 .. Len(w) + 1 /\ e \in 0 .. Len(w) /\ e + 1 >= 2 /\ e + 1 - 2 = l
      BY <1>0, <1>9
    <2>2. u \in Seq(Cell) /\ Len(u) = l /\ \A i \in 1 .. l : u[i] = w[2 + i - 1]
      <3>. HIDE DEF e
      <3>1. u \in Seq(Cell) /\ Len(u) = e + 1 - 2 /\ \A i \in 1 .. e + 1 - 2 : u[i] = w[2 + i - 1]
        BY <2>1, <1>6, RangeIs
      <3>. HIDE DEF u
      <3>. QED
        BY <2>1, <3>1
    <2>. HIDE DEF u, e, k
    <2>3. ASSUME NEW i \in 1 .. l PROVE u[i] = q[i]
      <3>1. 2 + i - 1 = i + 1
        BY <1>0
      <3>. QED
        BY <3>1, <2>2, <1>11
    <2>4. u = q
      BY <2>2, <2>3, SeqEqual DEF l
    <2>. QED
      BY <2>4 DEF u, e
  <1>15. SubSeq(w, k + 1, Len(w)) = m
    <2> DEFINE o == k + 1
               e == Len(w)
               u == SubSeq(w, o, e)
    <2>1. o \in 1 .. Len(w) + 1 /\ e \in 0 .. Len(w) /\ e + 1 >= o /\ e + 1 - o = n
      BY <1>0, <1>9
    <2>2. u \in Seq(Cell) /\ Len(u) = n /\ \A i \in 1 .. n : u[i] = w[o + i - 1]
      <3>. HIDE DEF e, o
      <3>1. u \in Seq(Cell) /\ Len(u) = e + 1 - o /\ \A i \in 1 .. e + 1 - o : u[i] = w[o + i - 1]
        <4>1. e \in 0 .. Len(w)
          BY <2>1
        <4>. QED
          BY <4>1, <2>1, <1>6, RangeIs
      <3>. HIDE DEF u
      <3>. QED
        BY <2>1, <3>1
    <2>. HIDE DEF u
    <2>3. ASSUME NEW i \in 1 .. n PROVE u[i] = m[i]
      <3>1. o + i - 1 = k + i
        BY <1>0
      <3>. HIDE DEF o, k
      <3>. QED
        BY <3>1, <2>2, <1>9
    <2>4. u = m
      BY <2>2, <2>3, SeqEqual DEF n
    <2>. QED
      BY <2>4 DEF u, e, o
  <1>16. Other("close") \in ToSet(w)
    <2>1. k \in DOMAIN w
      <3>. HIDE DEF k
      <3>. QED
        BY <1>6, <1>10
    <2>. HIDE DEF k
    <2>. QED
      BY <2>1, <1>10 DEF ToSet
  <1>. HIDE DEF k
  <1>. QED
    BY <1>10, <1>13, <1>14, <1>15, <1>16

LEMMA DivmodShows ==
  ASSUME NEW cells \in Seq(Cell), NEW x, NEW y, ArgumentsOf(cells, x, y)
  PROVE  /\ Len(Unsigned(x)) > 1 => Divmod(cells) = RecognitionImpossible
         /\ ~(Len(Unsigned(x)) > 1) =>
              IF NumeralValue(y) = 0 THEN Divmod(cells) = BuiltinError
              ELSE /\ Divmod(cells).exit = "none"
                   /\ ShownPair(Divmod(cells).cells) =
                        Integer!Pair(Integer!Quotient(NumeralValue(x), NumeralValue(y)),
                                     Integer!Remainder(NumeralValue(x), NumeralValue(y)))
  <1> DEFINE arg == ArithmArg(cells)
             a == arg.x
             b == arg.y
             w == QuotientAndRemainder(arg)
             ok == IF Len(w) = Len(cells) THEN Left(w) ELSE InPlaceOf(cells, w)
  <1>1. Divmod(cells) = Division(cells, ok)
    BY DEF Divmod
  <1>2. Divmod(cells).exit # "undefined"
    BY NumbersStay DEF WordFunctions
  <1>3. CASE Len(Unsigned(x)) > 1
    <2>1. ~IsArithmArg(cells)
      BY <1>3 DEF ArgumentsOf
    <2>. QED
      BY <2>1, <1>1, <1>3 DEF Division
  <1>4. CASE ~(Len(Unsigned(x)) > 1)
    <2>1. /\ IsArithmArg(cells) /\ a \in SignedNumber /\ b \in SignedNumber
          /\ a.value = 0 => a.sign = 1
          /\ b.value = 0 <=> NumeralValue(y) = 0
          /\ IntOf(a) = NumeralValue(x) /\ IntOf(b) = NumeralValue(y)
      BY <1>4, DivisorShows
    <2>2. CASE b.value = 0
      BY <2>1, <2>2, <1>1, <1>4 DEF Division
    <2>3. CASE b.value # 0
      <3>1. Divmod(cells) = ok
        BY <2>1, <2>3, <1>1 DEF Division
      <3>2. ok = Left(w)
        <4>. HIDE DEF w
        <4>. QED
          BY <3>1, <1>2 DEF InPlaceOf, Overrun
      <3> DEFINE d == Quotient(a, b)
                 rr == Remainder(a, b)
                 q == EmplaceNumber(d, 0)
                 m == EmplaceNumber(rr, 0)
      <3>3. w = ((<<Other("open")>> \o q) \o <<Other("close")>>) \o m
        BY DEF QuotientAndRemainder
      <3>. HIDE DEF w, ok
      <3>4. /\ d \in SignedNumber /\ IntOf(d) = Integer!Quotient(IntOf(a), IntOf(b))
            /\ rr \in SignedNumber /\ IntOf(rr) = Integer!Remainder(IntOf(a), IntOf(b))
        <4>. HIDE DEF a, b
        <4>. QED
          BY <2>1, <2>3, DivisionShows
      <3>. HIDE DEF d, rr
      <3>5. ASSUME NEW e \in SignedNumber
            PROVE  /\ EmplaceNumber(e, 0) \in Seq(Cell) /\ IsNumeral(EmplaceNumber(e, 0))
                   /\ NumeralValue(EmplaceNumber(e, 0)) = IntOf(e)
                   /\ \A i \in 1 .. Len(EmplaceNumber(e, 0)) : EmplaceNumber(e, 0)[i] # Other("close")
        <4>1. e.sign \in {-1, 0, 1} /\ e.sign # 0 /\ e.value \in Word /\ 0 \in Word /\ e.sign \in Int
          BY RadixIsNat DEF SignedNumber, Word
        <4>2. /\ EmplaceNumber(e, 0) \in Seq(Cell) /\ IsNumeral(EmplaceNumber(e, 0))
              /\ NumeralValue(EmplaceNumber(e, 0)) = e.sign * (0 * Radix + e.value)
          BY <4>1, EmplacedIs
        <4>3. 0 * Radix + e.value = e.value
          BY <4>1, RadixIsNat DEF Word
        <4> DEFINE S == {Minus, Number(0), Number(e.value)}
        <4>4. EmplaceNumber(e, 0) \in Seq(S)
          BY <4>1, LengthOfNumber
        <4>5. \A c \in S : c # Other("close")
          <5>1. Minus.tag = "char" /\ Other("close").tag = "close" /\ \A v : Number(v).tag = "number"
            BY CharsDiffer DEF Minus
          <5>. QED
            BY <5>1
        <4>. HIDE DEF S
        <4>6. \A s \in Seq(S) : \A i \in 1 .. Len(s) : s[i] # Other("close")
          BY <4>5
        <4>. QED
          BY <4>2, <4>3, <4>4, <4>6 DEF IntOf
      <3>6. /\ q \in Seq(Cell) /\ IsNumeral(q) /\ NumeralValue(q) = IntOf(d)
            /\ \A i \in 1 .. Len(q) : q[i] # Other("close")
            /\ m \in Seq(Cell) /\ IsNumeral(m) /\ NumeralValue(m) = IntOf(rr)
        BY <3>4, <3>5
      <3>. HIDE DEF q, m
      <3>7. /\ w[1] = Other("open") /\ Other("close") \in ToSet(w)
            /\ Half1(w) = q /\ Half2(w) = m
        BY <3>3, <3>6, PairOf
      <3>8. ShownPair(w) = [kind |-> "pair", div |-> IntOf(d), mod |-> IntOf(rr)]
        BY <3>6, <3>7 DEF ShownPair, IsPair
      <3>9. ShownPair(w) = Integer!Pair(IntOf(d), IntOf(rr))
        BY <3>8 DEF Integer!Pair
      <3>10. Divmod(cells).exit = "none" /\ Divmod(cells).cells = w
        BY <3>1, <3>2 DEF Left
      <3>. HIDE DEF a, b
      <3>. QED
        BY <2>1, <2>3, <3>4, <3>9, <3>10, <1>4
    <2>. QED
      BY <2>2, <2>3
  <1>. QED
    BY <1>3, <1>4

-----------------------------------------------------------------------------
(* The calculator.                                                          *)

\* What a reader makes of what a function left.
ShownOf(left, k) ==
  IF left.exit # "none"
  THEN [kind |-> "stopped", why |-> left.exit]
  ELSE CASE k = "number" -> ShownNumber(left.cells)
         [] k = "pair"   -> ShownPair(left.cells)
         [] k = "sign"   -> ShownSign(left.cells)
         [] k = "text"   -> [kind |-> "text", value |-> TextValue(left.cells),
                             plain |-> IsPlain(left.cells)]

\* The answer that the calculator gives.
AnswerOf(f, s, y) ==
  IF f \notin {"Symb", "Numb"} /\ s.long
  THEN Integer!Stopped("recognition impossible")
  ELSE IF f \in Integer!Division /\ y = 0
       THEN Integer!Stopped("divide by zero")
       ELSE Integer!Value(f, s.value, y)

\* The function f leaves this answer.
Answers(f, left, answer) ==
  /\ ShownOf(left, Kind(f)) = answer
  /\ left.exit = "none" /\ Kind(f) = "number" => IsNumeral(left.cells)

LEMMA KindsOfLeft ==
  /\ \A left : left.exit = "none" => /\ ShownOf(left, "number") = ShownNumber(left.cells)
                                     /\ ShownOf(left, "pair") = ShownPair(left.cells)
                                     /\ ShownOf(left, "sign") = ShownSign(left.cells)
  /\ \A left, k : left.exit # "none" => ShownOf(left, k) = Integer!Stopped(left.exit)
  /\ \A f : /\ f \in {"Inc", "Add", "Sub", "Mul", "Div", "Mod", "Numb"} => Kind(f) = "number"
            /\ f = "Divmod" => Kind(f) = "pair"
            /\ f = "Compare" => Kind(f) = "sign"
            /\ f = "Symb" => Kind(f) = "text"
  <1>1. ASSUME NEW left, left.exit = "none"
        PROVE  /\ ShownOf(left, "number") = ShownNumber(left.cells)
               /\ ShownOf(left, "pair") = ShownPair(left.cells)
               /\ ShownOf(left, "sign") = ShownSign(left.cells)
    BY <1>1 DEF ShownOf
  <1>2. ASSUME NEW left, NEW k, left.exit # "none" PROVE ShownOf(left, k) = Integer!Stopped(left.exit)
    BY <1>2 DEF ShownOf, Integer!Stopped
  <1>3. ASSUME NEW f
        PROVE  /\ f \in {"Inc", "Add", "Sub", "Mul", "Div", "Mod", "Numb"} => Kind(f) = "number"
               /\ f = "Divmod" => Kind(f) = "pair"
               /\ f = "Compare" => Kind(f) = "sign"
               /\ f = "Symb" => Kind(f) = "text"
    BY DEF Kind
  <1>. QED
    BY <1>1, <1>2, <1>3

LEMMA Stops ==
  ASSUME NEW f
  PROVE  /\ Answers(f, RecognitionImpossible, Integer!Stopped("recognition impossible"))
         /\ Answers(f, BuiltinError, Integer!Stopped("divide by zero"))
  <1>1. /\ RecognitionImpossible.exit = "recognition impossible"
        /\ BuiltinError.exit = "divide by zero"
    BY DEF RecognitionImpossible, BuiltinError
  <1>2. /\ ShownOf(RecognitionImpossible, Kind(f)) = Integer!Stopped("recognition impossible")
        /\ ShownOf(BuiltinError, Kind(f)) = Integer!Stopped("divide by zero")
    BY <1>1, KindsOfLeft
  <1>. QED
    BY <1>1, <1>2 DEF Answers

LEMMA NumberAnswers ==
  ASSUME NEW f \in {"Inc", "Add", "Sub", "Mul", "Div", "Mod", "Numb"}, NEW left, NEW v,
         LeavesNumber(left, v)
  PROVE  Answers(f, left, Integer!Exact(v))
  <1>1. left.exit = "none" /\ IsNumeral(left.cells) /\ ShownNumber(left.cells) = Integer!Exact(v)
    BY DEF LeavesNumber
  <1>2. Kind(f) = "number"
    BY KindsOfLeft
  <1>. QED
    BY <1>1, <1>2, KindsOfLeft DEF Answers

(* A function of two numbers answers what the calculator does. *)
LEMMA BinaryAnswers ==
  ASSUME NEW f \in Binary, NEW x \in Seq(Cell), IsNumeral(x),
         NEW y \in Seq(Cell), IsNumeral(y), Len(Unsigned(y)) = 1, NEW bracket \in BOOLEAN,
         NEW s, s.value = NumeralValue(x), s.long <=> Len(Unsigned(x)) > 1
  PROVE  Answers(f, Perform(f, CallOf(f, x, y, bracket)), AnswerOf(f, s, NumeralValue(y)))
  <1> DEFINE cells == CallOf(f, x, y, bracket)
             X == NumeralValue(x)
             Y == NumeralValue(y)
             long == Len(Unsigned(x)) > 1
             zero == f \in {"Div", "Mod", "Divmod"} /\ Y = 0
  <1>1. f \notin Unary
    BY DEF Unary, Binary
  <1>2. cells \in Seq(Cell) /\ ArgumentsOf(cells, x, y)
    BY <1>1, ArgumentsAre
  <1>3. AnswerOf(f, s, Y) = IF long THEN Integer!Stopped("recognition impossible")
                            ELSE IF zero THEN Integer!Stopped("divide by zero")
                            ELSE Integer!Value(f, X, Y)
    BY DEF AnswerOf, Integer!Division, Binary
  <1>. HIDE DEF cells
  <1>4. CASE f = "Add"
    <2>1. Perform(f, cells) = Add(cells)
      BY <1>4 DEF Perform
    <2>2. Integer!Value(f, X, Y) = Integer!Exact(X + Y) /\ ~zero
      BY <1>4 DEF Integer!Value
    <2>3. long => Add(cells) = RecognitionImpossible
      BY <1>2, AddShows
    <2>4. ~long => LeavesNumber(Add(cells), X + Y)
      BY <1>2, AddShows
    <2>. HIDE DEF X, Y, long, zero
    <2>5. ~long => Answers(f, Add(cells), Integer!Exact(X + Y))
      BY <2>4, <1>4, NumberAnswers
    <2>. QED
      BY <2>1, <2>2, <2>3, <2>5, <1>3, Stops DEF cells, Y
  <1>5. CASE f = "Sub"
    <2>1. Perform(f, cells) = Sub(cells)
      BY <1>5 DEF Perform
    <2>2. Integer!Value(f, X, Y) = Integer!Exact(X - Y) /\ ~zero
      BY <1>5 DEF Integer!Value
    <2>3. long => Sub(cells) = RecognitionImpossible
      BY <1>2, SubShows
    <2>4. ~long => LeavesNumber(Sub(cells), X - Y)
      BY <1>2, SubShows
    <2>. HIDE DEF X, Y, long, zero
    <2>5. ~long => Answers(f, Sub(cells), Integer!Exact(X - Y))
      BY <2>4, <1>5, NumberAnswers
    <2>. QED
      BY <2>1, <2>2, <2>3, <2>5, <1>3, Stops DEF cells, Y
  <1>6. CASE f = "Mul"
    <2>1. Perform(f, cells) = Mul(cells)
      BY <1>6 DEF Perform
    <2>2. Integer!Value(f, X, Y) = Integer!Exact(X * Y) /\ ~zero
      BY <1>6 DEF Integer!Value
    <2>3. long => Mul(cells) = RecognitionImpossible
      BY <1>2, MulShows
    <2>4. ~long => LeavesNumber(Mul(cells), X * Y)
      BY <1>2, MulShows
    <2>. HIDE DEF X, Y, long, zero
    <2>5. ~long => Answers(f, Mul(cells), Integer!Exact(X * Y))
      BY <2>4, <1>6, NumberAnswers
    <2>. QED
      BY <2>1, <2>2, <2>3, <2>5, <1>3, Stops DEF cells, Y
  <1>7. CASE f = "Div"
    <2> DEFINE q == Integer!Quotient(X, Y)
    <2>1. Perform(f, cells) = Div(cells)
      BY <1>7 DEF Perform
    <2>2. Integer!Value(f, X, Y) = Integer!Exact(q) /\ (zero <=> Y = 0)
      BY <1>7 DEF Integer!Value
    <2>3. long => Div(cells) = RecognitionImpossible
      BY <1>2, DivShows
    <2>4. /\ ~long /\ Y = 0 => Div(cells) = BuiltinError
          /\ ~long /\ Y # 0 => LeavesNumber(Div(cells), q)
      BY <1>2, DivShows
    <2>. HIDE DEF X, Y, long, zero, q
    <2>5. ~long /\ Y # 0 => Answers(f, Div(cells), Integer!Exact(q))
      BY <2>4, <1>7, NumberAnswers
    <2>. QED
      BY <2>1, <2>2, <2>3, <2>4, <2>5, <1>3, Stops DEF cells, Y
  <1>8. CASE f = "Mod"
    <2> DEFINE rr == Integer!Remainder(X, Y)
    <2>1. Perform(f, cells) = Mod(cells)
      BY <1>8 DEF Perform
    <2>2. Integer!Value(f, X, Y) = Integer!Exact(rr) /\ (zero <=> Y = 0)
      BY <1>8 DEF Integer!Value
    <2>3. long => Mod(cells) = RecognitionImpossible
      BY <1>2, ModShows
    <2>4. /\ ~long /\ Y = 0 => Mod(cells) = BuiltinError
          /\ ~long /\ Y # 0 => LeavesNumber(Mod(cells), rr)
      BY <1>2, ModShows
    <2>. HIDE DEF X, Y, long, zero, rr
    <2>5. ~long /\ Y # 0 => Answers(f, Mod(cells), Integer!Exact(rr))
      BY <2>4, <1>8, NumberAnswers
    <2>. QED
      BY <2>1, <2>2, <2>3, <2>4, <2>5, <1>3, Stops DEF cells, Y
  <1>9. CASE f = "Divmod"
    <2> DEFINE p == Integer!Pair(Integer!Quotient(X, Y), Integer!Remainder(X, Y))
    <2>1. Perform(f, cells) = Divmod(cells)
      BY <1>9 DEF Perform
    <2>2. Integer!Value(f, X, Y) = p /\ (zero <=> Y = 0)
      BY <1>9 DEF Integer!Value
    <2>3. long => Divmod(cells) = RecognitionImpossible
      BY <1>2, DivmodShows
    <2>4. /\ ~long /\ Y = 0 => Divmod(cells) = BuiltinError
          /\ ~long /\ Y # 0 => Divmod(cells).exit = "none" /\ ShownPair(Divmod(cells).cells) = p
      BY <1>2, DivmodShows
    <2>. HIDE DEF X, Y, long, zero, p
    <2>5. Kind(f) = "pair"
      BY <1>9, KindsOfLeft
    <2>6. ~long /\ Y # 0 => Answers(f, Divmod(cells), p)
      BY <2>4, <2>5, KindsOfLeft DEF Answers
    <2>. QED
      BY <2>1, <2>2, <2>3, <2>4, <2>6, <1>3, Stops DEF cells, Y
  <1>10. CASE f = "Compare"
    <2> DEFINE d == Integer!Sign(X - Y)
    <2>1. Perform(f, cells) = Compare(cells)
      BY <1>10 DEF Perform
    <2>2. Integer!Value(f, X, Y) = d /\ ~zero
      BY <1>10 DEF Integer!Value
    <2>3. long => Compare(cells) = RecognitionImpossible
      BY <1>2, CompareShows
    <2>4. ~long => Compare(cells).exit = "none" /\ ShownSign(Compare(cells).cells) = d
      BY <1>2, CompareShows
    <2>. HIDE DEF X, Y, long, zero, d
    <2>5. Kind(f) = "sign"
      BY <1>10, KindsOfLeft
    <2>6. ~long => Answers(f, Compare(cells), d)
      BY <2>4, <2>5, KindsOfLeft DEF Answers
    <2>. QED
      BY <2>1, <2>2, <2>3, <2>6, <1>3, Stops DEF cells, Y
  <1>. QED
    BY <1>4, <1>5, <1>6, <1>7, <1>8, <1>9, <1>10 DEF Binary

LEMMA IncAnswers ==
  ASSUME NEW x \in Seq(Cell), IsNumeral(x), NEW y \in Seq(Cell),
         NEW s, s.value = NumeralValue(x), s.long <=> Len(Unsigned(x)) > 1
  PROVE  Answers("Inc", Perform("Inc", CallOf("Inc", x, y, FALSE)), AnswerOf("Inc", s, NumeralValue(y)))
  <1> DEFINE cells == CallOf("Inc", x, y, FALSE)
             X == NumeralValue(x)
             long == Len(Unsigned(x)) > 1
  <1>1. AnswerOf("Inc", s, NumeralValue(y)) = IF long THEN Integer!Stopped("recognition impossible")
                                              ELSE Integer!Exact(X + 1)
    BY DEF AnswerOf, Integer!Division, Integer!Value
  <1>2. Perform("Inc", cells) = Inc(cells)
    BY DEF Perform
  <1>3. long => Inc(cells) = RecognitionImpossible
    BY IncShows
  <1>4. ~long => LeavesNumber(Inc(cells), X + 1)
    BY IncShows
  <1>. HIDE DEF cells, X, long
  <1>5. ~long => Answers("Inc", Inc(cells), Integer!Exact(X + 1))
    BY <1>4, NumberAnswers
  <1>. QED
    BY <1>1, <1>2, <1>3, <1>5, Stops DEF cells

LEMMA SymbAnswers ==
  ASSUME NEW x \in Seq(Cell), IsNumeral(x), NEW y \in Seq(Cell), NEW s, s.value = NumeralValue(x)
  PROVE  Answers("Symb", Perform("Symb", CallOf("Symb", x, y, FALSE)), AnswerOf("Symb", s, NumeralValue(y)))
  <1> DEFINE cells == CallOf("Symb", x, y, FALSE)
             X == NumeralValue(x)
  <1>1. AnswerOf("Symb", s, NumeralValue(y)) = Integer!Text(X)
    BY DEF AnswerOf, Integer!Division, Integer!Value
  <1>2. Perform("Symb", cells) = Symb(cells)
    BY DEF Perform
  <1>3. PICK g \in SignCells, ws \in Numerals : x = Numeral(g, ws)
    BY NumeralParts
  <1>4. "Symb" \in Unary
    BY DEF Unary
  <1>5. cells \in CallCells /\ Len(cells) = Len(x) + 3 /\ \A i \in 1 .. Len(x) : cells[i + 2] = x[i]
    BY <1>4, UnaryCall
  <1>6. X = (IF g = <<Minus>> THEN -1 ELSE 1) * Value(ws)
    BY <1>3, NumeralIs
  <1>. HIDE DEF cells, X
  <1>7. PICK z \in Seq(Cell) : Symb(cells) = Left(z) /\ IsPlain(z) /\ TextValue(z) = X
    <2>1. PICK z \in Seq(Cell) :
             /\ Symb(cells) = Left(z) /\ IsPlain(z)
             /\ TextValue(z) = (IF g = <<Minus>> THEN -1 ELSE 1) * Value(ws)
      BY <1>3, <1>5, SymbShows
    <2>. QED
      BY <2>1, <1>6
  <1>8. Left(z).exit = "none" /\ Left(z).cells = z
    BY DEF Left
  <1>9. Kind("Symb") = "text"
    BY KindsOfLeft
  <1>10. ShownOf(Left(z), "text") = [kind |-> "text", value |-> TextValue(z), plain |-> IsPlain(z)]
    BY <1>8 DEF ShownOf
  <1>11. IsPlain(z) = TRUE
    BY <1>7 DEF IsPlain
  <1>12. ShownOf(Left(z), "text") = Integer!Text(X)
    BY <1>7, <1>10, <1>11 DEF Integer!Text
  <1>13. Answers("Symb", Left(z), Integer!Text(X))
    BY <1>9, <1>12 DEF Answers
  <1>. QED
    BY <1>1, <1>2, <1>7, <1>13 DEF cells

LEMMA NumbAnswers ==
  ASSUME NEW x \in Seq(Cell), NEW y \in Seq(Cell), NEW s, s.value = TextValue(x)
  PROVE  Answers("Numb", Perform("Numb", CallOf("Numb", x, y, FALSE)), AnswerOf("Numb", s, NumeralValue(y)))
  <1> DEFINE cells == CallOf("Numb", x, y, FALSE)
             X == TextValue(x)
  <1>1. AnswerOf("Numb", s, NumeralValue(y)) = Integer!Exact(X)
    BY DEF AnswerOf, Integer!Division, Integer!Value
  <1>2. Perform("Numb", cells) = Numb(cells)
    BY DEF Perform
  <1>4. "Numb" \in Unary
    BY DEF Unary
  <1>5. cells \in CallCells /\ Len(cells) = Len(x) + 3 /\ \A i \in 1 .. Len(x) : cells[i + 2] = x[i]
    BY <1>4, UnaryCall
  <1>. HIDE DEF cells
  <1>6. PICK g \in SignCells, ws \in Numerals :
           /\ Numb(cells) = Left(Numeral(g, ws))
           /\ ws[1] # 0 \/ Len(ws) = 1
           /\ (IF g = <<Minus>> THEN -1 ELSE 1) * Value(ws) = TextValue(x)
    BY <1>5, NumbShows
  <1>7. ShownNumber(Numeral(g, ws)) = Integer!Exact(X) /\ IsNumeral(Numeral(g, ws))
    BY <1>6, NumeralShows, NumeralIs
  <1>8. LeavesNumber(Numb(cells), X)
    BY <1>6, <1>7 DEF LeavesNumber, Left
  <1>. HIDE DEF X
  <1>9. Answers("Numb", Numb(cells), Integer!Exact(X))
    BY <1>8, NumberAnswers
  <1>. QED
    BY <1>1, <1>2, <1>9 DEF cells

LEMMA ValuesAreIntegers ==
  /\ \A x \in Seq(Cell) : IsNumeral(x) => NumeralValue(x) \in Int
  /\ \A x \in Seq(Cell) : TextValue(x) \in Int
  /\ NumeralValue(<<Number(0)>>) = 0
  <1>1. ASSUME NEW g, NEW ws \in Numerals PROVE (IF g = <<Minus>> THEN -1 ELSE 1) * Value(ws) \in Int
    <2> DEFINE v == Value(ws)
    <2>1. v \in Nat
      <3>1. ws \in Seq(Word)
        BY DEF Numerals
      <3>. QED
        BY <3>1, ValueIs
    <2>. HIDE DEF v
    <2>2. (IF g = <<Minus>> THEN -1 ELSE 1) * v \in Int
      <3>1. CASE g = <<Minus>>
        BY <2>1, <3>1
      <3>2. CASE g # <<Minus>>
        BY <2>1, <3>2
      <3>. QED
        BY <3>1, <3>2
    <2>. QED
      BY <2>2 DEF v
  <1>2. ASSUME NEW x \in Seq(Cell), IsNumeral(x) PROVE NumeralValue(x) \in Int
    <2>1. PICK g \in SignCells, ws \in Numerals : x = Numeral(g, ws)
      BY <1>2, NumeralParts
    <2>. QED
      BY <2>1, <1>1, NumeralIs
  <1>3. 0 \in Word /\ Number(0) \in Cell /\ <<Number(0)>> \in Seq(Cell)
    <2>1. 0 \in Word
      BY RadixIsNat DEF Word
    <2>2. Number(0) \in Cell
      BY <2>1, CellsAre
    <2>. QED
      BY <2>1, <2>2
  <1>4. ASSUME NEW x \in Seq(Cell) PROVE TextValue(x) \in Int
    <2> DEFINE cells == CallOf("Numb", x, <<Number(0)>>, FALSE)
    <2>1. "Numb" \in Unary
      BY DEF Unary
    <2>2. cells \in CallCells /\ Len(cells) = Len(x) + 3 /\ \A i \in 1 .. Len(x) : cells[i + 2] = x[i]
      BY <2>1, <1>3, UnaryCall
    <2>. HIDE DEF cells
    <2>3. PICK g \in SignCells, ws \in Numerals :
             (IF g = <<Minus>> THEN -1 ELSE 1) * Value(ws) = TextValue(x)
      BY <2>2, NumbShows
    <2>. QED
      BY <2>3, <1>1
  <1>5. NumeralValue(<<Number(0)>>) = 0
    <2> DEFINE z == [sign |-> 0, value |-> 0]
    <2>1. z.sign = 0 /\ z.value = 0
      OBVIOUS
    <2>2. EmplaceNumber(z, 0) = <<Number(0)>>
      <3>1. EmplaceNumber(z, 0) = (<<>> \o <<>>) \o <<Number(0)>>
        BY <2>1 DEF EmplaceNumber
      <3>2. <<>> \in Seq(Cell)
        OBVIOUS
      <3>3. <<>> \o <<>> = <<>> /\ <<>> \o <<Number(0)>> = <<Number(0)>>
        BY <3>2, <1>3, ConcatEmptySeq
      <3>. QED
        BY <3>1, <3>3
    <2>. HIDE DEF z
    <2>3. NumeralValue(EmplaceNumber(z, 0)) = z.sign * (0 * Radix + z.value)
      BY <2>1, <1>3, EmplacedIs
    <2>4. z.sign * (0 * Radix + z.value) = 0
      BY <2>1, RadixIsNat
    <2>. QED
      BY <2>2, <2>3, <2>4
  <1>. QED
    BY <1>2, <1>4, <1>5

\* A call as a program may write it.
IsQuestion(c) ==
  \/ c.callee \in Unary /\ c.operand = <<Number(0)>> /\ c.bracket = FALSE
  \/ c.callee \in Binary /\ c.operand \in Operands /\ c.bracket \in BOOLEAN

\* What is shown is a number when kind says so, and the argument of a call is what it asks for.
CallsMeant ==
  /\ CallsTyped
  /\ result.exit = "none" /\ kind = "number" => IsNumeral(result.cells)
  /\ call # NoCall => /\ result.exit = "none" /\ IsQuestion(call)
                      /\ kind = IF call.callee = "Numb" THEN "text" ELSE "number"

LEMMA CallsStart == Init => CallsMeant /\ Integer!Init
  <1>. SUFFICES ASSUME Init PROVE CallsMeant /\ Integer!Init
    OBVIOUS
  <1>1. PICK x \in Numbers \cup Texts :
          /\ result = Left(x)
          /\ kind \in {"number", "text"}
          /\ kind = "number" => x \in Numbers
    BY DEF Init
  <1>2. x \in Seq(Cell) /\ (kind = "number" => IsNumeral(x))
    BY <1>1, ProgramAssumption
  <1>3. result.exit = "none" /\ result.cells = x /\ result \in WellLeft
    BY <1>1, <1>2, LeftIsWell DEF Left
  <1>4. call = NoCall
    BY DEF Init
  <1>5. CallsMeant
    BY <1>2, <1>3, <1>4 DEF CallsMeant, CallsTyped
  <1>6. Shown.kind \in {"number", "text"} /\ Shown.value \in Int
    <2>1. CASE kind = "number"
      <3>1. Shown = [kind |-> "number", value |-> NumeralValue(x), long |-> Len(Unsigned(x)) > 1]
        BY <2>1, <1>2, <1>3 DEF Shown, ShownNumber
      <3>. QED
        BY <3>1, <2>1, <1>2, ValuesAreIntegers
    <2>2. CASE kind = "text"
      <3>1. Shown = [kind |-> "text", value |-> TextValue(x), plain |-> IsPlain(x)]
        BY <2>2, <1>3 DEF Shown
      <3>. QED
        BY <3>1, <1>2, ValuesAreIntegers
    <2>. QED
      BY <2>1, <2>2, <1>1
  <1>7. [function |-> call.callee, operand |-> NumeralValue(call.operand)] = Integer!Nothing
    BY <1>4, ValuesAreIntegers DEF NoCall, Integer!Nothing
  <1>. QED
    BY <1>5, <1>6, <1>7 DEF Integer!Init

(* The question that a call puts to the calculator. *)
LEMMA QuestionIs ==
  ASSUME NEW c, IsQuestion(c)
  PROVE  /\ c.callee \in Unary \cup Binary /\ c.operand \in Seq(Cell) /\ c.bracket \in BOOLEAN
         /\ c.callee \in Integer!Function /\ c.callee # "none"
         /\ NumeralValue(c.operand) \in {NumeralValue(y) : y \in Operands} \cup {0}
         /\ c.callee \in Unary => c.bracket = FALSE
         /\ c.callee \in Binary => /\ IsNumeral(c.operand) /\ Len(Unsigned(c.operand)) = 1
  <1>1. CASE c.callee \in Unary /\ c.operand = <<Number(0)>> /\ c.bracket = FALSE
    <2>1. <<Number(0)>> \in Seq(Cell)
      <3>1. Number(0) \in Cell
        BY CellsAre, RadixIsNat DEF Word
      <3>. QED
        BY <3>1
    <2>2. c.callee \in Integer!Function /\ c.callee # "none" /\ c.callee \notin Binary
      BY <1>1 DEF Unary, Binary, Integer!Function, Integer!Division
    <2>. QED
      BY <1>1, <2>1, <2>2, ValuesAreIntegers
  <1>2. CASE c.callee \in Binary /\ c.operand \in Operands /\ c.bracket \in BOOLEAN
    <2>1. c.callee \in Integer!Function /\ c.callee # "none" /\ c.callee \notin Unary
      BY <1>2 DEF Unary, Binary, Integer!Function, Integer!Division
    <2>2. /\ c.operand \in Seq(Cell) /\ IsNumeral(c.operand) /\ Len(Unsigned(c.operand)) = 1
      BY <1>2, ProgramAssumption
    <2>. QED
      BY <1>2, <2>1, <2>2
  <1>. QED
    BY <1>1, <1>2 DEF IsQuestion

LEMMA AskingAsks ==
  ASSUME CallsMeant, Running,
         NEW c \in [callee : Unary \cup Binary, operand : Seq(Cell), bracket : BOOLEAN], IsQuestion(c),
         kind = IF c.callee = "Numb" THEN "text" ELSE "number",
         call' = c, UNCHANGED <<result, kind, calls>>
  PROVE  CallsMeant' /\ Integer!Ask
  <1> DEFINE asked == [function |-> c.callee, operand |-> NumeralValue(c.operand)]
  <1>1. /\ c.callee \in Unary \cup Binary /\ c.operand \in Seq(Cell) /\ c.bracket \in BOOLEAN
        /\ c.callee \in Integer!Function
        /\ NumeralValue(c.operand) \in {NumeralValue(y) : y \in Operands} \cup {0}
    BY QuestionIs
  <1>2. result' = result /\ kind' = kind /\ call = NoCall /\ result.exit = "none"
    BY DEF Running
  <1>3. CallsMeant'
    BY <1>1, <1>2 DEF CallsMeant, CallsTyped, IsQuestion
  <1>4. [function |-> call.callee, operand |-> NumeralValue(call.operand)] = Integer!Nothing
    BY <1>2, ValuesAreIntegers DEF NoCall, Integer!Nothing
  <1>5. Shown' = Shown
    BY <1>2 DEF Shown
  <1>6. Shown.kind = IF asked.function = "Numb" THEN "text" ELSE "number"
    <2>1. CASE c.callee = "Numb"
      <3>1. Shown = [kind |-> "text", value |-> TextValue(result.cells), plain |-> IsPlain(result.cells)]
        BY <2>1, <1>2 DEF Shown
      <3>. QED
        BY <2>1, <3>1
    <2>2. CASE c.callee # "Numb"
      <3>1. kind = "number" /\ IsNumeral(result.cells)
        BY <2>2, <1>2 DEF CallsMeant
      <3>2. Shown.kind = "number"
        BY <3>1, <1>2 DEF Shown, ShownNumber
      <3>. QED
        BY <2>2, <3>2
    <2>. QED
      BY <2>1, <2>2
  <1>7. [function |-> call.callee, operand |-> NumeralValue(call.operand)]' = asked
    OBVIOUS
  <1>8. asked \in [function : Integer!Function,
                   operand : {NumeralValue(y) : y \in Operands} \cup {0}]
    BY <1>1
  <1>9. Integer!Ask
    BY <1>4, <1>5, <1>6, <1>7, <1>8 DEF Integer!Ask
  <1>. QED
    BY <1>3, <1>9

LEMMA AnsweringAnswers ==
  ASSUME CallsMeant, Step
  PROVE  CallsMeant' /\ Integer!Answer
  <1> DEFINE f == call.callee
             x == result.cells
             y == call.operand
             left == Perform(f, CallOf(f, x, y, call.bracket))
             s == Shown
  <1>1. /\ result' = left /\ kind' = Kind(f) /\ call' = NoCall /\ call # NoCall
    BY DEF Step
  <1>2. /\ result.exit = "none" /\ IsQuestion(call)
        /\ kind = IF f = "Numb" THEN "text" ELSE "number"
        /\ x \in Seq(Cell)
    BY <1>1 DEF CallsMeant, CallsTyped, WellLeft
  <1>3. /\ f \in Unary \cup Binary /\ y \in Seq(Cell) /\ call.bracket \in BOOLEAN /\ f # "none"
        /\ f \in Unary => call.bracket = FALSE
        /\ f \in Binary => IsNumeral(y) /\ Len(Unsigned(y)) = 1
    BY <1>2, QuestionIs
  <1>4. /\ f = "Numb" => s.value = TextValue(x)
        /\ f # "Numb" => /\ IsNumeral(x) /\ s.value = NumeralValue(x)
                         /\ s.long <=> Len(Unsigned(x)) > 1
    <2>1. CASE f = "Numb"
      <3>1. Shown = [kind |-> "text", value |-> TextValue(x), plain |-> IsPlain(x)]
        BY <2>1, <1>2 DEF Shown
      <3>. QED
        BY <2>1, <3>1
    <2>2. CASE f # "Numb"
      <3>1. kind = "number" /\ IsNumeral(x)
        BY <2>2, <1>2 DEF CallsMeant
      <3>2. Shown = [kind |-> "number", value |-> NumeralValue(x), long |-> Len(Unsigned(x)) > 1]
        BY <3>1, <1>2 DEF Shown, ShownNumber
      <3>. QED
        BY <2>2, <3>1, <3>2
    <2>. QED
      BY <2>1, <2>2
  <1> DEFINE b == call.bracket
  <1>5. Answers(f, left, AnswerOf(f, s, NumeralValue(y)))
    <2>0. b \in BOOLEAN /\ (f \in Unary => b = FALSE)
      BY <1>3
    <2>. HIDE DEF f, x, y, s, b
    <2>1. CASE f \in Binary
      <3>1. f # "Numb"
        BY <2>1 DEF Binary
      <3>. QED
        BY <2>0, <2>1, <3>1, <1>2, <1>3, <1>4, BinaryAnswers DEF b
    <2>2. CASE f = "Inc"
      <3>1. b = FALSE
        BY <2>0, <2>2 DEF Unary
      <3>. QED
        BY <3>1, <2>2, <1>2, <1>3, <1>4, IncAnswers DEF b
    <2>3. CASE f = "Symb"
      <3>1. b = FALSE
        BY <2>0, <2>3 DEF Unary
      <3>. QED
        BY <3>1, <2>3, <1>2, <1>3, <1>4, SymbAnswers DEF b
    <2>4. CASE f = "Numb"
      <3>1. b = FALSE
        BY <2>0, <2>4 DEF Unary
      <3>. QED
        BY <3>1, <2>4, <1>2, <1>3, <1>4, NumbAnswers DEF b
    <2>. QED
      BY <2>1, <2>2, <2>3, <2>4, <1>3 DEF Unary
  <1>6. left \in WellLeft
    <2>1. CallOf(f, x, y, call.bracket) \in CallCells
      BY <1>2, <1>3, CallIsCells
    <2>. QED
      BY <2>1, <1>3, PerformStays
  <1>7. CallsMeant'
    <2>. HIDE DEF left, f
    <2>. QED
      BY <1>1, <1>5, <1>6 DEF CallsMeant, CallsTyped, Answers
  <1>8. Shown' = AnswerOf(f, s, NumeralValue(y))
    <2>1. Shown' = ShownOf(left, Kind(f))
      <3>1. Shown' = ShownOf(result', kind')
        BY DEF Shown, ShownOf
      <3>. HIDE DEF left, f
      <3>. QED
        BY <1>1, <3>1
    <2>. HIDE DEF left, f, y, s
    <2>. QED
      BY <2>1, <1>5 DEF Answers
  <1> DEFINE asked == [function |-> f, operand |-> NumeralValue(y)]
  <1>9. asked # Integer!Nothing
    <2>1. asked.function = f /\ Integer!Nothing.function = "none"
      BY DEF Integer!Nothing
    <2>. HIDE DEF asked
    <2>. QED
      BY <2>1, <1>3
  <1>10. [function |-> call.callee, operand |-> NumeralValue(call.operand)]' = Integer!Nothing
    BY <1>1, ValuesAreIntegers DEF NoCall, Integer!Nothing
  <1>11. AnswerOf(f, s, NumeralValue(y)) =
           IF asked.function \notin {"Symb", "Numb"} /\ s.long
           THEN Integer!Stopped("recognition impossible")
           ELSE IF asked.function \in Integer!Division /\ asked.operand = 0
                THEN Integer!Stopped("divide by zero")
                ELSE Integer!Value(asked.function, s.value, asked.operand)
    BY DEF AnswerOf
  <1>12. Integer!Answer
    BY <1>8, <1>9, <1>10, <1>11 DEF Integer!Answer
  <1>. QED
    BY <1>7, <1>12

(* Chains of Inc, Add, Sub, Mul, Div, Mod, Divmod, Compare, Symb and Numb of lib/Library.c
   compute what the calculator of integers does, whatever the size of a word: no digit, word,
   sign or carry is lost between the cells and the numbers they stand for, and the process
   stops exactly where the calculator does. *)
THEOREM ChainsCompute == Spec => ImplementsCalculator
  <1>1. Init => CallsMeant /\ Integer!Init
    BY CallsStart
  <1>2. CallsMeant /\ [Next]_avars => CallsMeant' /\ [Integer!Next]_(Integer!vars)
    <2>. SUFFICES ASSUME CallsMeant, [Next]_avars
                  PROVE  CallsMeant' /\ [Integer!Next]_(Integer!vars)
      OBVIOUS
    <2>1. ASSUME NEW f \in Unary, AskUnary(f) PROVE CallsMeant' /\ Integer!Ask
      <3> DEFINE c == [callee |-> f, operand |-> <<Number(0)>>, bracket |-> FALSE]
      <3>1. call' = c /\ UNCHANGED <<result, kind, calls>>
        BY <2>1 DEF AskUnary, NoCall
      <3>2. IsQuestion(c) /\ c.callee = f
        BY DEF IsQuestion
      <3>2a. c \in [callee : Unary \cup Binary, operand : Seq(Cell), bracket : BOOLEAN]
        <4>1. c.operand \in Seq(Cell)
          BY <3>2, QuestionIs
        <4>. QED
          BY <4>1
      <3>3. Running /\ kind = IF f = "Numb" THEN "text" ELSE "number"
        BY <2>1 DEF AskUnary
      <3>. HIDE DEF c
      <3>. QED
        BY <3>1, <3>2, <3>2a, <3>3, AskingAsks
    <2>2. ASSUME NEW f \in Binary, NEW y \in Operands, NEW bracket \in BOOLEAN, AskBinary(f, y, bracket)
          PROVE  CallsMeant' /\ Integer!Ask
      <3> DEFINE c == [callee |-> f, operand |-> y, bracket |-> bracket]
      <3>1. call' = c /\ UNCHANGED <<result, kind, calls>>
        BY <2>2 DEF AskBinary
      <3>2. IsQuestion(c) /\ c.callee = f
        BY DEF IsQuestion
      <3>2a. c \in [callee : Unary \cup Binary, operand : Seq(Cell), bracket : BOOLEAN]
        BY ProgramAssumption
      <3>3. Running /\ kind = "number" /\ f # "Numb"
        BY <2>2 DEF AskBinary, Binary
      <3>. HIDE DEF c
      <3>. QED
        BY <3>1, <3>2, <3>2a, <3>3, AskingAsks
    <2>3. CASE Step
      BY <2>3, AnsweringAnswers DEF Integer!Next
    <2>4. CASE UNCHANGED avars
      <3>1. CallsMeant'
        BY <2>4 DEF avars, CallsMeant, CallsTyped
      <3>2. UNCHANGED Integer!vars
        BY <2>4 DEF avars, Integer!vars, Shown
      <3>. QED
        BY <3>1, <3>2
    <2>. QED
      BY <2>1, <2>2, <2>3, <2>4 DEF Next, Integer!Next
  <1>. QED
    BY <1>1, <1>2, PTL DEF Spec, ImplementsCalculator, Integer!Spec
=============================================================================
