----------------------------- MODULE Arithmetic -----------------------------
(***************************************************************************)
(* The arithmetic functions of lib/Library.c on machine words: arguments   *)
(* have one word, results of Add, Sub and Mul may have two.                *)
(*                                                                         *)
(* A function gets the nodes of its call, from '<' to '>', and writes the  *)
(* result over them from the left; what is left of the call is discarded.  *)
(* Nodes are the cells of a sequence: cells[1] is arg_begin, cells[2] the  *)
(* function, the last cell arg_end.  A char is its code.                   *)
(***************************************************************************)
EXTENDS Integers, Sequences

CONSTANT Radix       \* 2 ^ R05_NUMBER_BITS: a number is less than it

ASSUME RadixAssumption == Radix \in Nat /\ Radix > 1 /\ Radix % 2 = 0

Word == 0 .. Radix - 1

Char(c)   == [tag |-> "char",   value |-> c]
Number(n) == [tag |-> "number", value |-> n]
Other(t)  == [tag |-> t,        value |-> 0]

Minus == Char(45)
Plus  == Char(43)
Zero  == 48

\* What a function leaves in the view field in place of its call, or how the process ends.
Left(cells)           == [exit |-> "none", cells |-> cells]
RecognitionImpossible == [exit |-> "recognition impossible", cells |-> <<>>]
BuiltinError          == [exit |-> "divide by zero", cells |-> <<>>]
\* No defined behaviour: nodes behind the call are written, or an empty range is spliced.
Overrun               == [exit |-> "undefined", cells |-> <<>>]

\* Values and signs are kept apart in struct signed_number.
Signed(sign, value) == [sign |-> sign, value |-> value]
SignedNumber == [sign : {-1, 1}, value : Word]
IntOf(n) == n.sign * n.value

-----------------------------------------------------------------------------
(* Arguments.                                                               *)

\* The number itself is at p, or behind its sign.
NumberPlace(cells, p) == IF cells[p].tag = "char" THEN p + 1 ELSE p

IsSignedNumber(cells, p) ==
  /\ cells[p].tag = "char" => cells[p] \in {Minus, Plus}
  /\ cells[NumberPlace(cells, p)].tag = "number"

\* Mutant of ParseSignedNumber: a zero keeps its sign.
ParseSignedNumberOfZero(cells, p) ==
  Signed(IF cells[p] = Minus THEN -1 ELSE 1, cells[NumberPlace(cells, p)].value)

ParseSignedNumber(cells, p) ==
  LET value == cells[NumberPlace(cells, p)].value
  IN  Signed(IF cells[p] = Minus /\ value # 0 THEN -1 ELSE 1, value)

Behind(cells, p) == NumberPlace(cells, p) + 1

\* parse_arithm_arg: the first argument may be in brackets.
Places(cells) ==
  IF cells[3].tag = "open" THEN <<4, Behind(cells, 4) + 1>> ELSE <<3, Behind(cells, 3)>>

IsArithmArg(cells) ==
  LET first  == Places(cells)[1]
      second == Places(cells)[2]
  IN  /\ IsSignedNumber(cells, first)
      /\ first = 4 => cells[Behind(cells, first)].tag = "close"
      /\ IsSignedNumber(cells, second)
      /\ Behind(cells, second) = Len(cells)

ArithmArg(cells) ==
  [x |-> ParseSignedNumber(cells, Places(cells)[1]),
   y |-> ParseSignedNumber(cells, Places(cells)[2])]

-----------------------------------------------------------------------------
(* Results.                                                                 *)

\* The cells that emplace_number writes.
EmplaceNumber(res, high) ==
  (IF res.sign < 0 THEN <<Minus>> ELSE <<>>)
  \o (IF high # 0 THEN <<Number(high)>> ELSE <<>>)
  \o <<Number(res.value)>>

\* The call ends with what is written; the range behind it, up to arg_end, is not empty.
InPlaceOf(cells, written) ==
  IF Len(written) < Len(cells) THEN Left(written) ELSE Overrun

-----------------------------------------------------------------------------
(* Addition.                                                                *)

Carry(x, y) == IF x.sign = y.sign /\ (x.value + y.value) % Radix < x.value THEN 1 ELSE 0

SumOf(x, y) ==
  IF x.sign = y.sign
  THEN Signed(x.sign, (x.value + y.value) % Radix)
  ELSE IF x.value > y.value
       THEN Signed(x.sign, x.value - y.value)
       ELSE IF x.value < y.value
            THEN Signed(y.sign, y.value - x.value)
            ELSE Signed(0, 0)

Negated(n) == Signed(-n.sign, n.value)

-----------------------------------------------------------------------------
(* Multiplication: a product that does not fit in a word is added up bit    *)
(* by bit, in one round of the loop for each bit of the smaller factor.     *)

Product(x, y) == (x * y) % Radix

Overflows(x, y) == x # 0 /\ Product(x, y) \div x # y

\* The registers before the first round.
Registers(x, y) ==
  [x |-> IF x > y THEN y ELSE x, y_low |-> IF x > y THEN x ELSE y, y_high |-> 0,
   value |-> 0, high |-> 0]

\* Mutant of Round: the carry out of the low word is forgotten.
RoundNoCarry(r) ==
  LET odd   == r.x % 2 = 1
      value == IF odd THEN (r.value + r.y_low) % Radix ELSE r.value
  IN  [x      |-> r.x \div 2,
       y_low  |-> (2 * r.y_low) % Radix,
       y_high |-> (2 * r.y_high + r.y_low \div (Radix \div 2)) % Radix,
       value  |-> value,
       high   |-> IF odd THEN (r.high + r.y_high) % Radix ELSE r.high]

\* y_low >> 31 is its highest bit.
Round(r) ==
  LET odd   == r.x % 2 = 1
      value == IF odd THEN (r.value + r.y_low) % Radix ELSE r.value
      carry == IF odd /\ value < r.y_low THEN 1 ELSE 0
  IN  [x      |-> r.x \div 2,
       y_low  |-> (2 * r.y_low) % Radix,
       y_high |-> (2 * r.y_high + r.y_low \div (Radix \div 2)) % Radix,
       value  |-> value,
       high   |-> IF odd THEN (r.high + r.y_high + carry) % Radix ELSE r.high]

MulRegisters == [x : Nat, y_low : Nat, y_high : Nat, value : Nat, high : Nat]

Multiplied[r \in MulRegisters] ==
  IF r.x = 0 THEN r ELSE Multiplied[Round(r)]

\* Both words of the product.
LongProduct(x, y) ==
  IF Overflows(x, y)
  THEN LET r == Multiplied[Registers(x, y)] IN [value |-> r.value, high |-> r.high]
  ELSE [value |-> Product(x, y), high |-> 0]

-----------------------------------------------------------------------------
(* Division and comparison.                                                 *)

Quotient(x, y)  == Signed(x.sign * y.sign, x.value \div y.value)
Remainder(x, y) == Signed(x.sign, x.value % y.value)

CompareInts(a, b) == IF a < b THEN -1 ELSE IF a > b THEN 1 ELSE 0

Order(x, y) ==
  IF x.sign = y.sign THEN CompareInts(x.value, y.value) * x.sign ELSE CompareInts(x.sign, y.sign)

-----------------------------------------------------------------------------
(* The functions.                                                           *)

AddUp(cells, arg) == InPlaceOf(cells, EmplaceNumber(SumOf(arg.x, arg.y), Carry(arg.x, arg.y)))

Inc(cells) ==
  IF IsSignedNumber(cells, 3) /\ Behind(cells, 3) = Len(cells)
  THEN AddUp(cells, [x |-> ParseSignedNumber(cells, 3), y |-> Signed(1, 1)])
  ELSE RecognitionImpossible

Add(cells) ==
  IF IsArithmArg(cells) THEN AddUp(cells, ArithmArg(cells)) ELSE RecognitionImpossible

Sub(cells) ==
  IF IsArithmArg(cells)
  THEN AddUp(cells, [ArithmArg(cells) EXCEPT !.y = Negated(@)])
  ELSE RecognitionImpossible

Mul(cells) ==
  LET arg  == ArithmArg(cells)
      both == LongProduct(arg.x.value, arg.y.value)
  IN  IF IsArithmArg(cells)
      THEN InPlaceOf(cells, EmplaceNumber(Signed(arg.x.sign * arg.y.sign, both.value), both.high))
      ELSE RecognitionImpossible

\* What the functions that divide have in common: result is what is left if all is well.
Division(cells, result) ==
  CASE ~IsArithmArg(cells) -> RecognitionImpossible
    [] IsArithmArg(cells) /\ ArithmArg(cells).y.value = 0 -> BuiltinError
    [] IsArithmArg(cells) /\ ArithmArg(cells).y.value # 0 -> result

Div(cells) ==
  Division(cells, InPlaceOf(cells,
    EmplaceNumber(Quotient(ArithmArg(cells).x, ArithmArg(cells).y), 0)))

Mod(cells) ==
  Division(cells, InPlaceOf(cells,
    EmplaceNumber(Remainder(ArithmArg(cells).x, ArithmArg(cells).y), 0)))

QuotientAndRemainder(arg) ==
  <<Other("open")>> \o EmplaceNumber(Quotient(arg.x, arg.y), 0)
  \o <<Other("close")>> \o EmplaceNumber(Remainder(arg.x, arg.y), 0)

\* Mutant of Divmod: what is behind the remainder is discarded, though nothing may be left.
DivmodAlwaysDiscards(cells) ==
  Division(cells, InPlaceOf(cells, QuotientAndRemainder(ArithmArg(cells))))

\* The remainder may take the last cell of the call.
Divmod(cells) ==
  LET written == QuotientAndRemainder(ArithmArg(cells))
  IN  Division(cells, IF Len(written) = Len(cells) THEN Left(written) ELSE InPlaceOf(cells, written))

Compare(cells) ==
  LET order == Order(ArithmArg(cells).x, ArithmArg(cells).y)
  IN  IF IsArithmArg(cells)
      THEN InPlaceOf(cells, <<IF order < 0 THEN Minus ELSE IF order > 0 THEN Plus ELSE Char(Zero)>>)
      ELSE RecognitionImpossible
=============================================================================
