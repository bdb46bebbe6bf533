-------------------------- MODULE ArithmeticCalls --------------------------
(***************************************************************************)
(* A program that uses the arithmetic functions: what one of them leaves   *)
(* is an argument of the next.                                             *)
(***************************************************************************)
EXTENDS Decimal

CONSTANTS
  Numbers,     \* numbers as they may stand in a program: cells
  Texts,       \* arguments of Numb in a program
  Operands,    \* second arguments: a number of one word with or without a sign
  MaxCalls     \* length of a chain of calls

\* A number in a cell is a word.
Tag  == {"number", "char", "open", "close", "function", "open_call", "close_call"}
Cell == {c \in [tag : Tag, value : Nat] : c.tag = "number" => c.value \in Word}

\* A number of words with or without a sign.
Unsigned(cells) == IF cells # <<>> /\ cells[1] \in {Minus, Plus} THEN Tail(cells) ELSE cells

IsNumeral(cells) ==
  Unsigned(cells) # <<>> /\ \A i \in DOMAIN Unsigned(cells) : Unsigned(cells)[i].tag = "number"

ASSUME ProgramAssumption ==
  /\ MaxCalls \in Nat
  /\ Numbers \cup Texts \cup Operands \subseteq Seq(Cell)
  /\ \A x \in Numbers \cup Operands : IsNumeral(x)
  /\ \A y \in Operands : Len(Unsigned(y)) = 1

VARIABLES
  result,      \* what the last function left
  kind,        \* history: what is meant by it, "number", "text", "pair" or "sign"
  call,        \* the call in the view field
  calls        \* how many calls there were

avars == <<result, kind, call, calls>>

NoCall == [callee |-> "none", operand |-> <<Number(0)>>, bracket |-> FALSE]

Unary  == {"Inc", "Symb", "Numb"}
Binary == {"Add", "Sub", "Mul", "Div", "Mod", "Divmod", "Compare"}

Kind(f) ==
  CASE f = "Divmod" -> "pair" [] f = "Compare" -> "sign" [] f = "Symb" -> "text" [] OTHER -> "number"

CallOf(f, x, y, bracket) ==
  <<Other("open_call"), Other("function")>>
  \o (IF bracket THEN <<Other("open")>> \o x \o <<Other("close")>> ELSE x)
  \o (IF f \in Unary THEN <<>> ELSE y)
  \o <<Other("close_call")>>

Perform(f, cells) ==
  CASE f = "Inc"     -> Inc(cells)
    [] f = "Add"     -> Add(cells)
    [] f = "Sub"     -> Sub(cells)
    [] f = "Mul"     -> Mul(cells)
    [] f = "Div"     -> Div(cells)
    [] f = "Mod"     -> Mod(cells)
    [] f = "Divmod"  -> Divmod(cells)
    [] f = "Compare" -> Compare(cells)
    [] f = "Symb"    -> Symb(cells)
    [] f = "Numb"    -> Numb(cells)

-----------------------------------------------------------------------------
Init ==
  /\ \/ \E x \in Numbers : result = Left(x) /\ kind = "number"
     \/ \E x \in Texts : result = Left(x) /\ kind = "text"
  /\ call = NoCall /\ calls = 0

Running == result.exit = "none" /\ call = NoCall /\ calls < MaxCalls

AskUnary(f) ==
  /\ Running
  /\ kind = IF f = "Numb" THEN "text" ELSE "number"
  /\ call' = [NoCall EXCEPT !.callee = f]
  /\ UNCHANGED <<result, kind, calls>>

AskBinary(f, y, bracket) ==
  /\ Running
  /\ kind = "number"
  /\ call' = [callee |-> f, operand |-> y, bracket |-> bracket]
  /\ UNCHANGED <<result, kind, calls>>

Step ==
  /\ call # NoCall
  /\ result' = Perform(call.callee, CallOf(call.callee, result.cells, call.operand, call.bracket))
  /\ kind' = Kind(call.callee)
  /\ call' = NoCall
  /\ calls' = calls + 1

Next ==
  \/ \E f \in Unary : AskUnary(f)
  \/ \E f \in Binary, y \in Operands, bracket \in BOOLEAN : AskBinary(f, y, bracket)
  \/ Step

Spec == Init /\ [][Next]_avars

-----------------------------------------------------------------------------
(* The integers behind cells.                                               *)

\* What the digits v, the highest first, stand for.
NumberOf(base, v) ==
  LET n[k \in 0 .. Len(v)] == IF k = 0 THEN 0 ELSE n[k - 1] * base + v[k] IN n[Len(v)]

SignOf(cells) == IF cells # <<>> /\ cells[1] = Minus THEN -1 ELSE 1

NumeralValue(cells) ==
  LET words == Unsigned(cells)
  IN  SignOf(cells) * NumberOf(Radix, [i \in DOMAIN words |-> words[i].value])

\* Spaces, a sign, digits, and anything that does not begin with a digit.
TextValue(cells) ==
  LET number == CHOOSE range \in (1 .. Len(cells) + 1) \X (0 .. Len(cells)) :
        LET a == range[1]
            b == range[2]
            signed == a \in DOMAIN cells /\ cells[a] \in {Minus, Plus}
        IN  /\ \A i \in 1 .. a - 1 : cells[i] \in Blank
            /\ a \in DOMAIN cells => cells[a] \notin Blank
            /\ b + 1 >= IF signed THEN a + 1 ELSE a
            /\ \A i \in (IF signed THEN a + 1 ELSE a) .. b : cells[i] \in Digit
            /\ b + 1 \in DOMAIN cells => cells[b + 1] \notin Digit
      digits == SubSeq(cells, number[1], number[2])
  IN  SignOf(digits) *
      NumberOf(10, [i \in DOMAIN Unsigned(digits) |-> Unsigned(digits)[i].value - Zero])

\* A decimal number without blanks, leading zeros or a rest.
IsPlain(cells) ==
  LET digits == Unsigned(cells)
  IN  /\ digits # <<>> /\ \A i \in DOMAIN digits : digits[i] \in Digit
      /\ digits[1] = Char(Zero) => Len(digits) = 1

Half1(cells) == SubSeq(cells, 2, SelectInSeq(cells, LAMBDA c : c = Other("close")) - 1)
Half2(cells) == SubSeq(cells, SelectInSeq(cells, LAMBDA c : c = Other("close")) + 1, Len(cells))

IsPair(cells) ==
  /\ cells[1] = Other("open") /\ Other("close") \in ToSet(cells)
  /\ IsNumeral(Half1(cells)) /\ IsNumeral(Half2(cells))

Malformed == [kind |-> "malformed"]

ShownNumber(cells) ==
  IF IsNumeral(cells)
  THEN [kind |-> "number", value |-> NumeralValue(cells), long |-> Len(Unsigned(cells)) > 1]
  ELSE Malformed

ShownPair(cells) ==
  IF IsPair(cells)
  THEN [kind |-> "pair", div |-> NumeralValue(Half1(cells)), mod |-> NumeralValue(Half2(cells))]
  ELSE Malformed

ShownSign(cells) ==
  CASE cells = <<Minus>>      -> [kind |-> "sign", value |-> -1]
    [] cells = <<Plus>>       -> [kind |-> "sign", value |-> 1]
    [] cells = <<Char(Zero)>> -> [kind |-> "sign", value |-> 0]
    [] OTHER                  -> Malformed

Shown ==
  IF result.exit # "none"
  THEN [kind |-> "stopped", why |-> result.exit]
  ELSE CASE kind = "number" -> ShownNumber(result.cells)
         [] kind = "pair"   -> ShownPair(result.cells)
         [] kind = "sign"   -> ShownSign(result.cells)
         [] kind = "text"   -> [kind |-> "text", value |-> TextValue(result.cells),
                                plain |-> IsPlain(result.cells)]

Integer == INSTANCE Calculator WITH
  Operands <- {NumeralValue(y) : y \in Operands} \cup {0},
  shown    <- Shown,
  asked    <- [function |-> call.callee, operand |-> NumeralValue(call.operand)]

-----------------------------------------------------------------------------
(* Properties.                                                              *)

(* Add, Sub, Mul, Div, Mod, Divmod, Compare, Inc, Symb and Numb compute what
   their names say, in as many words or digits as the result needs, and stop the process
   exactly when an argument is longer than a word or a divisor is zero. *)
ImplementsCalculator == Integer!Spec

(* emplace_number, Numb and Symb write over the nodes of the call: the result
   never needs more nodes than the call had, and the range behind it that is
   discarded is never empty. *)
StaysInCall == result.exit # "undefined"
=============================================================================
