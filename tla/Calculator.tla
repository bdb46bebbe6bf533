----------------------------- MODULE Calculator -----------------------------
(***************************************************************************)
(* What the arithmetic functions promise: integers.  A program takes an    *)
(* operand, asks for functions of what is shown, and goes on with their    *)
(* results.                                                                *)
(***************************************************************************)
EXTENDS Integers

CONSTANTS
  Radix,       \* a number of one word is less than it
  Operands     \* the integers a program uses as second arguments

VARIABLES shown, asked

vars == <<shown, asked>>

Abs(x) == IF x < 0 THEN -x ELSE x

\* long: in more than one word; plain: in no more digits than needed, and with nothing else.
\* No function gives a number more words, or a text more digits, than it needs.
Exact(x)       == [kind |-> "number", value |-> x, long |-> Abs(x) >= Radix]
Text(x)        == [kind |-> "text", value |-> x, plain |-> TRUE]
Sign(x)        == [kind |-> "sign", value |-> IF x < 0 THEN -1 ELSE IF x > 0 THEN 1 ELSE 0]
Pair(div, mod) == [kind |-> "pair", div |-> div, mod |-> mod]
Stopped(why)   == [kind |-> "stopped", why |-> why]

\* Division truncates towards zero; the remainder has the sign of the dividend.
Quotient(x, y) ==
  IF x < 0 <=> y < 0 THEN Abs(x) \div Abs(y) ELSE -(Abs(x) \div Abs(y))
Remainder(x, y) == x - y * Quotient(x, y)

Division == {"Div", "Mod", "Divmod"}
Function == Division \cup {"Inc", "Add", "Sub", "Mul", "Compare", "Symb", "Numb"}

Nothing == [function |-> "none", operand |-> 0]

Value(f, x, y) ==
  CASE f = "Inc"     -> Exact(x + 1)
    [] f = "Add"     -> Exact(x + y)
    [] f = "Sub"     -> Exact(x - y)
    [] f = "Mul"     -> Exact(x * y)
    [] f = "Div"     -> Exact(Quotient(x, y))
    [] f = "Mod"     -> Exact(Remainder(x, y))
    [] f = "Divmod"  -> Pair(Quotient(x, y), Remainder(x, y))
    [] f = "Compare" -> Sign(x - y)
    [] f = "Symb"    -> Text(x)
    [] f = "Numb"    -> Exact(x)

-----------------------------------------------------------------------------
Init == shown.kind \in {"number", "text"} /\ shown.value \in Int /\ asked = Nothing

Ask ==
  /\ asked = Nothing
  /\ asked' \in [function : Function, operand : Operands]
  /\ shown.kind = IF asked'.function = "Numb" THEN "text" ELSE "number"
  /\ UNCHANGED shown

\* All but Symb and Numb need an argument of one word.
Answer ==
  /\ asked # Nothing
  /\ asked' = Nothing
  /\ shown' =
       IF asked.function \notin {"Symb", "Numb"} /\ shown.long
       THEN Stopped("recognition impossible")
       ELSE IF asked.function \in Division /\ asked.operand = 0
            THEN Stopped("divide by zero")
            ELSE Value(asked.function, shown.value, asked.operand)

Next == Ask \/ Answer

Spec == Init /\ [][Next]_vars
=============================================================================
