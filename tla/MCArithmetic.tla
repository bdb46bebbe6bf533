---------------------------- MODULE MCArithmetic ----------------------------
(***************************************************************************)
(* ArithmeticCalls for TLC: words of eight bits, so that portions have two *)
(* digits and chunks one; numbers at the ends of their ranges, and texts   *)
(* of up to eight digits; and the loop of Mul on all words.                *)
(***************************************************************************)
EXTENDS ArithmeticCalls, MulLoop

Signs == {<<>>, <<Minus>>, <<Plus>>}
Magnitudes == {0, 1, 2, 10, 15, 16, 99, 127, 128, 255}

Short(ns)  == {s \o <<Number(n)>> : s \in Signs, n \in ns}
MCOperands == Short({0, 1, 16, 255})

\* Several words, zeros in front and in between among them.
Long == { <<0>>, <<0, 0>>, <<0, 7>>, <<1, 0>>, <<1, 255>>, <<255, 255>>, <<1, 0, 0>>, <<39, 16>>,
          <<15, 66, 64>>, <<1, 0, 10>>, <<255, 255, 255>>, <<0, 100, 0>>, <<5, 245, 224, 255>> }

MCNumbers == Short(Magnitudes)
  \cup {s \o [i \in DOMAIN ws |-> Number(ws[i])] : s \in Signs, ws \in Long}

TextOf(digits) == [i \in DOMAIN digits |-> Char(Zero + digits[i])]

Digits_ == { <<>>, <<0>>, <<7>>, <<1, 0>>, <<9, 9>>, <<1, 0, 0>>, <<2, 5, 5>>, <<2, 5, 6>>, <<9, 9, 9>>,
             <<1, 0, 2, 4>>, <<6, 5, 5, 3, 6>>, <<1, 0, 0, 0, 0, 0>>, <<9, 9, 9, 9, 9, 9, 9>>,
             <<1, 6, 7, 7, 7, 2, 1, 6>>, <<9, 9, 9, 9, 9, 9, 9, 9>> }

MCTexts ==
  { blanks \o sign \o zeros \o TextOf(digits) \o rest :
      blanks \in {<<>>, <<Char(9), Char(32)>>},
      sign   \in Signs,
      zeros  \in {<<>>, TextOf(<<0, 0, 0>>)},
      digits \in Digits_,
      rest   \in {<<>>, <<Char(120), Char(Zero + 5)>>, <<Number(3)>>, <<Minus>>} }

\* A behaviour is a chain of calls or one loop of Mul; of the other there is nothing left to do.
NoLoop  == factors = <<0, 0>> /\ r = Registers(0, 0)
NoChain == result = Left(<<Number(0)>>) /\ kind = "number" /\ call = NoCall /\ calls = MaxCalls

MCInit == (Init /\ NoLoop) \/ (MulInit /\ NoChain)
MCNext == (Next /\ UNCHANGED mvars) \/ (Turn /\ UNCHANGED avars)
MCSpec == MCInit /\ [][MCNext]_<<avars, mvars>>
=============================================================================
