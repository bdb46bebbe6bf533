------------------------------ MODULE Decimal ------------------------------
(***************************************************************************)
(* Numb and Symb of lib/Library.c: a number of any length from its decimal *)
(* digits and back.  Both work in the nodes of the call: Numb collects     *)
(* decimal portions at its left end and lays down words from its right end. *)
(***************************************************************************)
EXTENDS Arithmetic, SequencesExt

CONSTANTS
  PortionBits,   \* BITS_PORTION, a quarter of a word, and the digits of a portion
  DecChunk       \* DEC_CHUNK

\* b to the power n.
Power(b, n) ==
  LET power[k \in Nat] == IF k = 0 THEN 1 ELSE b * power[k - 1] IN power[n]

Part     == Power(2, PortionBits)        \* PORTION_MASK + 1
Half     == Part * Part
DecPower == Power(10, DecChunk)

ASSUME DecimalAssumption ==
  /\ PortionBits \in Nat \ {0} /\ PortionBits % 2 = 0
  /\ DecChunk \in Nat \ {0}
  /\ Radix = Half * Half
  /\ DecPower < Half

Blank == {Char(32), Char(9)}
Digit == {Char(Zero + d) : d \in 0 .. 9}

\* The first place from p on that holds none of S; the last cell of a call is a bracket.
Skip(cells, p, S) ==
  CHOOSE q \in p .. Len(cells) : cells[q] \notin S /\ \A i \in p .. q - 1 : cells[i] \in S

-----------------------------------------------------------------------------
(* Numb.                                                                    *)

\* The digits in portions; only the first may be short.
Portions(digits) ==
  LET Read(s, i) ==
        LET accum == (s.accum * 10 + digits[i].value - Zero) % Radix
        IN  IF (Len(digits) - i) % PortionBits = 0
            THEN [accum |-> 0, done |-> Append(s.done, accum)]
            ELSE [accum |-> accum, done |-> s.done]
  IN  FoldLeft(Read, [accum |-> 0, done |-> <<>>], [i \in DOMAIN digits |-> i]).done

\* Portions divided by Part: 10^k / 2^k is 5^k.
Quarter(portions) ==
  LET power5 == Power(25, PortionBits \div 2)
      next   == [i \in DOMAIN portions |->
                   ((IF i = 1 THEN 0 ELSE (portions[i - 1] % Part) * power5)
                    + portions[i] \div Part) % Radix]
  IN  IF next[1] = 0 THEN Tail(next) ELSE next

\* The words of a number: four remainders make one, the lowest first.
Words(portions) ==
  LET loop[s \in [portions : Seq(Word), accum : Nat, offset : Nat, words : Seq(Nat)]] ==
        LET accum == s.accum + (Last(s.portions) % Part) * Power(2, s.offset)
            full  == s.offset = 3 * PortionBits
        IN  IF s.portions = <<>>
            THEN IF s.accum > 0 THEN <<s.accum>> \o s.words ELSE s.words
            ELSE loop[[portions |-> Quarter(s.portions),
                       accum    |-> IF full THEN 0 ELSE accum,
                       offset   |-> IF full THEN 0 ELSE s.offset + PortionBits,
                       words    |-> IF full THEN <<accum>> \o s.words ELSE s.words]]
  IN  loop[[portions |-> portions, accum |-> 0, offset |-> 0, words |-> <<>>]]

Numb(cells) ==
  LET at       == Skip(cells, 3, Blank)
      sign     == IF cells[at] = Minus THEN <<Minus>> ELSE <<>>
      first    == Skip(cells, IF cells[at] \in {Minus, Plus} THEN at + 1 ELSE at, {Char(Zero)})
      digits   == SubSeq(cells, first, Skip(cells, first, Digit) - 1)
      portions == Portions(digits)
      words    == Words(portions)
      \* words and sign take cells from the right; cells 2 .. Len(portions) + 1 are taken
      room     == Len(cells) - 1 - Len(portions)
  IN  CASE digits = <<>>        -> Left(<<Number(0)>>)
        [] Len(portions) = 1    -> Left(sign \o <<Number(portions[1])>>)
        [] Len(portions) > 1    ->
             IF Len(sign \o words) <= room
             THEN Left(sign \o [i \in DOMAIN words |-> Number(words[i])])
             ELSE Overrun

-----------------------------------------------------------------------------
(* Symb.                                                                    *)

\* Words divided by DecPower, one half word at a time, and the remainder.
DivideWords(words) ==
  LET Step(s, w) ==
        LET high == s.rem * Half + w \div Half
            low  == (high % DecPower) * Half + (w % Half)
        IN  [words |-> Append(s.words, (high \div DecPower) * Half + low \div DecPower),
             rem   |-> low % DecPower]
  IN  FoldLeft(Step, [words |-> <<>>, rem |-> 0], words)

\* The last k digits of n.
LastDigits(n, k) == [i \in 1 .. k |-> Char(Zero + ((n \div Power(10, k - i)) % 10))]

DigitCount(n) == CHOOSE k \in 0 .. DecChunk : Power(10, k) > n /\ \A j \in 0 .. k - 1 : Power(10, j) <= n

Digits(words) ==
  LET loop[ws \in Seq(Word) \ {<<>>}] ==
        LET s    == DivideWords(ws)
            rest == IF s.words[1] = 0 THEN Tail(s.words) ELSE s.words
        IN  (IF rest = <<>> THEN <<>> ELSE loop[rest])
            \o LastDigits(s.rem, IF rest = <<>> THEN DigitCount(s.rem) ELSE DecChunk)
  IN  loop[words]

\* The zeros that are allocated; log10 2 is a little less than 28/93.
DecDigits(nwords) == (nwords * 4 * PortionBits * 28 + 92) \div 93

Symb(cells) ==
  LET start  == NumberPlace(cells, 3)
      sign   == SubSeq(cells, 3, start - 1)
      value  == CHOOSE q \in start .. Len(cells) :
                  cells[q] # Number(0) /\ \A i \in start .. q - 1 : cells[i] = Number(0)
      words  == [i \in 1 .. Len(cells) - value |-> cells[value + i - 1].value]
      digits == Digits(words)
  IN  CASE ~IsSignedNumber(cells, 3)                    -> RecognitionImpossible
        [] IsSignedNumber(cells, 3) /\ value = Len(cells) -> Left(sign \o <<Char(Zero)>>)
        [] IsSignedNumber(cells, 3) /\ value # Len(cells) ->
             IF \E i \in value .. Len(cells) - 1 : cells[i].tag # "number"
             THEN RecognitionImpossible
             ELSE IF Len(digits) <= DecDigits(Len(words)) THEN Left(sign \o digits) ELSE Overrun
=============================================================================
