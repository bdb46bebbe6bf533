---------------------------- MODULE RandomDigits ----------------------------
(***************************************************************************)
(* Random and RandomDigit of Library.c: a lagged Fibonacci generator in a  *)
(* ring of Long numbers that two indices walk downwards, seeded on the     *)
(* first draw, and the rejection loop that makes a number below a limit of *)
(* it.  A draw is one action, so the loop may go round between two of them.*)
(* Numbers have Width bits and wrap; memory for the digits does not run    *)
(* out here.                                                               *)
(***************************************************************************)
EXTENDS Integers, Sequences, FiniteSets

CONSTANTS
  Width,      \* bits of r05_number: 32 or 64
  Long,       \* cMaxDelay: 55
  Short,      \* cMinDelay: 24
  Seeds       \* what time(NULL) may return

Modulus == 2 ^ Width
Number  == 0 .. Modulus - 1
MAX     == Modulus - 1

ASSUME WidthAssumption ==
  Width \in Nat \ {0} /\ Modulus \in Nat \ {0} /\ Modulus % 2 = 0
ASSUME DelayAssumption == Long \in Nat /\ Short \in 1 .. Long - 1
ASSUME SeedAssumption == Seeds \subseteq Number

VARIABLES
  init,        \* whether the ring is filled
  y, k, j,     \* the ring and its two indices
  pc,          \* "idle", "range" (random_digit_in_range) or "digits"
  call,        \* the builtin running: "Random" or "RandomDigit", with its argument
  limit,       \* the argument of random_digit_in_range
  count,       \* digits still to be made
  result       \* numbers made for the call

gvars == <<init, y, k, j>>
cvars == <<pc, call, limit, count, result>>
vars  == <<init, y, k, j, pc, call, limit, count, result>>

\* Mutant of NextSeed: an even increment.
EvenSeed(s) == (s * (1103515245 % Modulus) + 12344) % Modulus

\* The linear congruential step that fills the ring.
NextSeed(s) == (s * (1103515245 % Modulus) + 12345) % Modulus

\* y[0] is one step from the seed, y[1] two.
Filled(s) ==
  LET seed[n \in 0 .. Long] == IF n = 0 THEN s ELSE NextSeed(seed[n - 1])
  IN  [n \in 0 .. Long - 1 |-> seed[n + 1]]

-----------------------------------------------------------------------------
Init ==
  /\ init = FALSE /\ y = [n \in 0 .. Long - 1 |-> 0]
  /\ k = Long - 1 /\ j = Short - 1
  /\ pc = "idle" /\ call = [name |-> "none", arg |-> 0]
  /\ limit = 0 /\ count = 0 /\ result = <<>>

\* Mutant of Back: the index goes up.
Forth(i) == (i + 1) % Long

Back(i) == (i + Long - 1) % Long

\* random_digit returns value; the first one fills the ring.
Drawn(value) ==
  \E ring \in IF init THEN {y} ELSE {Filled(s) : s \in Seeds} :
    /\ value = (ring[k] + ring[j]) % Modulus
    /\ y' = [ring EXCEPT ![k] = (ring[k] + ring[j]) % Modulus]
    /\ init' = TRUE
    /\ k' = Back(k) /\ j' = Back(j)

Call(name, arg) == call' = [name |-> name, arg |-> arg] /\ result' = <<>>

\* <Random s.Len>: how many digits is itself random, below s.Len - 1.
CallRandom(len) ==
  /\ pc = "idle"
  /\ Call("Random", len)
  /\ limit' = (IF len > 0 THEN len - 1 ELSE 1)
  /\ count' = (IF limit' = 0 THEN 1 ELSE 0)
  /\ pc' = (IF limit' = 0 THEN "digits" ELSE "range")
  /\ UNCHANGED gvars

\* <RandomDigit s.Max>: the largest number needs no range.
CallRandomDigit(max) ==
  /\ pc = "idle"
  /\ Call("RandomDigit", max)
  /\ limit' = (IF max # MAX THEN max + 1 ELSE 0)
  /\ count' = (IF max # MAX THEN 0 ELSE 1)
  /\ pc' = (IF max # MAX THEN "range" ELSE "digits")
  /\ UNCHANGED gvars

\* Mutant of MaxValid: every draw is valid.
MaxValidAll(n) == Modulus

\* Mutant of MaxValid: the valid draws are those of the last round.
MaxValidSmall(n) == 0

MaxValid(n) == MAX - (MAX % n)

\* What random_digit_in_range makes of a valid draw.
Reduced(value) == value % limit

DigitCount(value) == Reduced(value) + 1

\* One turn of the loop of random_digit_in_range.
DrawInRange ==
  /\ pc = "range"
  /\ \E value \in Number :
       /\ Drawn(value)
       /\ IF value >= MaxValid(limit)
          THEN UNCHANGED cvars
          ELSE IF call.name = "Random"
               THEN pc' = "digits" /\ count' = DigitCount(value) /\ UNCHANGED <<call, limit, result>>
               ELSE pc' = "idle" /\ result' = <<Reduced(value)>> /\ UNCHANGED <<call, limit, count>>

DrawDigit ==
  /\ pc = "digits" /\ count > 0
  /\ \E value \in Number : Drawn(value) /\ result' = Append(result, value)
  /\ count' = count - 1
  /\ UNCHANGED <<pc, call, limit>>

Return ==
  /\ pc = "digits" /\ count = 0
  /\ pc' = "idle"
  /\ UNCHANGED <<init, y, k, j, call, limit, count, result>>

Step == DrawInRange \/ DrawDigit \/ Return

Next == Step \/ \E n \in Number : CallRandom(n) \/ CallRandomDigit(n)

\* A call computes until it returns.
Spec == Init /\ [][Next]_vars /\ WF_vars(Step)

-----------------------------------------------------------------------------
(* Properties.                                                              *)

(* The lowest bits of the ring are never all zero, whatever the clock said: else every
   number drawn from then on would be even. *)
LowBitAlive == init => \E n \in 0 .. Long - 1 : y[n] % 2 = 1

\* docs/2-syntax.md: Random makes one to s.Len digits (one for 0), RandomDigit one up to s.Max.
InBounds ==
  IF call.name = "Random"
  THEN Len(result) >= 1 /\ Len(result) <= (IF call.arg = 0 THEN 1 ELSE call.arg)
  ELSE Len(result) = 1 /\ result[1] <= call.arg

(* What the loop that runs accepts favours no result: every number below its limit comes
   of the same number of draws, and of some. *)
Unbiased ==
  pc = "range" =>
    LET accepted(r) == Cardinality({x \in Number : x < MaxValid(limit) /\ Reduced(x) = r})
    IN  accepted(0) > 0 /\ \A r \in 0 .. limit - 1 : accepted(r) = accepted(0)

(* Every call returns a result in its bounds: wherever the generator stands, it leaves
   the values the loop rejects. *)
CallsReturn == pc # "idle" ~> pc = "idle" /\ InBounds

-----------------------------------------------------------------------------
\* The window of the last Long numbers, the oldest first: it is the one to be replaced next.
Fibonacci == INSTANCE LaggedFibonacci WITH
  window <- [n \in 1 .. Long |-> y[(k + Long - (n - 1)) % Long]]

\* From the first draw on, the ring and its indices are the generator of program A.
ImplementsFibonacci == [][init => Fibonacci!Draw \/ UNCHANGED <<y, k>>]_<<y, k, j>>
=============================================================================
