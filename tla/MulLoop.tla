------------------------------ MODULE MulLoop ------------------------------
(***************************************************************************)
(* The loop of Mul (lib/Library.c 949-972), one round a step.              *)
(***************************************************************************)
EXTENDS Arithmetic

VARIABLES
  factors,     \* history: the numbers to be multiplied
  r            \* x, y_low, y_high, res.value and high

mvars == <<factors, r>>

\* The loop runs only if the product does not fit in a word.
MulInit ==
  /\ factors \in {f \in Word \X Word : Overflows(f[1], f[2])}
  /\ r = Registers(factors[1], factors[2])

Turn == r.x > 0 /\ r' = Round(r) /\ UNCHANGED factors

MulSpec == MulInit /\ [][Turn]_mvars

RegistersTyped ==
  /\ factors \in Word \X Word
  /\ r \in [x : Word, y_low : Word, y_high : Word, value : Word, high : Word]

(* When the loop of Mul ends, its two words are the product, however the
   additions carried and though the last doubling of y may lose its top bit. *)
ProductIsExact == r.x = 0 => r.high * Radix + r.value = factors[1] * factors[2]

(* What the two words lack of the product is what the rounds to come will add. *)
LoopInvariant ==
  r.value + r.high * Radix + r.x * (r.y_low + r.y_high * Radix) = factors[1] * factors[2]
=============================================================================
