--------------------------- MODULE LaggedFibonacci ---------------------------
(***************************************************************************)
(* The generator that the comment at random_digit names (Knuth, The Art of *)
(* Computer Programming, volume 2, 3.2.2, program A): X_n is the sum of    *)
(* X_{n-Long} and X_{n-Short}, kept as the window of the last Long values. *)
(***************************************************************************)
EXTENDS Integers, Sequences

CONSTANTS Long, Short, Modulus

VARIABLE window      \* the last Long values, the oldest first

Init == window \in [1 .. Long -> 0 .. Modulus - 1]

Draw == window' = Append(Tail(window), (window[1] + window[Long - Short + 1]) % Modulus)

Spec == Init /\ [][Draw]_window
=============================================================================
