------------------------- MODULE RandomDigitsProofs -------------------------
(***************************************************************************)
(* Proofs about RandomDigits for every width of a number, every ring and   *)
(* lag and every clock: the generator keeps its lowest bits alive and is   *)
(* the lagged Fibonacci generator of its comment, the loop that makes a    *)
(* number below a limit favours none, and a call's result is in its        *)
(* bounds.                                                                 *)
(***************************************************************************)
EXTENDS RandomDigits, Induction, FiniteSetTheorems, FunctionTheorems,
        SequenceTheorems

-----------------------------------------------------------------------------
(* Remainders.                                                              *)

LEMMA Division ==
  ASSUME NEW x \in Nat, NEW m \in Nat \ {0}
  PROVE  /\ x % m \in 0 .. m - 1
         /\ x \div m \in Nat
         /\ x = m * (x \div m) + (x % m)
  OBVIOUS

LEMMA Remainder ==
  ASSUME NEW q \in Nat, NEW m \in Nat \ {0}, NEW r \in 0 .. m - 1
  PROVE  (m * q + r) % m = r
  OBVIOUS

LEMMA OneRound ==
  ASSUME NEW m \in Nat \ {0}, NEW r \in 0 .. m - 1
  PROVE  r % m = r /\ (r + m) % m = r
  OBVIOUS

(* A wrap at an even modulus keeps the lowest bit. *)
LEMMA Parity ==
  ASSUME NEW m \in Nat \ {0}, m % 2 = 0, NEW x \in Nat
  PROVE  (x % m) % 2 = x % 2
  <1> DEFINE h == m \div 2
             q == x \div m
             r == x % m
  <1>1. m = 2 * h /\ h \in Nat
    OBVIOUS
  <1>2. q \in Nat /\ r \in Nat /\ x = m * q + r
    BY Division
  <1>. HIDE DEF h, q, r
  <1>3. h * q \in Nat /\ m * q = 2 * (h * q)
    BY <1>1, <1>2
  <1>4. ASSUME NEW p \in Nat PROVE (2 * p + r) % 2 = r % 2
    BY <1>2
  <1>5. x = 2 * (h * q) + r
    BY <1>2, <1>3
  <1>6. x % 2 = r % 2
    BY <1>3, <1>4, <1>5
  <1>. QED
    BY <1>6 DEF r

LEMMA ParityOfSum ==
  ASSUME NEW a \in Nat, NEW b \in Nat
  PROVE  /\ a % 2 = b % 2 => (a + b) % 2 = 0
         /\ a % 2 # b % 2 => (a + b) % 2 = 1
  OBVIOUS

LEMMA NumberFacts ==
  /\ Modulus \in Nat \ {0} /\ Modulus >= 2 /\ Modulus % 2 = 0
  /\ MAX \in Nat \ {0} /\ MAX = Modulus - 1 /\ Number = 0 .. Modulus - 1
  /\ \A x \in Nat : x % Modulus \in Number /\ (x % Modulus) % 2 = x % 2
  <1>1. Modulus \in Nat \ {0} /\ Modulus % 2 = 0
    BY WidthAssumption
  <1> DEFINE m == Modulus
  <1>2. MAX = m - 1 /\ Number = 0 .. m - 1
    BY DEF MAX, Number
  <1>. HIDE DEF m
  <1>3. m \in Nat \ {0} /\ m % 2 = 0
    BY <1>1 DEF m
  <1>4. m >= 2
    BY <1>3
  <1>5. \A x \in Nat : x % m \in 0 .. m - 1 /\ (x % m) % 2 = x % 2
    BY <1>3, Division, Parity
  <1>6. MAX \in Nat \ {0}
    BY <1>2, <1>3, <1>4
  <1>. QED
    BY <1>2, <1>3, <1>4, <1>5, <1>6 DEF m

LEMMA DelayFacts ==
  Long \in Nat /\ Long >= 2 /\ Short \in Nat /\ Short >= 1 /\ Short < Long
  BY DelayAssumption
-----------------------------------------------------------------------------
(* The seed.                                                                *)

(* A congruential step with an odd factor and an odd increment flips the lowest bit, ... *)
LEMMA OddStepFlips ==
  ASSUME NEW s \in Number, NEW factor \in Nat, factor % 2 = 1, NEW c \in Nat, c % 2 = 1
  PROVE  LET n == (s * (factor % Modulus) + c) % Modulus
         IN  n \in Number /\ n % 2 # s % 2
  <1> DEFINE a == factor % Modulus
             p == s * a
             h == a \div 2
  <1>1. a \in Nat /\ a % 2 = 1
    <2>1. a \in Number /\ a % 2 = factor % 2
      BY NumberFacts
    <2>. HIDE DEF a
    <2>. QED
      BY <2>1, NumberFacts
  <1>2. s \in Nat
    BY NumberFacts
  <1>3. a = 2 * h + 1 /\ h \in Nat
    <2>. HIDE DEF a
    <2>. QED
      BY <1>1
  <1>. HIDE DEF a, h
  <1>4. s * h \in Nat /\ p = 2 * (s * h) + s /\ p \in Nat
    BY <1>2, <1>3
  <1>5. ASSUME NEW n \in Nat PROVE (2 * n + s) % 2 = s % 2
    BY <1>2
  <1>6. p % 2 = s % 2
    BY <1>4, <1>5
  <1>. HIDE DEF p
  <1>7. (p + c) % 2 # p % 2 /\ p + c \in Nat
    BY <1>4
  <1>8. (p + c) % Modulus \in Number /\ ((p + c) % Modulus) % 2 = (p + c) % 2
    BY <1>7, NumberFacts
  <1>. QED
    BY <1>6, <1>7, <1>8 DEF p, a

(* ... and so does every step of the seed. *)
LEMMA SeedFlips ==
  ASSUME NEW s \in Number
  PROVE  NextSeed(s) \in Number /\ NextSeed(s) % 2 # s % 2
  <1>1. 1103515245 \in Nat /\ 1103515245 % 2 = 1 /\ 12345 \in Nat /\ 12345 % 2 = 1
    BY SMT
  <1>. QED
    BY <1>1, OddStepFlips, SMT DEF NextSeed

(* What the recursion in Filled says of its values up to n. *)
IsSeedTo(seed, s, n) ==
  seed[0] = s /\ \A i \in 1 .. n : seed[i] = NextSeed(seed[i - 1])

LEMMA SeedToExists ==
  ASSUME NEW s
  PROVE  \A n \in Nat : \E seed : IsSeedTo(seed, s, n)
  <1> DEFINE T == {n \in Nat : \E seed : IsSeedTo(seed, s, n)}
  <1>1. 0 \in T
    <2> DEFINE w == [i \in {0} |-> s]
    <2>1. IsSeedTo(w, s, 0)
      BY DEF IsSeedTo
    <2>. QED
      BY <2>1
  <1>2. ASSUME NEW n \in Nat, n \in T PROVE n + 1 \in T
    <2>1. PICK v : IsSeedTo(v, s, n)
      BY <1>2
    <2> DEFINE w == [i \in 0 .. n + 1 |-> IF i = n + 1 THEN NextSeed(v[n]) ELSE v[i]]
    <2>2. w[n + 1] = NextSeed(v[n]) /\ \A i \in 0 .. n : w[i] = v[i]
      OBVIOUS
    <2>. HIDE DEF w
    <2>3. ASSUME NEW i \in 1 .. n + 1 PROVE w[i] = NextSeed(w[i - 1])
      <3>1. i - 1 \in 0 .. n /\ w[i - 1] = v[i - 1]
        BY <2>2
      <3>2. CASE i = n + 1
        BY <3>1, <3>2, <2>2
      <3>3. CASE i # n + 1
        <4>1. i \in 1 .. n /\ w[i] = v[i]
          BY <3>3, <2>2
        <4>. QED
          BY <4>1, <3>1, <2>1 DEF IsSeedTo
      <3>. QED
        BY <3>2, <3>3
    <2>4. w[0] = s
      BY <2>1, <2>2 DEF IsSeedTo
    <2>. QED
      BY <2>3, <2>4 DEF IsSeedTo
  <1>. HIDE DEF T
  <1>3. Nat \subseteq T
    BY <1>1, <1>2, InductionOnSet
  <1>. QED
    BY <1>3 DEF T

IsSeed(seed, s) == seed = [n \in 0 .. Long |-> IF n = 0 THEN s ELSE NextSeed(seed[n - 1])]

LEMMA FilledIsSeed ==
  ASSUME NEW s
  PROVE  \E seed : /\ IsSeed(seed, s)
                   /\ Filled(s) = [n \in 0 .. Long - 1 |-> seed[n + 1]]
  <1>1. PICK v : IsSeedTo(v, s, Long)
    BY DelayFacts, SeedToExists
  <1> DEFINE w == [n \in 0 .. Long |-> v[n]]
             Fits(f) == IsSeed(f, s)
  <1>2. \A n \in 0 .. Long : w[n] = IF n = 0 THEN s ELSE NextSeed(w[n - 1])
    <2>. TAKE n \in 0 .. Long
    <2>1. CASE n = 0
      BY <2>1, <1>1 DEF IsSeedTo
    <2>2. CASE n # 0
      <3>1. n \in 1 .. Long /\ w[n] = v[n] /\ w[n - 1] = v[n - 1]
        BY <2>2, DelayFacts
      <3>. QED
        BY <3>1, <2>2, <1>1 DEF IsSeedTo
    <2>. QED
      BY <2>1, <2>2
  <1>3. Fits(w)
    <2>1. w = [n \in 0 .. Long |-> w[n]]
      OBVIOUS
    <2>. HIDE DEF w
    <2>. QED
      BY <2>1, <1>2 DEF IsSeed
  <1>4. Filled(s) = [n \in 0 .. Long - 1 |-> (CHOOSE f : Fits(f))[n + 1]]
    BY DEF Filled, IsSeed
  <1>. HIDE DEF Fits, w
  <1>5. Fits(CHOOSE f : Fits(f))
    BY <1>3
  <1>. QED
    BY <1>4, <1>5 DEF Fits

(* The ring is filled with numbers, and two neighbours of them differ in the lowest bit. *)
LEMMA FilledIsAlive ==
  ASSUME NEW s \in Number
  PROVE  /\ Filled(s) \in [0 .. Long - 1 -> Number]
         /\ \E n \in 0 .. Long - 1 : Filled(s)[n] % 2 = 1
  <1>1. PICK seed : IsSeed(seed, s) /\ Filled(s) = [n \in 0 .. Long - 1 |-> seed[n + 1]]
    BY FilledIsSeed
  <1>2. seed[0] = s /\ \A n \in 1 .. Long : seed[n] = NextSeed(seed[n - 1])
    BY <1>1, DelayFacts DEF IsSeed
  <1> DEFINE T == {n \in Nat : n <= Long => seed[n] \in Number}
  <1>3. 0 \in T
    BY <1>2
  <1>4. ASSUME NEW n \in Nat, n \in T PROVE n + 1 \in T
    <2>1. CASE n + 1 <= Long
      <3>1. n + 1 \in 1 .. Long /\ n <= Long /\ (n + 1) - 1 = n
        BY <2>1, DelayFacts
      <3>2. seed[n] \in Number /\ seed[n + 1] = NextSeed(seed[n])
        BY <3>1, <1>2, <1>4
      <3>3. seed[n + 1] \in Number
        BY <3>2, SeedFlips
      <3>. QED
        BY <3>3
    <2>2. CASE ~(n + 1 <= Long)
      BY <2>2
    <2>. QED
      BY <2>1, <2>2
  <1>. HIDE DEF T
  <1>5. Nat \subseteq T
    BY <1>3, <1>4, InductionOnSet
  <1>6. \A n \in 0 .. Long : seed[n] \in Number
    BY <1>5, DelayFacts DEF T
  <1>7. Filled(s) \in [0 .. Long - 1 -> Number]
    BY <1>1, <1>6, DelayFacts
  <1>8. Filled(s)[0] \in Number /\ Filled(s)[1] = NextSeed(Filled(s)[0])
    <2>1. /\ 0 \in 0 .. Long - 1 /\ 1 \in 0 .. Long - 1 /\ 2 \in 1 .. Long
          /\ 0 + 1 = 1 /\ 1 + 1 = 2 /\ 2 - 1 = 1
      BY DelayFacts
    <2>2. Filled(s)[0] = seed[1] /\ Filled(s)[1] = seed[2]
      BY <2>1, <1>1
    <2>3. seed[2] = NextSeed(seed[1])
      BY <2>1, <1>2
    <2>. QED
      BY <2>1, <2>2, <2>3, <1>7
  <1>9. Filled(s)[1] \in Number /\ Filled(s)[1] % 2 # Filled(s)[0] % 2
    BY <1>8, SeedFlips
  <1>10. ASSUME NEW a \in Number, NEW b \in Number, a % 2 # b % 2
         PROVE  a % 2 = 1 \/ b % 2 = 1
    BY <1>10, NumberFacts
  <1>11. Filled(s)[0] % 2 = 1 \/ Filled(s)[1] % 2 = 1
    BY <1>8, <1>9, <1>10
  <1>12. 0 \in 0 .. Long - 1 /\ 1 \in 0 .. Long - 1
    BY DelayFacts
  <1>. QED
    BY <1>7, <1>11, <1>12

-----------------------------------------------------------------------------
(* The generator.                                                           *)

Indices == 0 .. Long - 1

LEMMA BackIs ==
  ASSUME NEW i \in Indices
  PROVE  Back(i) \in Indices /\ Back(i) = IF i = 0 THEN Long - 1 ELSE i - 1
  <1>1. CASE i = 0
    <2>1. (i + Long - 1) % Long = Long - 1
      BY <1>1, DelayFacts
    <2>. QED
      BY <2>1, <1>1, DelayFacts DEF Back, Indices
  <1>2. CASE i # 0
    <2>1. i - 1 \in 0 .. Long - 1 /\ i + Long - 1 = (i - 1) + Long
      BY <1>2, DelayFacts DEF Indices
    <2>2. ((i - 1) + Long) % Long = i - 1
      BY <2>1, DelayFacts, OneRound
    <2>. QED
      BY <2>1, <2>2, <1>2 DEF Back, Indices
  <1>. QED
    BY <1>1, <1>2

(* The place j has when k is at i: Short before it, for the indices walk downwards. *)
Lag(i) == IF i + Short < Long THEN i + Short ELSE i + Short - Long

LEMMA LagFacts ==
  ASSUME NEW i \in Indices
  PROVE  Lag(i) \in Indices /\ Lag(i) # i /\ Back(Lag(i)) = Lag(Back(i))
  <1>1. Lag(i) \in Indices /\ Lag(i) # i
    BY DelayFacts DEF Lag, Indices
  <1>2. Back(i) \in Indices /\ Back(i) = IF i = 0 THEN Long - 1 ELSE i - 1
    BY BackIs
  <1>3. Back(Lag(i)) = IF Lag(i) = 0 THEN Long - 1 ELSE Lag(i) - 1
    BY <1>1, BackIs
  <1>4. (IF Lag(i) = 0 THEN Long - 1 ELSE Lag(i) - 1) = Lag(IF i = 0 THEN Long - 1 ELSE i - 1)
    BY DelayFacts DEF Lag, Indices
  <1>. QED
    BY <1>1, <1>2, <1>3, <1>4

(* The inductive invariant of the generator. LowBitAlive alone is not inductive: that the
   number added to y[k] is another one of the ring needs the distance of the indices. *)
GInv ==
  /\ init \in BOOLEAN
  /\ y \in [Indices -> Number]
  /\ k \in Indices /\ j = Lag(k)
  /\ LowBitAlive

LEMMA InitGenerator ==
  Init => GInv
  <1>. SUFFICES ASSUME Init PROVE GInv
    OBVIOUS
  <1>1. 0 \in Number
    BY NumberFacts
  <1>2. k \in Indices /\ j = Lag(k)
    BY DelayFacts DEF Init, Indices, Lag
  <1>3. init = FALSE /\ y \in [Indices -> Number]
    BY <1>1 DEF Init, Indices
  <1>. QED
    BY <1>2, <1>3 DEF GInv, LowBitAlive

LEMMA SumIsNumber ==
  ASSUME NEW a \in Number, NEW b \in Number
  PROVE  /\ (a + b) % Modulus \in Number
         /\ a % 2 # b % 2 => ((a + b) % Modulus) % 2 = 1
  <1>1. a \in Nat /\ b \in Nat /\ a + b \in Nat
    BY NumberFacts
  <1>2. (a + b) % Modulus \in Number /\ ((a + b) % Modulus) % 2 = (a + b) % 2
    BY <1>1, NumberFacts
  <1>. QED
    BY <1>1, <1>2, ParityOfSum

LEMMA DrawKeepsGenerator ==
  ASSUME GInv, NEW value, Drawn(value)
  PROVE  GInv' /\ value \in Number
  <1>1. PICK ring \in IF init THEN {y} ELSE {Filled(s) : s \in Seeds} :
          /\ value = (ring[k] + ring[j]) % Modulus
          /\ y' = [ring EXCEPT ![k] = (ring[k] + ring[j]) % Modulus]
          /\ init' = TRUE
          /\ k' = Back(k) /\ j' = Back(j)
    BY DEF Drawn
  <1>2. ring \in [Indices -> Number] /\ \E n \in Indices : ring[n] % 2 = 1
    <2>1. CASE init
      BY <2>1, <1>1 DEF GInv, LowBitAlive, Indices
    <2>2. CASE ~init
      <3>1. PICK s \in Seeds : ring = Filled(s)
        BY <2>2, <1>1
      <3>2. s \in Number
        BY SeedAssumption
      <3>. QED
        BY <3>1, <3>2, FilledIsAlive DEF Indices
    <2>. QED
      BY <2>1, <2>2
  <1>3. k \in Indices /\ j = Lag(k) /\ j \in Indices /\ j # k
    BY LagFacts DEF GInv
  <1>4. k' \in Indices /\ j' = Lag(k')
    BY <1>1, <1>3, BackIs, LagFacts
  <1> DEFINE sum == (ring[k] + ring[j]) % Modulus
  <1>5. sum \in Number /\ (ring[k] % 2 # ring[j] % 2 => sum % 2 = 1)
    BY <1>2, <1>3, SumIsNumber
  <1>6. y' = [ring EXCEPT ![k] = sum] /\ value = sum
    BY <1>1
  <1>. HIDE DEF sum
  <1>7. y' \in [Indices -> Number] /\ y'[k] = sum
        /\ \A n \in Indices \ {k} : y'[n] = ring[n]
    BY <1>2, <1>3, <1>5, <1>6
  <1>8. \E n \in Indices : y'[n] % 2 = 1
    <2>1. PICK n \in Indices : ring[n] % 2 = 1
      BY <1>2
    <2>2. CASE n # k
      BY <2>1, <2>2, <1>7
    <2>3. CASE n = k /\ ring[j] % 2 = 1
      BY <2>3, <1>3, <1>7
    <2>4. CASE n = k /\ ring[j] % 2 # 1
      <3>1. y'[k] % 2 = 1
        BY <2>1, <2>4, <1>5, <1>7
      <3>. QED
        BY <3>1, <1>3
    <2>. QED
      BY <2>2, <2>3, <2>4
  <1>. QED
    BY <1>1, <1>4, <1>5, <1>6, <1>7, <1>8 DEF GInv, LowBitAlive, Indices

LEMMA NextGenerator ==
  GInv /\ [Next]_vars => GInv'
  <1>. SUFFICES ASSUME GInv, [Next]_vars PROVE GInv'
    OBVIOUS
  <1>1. CASE UNCHANGED gvars
    BY <1>1 DEF GInv, gvars, LowBitAlive
  <1>2. ASSUME NEW n \in Number, CallRandom(n) \/ CallRandomDigit(n) PROVE GInv'
    BY <1>1, <1>2 DEF CallRandom, CallRandomDigit
  <1>3. CASE DrawInRange
    BY <1>3, DrawKeepsGenerator DEF DrawInRange
  <1>4. CASE DrawDigit
    BY <1>4, DrawKeepsGenerator DEF DrawDigit
  <1>5. CASE Return
    BY <1>5, <1>1 DEF Return, gvars
  <1>6. CASE UNCHANGED vars
    BY <1>6, <1>1 DEF vars, gvars
  <1>. QED
    BY <1>2, <1>3, <1>4, <1>5, <1>6 DEF Next, Step

LEMMA GeneratorInvariance ==
  Spec => []GInv
  BY InitGenerator, NextGenerator, PTL DEF Spec

(* The lowest bits of the ring are never all zero, whatever the width, the ring and the
   clock: the numbers drawn do not all become even. *)
THEOREM LowBitStaysAlive ==
  Spec => []LowBitAlive
  <1>1. GInv => LowBitAlive
    BY DEF GInv
  <1>. QED
    BY <1>1, GeneratorInvariance, PTL

-----------------------------------------------------------------------------
(* The ring and its indices are a lagged Fibonacci generator.               *)

(* The n-th number of the window, the oldest first, is n - 1 places before k. *)
Place(i, n) == (i + Long - (n - 1)) % Long
Window(ring, i) == [n \in 1 .. Long |-> ring[Place(i, n)]]

LEMMA PlaceFacts ==
  ASSUME NEW i \in Indices
  PROVE  /\ \A n \in 1 .. Long : Place(i, n) \in Indices
         /\ Place(i, 1) = i
         /\ Place(i, Long - Short + 1) = Lag(i)
         /\ \A n \in 1 .. Long - 1 : Place(Back(i), n) = Place(i, n + 1) /\ Place(i, n + 1) # i
         /\ Place(Back(i), Long) = i
  <1>1. ASSUME NEW n \in 1 .. Long, NEW h \in Indices
        PROVE  Place(h, n) = IF n <= h + 1 THEN h + 1 - n ELSE h + 1 - n + Long
    <2>1. h + Long - (n - 1) = (h + 1 - n) + Long
      BY DelayFacts DEF Indices
    <2>2. CASE n <= h + 1
      <3>1. h + 1 - n \in 0 .. Long - 1
        BY <2>2, DelayFacts DEF Indices
      <3>2. ((h + 1 - n) + Long) % Long = h + 1 - n
        BY <3>1, DelayFacts, OneRound
      <3>. QED
        BY <3>2, <2>1, <2>2 DEF Place
    <2>3. CASE ~(n <= h + 1)
      <3>1. (h + 1 - n) + Long \in 0 .. Long - 1
        BY <2>3, DelayFacts DEF Indices
      <3>2. ((h + 1 - n) + Long) % Long = (h + 1 - n) + Long
        BY <3>1, DelayFacts, OneRound
      <3>. QED
        BY <3>2, <2>1, <2>3 DEF Place
    <2>. QED
      BY <2>2, <2>3
  <1>2. Back(i) \in Indices /\ Back(i) = IF i = 0 THEN Long - 1 ELSE i - 1
    BY BackIs
  <1>3. \A n \in 1 .. Long : Place(i, n) \in Indices
    BY <1>1, DelayFacts DEF Indices
  <1>4. Place(i, 1) = i
    BY <1>1, DelayFacts DEF Indices
  <1>5. Place(i, Long - Short + 1) = Lag(i)
    <2>1. Long - Short + 1 \in 1 .. Long
      BY DelayFacts
    <2>. QED
      BY <1>1, <2>1, DelayFacts DEF Indices, Lag
  <1>6. ASSUME NEW n \in 1 .. Long - 1
        PROVE  Place(Back(i), n) = Place(i, n + 1) /\ Place(i, n + 1) # i
    <2>1. n \in 1 .. Long /\ n + 1 \in 1 .. Long
      BY DelayFacts
    <2>2. /\ Place(Back(i), n) = IF n <= Back(i) + 1 THEN Back(i) + 1 - n ELSE Back(i) + 1 - n + Long
          /\ Place(i, n + 1) = IF n + 1 <= i + 1 THEN i + 1 - (n + 1) ELSE i + 1 - (n + 1) + Long
      BY <1>1, <1>2, <2>1
    <2>. QED
      BY <2>2, <1>2, DelayFacts DEF Indices
  <1>7. Place(Back(i), Long) = i
    <2>1. Long \in 1 .. Long
      BY DelayFacts
    <2>2. Place(Back(i), Long) = IF Long <= Back(i) + 1 THEN Back(i) + 1 - Long ELSE Back(i) + 1 - Long + Long
      BY <1>1, <1>2, <2>1
    <2>. QED
      BY <2>2, <1>2, DelayFacts DEF Indices
  <1>. QED
    BY <1>3, <1>4, <1>5, <1>6, <1>7

LEMMA DrawShiftsWindow ==
  ASSUME NEW ring \in [Indices -> Number], NEW i \in Indices, NEW value \in Number
  PROVE  Window([ring EXCEPT ![i] = value], Back(i)) = Append(Tail(Window(ring, i)), value)
  <1> DEFINE w == Window(ring, i)
             t == Append(Tail(w), value)
             u == Window([ring EXCEPT ![i] = value], Back(i))
  <1>0. Back(i) \in Indices /\ \A n \in 1 .. Long : Place(i, n) \in Indices /\ Place(Back(i), n) \in Indices
    BY BackIs, PlaceFacts
  <1>1. w \in Seq(Number) /\ Len(w) = Long /\ \A n \in 1 .. Long : w[n] = ring[Place(i, n)]
    BY <1>0, DelayFacts DEF Window
  <1>2. /\ u \in Seq(Number) /\ Len(u) = Long
        /\ \A n \in 1 .. Long : u[n] = [ring EXCEPT ![i] = value][Place(Back(i), n)]
    BY <1>0, DelayFacts DEF Window
  <1>. HIDE DEF w, u
  <1>3. /\ Tail(w) \in Seq(Number) /\ Len(Tail(w)) = Long - 1
        /\ \A n \in 1 .. Long - 1 : Tail(w)[n] = w[n + 1]
    BY <1>1, DelayFacts
  <1>4. /\ t \in Seq(Number) /\ Len(t) = Long
        /\ \A n \in 1 .. Long - 1 : t[n] = w[n + 1]
        /\ t[Long] = value
    BY <1>3, DelayFacts
  <1>. HIDE DEF t
  <1>5. ASSUME NEW n \in 1 .. Long PROVE u[n] = t[n]
    <2>1. CASE n = Long
      BY <2>1, <1>2, <1>4, PlaceFacts
    <2>2. CASE n # Long
      <3>1. n \in 1 .. Long - 1 /\ n + 1 \in 1 .. Long
        BY <2>2, DelayFacts
      <3>2. Place(Back(i), n) = Place(i, n + 1) /\ Place(i, n + 1) # i
        BY <3>1, PlaceFacts
      <3>3. u[n] = ring[Place(i, n + 1)]
        BY <3>2, <1>0, <1>2
      <3>. QED
        BY <3>1, <3>3, <1>1, <1>4
    <2>. QED
      BY <2>1, <2>2
  <1>6. u = t
    BY <1>2, <1>4, <1>5, SeqEqual
  <1>. QED
    BY <1>6 DEF u, t, w

LEMMA DrawImplements ==
  ASSUME GInv, init, NEW value, Drawn(value)
  PROVE  Fibonacci!Draw
  <1>1. /\ value = (y[k] + y[j]) % Modulus
        /\ y' = [y EXCEPT ![k] = value]
        /\ k' = Back(k)
    BY DEF Drawn
  <1>2. value \in Number
    BY DrawKeepsGenerator
  <1>3. y \in [Indices -> Number] /\ k \in Indices /\ j = Lag(k)
    BY DEF GInv
  <1>4. Window(y', k') = Append(Tail(Window(y, k)), value)
    BY <1>1, <1>2, <1>3, DrawShiftsWindow
  <1>5. Window(y, k)[1] = y[k] /\ Window(y, k)[Long - Short + 1] = y[j]
    <2>1. 1 \in 1 .. Long /\ Long - Short + 1 \in 1 .. Long
      BY DelayFacts
    <2>. QED
      BY <2>1, <1>3, PlaceFacts DEF Window
  <1>6. Window(y', k') = Append(Tail(Window(y, k)),
                                (Window(y, k)[1] + Window(y, k)[Long - Short + 1]) % Modulus)
    BY <1>1, <1>4, <1>5
  <1>. QED
    BY <1>6 DEF Fibonacci!Draw, Window, Place

(* Program A: from the first draw on, every step of the ring and its indices is a draw of
   the generator that the comment at random_digit names. *)
THEOREM FibonacciImplemented ==
  Spec => ImplementsFibonacci
  <1>1. ASSUME GInv, [Next]_vars, init, ~UNCHANGED <<y, k, j>>
        PROVE  Fibonacci!Draw
    <2>1. CASE UNCHANGED gvars
      BY <2>1, <1>1 DEF gvars
    <2>2. ASSUME NEW n \in Number, CallRandom(n) \/ CallRandomDigit(n) PROVE Fibonacci!Draw
      BY <2>1, <2>2 DEF CallRandom, CallRandomDigit
    <2>3. CASE DrawInRange
      BY <2>3, <1>1, DrawImplements DEF DrawInRange
    <2>4. CASE DrawDigit
      BY <2>4, <1>1, DrawImplements DEF DrawDigit
    <2>5. CASE Return
      BY <2>5, <2>1 DEF Return, gvars
    <2>6. CASE UNCHANGED vars
      BY <2>6, <2>1 DEF vars, gvars
    <2>. QED
      BY <1>1, <2>2, <2>3, <2>4, <2>5, <2>6 DEF Next, Step
  <1>2. GInv /\ [Next]_vars
        => [init => Fibonacci!Draw \/ UNCHANGED <<y, k>>]_<<y, k, j>>
    BY <1>1
  <1>. QED
    BY <1>2, GeneratorInvariance, PTL DEF Spec, ImplementsFibonacci

-----------------------------------------------------------------------------
(* The calls.                                                               *)

\* The most numbers that a call of Random makes.
Most(arg) == IF arg = 0 THEN 1 ELSE arg

RangeSound ==
  /\ limit \in 1 .. MAX
  /\ result = <<>>
  /\ call.name = "Random" => limit <= Most(call.arg)
  /\ call.name = "RandomDigit" => limit = call.arg + 1

DigitsSound ==
  IF call.name = "Random"
  THEN Len(result) + count \in 1 .. Most(call.arg)
  ELSE Len(result) + count = 1 /\ call.arg = MAX

ReturnedInBounds == pc = "idle" /\ call.name # "none" => InBounds

(* The inductive invariant of the calls: what the limit and the numbers still to be made
   are, while a call runs, relates its result to its argument. *)
CInv ==
  /\ pc \in {"idle", "range", "digits"}
  /\ call \in [name : {"none", "Random", "RandomDigit"}, arg : Number]
  /\ result \in Seq(Number) /\ count \in Nat
  /\ pc # "idle" => call.name # "none"
  /\ pc = "range" => RangeSound
  /\ pc = "digits" => DigitsSound
  /\ ReturnedInBounds

LEMMA InitCalls ==
  Init => CInv
  <1>. SUFFICES ASSUME Init PROVE CInv
    OBVIOUS
  <1>1. 0 \in Number
    BY NumberFacts
  <1>. QED
    BY <1>1 DEF Init, CInv, ReturnedInBounds

LEMMA CallRandomSound ==
  ASSUME CInv, NEW len \in Number, CallRandom(len)
  PROVE  CInv'
  <1>1. call' = [name |-> "Random", arg |-> len] /\ result' = <<>>
    BY DEF CallRandom, Call
  <1>2. /\ call' \in [name : {"none", "Random", "RandomDigit"}, arg : Number]
        /\ call'.name = "Random" /\ call'.arg = len
        /\ result' \in Seq(Number) /\ Len(result') = 0
    BY <1>1
  <1>3. len \in 0 .. MAX /\ MAX \in Nat /\ MAX >= 1
    BY NumberFacts
  <1>4. limit' = IF len > 0 THEN len - 1 ELSE 1
    BY DEF CallRandom
  <1>5. CASE limit' = 0
    <2>1. pc' = "digits" /\ count' = 1
      BY <1>5 DEF CallRandom
    <2>2. len = 1 /\ Most(len) = 1
      BY <1>3, <1>4, <1>5 DEF Most
    <2>3. Len(result') + count' = 1
      BY <2>1, <1>2
    <2>4. DigitsSound'
      BY <2>2, <2>3, <1>2 DEF DigitsSound
    <2>. QED
      BY <2>1, <2>4, <1>2 DEF CInv, ReturnedInBounds
  <1>6. CASE limit' # 0
    <2>1. pc' = "range" /\ count' = 0
      BY <1>6 DEF CallRandom
    <2>2. limit' \in 1 .. MAX /\ limit' <= Most(len)
      BY <1>3, <1>4, <1>6 DEF Most
    <2>3. RangeSound'
      BY <2>2, <1>1, <1>2, NumberFacts DEF RangeSound, MAX, Modulus
    <2>. QED
      BY <2>1, <2>3, <1>2 DEF CInv, ReturnedInBounds
  <1>. QED
    BY <1>5, <1>6

LEMMA CallRandomDigitSound ==
  ASSUME CInv, NEW max \in Number, CallRandomDigit(max)
  PROVE  CInv'
  <1>1. call' = [name |-> "RandomDigit", arg |-> max] /\ result' = <<>>
    BY DEF CallRandomDigit, Call
  <1>2. /\ call' \in [name : {"none", "Random", "RandomDigit"}, arg : Number]
        /\ call'.name = "RandomDigit" /\ call'.arg = max
        /\ result' \in Seq(Number) /\ Len(result') = 0
    BY <1>1
  <1>3. max \in 0 .. MAX /\ MAX \in Nat
    BY NumberFacts
  <1>4. CASE max = MAX
    <2>1. pc' = "digits" /\ count' = 1
      BY <1>4 DEF CallRandomDigit
    <2>2. Len(result') + count' = 1
      BY <2>1, <1>2
    <2>3. DigitsSound'
      BY <2>2, <1>2, <1>4 DEF DigitsSound, MAX, Modulus
    <2>. QED
      BY <2>1, <2>3, <1>2 DEF CInv, ReturnedInBounds
  <1>5. CASE max # MAX
    <2>1. pc' = "range" /\ count' = 0 /\ limit' = max + 1
      BY <1>5 DEF CallRandomDigit
    <2>2. limit' \in 1 .. MAX
      BY <2>1, <1>3, <1>5
    <2>3. RangeSound'
      BY <2>1, <2>2, <1>1, <1>2 DEF RangeSound, MAX, Modulus
    <2>. QED
      BY <2>1, <2>3, <1>2 DEF CInv, ReturnedInBounds
  <1>. QED
    BY <1>4, <1>5

LEMMA DrawInRangeSound ==
  ASSUME GInv, CInv, DrawInRange
  PROVE  CInv'
  <1>1. PICK value \in Number :
          /\ Drawn(value)
          /\ IF value >= MaxValid(limit)
             THEN UNCHANGED cvars
             ELSE IF call.name = "Random"
                  THEN pc' = "digits" /\ count' = DigitCount(value) /\ UNCHANGED <<call, limit, result>>
                  ELSE pc' = "idle" /\ result' = <<Reduced(value)>> /\ UNCHANGED <<call, limit, count>>
    BY DEF DrawInRange
  <1>2. RangeSound /\ call.name # "none"
    BY DEF CInv, DrawInRange
  <1>3. limit \in Nat \ {0} /\ limit <= MAX /\ value \in Nat /\ MAX \in Nat
    BY <1>2, NumberFacts DEF RangeSound
  <1>4. Reduced(value) \in 0 .. limit - 1
    BY <1>3, Division DEF Reduced
  <1>5. Reduced(value) \in Number
    <2>1. Number = 0 .. MAX
      BY NumberFacts
    <2>. QED
      BY <2>1, <1>3, <1>4
  <1>6. CASE UNCHANGED cvars
    BY <1>6 DEF cvars, CInv, RangeSound, DigitsSound, ReturnedInBounds, InBounds
  <1>7. CASE /\ call.name = "Random"
             /\ pc' = "digits" /\ count' = DigitCount(value)
             /\ UNCHANGED <<call, limit, result>>
    <2>1. result' = <<>> /\ limit <= Most(call.arg) /\ call.arg \in Nat
      BY <1>2, <1>7, NumberFacts DEF RangeSound, CInv
    <2>2. count' \in 1 .. limit
      BY <1>3, <1>4, <1>7 DEF DigitCount
    <2>3. Most(call.arg) \in Nat
      BY <2>1 DEF Most
    <2>4. Len(result') + count' \in 1 .. Most(call.arg)
      <3>1. Len(result') = 0
        BY <2>1
      <3>2. ASSUME NEW made \in 1 .. limit, NEW most \in Nat, limit <= most
            PROVE  0 + made \in 1 .. most
        BY <3>2, <1>3
      <3>. QED
        BY <3>1, <3>2, <2>1, <2>2, <2>3
    <2>5. DigitsSound'
      BY <2>4, <1>7 DEF DigitsSound, Most
    <2>. QED
      BY <2>2, <2>5, <1>7 DEF CInv, ReturnedInBounds
  <1>8. CASE /\ call.name # "Random"
             /\ pc' = "idle" /\ result' = <<Reduced(value)>>
             /\ UNCHANGED <<call, limit, count>>
    <2>1. call.name = "RandomDigit" /\ limit = call.arg + 1 /\ call.arg \in Nat
      BY <1>2, <1>8, NumberFacts DEF RangeSound, CInv
    <2>2. result' \in Seq(Number) /\ Len(result') = 1 /\ result'[1] = Reduced(value)
      BY <1>5, <1>8
    <2>3. result'[1] <= call.arg
      BY <2>1, <2>2, <1>4
    <2>4. InBounds'
      BY <2>2, <2>3, <1>8 DEF InBounds
    <2>. QED
      BY <2>2, <2>4, <1>8 DEF CInv, ReturnedInBounds
  <1>. QED
    BY <1>1, <1>6, <1>7, <1>8

LEMMA DrawDigitSound ==
  ASSUME GInv, CInv, DrawDigit
  PROVE  CInv'
  <1>1. PICK value \in Number : Drawn(value) /\ result' = Append(result, value)
    BY DEF DrawDigit
  <1>2. /\ pc = "digits" /\ pc' = "digits" /\ count > 0 /\ count' = count - 1
        /\ call' = call /\ limit' = limit
    BY DEF DrawDigit
  <1>3. DigitsSound /\ result \in Seq(Number) /\ count \in Nat /\ Len(result) \in Nat
    BY <1>2 DEF CInv
  <1>4. result' \in Seq(Number) /\ Len(result') = Len(result) + 1 /\ count' \in Nat
    BY <1>1, <1>2, <1>3
  <1>5. Len(result') + count' = Len(result) + count
    BY <1>2, <1>3, <1>4
  <1>6. DigitsSound'
    BY <1>2, <1>3, <1>5 DEF DigitsSound, Most, MAX, Modulus
  <1>. QED
    BY <1>2, <1>4, <1>6 DEF CInv, ReturnedInBounds

LEMMA ReturnSound ==
  ASSUME CInv, Return
  PROVE  CInv'
  <1>1. /\ pc = "digits" /\ count = 0 /\ pc' = "idle"
        /\ call' = call /\ limit' = limit /\ count' = count /\ result' = result
    BY DEF Return
  <1>2. DigitsSound /\ result \in Seq(Number) /\ Len(result) \in Nat
    BY <1>1 DEF CInv
  <1>3. InBounds
    <2>1. CASE call.name = "Random"
      <3>1. Len(result) \in 1 .. Most(call.arg) /\ call.arg \in Nat
        BY <2>1, <1>1, <1>2, NumberFacts DEF DigitsSound, CInv
      <3>2. Most(call.arg) = IF call.arg = 0 THEN 1 ELSE call.arg
        BY DEF Most
      <3>. QED
        BY <3>1, <3>2, <2>1 DEF InBounds
    <2>2. CASE call.name # "Random"
      <3>1. Len(result) = 1 /\ call.arg = MAX
        BY <2>2, <1>1, <1>2 DEF DigitsSound
      <3>2. result[1] \in Number
        BY <3>1, <1>2
      <3>. QED
        BY <3>1, <3>2, <2>2, NumberFacts DEF InBounds
    <2>. QED
      BY <2>1, <2>2
  <1>4. InBounds'
    BY <1>1, <1>3 DEF InBounds
  <1>. QED
    BY <1>1, <1>4 DEF CInv, ReturnedInBounds

LEMMA NextCalls ==
  GInv /\ CInv /\ [Next]_vars => CInv'
  <1>. SUFFICES ASSUME GInv, CInv, [Next]_vars PROVE CInv'
    OBVIOUS
  <1>1. CASE UNCHANGED vars
    BY <1>1 DEF vars, CInv, RangeSound, DigitsSound, ReturnedInBounds, InBounds
  <1>. QED
    BY <1>1, CallRandomSound, CallRandomDigitSound, DrawInRangeSound, DrawDigitSound,
       ReturnSound DEF Next, Step

LEMMA CallsInvariance ==
  Spec => [](GInv /\ CInv)
  BY InitGenerator, NextGenerator, InitCalls, NextCalls, PTL DEF Spec

(* The safety half of CallsReturn: a call that has returned has a result in its bounds,
   one number up to its argument or as many as it asked for at most and at least one. *)
THEOREM ReturnsInBounds ==
  Spec => []ReturnedInBounds
  <1>1. CInv => ReturnedInBounds
    BY DEF CInv
  <1>. QED
    BY <1>1, CallsInvariance, PTL

-----------------------------------------------------------------------------
(* The loop favours no number below its limit.                              *)

Accepted(r) == {x \in Number : x < MaxValid(limit) /\ Reduced(x) = r}

(* What is accepted are the numbers of whole rounds of the limit, and there is one. *)
LEMMA WholeRounds ==
  ASSUME NEW n \in 1 .. MAX
  PROVE  \E q \in Nat \ {0} : MaxValid(n) = n * q /\ n * q \in Nat /\ n * q <= MAX
  <1> DEFINE q == MAX \div n
             r == MAX % n
  <1>1. MAX \in Nat /\ n \in Nat \ {0} /\ n <= MAX
    BY NumberFacts
  <1>2. r \in 0 .. n - 1 /\ q \in Nat /\ MAX = n * q + r
    BY <1>1, Division
  <1>3. MaxValid(n) = MAX - r
    BY DEF MaxValid
  <1>. HIDE DEF q, r
  <1>4. n * q \in Nat /\ MAX - r = n * q /\ n * q <= MAX
    BY <1>1, <1>2
  <1>5. q # 0
    <2>1. q = 0 => n * q = 0
      BY <1>1
    <2>. QED
      BY <2>1, <1>1, <1>2
  <1>. QED
    BY <1>2, <1>3, <1>4, <1>5

(* The round a number is in: the number that leaves none is its first, and its last one is
   below the next round. *)
LEMMA InRound ==
  ASSUME NEW n \in Nat \ {0}, NEW q \in Nat, NEW top \in Nat, top = n * q,
         NEW x \in Nat, x < top, x % n = 0, NEW r \in 0 .. n - 1
  PROVE  x + r < top /\ (x + r) % n = r
  <1> DEFINE p == x \div n
  <1>1. p \in Nat /\ x = n * p + (x % n)
    BY Division
  <1>. HIDE DEF p
  <1>2. n * p \in Nat /\ x = n * p
    BY <1>1
  <1>3. p < q
    <2>1. ASSUME p >= q PROVE n * p >= n * q
      BY <2>1, <1>1
    <2>2. n * q \in Nat
      OBVIOUS
    <2>. QED
      BY <2>1, <2>2, <1>1, <1>2
  <1>4. n * (p + 1) <= n * q /\ n * (p + 1) = n * p + n
    BY <1>1, <1>3
  <1>5. (x + r) % n = r
    BY <1>1, <1>2, Remainder
  <1>6. ASSUME NEW a \in Nat, NEW b \in Nat, a + n <= b PROVE a + r < b
    BY <1>6
  <1>7. n * q \in Nat /\ n * p + n <= n * q
    BY <1>4
  <1>8. x + r < top
    BY <1>2, <1>6, <1>7
  <1>. QED
    BY <1>5, <1>8

LEMMA FirstOfRound ==
  ASSUME NEW n \in Nat \ {0}, NEW x \in Nat
  PROVE  x - (x % n) \in Nat /\ (x - (x % n)) % n = 0
  <1> DEFINE p == x \div n
             r == x % n
  <1>1. p \in Nat /\ r \in 0 .. n - 1 /\ x = n * p + r
    BY Division
  <1>. HIDE DEF p, r
  <1>2. n * p \in Nat /\ x - r = n * p + 0 /\ 0 \in 0 .. n - 1
    BY <1>1
  <1>3. (n * p + 0) % n = 0
    BY <1>1, <1>2, Remainder
  <1>. QED
    BY <1>2, <1>3 DEF r

LEMMA EveryRoundHasAll ==
  ASSUME limit \in 1 .. MAX, NEW r \in 0 .. limit - 1
  PROVE  ExistsBijection(Accepted(0), Accepted(r))
  <1>1. limit \in Nat \ {0} /\ MAX \in Nat /\ Number = 0 .. MAX
    BY NumberFacts
  <1> DEFINE top == MaxValid(limit)
  <1>2. PICK q \in Nat \ {0} : top = limit * q /\ top \in Nat /\ top <= MAX
    BY WholeRounds
  <1>. HIDE DEF top
  <1>3. \A r1, x : x \in Accepted(r1) <=> x \in 0 .. MAX /\ x < top /\ x % limit = r1
    BY <1>1 DEF Accepted, Reduced, top
  <1> DEFINE f == [x \in Accepted(0) |-> x + r]
  <1>4. ASSUME NEW x \in Accepted(0) PROVE x \in Nat /\ x + r \in Accepted(r)
    <2>1. x \in Nat /\ x < top /\ x % limit = 0
      BY <1>1, <1>3
    <2>2. x + r < top /\ (x + r) % limit = r
      <3>1. r \in 0 .. limit - 1 /\ q \in Nat /\ limit \in Nat \ {0} /\ top \in Nat /\ top = limit * q
        BY <1>1, <1>2
      <3>. QED
        BY <3>1, <2>1, InRound
    <2>3. x + r \in 0 .. MAX
      BY <1>1, <1>2, <2>1, <2>2
    <2>. QED
      BY <1>1, <1>2, <2>1, <2>2, <2>3, <1>3
  <1>5. ASSUME NEW x \in Accepted(r) PROVE \E w \in Accepted(0) : f[w] = x
    <2>1. x \in Nat /\ x <= MAX /\ x < top /\ x % limit = r
      BY <1>1, <1>3
    <2>2. x - r \in Nat /\ (x - r) % limit = 0
      BY <1>1, <2>1, FirstOfRound
    <2>3. x - r \in 0 .. MAX /\ x - r < top /\ (x - r) + r = x
      BY <1>1, <1>2, <2>1, <2>2
    <2>4. x - r \in Accepted(0)
      BY <1>1, <1>2, <2>2, <2>3, <1>3
    <2>. QED
      BY <2>3, <2>4
  <1>6. f \in [Accepted(0) -> Accepted(r)]
    BY <1>4
  <1>7. ASSUME NEW a \in Accepted(0), NEW b \in Accepted(0), f[a] = f[b] PROVE a = b
    BY <1>1, <1>4, <1>7
  <1>. HIDE DEF f
  <1>8. f \in Bijection(Accepted(0), Accepted(r))
    BY <1>5, <1>6, <1>7, Fun_IsBij
  <1>. QED
    BY <1>8 DEF ExistsBijection

LEMMA LimitFavoursNone ==
  ASSUME limit \in 1 .. MAX
  PROVE  /\ Cardinality(Accepted(0)) > 0
         /\ \A r \in 0 .. limit - 1 : Cardinality(Accepted(r)) = Cardinality(Accepted(0))
  <1>1. limit \in Nat \ {0} /\ MAX \in Nat /\ Number = 0 .. MAX
    BY NumberFacts
  <1>2. IsFiniteSet(Accepted(0))
    <2>1. IsFiniteSet(0 .. MAX)
      BY <1>1, FS_Interval
    <2>2. Accepted(0) \in SUBSET (0 .. MAX)
      BY <1>1 DEF Accepted
    <2>. QED
      BY <2>1, <2>2, FS_Subset
  <1>3. 0 \in Accepted(0)
    <2>1. PICK q \in Nat \ {0} : MaxValid(limit) = limit * q
      BY WholeRounds
    <2>2. limit * q > 0
      BY <1>1
    <2>3. 0 % limit = 0 /\ 0 \in 0 .. MAX
      BY <1>1
    <2>. QED
      BY <1>1, <2>1, <2>2, <2>3 DEF Accepted, Reduced
  <1>4. Cardinality(Accepted(0)) \in Nat /\ Cardinality(Accepted(0)) # 0
    BY <1>2, <1>3, FS_CardinalityType, FS_EmptySet
  <1>5. \A r \in 0 .. limit - 1 : Cardinality(Accepted(r)) = Cardinality(Accepted(0))
    BY <1>2, EveryRoundHasAll, FS_Bijection
  <1>. QED
    BY <1>4, <1>5

(* RandomDigit and Random favour no number: whatever the width and the limit, the draws that
   the loop accepts are whole rounds of the limit, and it accepts some. *)
THEOREM LoopIsUnbiased ==
  Spec => []Unbiased
  <1>1. CInv => Unbiased
    <2>. SUFFICES ASSUME CInv, pc = "range" PROVE Unbiased
      BY DEF Unbiased
    <2>1. limit \in 1 .. MAX
      BY DEF CInv, RangeSound
    <2>. QED
      BY <2>1, LimitFavoursNone DEF Unbiased, Accepted
  <1>. QED
    BY <1>1, CallsInvariance, PTL

=============================================================================
