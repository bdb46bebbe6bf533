--------------------------- MODULE ProfilerProofs ---------------------------
(***************************************************************************)
(* The profiler of Profiler for any length of a run and any nesting of     *)
(* e-loops: its assertions hold and its counters are the time spent.       *)
(***************************************************************************)
EXTENDS Profiler, FunctionProfile, FiniteSetTheorems, FunctionTheorems, TLAPS

Counters == {"match", "build", "eloop", "copy"}
Starts   == {"program", "match", "build", "eloop"}

\* The domains and ranges that the steps preserve without any relation between them.
Shapes ==
  /\ pc \in {"main_loop", "matching", "building", "builtin", "exit"}
  /\ loops \in 0 .. MaxLoops /\ now \in 0 .. MaxClock
  /\ start \in [Starts -> 0 .. MaxClock]
  /\ total \in [Counters -> Int]
  /\ spent \in [{"match", "build", "eloop", "copy", "helpers"} -> Int]
  /\ in_generated \in {0, 1} /\ in_e_loop \in 0 .. MaxLoops
  /\ aborted \in BOOLEAN
  /\ end = "none" <=> pc # "exit"

\* The flags tell where the step is.
Flags ==
  /\ ~aborted
  /\ in_generated = (IF pc \in {"matching", "building"} THEN 1 ELSE 0)
  /\ in_e_loop = loops
  /\ pc # "matching" => loops = 0

\* A counter lacks what has passed since the clock reading that will be subtracted.
Sums ==
  end # "impossible" =>
    /\ total["match"] + (IF pc = "matching" THEN now - start["match"] ELSE 0) = spent["match"]
    /\ total["build"] + (IF pc = "building" THEN now - start["build"] ELSE 0) = spent["build"]
    /\ total["eloop"] + (IF pc = "matching" /\ loops > 0 THEN now - start["eloop"] ELSE 0) = spent["eloop"]
    /\ total["copy"] = spent["copy"]

ProfileInv == Shapes /\ Flags /\ Sums

Inside  == repeated["inside"]["t"] + repeated["inside"]["e"]
Outside == repeated["outside"]["t"] + repeated["outside"]["e"]

\* While no builtin compares or copies, the time spent on a part is time spent on its whole.
Parts ==
  /\ start["program"] = 0
  /\ repeated \in [Place -> [Type -> Nat]]
  /\ spent["helpers"] >= 0 /\ spent["copy"] >= 0
  /\ spent["helpers"] = 0 =>
       /\ Inside <= spent["eloop"]
       /\ spent["eloop"] + Outside <= spent["match"]
       /\ spent["copy"] <= spent["build"]
       /\ spent["match"] + spent["build"] <= now

LEMMA InitProfileInv == Init => ProfileInv
  <1> SUFFICES ASSUME Init PROVE ProfileInv
    OBVIOUS
  <1>1. Shapes
    <2>1. aborted \in BOOLEAN /\ (end = "none" <=> pc # "exit")
      BY DEF Init
    <2>2. start \in [Starts -> 0 .. MaxClock] /\ now \in 0 .. MaxClock /\ loops \in 0 .. MaxLoops
      BY BoundsAssumption DEF Init, Starts
    <2>3. /\ total \in [Counters -> Int]
          /\ spent \in [{"match", "build", "eloop", "copy", "helpers"} -> Int]
      BY DEF Init, Counters
    <2>4. /\ pc \in {"main_loop", "matching", "building", "builtin", "exit"}
          /\ in_generated \in {0, 1} /\ in_e_loop \in 0 .. MaxLoops
      BY BoundsAssumption DEF Init
    <2> QED BY <2>1, <2>2, <2>3, <2>4 DEF Shapes
  <1>2. Flags
    BY DEF Init, Flags
  <1>3. Sums
    BY DEF Init, Sums
  <1> QED BY <1>1, <1>2, <1>3 DEF ProfileInv

LEMMA TickKeeps == ProfileInv /\ Tick => ProfileInv'
  <1> SUFFICES ASSUME ProfileInv, Tick PROVE ProfileInv'
    OBVIOUS
  <1> USE BoundsAssumption DEF ProfileInv, Tick, Running, SpendOn, Activities
  <1>1. Shapes'
    BY DEF Shapes, Counters, Starts
  <1>2. Flags'
    BY DEF Flags
  <1>3. Sums'
    BY DEF Shapes, Sums, Counters, Starts
  <1> QED BY <1>1, <1>2, <1>3

\* Comparing and copying take a tick like any other and count it once more.
LEMMA HelpersKeep == ProfileInv /\ ((\E v \in Type : Repeated(v)) \/ Copy) => ProfileInv'
  <1> SUFFICES ASSUME ProfileInv, (\E v \in Type : Repeated(v)) \/ Copy PROVE ProfileInv'
    OBVIOUS
  <1> USE BoundsAssumption DEF ProfileInv, Running, SpendOn, Activities
  <1>1. CASE \E v \in Type : Repeated(v)
    <2>1. PICK v \in Type : Repeated(v)
      BY <1>1
    <2>2. Shapes'
      BY <2>1 DEF Shapes, Repeated, Counters, Starts
    <2>3. Flags'
      BY <2>1 DEF Flags, Repeated
    <2>4. Sums'
      BY <2>1 DEF Shapes, Repeated, Sums, Counters, Starts
    <2> QED BY <2>2, <2>3, <2>4
  <1>2. CASE Copy
    <2>1. Shapes'
      BY <1>2 DEF Shapes, Copy, Counters, Starts
    <2>2. Flags'
      BY <1>2 DEF Flags, Copy
    <2>3. Sums'
      BY <1>2 DEF Shapes, Copy, Sums, Counters, Starts
    <2> QED BY <2>1, <2>2, <2>3
  <1> QED BY <1>1, <1>2

LEMMA MatchingKeeps ==
  ProfileInv /\ (CallGenerated \/ StartELoop \/ StopELoop \/ StartBuilding) => ProfileInv'
  <1> SUFFICES ASSUME ProfileInv, CallGenerated \/ StartELoop \/ StopELoop \/ StartBuilding
               PROVE  ProfileInv'
    OBVIOUS
  <1> USE BoundsAssumption DEF ProfileInv, Running
  <1>1. CASE CallGenerated
    <2>1. Shapes' /\ Flags'
      BY <1>1 DEF CallGenerated, Shapes, Flags, Starts
    <2>2. Sums'
      BY <1>1 DEF CallGenerated, Shapes, Flags, Sums, Starts, Counters
    <2> QED BY <2>1, <2>2
  <1>2. CASE StartELoop
    <2>1. Shapes' /\ Flags'
      BY <1>2 DEF StartELoop, Shapes, Flags, Starts
    <2>2. Sums'
      BY <1>2 DEF StartELoop, Shapes, Flags, Sums, Starts, Counters
    <2> QED BY <2>1, <2>2
  <1>3. CASE StopELoop
    <2>1. Shapes' /\ Flags'
      BY <1>3 DEF StopELoop, Shapes, Flags, Counters, Starts
    <2>2. Sums'
      BY <1>3 DEF StopELoop, Shapes, Flags, Sums, Starts, Counters
    <2> QED BY <2>1, <2>2
  <1>4. CASE StartBuilding
    <2>1. Shapes' /\ Flags'
      BY <1>4 DEF StartBuilding, Shapes, Flags, Counters, Starts
    <2>2. Sums'
      BY <1>4 DEF StartBuilding, Shapes, Flags, Sums, Starts, Counters
    <2> QED BY <2>1, <2>2
  <1> QED BY <1>1, <1>2, <1>3, <1>4

LEMMA StepEndsKeep == ProfileInv /\ (CallBuiltin \/ Return \/ Stop) => ProfileInv'
  <1> SUFFICES ASSUME ProfileInv, CallBuiltin \/ Return \/ Stop PROVE ProfileInv'
    OBVIOUS
  <1> USE BoundsAssumption DEF ProfileInv, Running, AfterStep
  <1>1. CASE CallBuiltin
    BY <1>1 DEF CallBuiltin, Shapes, Flags, Sums
  <1>2. CASE Return
    <2>1. Shapes' /\ Flags'
      BY <1>2 DEF Return, Shapes, Flags, Counters, Starts
    <2>2. Sums'
      BY <1>2 DEF Return, Shapes, Flags, Sums, Starts, Counters
    <2> QED BY <2>1, <2>2
  <1>3. CASE Stop
    <2>1. Flags'
      BY <1>3 DEF Stop, Shapes, Flags
    <2>3. total' \in [Counters -> Int]
      <3>1. /\ now \in Int /\ start["build"] \in Int /\ total \in [Counters -> Int]
            /\ "build" \in Counters
        BY DEF Shapes, Counters, Starts
      <3>2. total' = IF in_generated = 1
                     THEN [total EXCEPT !["build"] = @ + (now - start["build"])] ELSE total
        BY <1>3 DEF Stop
      <3> QED BY <3>1, <3>2
    <2>4. Shapes'
      BY <1>3, <2>1, <2>3 DEF Stop, Shapes, Flags
    <2>2. Sums'
      <3>1. CASE end' = "impossible"
        BY <3>1 DEF Sums
      <3>2. CASE end' # "impossible"
        <4>1. /\ pc \in {"building", "builtin", "main_loop"} /\ pc' = "exit"
              /\ spent' = spent /\ end = "none"
          BY <1>3, <3>2 DEF Stop, Shapes
        <4>2. /\ total["match"] = spent["match"] /\ total["eloop"] = spent["eloop"]
              /\ total["copy"] = spent["copy"]
              /\ total["build"] + (IF pc = "building" THEN now - start["build"] ELSE 0) = spent["build"]
          BY <4>1 DEF Shapes, Sums, Counters, Starts
        <4>3. in_generated = IF pc = "building" THEN 1 ELSE 0
          BY <4>1 DEF Flags
        <4>4. total' = IF in_generated = 1
                       THEN [total EXCEPT !["build"] = @ + (now - start["build"])] ELSE total
          BY <1>3 DEF Stop
        <4>5. /\ total'["match"] = spent["match"] /\ total'["eloop"] = spent["eloop"]
              /\ total'["copy"] = spent["copy"] /\ total'["build"] = spent["build"]
          BY <4>2, <4>3, <4>4 DEF Shapes, Counters
        <4>6. total' \in [Counters -> Int] /\ spent'["match"] \in Int /\ spent'["build"] \in Int
              /\ spent'["eloop"] \in Int
          BY <2>3, <4>1 DEF Shapes
        <4> QED BY <4>1, <4>5, <4>6 DEF Sums, Counters
      <3> QED BY <3>1, <3>2
    <2> QED BY <2>1, <2>2, <2>4
  <1> QED BY <1>1, <1>2, <1>3

LEMMA ProfileInvariance == Spec => []ProfileInv
  <1>1. Init => ProfileInv
    BY InitProfileInv
  <1>2. ProfileInv /\ [Next]_pvars => ProfileInv'
    <2> SUFFICES ASSUME ProfileInv, [Next]_pvars PROVE ProfileInv'
      OBVIOUS
    <2>1. CASE Next
      BY <2>1, TickKeeps, HelpersKeep, MatchingKeeps, StepEndsKeep DEF Next
    <2>2. CASE UNCHANGED pvars
      BY <2>2 DEF ProfileInv, Shapes, Flags, Sums, pvars
    <2> QED BY <2>1, <2>2
  <1> QED BY <1>1, <1>2, PTL DEF Spec

LEMMA InitParts == Init => Parts
  BY DEF Init, Parts, Inside, Outside, Place, Type

LEMMA PartsKept == ProfileInv /\ Parts /\ [Next]_pvars => Parts'
  <1> SUFFICES ASSUME ProfileInv, Parts, [Next]_pvars PROVE Parts'
    OBVIOUS
  <1> USE DEF ProfileInv
  <1>1. CASE Tick
    BY <1>1 DEF Tick, Parts, Inside, Outside, Shapes, SpendOn, Activities, Place, Type
  <1>2. ASSUME NEW v \in Type, Repeated(v) PROVE Parts'
    BY <1>2 DEF Repeated, Parts, Inside, Outside, Shapes, Flags, SpendOn, Activities, Place, Type
  <1>3. CASE Copy
    BY <1>3 DEF Copy, Parts, Inside, Outside, Shapes, SpendOn, Activities, Place, Type
  <1>4. CASE CallGenerated \/ StartELoop \/ StopELoop \/ StartBuilding \/ CallBuiltin
    BY <1>4 DEF CallGenerated, StartELoop, StopELoop, StartBuilding, CallBuiltin,
                Parts, Inside, Outside, Shapes, Starts
  <1>5. CASE Return \/ Stop \/ UNCHANGED pvars
    BY <1>5 DEF Return, Stop, AfterStep, pvars, Parts, Inside, Outside
  <1> QED BY <1>1, <1>2, <1>3, <1>4, <1>5 DEF Next

(* The values keep their types, the clock and the loops their bounds. *)
THEOREM TypeCorrect == Spec => []TypeOK
  <1>1. ProfileInv => TypeOK
    BY DEF ProfileInv, Shapes, TypeOK, Starts
  <1> QED BY <1>1, ProfileInvariance, PTL

(* No assertion of the profiler fails, however deep the loops are and wherever a step ends. *)
THEOREM AssertionsHold == Spec => []NoAssertFails
  <1>1. ProfileInv => NoAssertFails
    BY DEF ProfileInv, Flags, NoAssertFails
  <1> QED BY <1>1, ProfileInvariance, PTL

(* Between steps every counter is the time really spent on what it counts. *)
THEOREM CountersHold == Spec => []CountersAreTrue
  <1>1. ProfileInv => CountersAreTrue
    BY DEF ProfileInv, Shapes, Sums, CountersAreTrue, Counters
  <1> QED BY <1>1, ProfileInvariance, PTL

(* No part of the report is longer than the whole it is a part of: not for a run that ends
   between steps or while it builds and whose builtins do not compare or copy. *)
THEOREM ReportAddsUp == Spec => []PartsFitTheWhole
  <1>1. ProfileInv /\ Parts => PartsFitTheWhole
    <2> SUFFICES ASSUME ProfileInv, Parts, pc = "exit", end # "impossible", spent["helpers"] = 0,
                        NEW x \in DOMAIN Report
                 PROVE  Report[x] >= 0
      BY DEF PartsFitTheWhole
    <2>1. /\ total["match"] = spent["match"] /\ total["build"] = spent["build"]
          /\ total["eloop"] = spent["eloop"] /\ total["copy"] = spent["copy"]
      BY DEF ProfileInv, Sums, Shapes, Counters
    <2>2. /\ now \in Nat /\ start["program"] = 0
          /\ spent["match"] \in Int /\ spent["build"] \in Int /\ spent["eloop"] \in Int
          /\ spent["copy"] \in Int
          /\ \A p \in {"inside", "outside"}, v \in {"t", "e"} : repeated[p][v] \in Nat
      BY BoundsAssumption DEF ProfileInv, Shapes, Parts, Place, Type
    <2>3. /\ Inside <= spent["eloop"] /\ spent["eloop"] + Outside <= spent["match"]
          /\ 0 <= spent["copy"] /\ spent["copy"] <= spent["build"]
          /\ spent["match"] + spent["build"] <= now
      BY DEF Parts
    <2> QED
      BY <2>1, <2>2, <2>3
      DEF Report, full_time, refal_time, eloop_time, inside_and_outside, Inside, Outside
  <1>2. Spec => []Parts
    <2>1. Init => Parts
      BY InitParts
    <2>2. ProfileInv /\ ProfileInv' /\ Parts /\ [Next]_pvars => Parts'
      BY PartsKept
    <2> QED BY <2>1, <2>2, ProfileInvariance, PTL DEF Spec
  <1> QED BY <1>1, <1>2, ProfileInvariance, PTL

-----------------------------------------------------------------------------
(* The profile by functions: the lists of FunctionProfile.                  *)

(* f has the n functions of the list that starts at head, each once. *)
IsChain(f, n, head, nx) ==
  /\ n \in Nat /\ f \in [1 .. n -> Functions]
  /\ \A p, q \in 1 .. n : f[p] = f[q] => p = q
  /\ head = IF n = 0 THEN NULL ELSE f[1]
  /\ \A p \in 1 .. n : nx[f[p]] = IF p = n THEN NULL ELSE f[p + 1]

Members(f, n) == {f[p] : p \in 1 .. n}

Inserted(f, n, p, g) ==
  [q \in 1 .. n + 1 |-> IF q <= p THEN f[q] ELSE IF q = p + 1 THEN g ELSE f[q - 1]]

(* A function linked in between two neighbours, or before the first or after the last one. *)
LEMMA ChainInserted ==
  ASSUME NEW f, NEW n, NEW head, NEW nx, IsChain(f, n, head, nx),
         NEW p \in 0 .. n, NEW g \in Functions, g \notin Members(f, n), NEW nx2,
         nx2[g] = (IF p = n THEN NULL ELSE f[p + 1]),
         p # 0 => nx2[f[p]] = g,
         \A q \in 1 .. n : q # p => nx2[f[q]] = nx[f[q]]
  PROVE  /\ IsChain(Inserted(f, n, p, g), n + 1, IF p = 0 THEN g ELSE head, nx2)
         /\ Members(Inserted(f, n, p, g), n + 1) = Members(f, n) \cup {g}
  <1> DEFINE h == Inserted(f, n, p, g)
  <1>1. n \in Nat /\ p \in Nat /\ p <= n /\ f \in [1 .. n -> Functions]
    BY DEF IsChain
  <1>2. /\ \A q \in 1 .. n : q <= p => h[q] = f[q]
        /\ h[p + 1] = g
        /\ \A q \in 1 .. n : q > p => h[q + 1] = f[q]
    <2>1. ASSUME NEW q \in 1 .. n, q <= p PROVE h[q] = f[q]
      BY <1>1, <2>1 DEF Inserted
    <2>2. h[p + 1] = g
      BY <1>1 DEF Inserted
    <2>3. ASSUME NEW q \in 1 .. n, q > p PROVE h[q + 1] = f[q]
      <3>1. q + 1 \in 1 .. n + 1 /\ ~(q + 1 <= p) /\ q + 1 # p + 1 /\ (q + 1) - 1 = q
        BY <1>1, <2>3
      <3>. QED
        BY <3>1 DEF Inserted
    <2>. QED
      BY <2>1, <2>2, <2>3
  <1>3. ASSUME NEW q \in 1 .. n + 1
        PROVE  \/ q \in 1 .. n /\ q <= p
               \/ q = p + 1
               \/ \E r \in 1 .. n : r > p /\ q = r + 1
    <2>1. CASE q <= p
      BY <1>1, <2>1
    <2>2. CASE q > p + 1
      <3>1. q - 1 \in 1 .. n /\ q - 1 > p /\ q = (q - 1) + 1
        BY <1>1, <2>2
      <3>. QED
        BY <3>1
    <2>3. CASE q = p + 1
      BY <2>3
    <2>4. q <= p \/ q = p + 1 \/ q > p + 1
      BY <1>1
    <2>. QED
      BY <2>1, <2>2, <2>3, <2>4, Zenon
  <1>4. h \in [1 .. n + 1 -> Functions]
    <2>1. ASSUME NEW q \in 1 .. n + 1 PROVE h[q] \in Functions
      <3>. HIDE DEF h
      <3>1. \A r \in 1 .. n : f[r] \in Functions
        BY <1>1
      <3>2. CASE q \in 1 .. n /\ q <= p
        BY <3>1, <3>2, <1>2
      <3>3. CASE \E r \in 1 .. n : r > p /\ q = r + 1
        BY <3>1, <3>3, <1>2
      <3>. QED
        BY <3>2, <3>3, <1>2, <1>3
    <2>2. h = [q \in 1 .. n + 1 |-> h[q]]
      BY DEF Inserted
    <2>. HIDE DEF h
    <2>. QED
      BY <2>1, <2>2
  <1>. HIDE DEF h
  <1>5. Members(h, n + 1) = Members(f, n) \cup {g}
    <2>1. ASSUME NEW q \in 1 .. n + 1 PROVE h[q] \in Members(f, n) \cup {g}
      BY <1>2, <1>3 DEF Members
    <2>2. ASSUME NEW q \in 1 .. n PROVE \E r \in 1 .. n + 1 : f[q] = h[r]
      <3>1. CASE q <= p
        BY <1>1, <1>2, <3>1
      <3>2. CASE q > p
        <4>1. q + 1 \in 1 .. n + 1
          BY <1>1
        <4>. QED
          BY <4>1, <1>2, <3>2
      <3>. QED
        BY <1>1, <3>1, <3>2
    <2>3. \E r \in 1 .. n + 1 : g = h[r]
      <3>1. p + 1 \in 1 .. n + 1
        BY <1>1
      <3>. QED
        BY <3>1, <1>2
    <2>. QED
      BY <2>1, <2>2, <2>3 DEF Members
  <1>6. ASSUME NEW q \in 1 .. n + 1, NEW r \in 1 .. n + 1, h[q] = h[r] PROVE q = r
    <2>1. \A a, b \in 1 .. n : f[a] = f[b] => a = b
      BY DEF IsChain
    <2>2. \A a \in 1 .. n : f[a] # g
      BY DEF Members
    <2>3. ASSUME NEW t \in 1 .. n + 1, t # p + 1
          PROVE  \E a \in 1 .. n : h[t] = f[a] /\ ((t = a /\ a <= p) \/ (t = a + 1 /\ a > p))
      <3>1. CASE t \in 1 .. n /\ t <= p
        <4>1. h[t] = f[t]
          BY <3>1, <1>2
        <4>. QED
          BY <3>1, <4>1
      <3>2. CASE \E a \in 1 .. n : a > p /\ t = a + 1
        BY <3>2, <1>2
      <3>. QED
        BY <3>1, <3>2, <2>3, <1>3
    <2>4. CASE q = p + 1 \/ r = p + 1
      BY <2>2, <2>3, <2>4, <1>2, <1>6
    <2>5. CASE q # p + 1 /\ r # p + 1
      <3>1. PICK a \in 1 .. n : h[q] = f[a] /\ ((q = a /\ a <= p) \/ (q = a + 1 /\ a > p))
        BY <2>3, <2>5
      <3>2. PICK b \in 1 .. n : h[r] = f[b] /\ ((r = b /\ b <= p) \/ (r = b + 1 /\ b > p))
        BY <2>3, <2>5
      <3>3. a = b
        BY <3>1, <3>2, <2>1, <1>6
      <3>. QED
        BY <3>1, <3>2, <3>3, <1>1
    <2>. QED
      BY <2>4, <2>5
  <1>7. (IF p = 0 THEN g ELSE head) = h[1]
    <2>1. CASE p = 0
      BY <2>1, <1>2
    <2>2. CASE p # 0
      <3>1. 1 \in 1 .. n /\ 1 <= p /\ n # 0
        BY <2>2, <1>1
      <3>2. h[1] = f[1] /\ head = f[1]
        BY <3>1, <1>2 DEF IsChain
      <3>. QED
        BY <3>2, <2>2
    <2>. QED
      BY <2>1, <2>2
  <1>8. ASSUME NEW q \in 1 .. n + 1
        PROVE  nx2[h[q]] = IF q = n + 1 THEN NULL ELSE h[q + 1]
    <2>1. CASE q = p + 1
      <3>1. CASE p = n
        BY <2>1, <3>1, <1>2
      <3>2. CASE p # n
        <4>1. p + 1 \in 1 .. n /\ p + 1 > p
          BY <3>2, <1>1
        <4>2. h[(p + 1) + 1] = f[p + 1]
          BY <4>1, <1>2
        <4>. QED
          BY <2>1, <3>2, <4>2, <1>1, <1>2
      <3>. QED
        BY <3>1, <3>2
    <2>2. CASE q \in 1 .. n /\ q <= p
      <3>1. h[q] = f[q] /\ q # n + 1
        BY <2>2, <1>1, <1>2
      <3>2. CASE q = p
        BY <3>1, <3>2, <2>2, <1>2
      <3>3. CASE q # p
        <4>1. q + 1 \in 1 .. n /\ q + 1 <= p /\ q # n
          BY <2>2, <3>3, <1>1
        <4>2. nx2[f[q]] = f[q + 1]
          BY <4>1, <2>2, <3>3 DEF IsChain
        <4>. QED
          BY <4>1, <4>2, <3>1, <1>2
      <3>. QED
        BY <3>2, <3>3
    <2>3. CASE \E r \in 1 .. n : r > p /\ q = r + 1
      <3>1. PICK r \in 1 .. n : r > p /\ q = r + 1
        BY <2>3
      <3>2. h[q] = f[r] /\ r # p
        BY <3>1, <1>1, <1>2
      <3>3. nx2[f[r]] = IF r = n THEN NULL ELSE f[r + 1]
        BY <3>2 DEF IsChain
      <3>4. CASE r = n
        BY <3>1, <3>2, <3>3, <3>4
      <3>5. CASE r # n
        <4>1. r + 1 \in 1 .. n /\ r + 1 > p /\ q # n + 1
          BY <3>1, <3>5, <1>1
        <4>2. h[(r + 1) + 1] = f[r + 1]
          BY <4>1, <1>2
        <4>. QED
          BY <4>1, <4>2, <3>1, <3>2, <3>3, <3>5
      <3>. QED
        BY <3>4, <3>5
    <2>. QED
      BY <2>1, <2>2, <2>3, <1>3
  <1>9. IsChain(h, n + 1, IF p = 0 THEN g ELSE head, nx2)
    <2>1. n + 1 \in Nat /\ n + 1 # 0
      BY <1>1
    <2>. QED
      BY <2>1, <1>4, <1>6, <1>7, <1>8 DEF IsChain
  <1>. QED
    BY <1>5, <1>9 DEF h

(* The list without its first function. *)
LEMMA ChainRest ==
  ASSUME NEW f, NEW n, NEW head, NEW nx, IsChain(f, n, head, nx), head # NULL
  PROVE  LET rest == [p \in 1 .. n - 1 |-> f[p + 1]]
         IN  /\ head \in Functions /\ head \in Members(f, n) /\ n # 0
             /\ IsChain(rest, n - 1, nx[head], nx)
             /\ Members(rest, n - 1) = Members(f, n) \ {head}
  <1> DEFINE rest == [p \in 1 .. n - 1 |-> f[p + 1]]
  <1>1. /\ n \in Nat /\ n # 0 /\ f \in [1 .. n -> Functions]
        /\ head = f[1] /\ 1 \in 1 .. n
        /\ \A p, q \in 1 .. n : f[p] = f[q] => p = q
        /\ \A p \in 1 .. n : nx[f[p]] = IF p = n THEN NULL ELSE f[p + 1]
    BY DEF IsChain
  <1>2. head \in Functions /\ head \in Members(f, n)
    BY <1>1 DEF Members
  <1>3. \A p \in 1 .. n - 1 : p + 1 \in 1 .. n /\ p + 1 # 1 /\ rest[p] = f[p + 1]
    BY <1>1
  <1>4. rest \in [1 .. n - 1 -> Functions]
    BY <1>1
  <1>. HIDE DEF rest
  <1>5. \A p, q \in 1 .. n - 1 : rest[p] = rest[q] => p = q
    BY <1>1, <1>3
  <1>6. nx[head] = IF n - 1 = 0 THEN NULL ELSE rest[1]
    <2>1. CASE n = 1
      BY <2>1, <1>1
    <2>2. CASE n # 1
      <3>1. 1 \in 1 .. n - 1 /\ n - 1 # 0
        BY <2>2, <1>1
      <3>. QED
        BY <3>1, <2>2, <1>1, <1>3
    <2>. QED
      BY <2>1, <2>2
  <1>7. ASSUME NEW p \in 1 .. n - 1
        PROVE  nx[rest[p]] = IF p = n - 1 THEN NULL ELSE rest[p + 1]
    <2>1. nx[f[p + 1]] = IF p + 1 = n THEN NULL ELSE f[(p + 1) + 1]
      BY <1>1, <1>3
    <2>2. CASE p = n - 1
      <3>1. p + 1 = n
        BY <2>2, <1>1
      <3>. QED
        BY <2>1, <2>2, <3>1, <1>3
    <2>3. CASE p # n - 1
      <3>1. p + 1 \in 1 .. n - 1 /\ p + 1 # n
        BY <2>3, <1>1
      <3>. QED
        BY <2>1, <2>3, <3>1, <1>3
    <2>. QED
      BY <2>2, <2>3
  <1>8. n - 1 \in Nat
    BY <1>1
  <1>9. IsChain(rest, n - 1, nx[head], nx)
    BY <1>4, <1>5, <1>6, <1>7, <1>8 DEF IsChain
  <1>10. Members(rest, n - 1) = Members(f, n) \ {head}
    <2>1. ASSUME NEW p \in 1 .. n - 1 PROVE rest[p] \in Members(f, n) \ {head}
      BY <1>1, <1>3 DEF Members
    <2>2. ASSUME NEW p \in 1 .. n, f[p] # head PROVE \E q \in 1 .. n - 1 : rest[q] = f[p]
      <3>1. p - 1 \in 1 .. n - 1 /\ (p - 1) + 1 = p
        BY <2>2, <1>1
      <3>. QED
        BY <3>1, <1>3
    <2>. QED
      BY <2>1, <2>2 DEF Members
  <1>. QED
    BY <1>1, <1>2, <1>9, <1>10 DEF rest

(* A list does not change when the next of no member does. *)
LEMMA ChainKept ==
  ASSUME NEW f, NEW n, NEW head, NEW nx, IsChain(f, n, head, nx), NEW nx2,
         \A g \in Members(f, n) : nx2[g] = nx[g]
  PROVE  IsChain(f, n, head, nx2)
  <1>1. \A p \in 1 .. n : nx2[f[p]] = nx[f[p]]
    BY DEF Members
  <1>. QED
    BY <1>1 DEF IsChain

-----------------------------------------------------------------------------
(* The sort makes the profile.                                              *)

Descends(f, n, time) == \A p \in 1 .. n - 1 : time[f[p]] >= time[f[p + 1]]

(* The n functions u are still in the list of the functions called, the m functions s in the
   sorted one; func, while it is inserted, is in neither. *)
Lists(u, n, s, m) ==
  /\ IsChain(u, n, IF stage = "done" THEN NULL ELSE list, next)
  /\ IsChain(s, m, sorted, next)
  /\ Descends(s, m, seconds)
  /\ Members(u, n) \cap Members(s, m) = {}
  /\ called = Members(u, n) \cup Members(s, m) \cup (IF stage = "insert" THEN {func} ELSE {})

(* Only GO, which was called first, and the functions not called have a null next: a callee
   with a null next is new, unless it is GO. *)
Calling(u, n, m) ==
  /\ m = 0 /\ (n # 0 => u[n] = First)
  /\ \A g \in Functions \ called : next[g] = NULL

(* Every function of the sorted list up to after is slower than func. *)
Inserting(u, n, s, m) ==
  /\ func \in Functions /\ func \notin Members(u, n) \cup Members(s, m)
  /\ after = NULL \/ \E p \in 1 .. m : after = s[p] /\ seconds[s[p]] > seconds[func]

Listed(u, n, s, m) ==
  /\ Lists(u, n, s, m)
  /\ stage = "main_loop" => Calling(u, n, m)
  /\ stage = "insert" => Inserting(u, n, s, m)
  /\ stage = "done" => list = sorted

FInv ==
  /\ stage \in {"main_loop", "sort", "insert", "done"}
  /\ seconds \in [Functions -> Nat]
  /\ next \in [Functions -> Functions \cup {NULL}]
  /\ called \subseteq Functions
  /\ \E u, n, s, m : Listed(u, n, s, m)

LEMMA EmptyChain ==
  ASSUME NEW nx
  PROVE  IsChain([p \in 1 .. 0 |-> First], 0, NULL, nx) /\ Members([p \in 1 .. 0 |-> First], 0) = {}
  BY FirstAssumption DEF IsChain, Members

LEMMA ProfileInitSound ==
  ProfileInit => FInv
  <1>. SUFFICES ASSUME ProfileInit PROVE FInv
    OBVIOUS
  <1> DEFINE e == [p \in 1 .. 0 |-> First]
  <1>1. IsChain(e, 0, NULL, next) /\ Members(e, 0) = {}
    BY EmptyChain
  <1>. HIDE DEF e
  <1>2. Lists(e, 0, e, 0)
    BY <1>1 DEF ProfileInit, Lists, Descends
  <1>3. Calling(e, 0, 0)
    BY DEF ProfileInit, Calling
  <1>4. Listed(e, 0, e, 0)
    BY <1>2, <1>3 DEF Listed, ProfileInit
  <1>. QED
    BY <1>4 DEF FInv, ProfileInit

LEMMA StepOfSound ==
  ASSUME CallsFirst = FALSE, FInv, NEW f \in Functions, NEW d \in 0 .. MaxTime, StepOf(f, d)
  PROVE  FInv'
  <1>1. PICK u, n, s, m : Listed(u, n, s, m)
    BY DEF FInv
  <1>2. /\ stage = "main_loop" /\ stage' = "main_loop"
        /\ sorted' = sorted /\ func' = func /\ after' = after
        /\ called' = called \cup {f}
        /\ seconds' = [seconds EXCEPT ![f] = @ + d]
        /\ IF called = {} THEN f = First ELSE f # First
    BY DEF StepOf
  <1>3. /\ IsChain(u, n, list, next) /\ IsChain(s, m, sorted, next)
        /\ Members(u, n) \cap Members(s, m) = {}
        /\ called = Members(u, n) \cup Members(s, m)
        /\ m = 0 /\ (n # 0 => u[n] = First)
        /\ \A g \in Functions \ called : next[g] = NULL
    BY <1>1, <1>2 DEF Listed, Lists, Calling
  <1>4. Members(s, m) = {}
    BY <1>3 DEF Members
  <1>5. seconds' \in [Functions -> Nat] /\ called' \subseteq Functions
    <2>1. d \in Nat
      BY TimeAssumption
    <2>. QED
      BY <2>1, <1>2 DEF FInv
  <1>6. CASE next[f] # NULL
    <2>1. next' = next /\ list' = list /\ called' = called
      <3>1. f \in called
        BY <1>3, <1>6
      <3>. QED
        BY <3>1, <1>2, <1>6 DEF StepOf
    <2>2. Lists(u, n, s, m)'
      <3>1. Descends(s, m, seconds')
        BY <1>3 DEF Descends
      <3>2. IsChain(u, n, list', next') /\ IsChain(s, m, sorted', next')
        BY <2>1, <1>2, <1>3
      <3>. QED
        BY <2>1, <3>1, <3>2, <1>2, <1>3 DEF Lists
    <2>3. Listed(u, n, s, m)'
      BY <2>1, <2>2, <1>2, <1>3 DEF Listed, Calling
    <2>. QED
      BY <2>1, <2>3, <1>2, <1>5 DEF FInv
  <1>7. CASE next[f] = NULL
    <2>1. next' = [next EXCEPT ![f] = list] /\ list' = f
      BY <1>7 DEF StepOf
    <2>2. f \notin called
      <3>1. ASSUME f \in called PROVE FALSE
        <4>1. PICK p \in 1 .. n : f = u[p]
          BY <3>1, <1>3, <1>4 DEF Members
        <4>2. n \in Nat /\ n # 0 /\ (p # n => p + 1 \in 1 .. n /\ u[p + 1] \in Functions)
          BY <4>1, <1>3 DEF IsChain
        <4>3. p = n
          <5>1. next[u[p]] = IF p = n THEN NULL ELSE u[p + 1]
            BY <4>1, <1>3 DEF IsChain
          <5>. QED
            BY <5>1, <4>1, <4>2, <1>7, FirstAssumption
        <4>4. f = First
          BY <4>1, <4>2, <4>3, <1>3
        <4>. QED
          BY <3>1, <4>4, <1>2
      <3>. QED
        BY <3>1
    <2>3. next' \in [Functions -> Functions \cup {NULL}]
      <3>1. list \in Functions \cup {NULL}
        BY <1>3 DEF IsChain
      <3>. QED
        BY <3>1, <2>1 DEF FInv
    <2>4. next'[f] = list /\ \A g \in Functions \ {f} : next'[g] = next[g]
      BY <2>1 DEF FInv
    <2>5. n \in Nat /\ u \in [1 .. n -> Functions]
      BY <1>3 DEF IsChain
    <2> DEFINE h == Inserted(u, n, 0, f)
    <2>6. /\ IsChain(h, n + 1, f, next')
          /\ Members(h, n + 1) = Members(u, n) \cup {f}
      <3>1. f \notin Members(u, n)
        BY <2>2, <1>3
      <3>2. \A q \in 1 .. n : u[q] \in Functions /\ u[q] # f
        BY <3>1, <2>5 DEF Members
      <3>3. \A q \in 1 .. n : next'[u[q]] = next[u[q]]
        BY <3>2, <2>4
      <3>4. next'[f] = IF 0 = n THEN NULL ELSE u[0 + 1]
        BY <2>4, <1>3 DEF IsChain
      <3>. QED
        BY <3>1, <3>3, <3>4, <2>5, <1>3, ChainInserted
    <2>7. h[n + 1] = First
      <3>1. CASE n = 0
        <4>1. called = {}
          BY <3>1, <1>3, <1>4 DEF Members
        <4>2. h[n + 1] = f
          BY <3>1 DEF Inserted
        <4>. QED
          BY <4>1, <4>2, <1>2
      <3>2. CASE n # 0
        <4>1. h[n + 1] = u[n]
          BY <3>2, <2>5 DEF Inserted
        <4>. QED
          BY <4>1, <3>2, <1>3
      <3>. QED
        BY <3>1, <3>2
    <2>. HIDE DEF h
    <2>8. IsChain(s, m, sorted, next')
      BY <1>3, <1>4, ChainKept
    <2>9. Lists(h, n + 1, s, m)'
      BY <2>1, <2>6, <2>8, <1>2, <1>3, <1>4 DEF Lists, Descends
    <2>10. \A g \in Functions \ called' : next'[g] = NULL
      BY <2>4, <1>2, <1>3
    <2>11. Listed(h, n + 1, s, m)'
      BY <2>7, <2>9, <2>10, <1>2, <1>3 DEF Listed, Calling
    <2>. QED
      BY <2>3, <2>11, <1>2, <1>5 DEF FInv
  <1>. QED
    BY <1>6, <1>7

LEMMA ExitSound ==
  ASSUME FInv, Exit
  PROVE  FInv'
  <1>1. PICK u, n, s, m : Listed(u, n, s, m)
    BY DEF FInv
  <1>2. /\ stage = "main_loop" /\ stage' = "sort"
        /\ UNCHANGED <<clock, seconds, next, list, sorted, func, after, called>>
    BY DEF Exit
  <1>3. Listed(u, n, s, m)'
    BY <1>1, <1>2 DEF Listed, Lists, Descends
  <1>. QED
    BY <1>2, <1>3 DEF FInv

LEMMA TakeSound ==
  ASSUME FInv, Take
  PROVE  FInv'
  <1>1. PICK u, n, s, m : Listed(u, n, s, m)
    BY DEF FInv
  <1>2. /\ stage = "sort" /\ list # NULL /\ stage' = "insert"
        /\ func' = list /\ list' = next[list] /\ after' = NULL
        /\ UNCHANGED <<clock, seconds, next, sorted, called>>
    BY DEF Take
  <1>3. /\ IsChain(u, n, list, next) /\ IsChain(s, m, sorted, next) /\ Descends(s, m, seconds)
        /\ Members(u, n) \cap Members(s, m) = {}
        /\ called = Members(u, n) \cup Members(s, m)
    BY <1>1, <1>2 DEF Listed, Lists
  <1> DEFINE rest == [p \in 1 .. n - 1 |-> u[p + 1]]
  <1>4. /\ list \in Functions /\ list \in Members(u, n)
        /\ IsChain(rest, n - 1, next[list], next)
        /\ Members(rest, n - 1) = Members(u, n) \ {list}
    BY <1>2, <1>3, ChainRest
  <1>. HIDE DEF rest
  <1>5. Lists(rest, n - 1, s, m)'
    <2>1. Members(rest, n - 1) \cap Members(s, m) = {}
      BY <1>3, <1>4
    <2>2. called = Members(rest, n - 1) \cup Members(s, m) \cup {list}
      BY <1>3, <1>4
    <2>. QED
      BY <2>1, <2>2, <1>2, <1>3, <1>4 DEF Lists, Descends
  <1>6. Inserting(rest, n - 1, s, m)'
    BY <1>2, <1>3, <1>4 DEF Inserting
  <1>7. Listed(rest, n - 1, s, m)'
    BY <1>2, <1>5, <1>6 DEF Listed
  <1>. QED
    BY <1>2, <1>7 DEF FInv

(* Where the inner loop stands: p functions of the sorted list are before the place. *)
LEMMA PlaceOfFunc ==
  ASSUME stage = "insert", NEW u, NEW n, NEW s, NEW m, Listed(u, n, s, m)
  PROVE  \E p \in 0 .. m : /\ after = IF p = 0 THEN NULL ELSE s[p]
                           /\ Parent = IF p = m THEN NULL ELSE s[p + 1]
                           /\ p # 0 => seconds[s[p]] > seconds[func]
  <1>1. IsChain(s, m, sorted, next) /\ Inserting(u, n, s, m)
    BY DEF Listed, Lists
  <1>2. /\ m \in Nat /\ s \in [1 .. m -> Functions]
        /\ sorted = IF m = 0 THEN NULL ELSE s[1]
        /\ \A q \in 1 .. m : next[s[q]] = IF q = m THEN NULL ELSE s[q + 1]
    BY <1>1 DEF IsChain
  <1>3. CASE after = NULL
    <2>1. Parent = IF 0 = m THEN NULL ELSE s[0 + 1]
      BY <1>2, <1>3 DEF Parent
    <2>2. 0 \in 0 .. m
      BY <1>2
    <2>. QED
      BY <2>1, <2>2, <1>3
  <1>4. CASE after # NULL
    <2>1. PICK p \in 1 .. m : after = s[p] /\ seconds[s[p]] > seconds[func]
      BY <1>1, <1>4 DEF Inserting
    <2>2. Parent = IF p = m THEN NULL ELSE s[p + 1]
      BY <1>2, <1>4, <2>1 DEF Parent
    <2>3. p \in 0 .. m /\ p # 0
      BY <1>2
    <2>. QED
      BY <2>1, <2>2, <2>3
  <1>. QED
    BY <1>3, <1>4

LEMMA AdvanceSound ==
  ASSUME FInv, Advance
  PROVE  FInv'
  <1>1. PICK u, n, s, m : Listed(u, n, s, m)
    BY DEF FInv
  <1>2. /\ stage = "insert" /\ stage' = "insert" /\ GoesOn /\ after' = Parent
        /\ UNCHANGED <<clock, seconds, next, list, sorted, func, called>>
    BY DEF Advance
  <1>3. PICK p \in 0 .. m : /\ after = IF p = 0 THEN NULL ELSE s[p]
                            /\ Parent = IF p = m THEN NULL ELSE s[p + 1]
                            /\ p # 0 => seconds[s[p]] > seconds[func]
    BY <1>1, <1>2, PlaceOfFunc
  <1>4. m \in Nat /\ Inserting(u, n, s, m)
    BY <1>1, <1>2 DEF Listed, Lists, IsChain
  <1>5. p + 1 \in 1 .. m /\ after' = s[p + 1] /\ seconds[s[p + 1]] > seconds[func]
    BY <1>2, <1>3, <1>4 DEF GoesOn, Slower
  <1>6. \E q \in 1 .. m : after' = s[q] /\ seconds[s[q]] > seconds[func]
    BY <1>5
  <1>7. Inserting(u, n, s, m)'
    BY <1>2, <1>4, <1>6 DEF Inserting
  <1>8. Listed(u, n, s, m)'
    BY <1>1, <1>2, <1>7 DEF Listed, Lists, Descends
  <1>. QED
    BY <1>2, <1>8 DEF FInv

LEMMA InsertSound ==
  ASSUME FInv, Insert
  PROVE  FInv'
  <1>1. PICK u, n, s, m : Listed(u, n, s, m)
    BY DEF FInv
  <1>2. /\ stage = "insert" /\ stage' = "sort" /\ ~GoesOn
        /\ next' = [[next EXCEPT ![func] = Parent] EXCEPT
                      ![IF after = NULL THEN func ELSE after] = IF after = NULL THEN Parent ELSE func]
        /\ sorted' = (IF after = NULL THEN func ELSE sorted)
        /\ UNCHANGED <<clock, seconds, list, func, after, called>>
    BY DEF Insert
  <1>3. PICK p \in 0 .. m : /\ after = IF p = 0 THEN NULL ELSE s[p]
                            /\ Parent = IF p = m THEN NULL ELSE s[p + 1]
                            /\ p # 0 => seconds[s[p]] > seconds[func]
    BY <1>1, <1>2, PlaceOfFunc
  <1>4. /\ IsChain(u, n, list, next) /\ IsChain(s, m, sorted, next) /\ Descends(s, m, seconds)
        /\ Members(u, n) \cap Members(s, m) = {}
        /\ called = Members(u, n) \cup Members(s, m) \cup {func}
        /\ func \in Functions /\ func \notin Members(u, n) /\ func \notin Members(s, m)
    BY <1>1, <1>2 DEF Listed, Lists, Inserting
  <1>5. /\ m \in Nat /\ n \in Nat /\ s \in [1 .. m -> Functions] /\ p \in Nat /\ p <= m
        /\ next \in [Functions -> Functions \cup {NULL}]
        /\ seconds \in [Functions -> Nat]
        /\ \A q, r \in 1 .. m : s[q] = s[r] => q = r
    BY <1>4 DEF IsChain, FInv
  <1>6. \A q \in 1 .. m : s[q] \in Members(s, m) /\ s[q] \in Functions /\ s[q] # NULL /\ s[q] # func
    BY <1>4, <1>5, FirstAssumption DEF Members
  <1>7. p # 0 => p \in 1 .. m
    BY <1>5
  <1>8. after = NULL <=> p = 0
    BY <1>3, <1>6, <1>7
  <1>9. /\ next' \in [Functions -> Functions \cup {NULL}]
        /\ next'[func] = Parent
        /\ p # 0 => next'[s[p]] = func
        /\ \A g \in Functions : g # func /\ (p = 0 \/ g # s[p]) => next'[g] = next[g]
    <2>1. Parent \in Functions \cup {NULL}
      <3>1. p # m => p + 1 \in 1 .. m
        BY <1>5
      <3>. QED
        BY <3>1, <1>3, <1>6
    <2>2. CASE p = 0
      <3>1. next' = [[next EXCEPT ![func] = Parent] EXCEPT ![func] = Parent]
        BY <2>2, <1>2, <1>8
      <3>. QED
        BY <3>1, <2>1, <2>2, <1>4, <1>5
    <2>3. CASE p # 0
      <3>1. next' = [[next EXCEPT ![func] = Parent] EXCEPT ![s[p]] = func]
        BY <2>3, <1>2, <1>3, <1>8
      <3>2. s[p] \in Functions /\ s[p] # func
        BY <2>3, <1>6, <1>7
      <3>. QED
        BY <3>1, <3>2, <2>1, <2>3, <1>4, <1>5
    <2>. QED
      BY <2>2, <2>3
  <1>10. PICK h : h = Inserted(s, m, p, func)
    OBVIOUS
  <1>11. /\ IsChain(h, m + 1, IF p = 0 THEN func ELSE sorted, next')
         /\ Members(h, m + 1) = Members(s, m) \cup {func}
    <2>1. next'[func] = IF p = m THEN NULL ELSE s[p + 1]
      BY <1>3, <1>9
    <2>2. \A q \in 1 .. m : q # p => next'[s[q]] = next[s[q]]
      BY <1>5, <1>6, <1>7, <1>9
    <2>. QED
      BY <2>1, <2>2, <1>4, <1>9, <1>10, ChainInserted
  <1>12. Descends(h, m + 1, seconds)
    <2>. SUFFICES ASSUME NEW q \in 1 .. m PROVE seconds[h[q]] >= seconds[h[q + 1]]
      BY <1>5 DEF Descends
    <2>1. \A r \in 1 .. m + 1 :
            h[r] = IF r <= p THEN s[r] ELSE IF r = p + 1 THEN func ELSE s[r - 1]
      BY <1>5, <1>10 DEF Inserted
    <2>2. \A r \in 1 .. m - 1 : seconds[s[r]] >= seconds[s[r + 1]]
      BY <1>4 DEF Descends
    <2>3. \A g \in Functions : seconds[g] \in Nat
      BY <1>5
    <2>4. q \in 1 .. m + 1 /\ q + 1 \in 1 .. m + 1 /\ (q + 1) - 1 = q
      BY <1>5
    <2>5. CASE q < p
      <3>1. h[q] = s[q] /\ h[q + 1] = s[q + 1] /\ q \in 1 .. m - 1
        BY <2>1, <2>4, <2>5, <1>5
      <3>. QED
        BY <3>1, <2>2
    <2>6. CASE q = p
      <3>1. h[q] = s[p] /\ h[q + 1] = func /\ p # 0 /\ s[p] \in Functions
        BY <2>1, <2>4, <2>6, <1>5, <1>6
      <3>. QED
        BY <3>1, <2>3, <1>3, <1>4
    <2>7. CASE q = p + 1
      <3>1. h[q] = func /\ h[q + 1] = s[p + 1] /\ p # m /\ s[p + 1] \in Functions /\ s[p + 1] # NULL
        BY <2>1, <2>4, <2>7, <1>5, <1>6
      <3>2. Parent = s[p + 1]
        BY <3>1, <1>3
      <3>3. ~(seconds[s[p + 1]] > seconds[func])
        BY <3>1, <3>2, <1>2 DEF GoesOn, Slower
      <3>4. seconds[s[p + 1]] \in Nat /\ seconds[func] \in Nat
        BY <3>1, <2>3, <1>4
      <3>. QED
        BY <3>1, <3>3, <3>4
    <2>8. CASE q > p + 1
      <3>1. h[q] = s[q - 1] /\ h[q + 1] = s[q] /\ q - 1 \in 1 .. m - 1 /\ (q - 1) + 1 = q
        BY <2>1, <2>4, <2>8, <1>5
      <3>2. seconds[s[q - 1]] >= seconds[s[(q - 1) + 1]]
        BY <3>1, <2>2
      <3>. QED
        BY <3>1, <3>2
    <2>. QED
      BY <2>5, <2>6, <2>7, <2>8, <1>5
  <1>13. IsChain(u, n, list, next')
    <2>1. \A g \in Members(u, n) : g \in Functions /\ g # func /\ (p = 0 \/ g # s[p])
      <3>1. \A g \in Members(u, n) : g \in Functions
        BY <1>4 DEF IsChain, Members
      <3>. QED
        BY <3>1, <1>4, <1>6, <1>7
    <2>2. \A g \in Members(u, n) : next'[g] = next[g]
      BY <2>1, <1>9
    <2>. QED
      BY <2>2, <1>4, ChainKept
  <1>14. Lists(u, n, h, m + 1)'
    <2>1. sorted' = IF p = 0 THEN func ELSE sorted
      BY <1>2, <1>8
    <2>2. Members(u, n) \cap Members(h, m + 1) = {}
          /\ called = Members(u, n) \cup Members(h, m + 1) \cup {}
      BY <1>4, <1>11
    <2>3. IsChain(u, n, list', next') /\ IsChain(h, m + 1, sorted', next')
      BY <2>1, <1>2, <1>11, <1>13
    <2>4. Descends(h, m + 1, seconds')
      BY <1>2, <1>12
    <2>. QED
      BY <2>2, <2>3, <2>4, <1>2 DEF Lists
  <1>15. Listed(u, n, h, m + 1)'
    BY <1>2, <1>14 DEF Listed
  <1>. QED
    BY <1>2, <1>9, <1>15 DEF FInv

LEMMA PrintProfileSound ==
  ASSUME FInv, PrintProfile
  PROVE  FInv'
  <1>1. PICK u, n, s, m : Listed(u, n, s, m)
    BY DEF FInv
  <1>2. /\ stage = "sort" /\ list = NULL /\ list' = sorted /\ stage' = "done"
        /\ UNCHANGED <<clock, seconds, next, sorted, func, after, called>>
    BY DEF PrintProfile
  <1>3. Listed(u, n, s, m)'
    BY <1>1, <1>2 DEF Listed, Lists, Descends
  <1>. QED
    BY <1>2, <1>3 DEF FInv

LEMMA ProfileNextSound ==
  ASSUME CallsFirst = FALSE, FInv, [ProfileNext]_fvars
  PROVE  FInv'
  <1>1. CASE UNCHANGED fvars
    <2>1. PICK u, n, s, m : Listed(u, n, s, m)
      BY DEF FInv
    <2>2. Listed(u, n, s, m)'
      BY <2>1, <1>1 DEF Listed, Lists, Calling, Inserting, Descends, fvars
    <2>. QED
      BY <2>2, <1>1 DEF FInv, fvars
  <1>. QED
    BY <1>1, StepOfSound, ExitSound, TakeSound, AdvanceSound, InsertSound, PrintProfileSound
       DEF ProfileNext, Sort

LEMMA SortedAtTheEnd ==
  FInv => ProfileIsSorted
  <1>. SUFFICES ASSUME FInv, stage = "done" PROVE ProfileIsSorted
    BY DEF ProfileIsSorted
  <1>1. PICK u, n, s, m : Listed(u, n, s, m)
    BY DEF FInv
  <1>2. /\ IsChain(u, n, NULL, next) /\ IsChain(s, m, list, next) /\ Descends(s, m, seconds)
        /\ called = Members(u, n) \cup Members(s, m)
    BY <1>1 DEF Listed, Lists
  <1>3. n = 0
    <2>1. n # 0 => 1 \in 1 .. n /\ u[1] \in Functions
      BY <1>2 DEF IsChain
    <2>. QED
      BY <2>1, <1>2, FirstAssumption DEF IsChain
  <1>4. called = Members(s, m)
    BY <1>2, <1>3 DEF Members
  <1>5. /\ m \in Nat /\ s \in [1 .. m -> Functions]
        /\ \A p, q \in 1 .. m : s[p] = s[q] => p = q
        /\ list = IF m = 0 THEN NULL ELSE s[1]
        /\ \A p \in 1 .. m : next[s[p]] = IF p = m THEN NULL ELSE s[p + 1]
    BY <1>2 DEF IsChain
  <1>6. s \in [1 .. m -> called] /\ \A f \in called : \E p \in 1 .. m : s[p] = f
    BY <1>4, <1>5 DEF Members
  <1>7. Cardinality(called) = m
    <2>1. s \in Bijection(1 .. m, called)
      BY <1>5, <1>6, Fun_IsBij
    <2>2. ExistsBijection(1 .. m, called)
      BY <2>1 DEF ExistsBijection
    <2>. QED
      BY <2>2, <1>5, FS_CountingElements
  <1>8. s \in Orders(called)
    BY <1>6, <1>7 DEF Orders
  <1>9. Len(s) = m
    BY <1>5
  <1>10. IsListFrom(s, list)
    <2>1. CASE m = 0
      <3>1. s = <<>>
        BY <2>1, <1>5
      <3>. QED
        BY <3>1, <2>1, <1>5 DEF IsListFrom
    <2>2. CASE m # 0
      <3>1. s # <<>>
        BY <2>2, <1>9
      <3>. QED
        BY <3>1, <2>2, <1>5, <1>9 DEF IsListFrom
    <2>. QED
      BY <2>1, <2>2
  <1>11. \A p \in 1 .. Len(s) - 1 : seconds[s[p]] >= seconds[s[p + 1]]
    BY <1>2, <1>9 DEF Descends
  <1>. QED
    BY <1>8, <1>10, <1>11 DEF ProfileIsSorted

(* The profile by functions is what print_functions_profile promises, if the program does
   not call GO itself: every function that made a step once, the slowest first. *)
THEOREM ProfileSorts ==
  ASSUME CallsFirst = FALSE
  PROVE  ProfileSpec => []ProfileIsSorted
  <1>1. FInv /\ [ProfileNext]_fvars => FInv'
    BY ProfileNextSound
  <1>. QED
    BY <1>1, ProfileInitSound, SortedAtTheEnd, PTL DEF ProfileSpec
=============================================================================
