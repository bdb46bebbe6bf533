------------------------------- MODULE Profiler -------------------------------
(***************************************************************************)
(* The built-in profiler of refal05rts.c (R05_SHOW_STAT): the clock        *)
(* readings the runtime takes around the steps of the Refal machine and    *)
(* the report print_profile makes of them.                                 *)
(*                                                                         *)
(* Of a step only the calls to the profiler remain, in the order in which  *)
(* generated code and builtins make them.  clock() moves between any two   *)
(* of them; spent is what really happened.                                 *)
(***************************************************************************)
EXTENDS Integers

CONSTANTS
  MaxClock,    \* bound: the clock's last value
  MaxLoops     \* bound: e-loops inside one another in a sentence

ASSUME BoundsAssumption == MaxClock \in Nat /\ MaxLoops \in Nat

VARIABLES
  pc,            \* "main_loop", "matching", "building", "builtin" or "exit"
  loops,         \* e-loops the generated code is in
  now,           \* clock()
  start,         \* s_start_..._time of "program", "match", "build", "eloop"
  total,         \* s_total_..._time of "match", "build", "eloop", "copy"
  repeated,      \* s_total_match_repeated_[te]var_time, [_outside_e]
  in_generated,  \* s_in_generated
  in_e_loop,     \* s_in_e_loop
  aborted,       \* whether an assertion has failed
  end,           \* how the program ended: "none", "normal", "impossible", "no memory", "builtin"
  spent          \* history: time really spent, by activity

pvars == <<pc, loops, now, start, total, repeated, in_generated, in_e_loop, aborted, end, spent>>

Type  == {"t", "e"}
Place == {"inside", "outside"}

Init ==
  /\ pc = "main_loop" /\ loops = 0 /\ now = 0
  /\ start = [x \in {"program", "match", "build", "eloop"} |-> 0]
  /\ total = [x \in {"match", "build", "eloop", "copy"} |-> 0]
  /\ repeated = [p \in Place |-> [v \in Type |-> 0]]
  /\ in_generated = 0 /\ in_e_loop = 0
  /\ aborted = FALSE /\ end = "none"
  /\ spent = [x \in {"match", "build", "eloop", "copy", "helpers"} |-> 0]

Running == pc # "exit" /\ ~aborted

\* What is going on while time passes.
Activities == CASE pc = "matching" /\ loops = 0 -> {"match"}
                [] pc = "matching" /\ loops # 0 -> {"match", "eloop"}
                [] pc = "building" -> {"build"}
                [] OTHER -> {}

SpendOn(activities) == spent' = [x \in DOMAIN spent |-> spent[x] + IF x \in activities THEN 1 ELSE 0]

\* The clock ticks.
Tick ==
  /\ Running /\ now < MaxClock
  /\ now' = now + 1
  /\ SpendOn(Activities)
  /\ UNCHANGED <<pc, loops, start, total, repeated, in_generated, in_e_loop, aborted, end>>

-----------------------------------------------------------------------------
(* Calls from generated functions.                                          *)

\* r05_this_is_generated_function
CallGenerated ==
  /\ Running /\ pc = "main_loop" /\ pc' = "matching"
  /\ start' = [start EXCEPT !["match"] = now]
  /\ in_generated' = 1
  /\ UNCHANGED <<loops, now, total, repeated, in_e_loop, aborted, end, spent>>

\* r05_start_e_loop
StartELoop ==
  /\ Running /\ pc = "matching" /\ loops < MaxLoops
  /\ aborted' = (in_generated = 0)
  /\ start' = (IF in_e_loop = 0 THEN [start EXCEPT !["eloop"] = now] ELSE start)
  /\ in_e_loop' = in_e_loop + 1
  /\ loops' = loops + 1
  /\ UNCHANGED <<pc, now, total, repeated, in_generated, end, spent>>

\* r05_stop_e_loop: the loop is exhausted.
StopELoop ==
  /\ Running /\ pc = "matching" /\ loops > 0
  /\ aborted' = (in_generated = 0)
  /\ in_e_loop' = in_e_loop - 1
  /\ total' = (IF in_e_loop = 1 THEN [total EXCEPT !["eloop"] = @ + (now - start["eloop"])] ELSE total)
  /\ loops' = loops - 1
  /\ UNCHANGED <<pc, now, start, repeated, in_generated, end, spent>>

\* r05_repeated_tevar_left and _right, in generated code and in buried_query: a comparison of
\* one tick.
Repeated(v) ==
  /\ Running
  /\ pc = "matching" \/ (pc = "builtin" /\ v = "e")
  /\ now < MaxClock /\ now' = now + 1
  /\ repeated' = [repeated EXCEPT ![IF in_e_loop # 0 THEN "inside" ELSE "outside"][v] = @ + 1]
  /\ SpendOn(Activities \cup (IF pc = "builtin" THEN {"helpers"} ELSE {}))
  /\ UNCHANGED <<pc, loops, start, total, in_generated, in_e_loop, aborted, end>>

\* Mutant of StartBuilding: the loops the match was found in go on being counted.
StartBuildingInLoop ==
  /\ Running /\ pc = "matching" /\ pc' = "building"
  /\ start' = [start EXCEPT !["build"] = now]
  /\ total' = [total EXCEPT !["match"] = @ + (now - start["match"]),
                            !["eloop"] = @ + IF in_e_loop > 0 THEN now - start["eloop"] ELSE 0]
  /\ loops' = 0
  /\ UNCHANGED <<now, repeated, in_generated, in_e_loop, aborted, end, spent>>

\* Mutant of StartBuilding: the open e-loop is not counted.
StartBuildingNoLoop ==
  /\ Running /\ pc = "matching" /\ pc' = "building"
  /\ start' = [start EXCEPT !["build"] = now]
  /\ total' = [total EXCEPT !["match"] = @ + (now - start["match"])]
  /\ in_e_loop' = 0 /\ loops' = 0
  /\ UNCHANGED <<now, repeated, in_generated, aborted, end, spent>>

\* Mutant of StartBuilding: the match counts from the start of the last e-loop.
StartBuildingShort ==
  /\ Running /\ pc = "matching" /\ pc' = "building"
  /\ start' = [start EXCEPT !["build"] = now]
  /\ total' = [total EXCEPT !["match"] = @ + (now - start["eloop"]),
                            !["eloop"] = @ + IF in_e_loop > 0 THEN now - start["eloop"] ELSE 0]
  /\ in_e_loop' = 0 /\ loops' = 0
  /\ UNCHANGED <<now, repeated, in_generated, aborted, end, spent>>

\* A sentence matches: start_building_result, from r05_reset_allocator.
StartBuilding ==
  /\ Running /\ pc = "matching" /\ pc' = "building"
  /\ start' = [start EXCEPT !["build"] = now]
  /\ total' = [total EXCEPT !["match"] = @ + (now - start["match"]),
                            !["eloop"] = @ + IF in_e_loop > 0 THEN now - start["eloop"] ELSE 0]
  /\ in_e_loop' = 0 /\ loops' = 0
  /\ UNCHANGED <<now, repeated, in_generated, aborted, end, spent>>

\* r05_alloc_tevar, in generated code and in Cp.
Copy ==
  /\ Running /\ pc \in {"building", "builtin"}
  /\ now < MaxClock /\ now' = now + 1
  /\ total' = [total EXCEPT !["copy"] = @ + 1]
  /\ SpendOn(Activities \cup {"copy"} \cup (IF pc = "builtin" THEN {"helpers"} ELSE {}))
  /\ UNCHANGED <<pc, loops, start, repeated, in_generated, in_e_loop, aborted, end>>

-----------------------------------------------------------------------------
(* The main loop and the exit.                                              *)

\* A builtin leaves s_in_generated alone; its r05_reset_allocator counts nothing.
CallBuiltin ==
  /\ Running /\ pc = "main_loop" /\ pc' = "builtin"
  /\ UNCHANGED <<loops, now, start, total, repeated, in_generated, in_e_loop, aborted, end, spent>>

AfterStep ==
  /\ total' = (IF in_generated = 1 THEN [total EXCEPT !["build"] = @ + (now - start["build"])] ELSE total)
  /\ aborted' = (in_e_loop # 0)
  /\ in_generated' = 0 /\ in_e_loop' = 0
  /\ UNCHANGED <<now, start, repeated, spent>>

Return ==
  /\ Running /\ pc \in {"building", "builtin"} /\ pc' = "main_loop"
  /\ AfterStep
  /\ UNCHANGED <<loops, end>>

\* r05_exit runs end_profiler: after_step, also where the step is not over, and the report.
\* No sentence matches; no memory for the result; a builtin fails or is Exit; no call is left.
Stop ==
  /\ Running
  /\ \/ pc = "matching" /\ loops = 0 /\ end' = "impossible"
     \/ pc = "building" /\ end' = "no memory"
     \/ pc = "builtin" /\ end' = "builtin"
     \/ pc = "main_loop" /\ end' = "normal"
  /\ pc' = "exit"
  /\ AfterStep
  /\ UNCHANGED loops

Next ==
  \/ Tick
  \/ CallGenerated \/ StartELoop \/ StopELoop \/ StartBuilding
  \/ \E v \in Type : Repeated(v)
  \/ Copy
  \/ CallBuiltin \/ Return \/ Stop

Spec == Init /\ [][Next]_pvars

-----------------------------------------------------------------------------
(* The report of print_profile; what it prints is unsigned.                 *)

full_time  == now - start["program"]
refal_time == total["match"] + total["build"]
eloop_time == total["eloop"] - (repeated["inside"]["t"] + repeated["inside"]["e"])
inside_and_outside ==
  repeated["inside"]["t"] + repeated["inside"]["e"] + repeated["outside"]["t"] + repeated["outside"]["e"]

Report ==
  [full     |-> full_time,
   builtin  |-> full_time - refal_time,
   refal    |-> refal_time,
   match    |-> total["match"] - (eloop_time + inside_and_outside),
   build    |-> total["build"] - total["copy"],
   eloop    |-> eloop_time,
   e_inside  |-> repeated["inside"]["e"],
   e_outside |-> repeated["outside"]["t"],
   t_inside  |-> repeated["inside"]["t"],
   t_outside |-> repeated["outside"]["t"],
   copy     |-> total["copy"]]

-----------------------------------------------------------------------------
(* Properties.                                                              *)

TypeOK ==
  /\ pc \in {"main_loop", "matching", "building", "builtin", "exit"}
  /\ loops \in 0 .. MaxLoops /\ now \in 0 .. MaxClock
  /\ start \in [{"program", "match", "build", "eloop"} -> 0 .. MaxClock]
  /\ in_generated \in {0, 1} /\ in_e_loop \in 0 .. MaxLoops
  /\ end = "none" <=> pc # "exit"

\* The assertions of after_step, r05_start_e_loop and r05_stop_e_loop hold.
NoAssertFails == ~aborted

(* Between two steps the counters have the time that was really spent: the e-loops inside
   one another count once, and a match found in a loop ends the loop. *)
CountersAreTrue ==
  pc = "main_loop" => \A x \in DOMAIN total : total[x] = spent[x]

(* docs/3-install-and-usage.md: the times of the report are parts of each other.  No part
   is longer than the whole if the program ends after a step or while it builds a result
   and no builtin has used the matching and copying functions. *)
PartsFitTheWhole ==
  pc = "exit" /\ end # "impossible" /\ spent["helpers"] = 0 =>
    \A x \in DOMAIN Report : Report[x] >= 0
=============================================================================
