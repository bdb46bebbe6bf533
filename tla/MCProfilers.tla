----------------------------- MODULE MCProfilers -----------------------------
(***************************************************************************)
(* The two profilers for TLC: a program is built with R05_SHOW_STAT, and   *)
(* Profiler is what happens, or with R05_PROFILER, and FunctionProfile is. *)
(***************************************************************************)
EXTENDS Profiler, FunctionProfile

VARIABLE built

MCInit == Init /\ ProfileInit /\ built \in {"R05_SHOW_STAT", "R05_PROFILER"}
MCNext ==
  \/ built = "R05_SHOW_STAT" /\ Next /\ UNCHANGED <<fvars, built>>
  \/ built = "R05_PROFILER" /\ ProfileNext /\ UNCHANGED <<pvars, built>>

MCSpec == MCInit /\ [][MCNext]_<<pvars, fvars, built>> /\ WF_fvars(Sort)
=============================================================================
