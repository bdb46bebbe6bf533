--------------------------- MODULE FunctionProfile ---------------------------
(***************************************************************************)
(* The profile by functions of refal05rts.c (R05_PROFILER): main_loop adds *)
(* the time of a step to its callee and links a callee with a null next    *)
(* into the list of the functions called; at the exit                      *)
(* print_functions_profile sorts the list by time.                         *)
(***************************************************************************)
EXTENDS Integers, Sequences, FiniteSets

CONSTANTS
  Functions,     \* struct r05_function of the program
  First,         \* GO, which init_view_field calls
  NULL,
  MaxTime,       \* bound: the clock's last value
  CallsFirst     \* whether the program calls GO itself

ASSUME FirstAssumption == First \in Functions /\ NULL \notin Functions
ASSUME TimeAssumption == MaxTime \in Nat /\ CallsFirst \in BOOLEAN

VARIABLES
  stage,     \* "main_loop", "sort" (the outer loop), "insert" (the inner one) or "done"
  clock,     \* clock()
  seconds,   \* function -> ticks, exactly
  next,      \* function -> the next one of its list, or NULL
  list,      \* s_profiled_functions
  sorted,    \* the list made by the sort
  func,      \* the function being inserted
  after,     \* *parent is the next of this function, or sorted if it is NULL
  called     \* history: the functions that made a step

fvars == <<stage, clock, seconds, next, list, sorted, func, after, called>>

ProfileInit ==
  /\ stage = "main_loop" /\ clock = 0
  /\ seconds = [f \in Functions |-> 0]
  /\ next = [f \in Functions |-> NULL]
  /\ list = NULL /\ sorted = NULL /\ func = NULL /\ after = NULL
  /\ called = {}

\* A step of function f that takes d ticks; the first one is GO's.
StepOf(f, d) ==
  /\ stage = "main_loop"
  /\ IF called = {} THEN f = First ELSE f = First => CallsFirst
  /\ clock + d <= MaxTime /\ clock' = clock + d
  /\ IF next[f] = NULL
     THEN next' = [next EXCEPT ![f] = list] /\ list' = f
     ELSE UNCHANGED <<next, list>>
  /\ seconds' = [seconds EXCEPT ![f] = @ + d]
  /\ called' = called \cup {f}
  /\ UNCHANGED <<stage, sorted, func, after>>

Exit ==
  /\ stage = "main_loop" /\ stage' = "sort"
  /\ UNCHANGED <<clock, seconds, next, list, sorted, func, after, called>>

\* The next function to be sorted.
Take ==
  /\ stage = "sort" /\ list # NULL
  /\ stage' = "insert"
  /\ func' = list /\ list' = next[list] /\ after' = NULL
  /\ UNCHANGED <<clock, seconds, next, sorted, called>>

Parent == IF after = NULL THEN sorted ELSE next[after]

\* Mutant of Slower: the functions are sorted the other way.
SlowerUp(f, g) == seconds[f] < seconds[g]

Slower(f, g) == seconds[f] > seconds[g]

\* The inner loop goes on.
GoesOn == Parent # NULL /\ Slower(Parent, func)

\* Mutant of Advance: the place stays.
AdvanceNot ==
  /\ stage = "insert" /\ GoesOn
  /\ UNCHANGED fvars

Advance ==
  /\ stage = "insert" /\ GoesOn
  /\ after' = Parent
  /\ UNCHANGED <<stage, clock, seconds, next, list, sorted, func, called>>

\* func->next = *parent; *parent = func
Insert ==
  /\ stage = "insert" /\ ~GoesOn
  /\ next' = [[next EXCEPT ![func] = Parent] EXCEPT
               ![IF after = NULL THEN func ELSE after] = IF after = NULL THEN Parent ELSE func]
  /\ sorted' = (IF after = NULL THEN func ELSE sorted)
  /\ stage' = "sort"
  /\ UNCHANGED <<clock, seconds, list, func, after, called>>

PrintProfile ==
  /\ stage = "sort" /\ list = NULL
  /\ list' = sorted /\ stage' = "done"
  /\ UNCHANGED <<clock, seconds, next, sorted, func, after, called>>

Sort == Take \/ Advance \/ Insert \/ PrintProfile

ProfileNext == Sort \/ Exit \/ \E f \in Functions, d \in 0 .. MaxTime : StepOf(f, d)

\* The sort runs until it is done; a program need not end.
ProfileSpec == ProfileInit /\ [][ProfileNext]_fvars /\ WF_fvars(Sort)

-----------------------------------------------------------------------------
(* Properties.                                                              *)

\* s is the list that starts at f.
IsListFrom(s, f) ==
  IF s = <<>>
  THEN f = NULL
  ELSE /\ s[1] = f
       /\ \A k \in 1 .. Len(s) : next[s[k]] = IF k = Len(s) THEN NULL ELSE s[k + 1]

\* The members of a set, each once.
Orders(S) == {s \in [1 .. Cardinality(S) -> S] : \A f \in S : \E k \in DOMAIN s : s[k] = f}

(* The profile has every function that made a step once, the slowest first. *)
ProfileIsSorted ==
  stage = "done" =>
    \E s \in Orders(called) :
      /\ IsListFrom(s, list)
      /\ \A k \in 1 .. Len(s) - 1 : seconds[s[k]] >= seconds[s[k + 1]]

\* docs/3-install-and-usage.md, 386: when the program ends, it makes the file.
ProfileIsMade == stage = "sort" ~> stage = "done"
=============================================================================
