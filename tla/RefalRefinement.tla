--------------------------- MODULE RefalRefinement ---------------------------
(***************************************************************************)
(* RefalMachine implements Refal: the view field and the buried store of   *)
(* the language are the tokens that the nodes of the two lists hold.       *)
(***************************************************************************)
EXTENDS RefalMachine

\* The state of Refal that the state of the machine stands for, computed once per state.
VARIABLES field, buried, code

allVars == <<vars, field, buried, code>>

Mapped(m, view, store, status) == view = Field(m) /\ store = Entry(m) /\ status = m.exit

\* The process has ended: the only state in which the machine may stop.
Exited == pc = "exit" /\ UNCHANGED allVars

MappedInit == Init /\ Mapped(mem, field, buried, code)
MappedNext == (Next /\ Mapped(mem', field', buried', code')) \/ Exited
MappedSpec == MappedInit /\ [][MappedNext]_allVars

Language == INSTANCE Refal

(* Compiled programs do what the language says: each step of main_loop is one step of the
   language (not none, so no step is lost): it replaces the call the language would replace
   by the result of the sentence that it chooses with the values it chooses, changes the
   buried store as it says, or leaves both alone and exits. *)
ImplementsRefal == Language!Init /\ [][Language!Next]_allVars

(* Memory runs out only when it is really too small: the free list was shorter than, or
   just as long as, what the step had to build, so nothing had leaked and nothing a step
   left in the free list was still taken for built. *)
OutOfMemoryIsReal ==
  code = NoMemory =>
    Len(Contents(mem, "free")) <=
      IF field = <<>>
      THEN 2
      ELSE LET argument == Language!CallEnd(field) - Language!CallBegin(field) + 1
           IN  Len(Language!Step(field, buried).field) - (Len(field) - argument)
=============================================================================
