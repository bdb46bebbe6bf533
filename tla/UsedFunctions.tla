---------------------------- MODULE UsedFunctions ----------------------------
(***************************************************************************)
(* The semantic check of R05-Parser.ref: FindUnused walks the references   *)
(* from the $ENTRY functions on, declares what the file uses without       *)
(* declaring it (builtins, metafunctions, empty functions for unknown      *)
(* words), and PrepareAST rejects a file with an unused item.              *)
(*                                                                         *)
(* A file is given by its items: the functions it defines with the         *)
(* references in their bodies and the names in its $EXTERN lists.  The     *)
(* syntactic parser (R5FW-Parser, not in this repository) has already      *)
(* rejected a name declared twice and one that is a builtin's.             *)
(***************************************************************************)
EXTENDS Integers, Sequences

CONSTANTS
  Names,       \* identifiers
  Regular,     \* ListOfBuiltin-WithSugar: the regular builtins
  Special,     \*   and the special ones, the metafunctions
  Files        \* the files that may be compiled

Ref == [how : {"Call", "Ident"}, name : Names]

(* scope of each declared name, the references of each body: (Call G) for a call of G and
   (Ident G) for a compound symbol G; items and entries have the order of the text. *)
File == [scope : UNION {[D -> {"Entry", "Local", "Extern"}] : D \in SUBSET (Names \ (Regular \cup Special))},
         body  : [Names -> Seq(Ref)],
         items : Seq(Names), entries : Seq(Names)]

\* The text has one item per declared name, and an $EXTERN has no body.
WellFormed(f) ==
  /\ {f.items[k] : k \in 1 .. Len(f.items)} = DOMAIN f.scope
  /\ {f.entries[k] : k \in 1 .. Len(f.entries)} = {n \in DOMAIN f.scope : f.scope[n] = "Entry"}
  /\ \A n \in DOMAIN f.scope : f.scope[n] = "Extern" => f.body[n] = <<>>

ASSUME NamesAssumption ==
  Regular \subseteq Names /\ Special \subseteq Names /\ Regular \cap Special = {}
ASSUME FilesAssumption == Files \subseteq File /\ \A f \in Files : WellFormed(f)

VARIABLES
  file,        \* the file being compiled
  refs,        \* e.References: the references that wait
  used,        \* declared names marked Used
  externs,     \* builtins appended as (Function Used NO-POS ... Extern)
  meta,        \* metafunctions appended as (Function Used NO-POS ... Meta)
  metatable,   \* the functions of (Metatable ...): a set, {} when there is none
  enums,       \* e.Enums: words that are no functions
  outcome      \* "none", "Success", "Fails" or "recognition impossible"

uvars == <<file, refs, used, externs, meta, metatable, enums, outcome>>

Declared == DOMAIN file.scope
Unused   == Declared \ used
Known    == Declared \cup externs \cup meta

Scope(s) == {n \in Declared : file.scope[n] = s}

-----------------------------------------------------------------------------
\* Mutant of InitialUsage: every function is a root.
AllUsage == [k \in 1 .. Len(file.items) |-> [how |-> "Call", name |-> file.items[k]]]

\* (Call F) for every entry F, in the order of the text.
InitialUsage == [k \in 1 .. Len(file.entries) |-> [how |-> "Call", name |-> file.entries[k]]]

Init ==
  /\ file \in Files
  /\ refs = InitialUsage
  /\ used = {} /\ externs = {} /\ meta = {} /\ metatable = {} /\ enums = {}
  /\ outcome = "none"

Running == outcome = "none"
Waiting == Running /\ refs # <<>>
Ref1    == Head(refs)

\* An $EXTERN is used by any reference.
UseExtern ==
  /\ Waiting /\ Ref1.name \in Unused \cap Scope("Extern")
  /\ used' = used \cup {Ref1.name}
  /\ refs' = Tail(refs)
  /\ UNCHANGED <<file, externs, meta, metatable, enums, outcome>>

\* A function of the file is used by a call, and then its body counts.
UseFunction ==
  /\ Waiting /\ Ref1.how = "Call" /\ Ref1.name \in Unused \ Scope("Extern")
  /\ used' = used \cup {Ref1.name}
  /\ refs' = Tail(refs) \o file.body[Ref1.name]
  /\ UNCHANGED <<file, externs, meta, metatable, enums, outcome>>

\* Mutant of SkipKnown: the reference goes to the end of the queue.
KeepKnown ==
  /\ Waiting /\ Ref1.name \in Known
  /\ Ref1.name \in Unused => Ref1.how = "Ident" /\ Ref1.name \notin Scope("Extern")
  /\ refs' = Append(Tail(refs), Ref1)
  /\ UNCHANGED <<file, used, externs, meta, metatable, enums, outcome>>

(* What is known already needs nothing more; neither does an unused function that is only
   mentioned: it stays unused. *)
SkipKnown ==
  /\ Waiting /\ Ref1.name \in Known
  /\ Ref1.name \in Unused => Ref1.how = "Ident" /\ Ref1.name \notin Scope("Extern")
  /\ refs' = Tail(refs)
  /\ UNCHANGED <<file, used, externs, meta, metatable, enums, outcome>>

\* A builtin becomes an $EXTERN of the file.
UseBuiltin ==
  /\ Waiting /\ Ref1.name \in Regular \ Known
  /\ externs' = externs \cup {Ref1.name}
  /\ refs' = Tail(refs)
  /\ UNCHANGED <<file, used, meta, metatable, enums, outcome>>

\* AddHowCall for every function of the metatable that the file has.
MetaCalls == [k \in 1 .. Len(file.items) |-> [how |-> "Call", name |-> file.items[k]]]

\* Mutant of UseMetafunction: the metatable has the functions used so far.
UseMetafunctionEarly ==
  /\ Waiting /\ Ref1.how = "Call" /\ Ref1.name \in Special \ Known
  /\ meta' = Special
  /\ metatable' = used \cup Special
  /\ refs' = Tail(refs) \o MetaCalls
  /\ UNCHANGED <<file, used, externs, enums, outcome>>

(* AddMetatable: a metafunction may call any function of the file, so all of them are
   called.  The metatable lists them and the metafunctions, but no builtin. *)
UseMetafunction ==
  /\ Waiting /\ Ref1.how = "Call" /\ Ref1.name \in Special \ Known
  /\ meta' = Special
  /\ metatable' = Declared \cup Special
  /\ refs' = Tail(refs) \o MetaCalls
  /\ UNCHANGED <<file, used, externs, enums, outcome>>

\* Any other word is a symbol: an empty function is made for it.
UseEnum ==
  /\ Waiting
  /\ Ref1.name \notin Known \cup Regular
  /\ Ref1.name \in Special => Ref1.how = "Ident"
  /\ enums' = enums \cup {Ref1.name}
  /\ refs' = Tail(refs)
  /\ UNCHANGED <<file, used, externs, meta, metatable, outcome>>

\* A metafunction that was mentioned before it was called is no empty function.
DropMetaEnum ==
  /\ Running /\ refs = <<>>
  /\ \E n \in enums \cap meta : enums' = enums \ {n}
  /\ UNCHANGED <<file, refs, used, externs, meta, metatable, outcome>>

\* UnusedMessage has a clause for Local and one for Extern.
Verdict ==
  CASE Unused = {}                        -> "Success"
    [] Unused \cap Scope("Entry") # {}    -> "recognition impossible"
    [] OTHER                              -> "Fails"

\* Mutant of Finish: the words that are metafunctions are not looked for.
FinishEarly ==
  /\ Running /\ refs = <<>>
  /\ outcome' = Verdict
  /\ UNCHANGED <<file, refs, used, externs, meta, metatable, enums>>

\* No reference waits: PrepareAST reports the unused items, if any.
Finish ==
  /\ Running /\ refs = <<>> /\ enums \cap meta = {}
  /\ outcome' = Verdict
  /\ UNCHANGED <<file, refs, used, externs, meta, metatable, enums>>

Next ==
  \/ UseExtern \/ UseFunction \/ SkipKnown
  \/ UseBuiltin \/ UseMetafunction \/ UseEnum
  \/ DropMetaEnum \/ Finish

\* The compiler is one process that computes: it goes on while it can.
Spec == Init /\ [][Next]_uvars /\ WF_uvars(Next)

-----------------------------------------------------------------------------
(* Properties.                                                              *)

TypeOK ==
  /\ file \in File
  /\ refs \in Seq(Ref)
  /\ used \subseteq Declared
  /\ externs \subseteq Regular
  /\ meta \in {{}, Special}
  /\ metatable \in SUBSET Names
  /\ enums \subseteq Names
  /\ outcome \in {"none", "Success", "Fails", "recognition impossible"}

Done == outcome # "none"

Refers(f, how, n) == \E k \in 1 .. Len(file.body[f]) : file.body[f][k] = [how |-> how, name |-> n]
Mentions(f, n) == Refers(f, "Call", n) \/ Refers(f, "Ident", n)

(* docs/2-syntax.md, 76-95: the rules for used functions and used declarations.  S obeys
   them if it has the entries, what its functions call, the $EXTERNs they mention, and
   everything once one of them calls a metafunction. *)
Obeys(S) ==
  /\ Scope("Entry") \subseteq S
  /\ \A f \in S, n \in Declared :
       Refers(f, "Call", n) \/ (n \in Scope("Extern") /\ Refers(f, "Ident", n)) => n \in S
  /\ \A f \in S : (\E m \in Special : Refers(f, "Call", m)) => Declared \subseteq S

\* What is marked Used is the least set that obeys the rules of the documentation.
UsedIsLeast ==
  Done => Obeys(used) /\ \A S \in SUBSET Declared : Obeys(S) => used \subseteq S

\* The error messages have a clause for every item they are asked about.
EntriesAreUsed == outcome # "recognition impossible"

(* The C code of the file declares each name it refers to once: as a function or $EXTERN of
   the file, a builtin, a metafunction or an empty function, and never as two of them. *)
DeclaredOnce ==
  Done =>
    /\ \A f \in used, n \in Names :
         Mentions(f, n) => n \in Declared \cup externs \cup meta \cup enums
    /\ externs \cap meta = {} /\ enums \cap (Known \cup Regular) = {}
    /\ metatable \subseteq Declared \cup meta

(* A file gets a metatable exactly when a used function calls a metafunction, and then
   every function of the file is in it, so Mu finds whatever name it is given. *)
MetatableIsWhole ==
  Done =>
    IF \E f \in used, m \in Special : Refers(f, "Call", m)
    THEN metatable = Declared \cup Special
    ELSE metatable = {} /\ meta = {}

\* The walk ends, also when functions call each other in circles.
WalkEnds == <>Done
=============================================================================
