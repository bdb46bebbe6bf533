------------------------- MODULE UsedFunctionsProofs -------------------------
(***************************************************************************)
(* Proofs about UsedFunctions for every file, whatever its functions call: *)
(* the marked names are the least set that obeys the rules of the          *)
(* documentation, and what the C code refers to is declared once.          *)
(***************************************************************************)
EXTENDS UsedFunctions, TLAPS

In(s, r) == \E k \in 1 .. Len(s) : s[k] = r

CallOf(n) == [how |-> "Call", name |-> n]

\* What the walk leaves of a reference: it needs no second visit.
Handled(r) ==
  /\ r.name \in Declared /\ (r.how = "Call" \/ r.name \in Scope("Extern")) => r.name \in used
  /\ r.name \in Regular => r.name \in externs
  /\ r.name \in Special /\ r.how = "Call" => meta = Special
  /\ r.name \notin Declared \cup Regular => r.name \in enums \cup meta

\* Nothing a used function refers to is forgotten: it is handled, or it waits.
NothingForgotten ==
  /\ \A f \in used : \A k \in 1 .. Len(file.body[f]) :
       In(refs, file.body[f][k]) \/ Handled(file.body[f][k])
  /\ \A n \in Scope("Entry") : In(refs, CallOf(n)) \/ n \in used
  /\ meta # {} => \A n \in Declared : In(refs, CallOf(n)) \/ n \in used

\* Nothing is marked or waits without a reason: every obedient set has it.
NothingExtra ==
  \A S \in SUBSET Declared : Obeys(S) =>
    /\ used \subseteq S
    /\ \A r \in Ref :
         In(refs, r) /\ r.name \in Declared /\ (r.how = "Call" \/ r.name \in Scope("Extern"))
           => r.name \in S

\* Every call of a metafunction was met in a used function.
MetaHasCaller ==
  /\ \A r \in Ref :
       In(refs, r) /\ r.name \in Special /\ r.how = "Call" =>
         \E f \in used : Refers(f, "Call", r.name)
  /\ meta # {} => \E f \in used, m \in Special : Refers(f, "Call", m)
  /\ IF meta = {} THEN metatable = {} ELSE metatable = Declared \cup Special

AtTheEnd ==
  /\ enums \cap (Declared \cup Regular) = {}
  /\ Done => refs = <<>> /\ enums \cap meta = {} /\ outcome = Verdict

FileOK == file \in File /\ WellFormed(file)

(* The inductive invariant: UsedIsLeast speaks of the end only; in between, a used function
   may refer to what still waits in the queue. *)
IInv == TypeOK /\ FileOK /\ NothingForgotten /\ NothingExtra /\ MetaHasCaller /\ AtTheEnd

-----------------------------------------------------------------------------
(* The queue.                                                               *)

LEMMA InRequeued ==
  ASSUME NEW S, NEW s \in Seq(S), s # <<>>, NEW c \in Seq(S)
  PROVE  /\ Tail(s) \o c \in Seq(S) /\ Head(s) \in S /\ In(s, Head(s))
         /\ \A r : In(s, r) => r = Head(s) \/ In(Tail(s) \o c, r)
         /\ \A r : In(c, r) => In(Tail(s) \o c, r)
         /\ \A r : In(Tail(s) \o c, r) => In(s, r) \/ In(c, r)
  <1> DEFINE q == Tail(s) \o c
  <1>1. /\ Len(s) \in Nat /\ Len(s) # 0 /\ Len(c) \in Nat /\ Tail(s) \in Seq(S)
        /\ Len(Tail(s)) = Len(s) - 1 /\ Len(q) = Len(s) - 1 + Len(c) /\ q \in Seq(S)
        /\ Head(s) = s[1] /\ Head(s) \in S
    OBVIOUS
  <1>2. \A k \in 1 .. Len(s) - 1 : q[k] = s[k + 1]
    BY <1>1
  <1>3. \A k \in 1 .. Len(c) : q[Len(s) - 1 + k] = c[k]
    BY <1>1
  <1>4. In(s, Head(s))
    BY <1>1 DEF In
  <1>5. ASSUME NEW r, In(s, r), r # Head(s) PROVE In(q, r)
    <2>1. PICK k \in 1 .. Len(s) : s[k] = r
      BY <1>5 DEF In
    <2>2. k - 1 \in 1 .. Len(s) - 1 /\ k - 1 \in 1 .. Len(q) /\ (k - 1) + 1 = k
      BY <1>1, <1>5, <2>1
    <2>3. q[k - 1] = r
      BY <1>2, <2>1, <2>2
    <2>. QED
      BY <2>2, <2>3 DEF In
  <1>6. ASSUME NEW r, In(c, r) PROVE In(q, r)
    <2>1. PICK k \in 1 .. Len(c) : c[k] = r
      BY <1>6 DEF In
    <2>2. Len(s) - 1 + k \in 1 .. Len(q)
      BY <1>1, <2>1
    <2>3. q[Len(s) - 1 + k] = r
      BY <1>3, <2>1
    <2>. QED
      BY <2>2, <2>3 DEF In
  <1>7. ASSUME NEW r, In(q, r) PROVE In(s, r) \/ In(c, r)
    <2>1. PICK k \in 1 .. Len(q) : q[k] = r
      BY <1>7 DEF In
    <2>2. CASE k <= Len(s) - 1
      <3>1. k + 1 \in 1 .. Len(s) /\ s[k + 1] = r
        BY <1>1, <1>2, <2>1, <2>2
      <3>. QED
        BY <3>1 DEF In
    <2>3. CASE k > Len(s) - 1
      <3>1. k - (Len(s) - 1) \in 1 .. Len(c) /\ Len(s) - 1 + (k - (Len(s) - 1)) = k
        BY <1>1, <2>1, <2>3
      <3>2. c[k - (Len(s) - 1)] = r
        BY <1>3, <2>1, <3>1
      <3>. QED
        BY <3>1, <3>2 DEF In
    <2>. QED
      BY <1>1, <2>1, <2>2, <2>3
  <1>. QED
    BY <1>1, <1>4, <1>5, <1>6, <1>7

LEMMA InPopped ==
  ASSUME NEW S, NEW s \in Seq(S), s # <<>>
  PROVE  /\ Tail(s) \in Seq(S) /\ Head(s) \in S /\ In(s, Head(s))
         /\ \A r : In(s, r) => r = Head(s) \/ In(Tail(s), r)
         /\ \A r : In(Tail(s), r) => In(s, r)
  <1>1. <<>> \in Seq(S) /\ Tail(s) \in Seq(S) /\ Tail(s) \o <<>> = Tail(s)
    OBVIOUS
  <1>2. \A r : ~In(<<>>, r)
    BY DEF In
  <1>3. /\ Head(s) \in S /\ In(s, Head(s))
        /\ \A r : In(s, r) => r = Head(s) \/ In(Tail(s) \o <<>>, r)
        /\ \A r : In(Tail(s) \o <<>>, r) => In(s, r) \/ In(<<>>, r)
    BY <1>1, InRequeued
  <1>. QED
    BY <1>1, <1>2, <1>3

-----------------------------------------------------------------------------
(* Facts about a file.                                                      *)

LEMMA FileFacts ==
  ASSUME IInv
  PROVE  /\ Declared \subseteq Names /\ Declared \cap (Regular \cup Special) = {}
         /\ file.body \in [Names -> Seq(Ref)]
         /\ file.items \in Seq(Names) /\ file.entries \in Seq(Names)
         /\ \A n \in Declared : file.scope[n] \in {"Entry", "Local", "Extern"}
         /\ \A n \in Scope("Extern") : file.body[n] = <<>>
         /\ refs \in Seq(Ref) /\ used \subseteq Declared
  <1>1. file \in File /\ WellFormed(file)
    BY DEF IInv, FileOK
  <1>2. PICK D \in SUBSET (Names \ (Regular \cup Special)) : file.scope \in [D -> {"Entry", "Local", "Extern"}]
    BY <1>1 DEF File
  <1>3. Declared = D
    BY <1>2 DEF Declared
  <1>4. refs \in Seq(Ref) /\ used \subseteq Declared
    BY DEF IInv, TypeOK
  <1>. QED
    BY <1>1, <1>2, <1>3, <1>4 DEF File, WellFormed, Scope, Declared

LEMMA CallInMetaCalls ==
  ASSUME IInv
  PROVE  /\ MetaCalls \in Seq(Ref)
         /\ \A n \in Declared : In(MetaCalls, CallOf(n))
         /\ \A r : In(MetaCalls, r) => r.name \in Declared
  <1>1. file.items \in Seq(Names)
    BY FileFacts
  <1>2. {file.items[k] : k \in 1 .. Len(file.items)} = Declared
    BY DEF IInv, FileOK, WellFormed, Declared
  <1>3. MetaCalls \in Seq(Ref) /\ Len(MetaCalls) = Len(file.items)
    BY <1>1 DEF MetaCalls, Ref
  <1>4. \A k \in 1 .. Len(file.items) : MetaCalls[k] = CallOf(file.items[k])
    BY <1>1 DEF MetaCalls, CallOf
  <1>5. ASSUME NEW n \in Declared PROVE In(MetaCalls, CallOf(n))
    <2>1. PICK k \in 1 .. Len(file.items) : file.items[k] = n
      BY <1>2
    <2>. QED
      BY <2>1, <1>3, <1>4 DEF In
  <1>6. ASSUME NEW r, In(MetaCalls, r) PROVE r.name \in Declared
    <2>1. PICK k \in 1 .. Len(file.items) : r = CallOf(file.items[k])
      BY <1>3, <1>4, <1>6 DEF In
    <2>2. r.name = file.items[k]
      BY <2>1 DEF CallOf
    <2>. QED
      BY <1>2, <2>2
  <1>. QED
    BY <1>3, <1>5, <1>6

LEMMA CallOfRef ==
  ASSUME NEW n \in Names
  PROVE  CallOf(n) \in Ref /\ CallOf(n).name = n /\ CallOf(n).how = "Call"
  BY DEF CallOf, Ref

-----------------------------------------------------------------------------
(* What every step of the walk has in common: it handles Ref1, forgets no other reference, *)
(* and what it marks or makes known has its own references in the queue.                   *)

Grows ==
  /\ file' = file /\ used \subseteq used' /\ externs \subseteq externs'
  /\ meta \subseteq meta' /\ (meta = Special => meta' = Special)
  /\ enums \cup meta \subseteq enums' \cup meta'

LEMMA HandledStays ==
  ASSUME Grows, NEW r, Handled(r)
  PROVE  Handled(r)'
  BY DEF Grows, Handled, Declared, Scope

LEMMA NothingForgottenStep ==
  ASSUME IInv, Grows, NEW ref,
         \A x : In(refs, x) => x = ref \/ In(refs', x),
         Handled(ref)',
         \A f \in used' \ used : \A k \in 1 .. Len(file.body[f]) : In(refs', file.body[f][k]),
         meta' # {} /\ meta = {} => \A n \in Declared : In(refs', CallOf(n))
  PROVE  NothingForgotten'
  <1>1. Declared' = Declared /\ Scope("Entry")' = Scope("Entry") /\ file' = file
    BY DEF Grows, Declared, Scope
  <1>2. ASSUME NEW r, In(refs, r) \/ Handled(r) PROVE In(refs', r) \/ Handled(r)'
    BY <1>2, HandledStays
  <1>3. ASSUME NEW f \in used', NEW k \in 1 .. Len(file.body[f]), NEW r, r = file.body[f][k]
        PROVE  In(refs', r) \/ Handled(r)'
    <2>1. CASE f \in used
      <3>1. In(refs, r) \/ Handled(r)
        BY <2>1, <1>3 DEF IInv, NothingForgotten
      <3>. QED
        BY <3>1, <1>2
    <2>2. CASE f \notin used
      BY <2>2, <1>3
    <2>. QED
      BY <2>1, <2>2
  <1>4. ASSUME NEW n \in Declared, In(refs, CallOf(n)) \/ n \in used
        PROVE  In(refs', CallOf(n)) \/ n \in used'
    <2>1. CASE ref = CallOf(n)
      <3>1. ref.name = n /\ ref.how = "Call"
        BY <2>1 DEF CallOf
      <3>. QED
        BY <3>1, <1>1 DEF Handled
    <2>2. CASE ref # CallOf(n)
      BY <2>2, <1>4 DEF Grows
    <2>. QED
      BY <2>1, <2>2
  <1>5. \A n \in Scope("Entry") : In(refs', CallOf(n)) \/ n \in used'
    BY <1>4 DEF IInv, NothingForgotten, Scope
  <1>6. meta' # {} => \A n \in Declared : In(refs', CallOf(n)) \/ n \in used'
    BY <1>4 DEF IInv, NothingForgotten
  <1>7. \A f \in used' : \A k \in 1 .. Len(file'.body[f]) :
          In(refs', file'.body[f][k]) \/ Handled(file.body[f][k])'
    BY <1>1, <1>3 DEF Handled
  <1>. QED
    BY <1>1, <1>5, <1>6, <1>7 DEF NothingForgotten

InBody(f, r) == In(file.body[f], r)

LEMMA NothingExtraStep ==
  ASSUME IInv, file' = file, NEW ref \in Ref, In(refs, ref),
         used' = used \/ (/\ used' = used \cup {ref.name} /\ ref.name \in Declared
                          /\ ref.how = "Call" \/ ref.name \in Scope("Extern")),
         \A r \in Ref : In(refs', r) => In(refs, r) \/ \E f \in used' : InBody(f, r)
  PROVE  NothingExtra'
  <1>1. Declared' = Declared /\ \A s : Scope(s)' = Scope(s)
    BY DEF Declared, Scope
  <1>2. ASSUME NEW S PROVE Obeys(S)' <=> Obeys(S)
    <2>1. \A f, how, n : Refers(f, how, n)' <=> Refers(f, how, n)
      BY DEF Refers
    <2>. QED
      BY <1>1, <2>1 DEF Obeys
  <1>3. ASSUME NEW S \in SUBSET Declared, Obeys(S)
        PROVE  /\ used' \subseteq S
               /\ \A r \in Ref : In(refs', r) /\ r.name \in Declared
                    /\ (r.how = "Call" \/ r.name \in Scope("Extern")) => r.name \in S
    <2>1. /\ used \subseteq S
          /\ \A r \in Ref : In(refs, r) /\ r.name \in Declared
               /\ (r.how = "Call" \/ r.name \in Scope("Extern")) => r.name \in S
      BY <1>3 DEF IInv, NothingExtra
    <2>2. used' \subseteq S
      BY <2>1
    <2>3. ASSUME NEW r \in Ref, NEW f \in used', InBody(f, r), r.name \in Declared,
                 r.how = "Call" \/ r.name \in Scope("Extern")
          PROVE  r.name \in S
      <3>1. r = [how |-> r.how, name |-> r.name] /\ r.how \in {"Call", "Ident"}
        BY DEF Ref
      <3>2. Refers(f, r.how, r.name)
        BY <2>3, <3>1 DEF InBody, In, Refers
      <3>3. f \in S
        BY <2>2
      <3>. QED
        BY <1>3, <2>3, <3>1, <3>2, <3>3 DEF Obeys
    <2>. QED
      BY <2>1, <2>2, <2>3
  <1>. QED
    BY <1>1, <1>2, <1>3 DEF NothingExtra

LEMMA MetaHasCallerStep ==
  ASSUME IInv, file' = file, used \subseteq used', meta' = meta, metatable' = metatable,
         \A r \in Ref : In(refs', r) => In(refs, r) \/ \E f \in used' : InBody(f, r)
  PROVE  MetaHasCaller'
  <1>1. Declared' = Declared
    BY DEF Declared
  <1>2. \A f, h, n : Refers(f, h, n)' <=> Refers(f, h, n)
    BY DEF Refers
  <1>3. ASSUME NEW r \in Ref, In(refs', r), r.name \in Special, r.how = "Call"
        PROVE  \E f \in used' : Refers(f, "Call", r.name)
    <2>1. CASE In(refs, r)
      BY <2>1, <1>3 DEF IInv, MetaHasCaller
    <2>2. ASSUME NEW f \in used', InBody(f, r) PROVE Refers(f, "Call", r.name)
      <3>1. r = [how |-> "Call", name |-> r.name]
        BY <1>3 DEF Ref
      <3>. QED
        BY <2>2, <3>1 DEF InBody, In, Refers
    <2>. QED
      BY <1>3, <2>1, <2>2
  <1>4. meta' # {} => \E f \in used', m \in Special : Refers(f, "Call", m)
    BY DEF IInv, MetaHasCaller
  <1>. QED
    BY <1>1, <1>2, <1>3, <1>4 DEF IInv, MetaHasCaller

LEMMA FileStays ==
  ASSUME IInv, file' = file
  PROVE  FileOK' /\ Declared' = Declared /\ \A s : Scope(s)' = Scope(s)
  BY DEF IInv, FileOK, WellFormed, Declared, Scope

-----------------------------------------------------------------------------
(* The steps.                                                               *)

\* The reference at the head of the queue, and the queue without it.
LEMMA Waits ==
  ASSUME IInv, Waiting
  PROVE  /\ Ref1 \in Ref /\ In(refs, Ref1) /\ Ref1.name \in Names /\ Ref1.how \in {"Call", "Ident"}
         /\ Tail(refs) \in Seq(Ref)
         /\ \A x : In(refs, x) => x = Ref1 \/ In(Tail(refs), x)
         /\ \A x : In(Tail(refs), x) => In(refs, x)
         /\ outcome = "none"
  <1>1. refs \in Seq(Ref) /\ refs # <<>> /\ outcome = "none"
    BY DEF IInv, TypeOK, Waiting, Running
  <1>2. Ref1 \in Ref /\ In(refs, Ref1)
    BY <1>1, InPopped DEF Ref1
  <1>. QED
    BY <1>1, <1>2, InPopped DEF Ref1, Ref

\* A step that only pops a reference and makes its name known.
LEMMA PopStep ==
  ASSUME IInv, Waiting, NEW ref, ref = Ref1, Grows, Handled(ref)', TypeOK',
         refs' = Tail(refs), meta' = meta, metatable' = metatable, outcome' = outcome,
         enums' \cap (Declared \cup Regular) = {},
         used' = used \/ (/\ used' = used \cup {ref.name} /\ ref.name \in Scope("Extern"))
  PROVE  IInv'
  <1>1. /\ ref \in Ref /\ In(refs, ref)
        /\ \A x : In(refs, x) => x = ref \/ In(refs', x)
        /\ \A x : In(refs', x) => In(refs, x)
        /\ outcome' = "none"
    BY Waits
  <1>2. file' = file /\ used \subseteq used'
    BY DEF Grows
  <1>3. FileOK' /\ Declared' = Declared
    BY <1>2, FileStays
  <1>4. \A f \in used' \ used : file.body[f] = <<>> /\ f \in Declared
    BY FileFacts DEF Scope
  <1>5. \A f \in used' \ used : \A k \in 1 .. Len(file.body[f]) : In(refs', file.body[f][k])
    BY <1>4
  <1>6. NothingForgotten'
    BY <1>1, <1>5, NothingForgottenStep
  <1>7. NothingExtra'
    BY <1>1, <1>2, NothingExtraStep DEF Scope
  <1>8. MetaHasCaller'
    BY <1>1, <1>2, MetaHasCallerStep
  <1>9. AtTheEnd'
    BY <1>1, <1>3 DEF AtTheEnd, Done
  <1>. QED
    BY <1>3, <1>6, <1>7, <1>8, <1>9 DEF IInv

LEMMA UseExternIInv ==
  ASSUME IInv, UseExtern PROVE IInv'
  <1>1. PICK ref : ref = Ref1
    OBVIOUS
  <1>2. /\ Waiting /\ ref.name \in Declared /\ ref.name \in Scope("Extern")
        /\ used' = used \cup {ref.name} /\ refs' = Tail(refs)
        /\ UNCHANGED <<file, externs, meta, metatable, enums, outcome>>
    BY <1>1 DEF UseExtern, Unused
  <1>3. Grows
    BY <1>2 DEF Grows
  <1>4. Declared' = Declared /\ Declared \cap (Regular \cup Special) = {}
    BY <1>2, FileStays, FileFacts
  <1>5. Handled(ref)'
    BY <1>2, <1>4 DEF Handled
  <1>6. Tail(refs) \in Seq(Ref)
    BY <1>2, Waits
  <1>7. TypeOK'
    BY <1>2, <1>4, <1>6 DEF IInv, TypeOK
  <1>8. enums' \cap (Declared \cup Regular) = {}
    BY <1>2 DEF IInv, AtTheEnd
  <1>. QED
    BY <1>1, <1>2, <1>3, <1>5, <1>7, <1>8, PopStep

LEMMA SkipKnownIInv ==
  ASSUME IInv, SkipKnown PROVE IInv'
  <1>1. PICK ref : ref = Ref1
    OBVIOUS
  <1>2. /\ Waiting /\ ref.name \in Known
        /\ ref.name \in Unused => ref.how = "Ident" /\ ref.name \notin Scope("Extern")
        /\ refs' = Tail(refs)
        /\ UNCHANGED <<file, used, externs, meta, metatable, enums, outcome>>
    BY <1>1 DEF SkipKnown
  <1>3. Grows
    BY <1>2 DEF Grows
  <1>4. Declared' = Declared /\ Declared \cap (Regular \cup Special) = {} /\ \A s : Scope(s)' = Scope(s)
    BY <1>2, FileStays, FileFacts
  <1>5. externs \subseteq Regular /\ meta \in {{}, Special} /\ Regular \cap Special = {}
    BY NamesAssumption DEF IInv, TypeOK
  <1>6. Handled(ref)'
    BY <1>2, <1>4, <1>5 DEF Handled, Known, Unused
  <1>7. Tail(refs) \in Seq(Ref)
    BY <1>2, Waits
  <1>8. TypeOK'
    BY <1>2, <1>4, <1>7 DEF IInv, TypeOK
  <1>9. enums' \cap (Declared \cup Regular) = {}
    BY <1>2 DEF IInv, AtTheEnd
  <1>. QED
    BY <1>1, <1>2, <1>3, <1>6, <1>8, <1>9, PopStep

LEMMA UseBuiltinIInv ==
  ASSUME IInv, UseBuiltin PROVE IInv'
  <1>1. PICK ref : ref = Ref1
    OBVIOUS
  <1>2. /\ Waiting /\ ref.name \in Regular /\ ref.name \notin Known
        /\ externs' = externs \cup {ref.name} /\ refs' = Tail(refs)
        /\ UNCHANGED <<file, used, meta, metatable, enums, outcome>>
    BY <1>1 DEF UseBuiltin
  <1>3. Grows
    BY <1>2 DEF Grows
  <1>4. Declared' = Declared /\ Declared \cap (Regular \cup Special) = {}
    BY <1>2, FileStays, FileFacts
  <1>5. Handled(ref)'
    BY <1>2, <1>4, NamesAssumption DEF Handled
  <1>6. Tail(refs) \in Seq(Ref)
    BY <1>2, Waits
  <1>7. TypeOK'
    BY <1>2, <1>4, <1>6 DEF IInv, TypeOK
  <1>8. enums' \cap (Declared \cup Regular) = {}
    BY <1>2 DEF IInv, AtTheEnd
  <1>. QED
    BY <1>1, <1>2, <1>3, <1>5, <1>7, <1>8, PopStep

LEMMA UseEnumIInv ==
  ASSUME IInv, UseEnum PROVE IInv'
  <1>1. PICK ref : ref = Ref1
    OBVIOUS
  <1>2. /\ Waiting /\ ref.name \notin Known \cup Regular
        /\ ref.name \in Special => ref.how = "Ident"
        /\ enums' = enums \cup {ref.name} /\ refs' = Tail(refs)
        /\ UNCHANGED <<file, used, externs, meta, metatable, outcome>>
    BY <1>1 DEF UseEnum
  <1>3. Grows
    BY <1>2 DEF Grows
  <1>4. Declared' = Declared /\ ref.name \notin Declared
    BY <1>2, FileStays DEF Known
  <1>5. ref.how = "Ident" => ref.how # "Call"
    OBVIOUS
  <1>6. Handled(ref)'
    BY <1>2, <1>4, <1>5 DEF Handled
  <1>7. Tail(refs) \in Seq(Ref) /\ ref.name \in Names
    BY <1>1, <1>2, Waits
  <1>8. TypeOK'
    BY <1>2, <1>4, <1>7 DEF IInv, TypeOK
  <1>9. enums' \cap (Declared \cup Regular) = {}
    BY <1>2, <1>4 DEF IInv, AtTheEnd
  <1>. QED
    BY <1>1, <1>2, <1>3, <1>6, <1>8, <1>9, PopStep

LEMMA UseFunctionIInv ==
  ASSUME IInv, UseFunction PROVE IInv'
  <1>1. PICK ref : ref = Ref1
    OBVIOUS
  <1>2. /\ Waiting /\ ref.how = "Call" /\ ref.name \in Declared
        /\ used' = used \cup {ref.name} /\ refs' = Tail(refs) \o file.body[ref.name]
        /\ UNCHANGED <<file, externs, meta, metatable, enums, outcome>>
    BY <1>1 DEF UseFunction, Unused
  <1>3. Grows
    BY <1>2 DEF Grows
  <1>4. FileOK' /\ Declared' = Declared /\ Declared \cap (Regular \cup Special) = {}
        /\ \A s : Scope(s)' = Scope(s)
    BY <1>2, FileStays, FileFacts
  <1>5. /\ refs \in Seq(Ref) /\ refs # <<>> /\ file.body[ref.name] \in Seq(Ref)
        /\ ref \in Ref /\ In(refs, ref) /\ outcome' = "none"
    BY <1>1, <1>2, Waits, FileFacts DEF Waiting
  <1>6. /\ refs' \in Seq(Ref)
        /\ \A x : In(refs, x) => x = ref \/ In(refs', x)
        /\ \A x : In(file.body[ref.name], x) => In(refs', x)
        /\ \A x : In(refs', x) => In(refs, x) \/ In(file.body[ref.name], x)
    BY <1>1, <1>2, <1>5, InRequeued DEF Ref1
  <1>7. Handled(ref)'
    BY <1>2, <1>4 DEF Handled
  <1>8. TypeOK'
    BY <1>2, <1>4, <1>6 DEF IInv, TypeOK
  <1>9. ASSUME NEW f \in used' \ used, NEW k \in 1 .. Len(file.body[f])
        PROVE  In(refs', file.body[f][k])
    BY <1>2, <1>6, <1>9 DEF In
  <1>10. NothingForgotten'
    BY <1>2, <1>3, <1>6, <1>7, <1>9, NothingForgottenStep
  <1>11. \A r \in Ref : In(refs', r) => In(refs, r) \/ \E f \in used' : InBody(f, r)
    BY <1>2, <1>6 DEF InBody
  <1>12. NothingExtra'
    BY <1>2, <1>5, <1>11, NothingExtraStep
  <1>13. MetaHasCaller'
    BY <1>2, <1>11, MetaHasCallerStep
  <1>14. AtTheEnd'
    BY <1>2, <1>4, <1>5 DEF IInv, AtTheEnd, Done
  <1>. QED
    BY <1>4, <1>8, <1>10, <1>12, <1>13, <1>14 DEF IInv

LEMMA UseMetafunctionIInv ==
  ASSUME IInv, UseMetafunction PROVE IInv'
  <1>1. PICK ref : ref = Ref1
    OBVIOUS
  <1>2. /\ Waiting /\ ref.how = "Call" /\ ref.name \in Special /\ ref.name \notin Known
        /\ meta' = Special /\ metatable' = Declared \cup Special
        /\ refs' = Tail(refs) \o MetaCalls
        /\ UNCHANGED <<file, used, externs, enums, outcome>>
    BY <1>1 DEF UseMetafunction
  <1>3. meta = {}
    BY <1>2 DEF IInv, TypeOK, Known
  <1>4. Grows
    BY <1>2, <1>3 DEF Grows
  <1>5. /\ FileOK' /\ Declared' = Declared /\ Declared \cap (Regular \cup Special) = {}
        /\ \A s : Scope(s)' = Scope(s) /\ Declared \subseteq Names
    BY <1>2, FileStays, FileFacts
  <1>6. /\ refs \in Seq(Ref) /\ refs # <<>> /\ ref \in Ref /\ In(refs, ref) /\ outcome' = "none"
    BY <1>1, <1>2, Waits, FileFacts DEF Waiting
  <1>7. /\ refs' \in Seq(Ref)
        /\ \A x : In(refs, x) => x = ref \/ In(refs', x)
        /\ \A x : In(MetaCalls, x) => In(refs', x)
        /\ \A x : In(refs', x) => In(refs, x) \/ In(MetaCalls, x)
    BY <1>1, <1>2, <1>6, InRequeued, CallInMetaCalls DEF Ref1
  <1>8. Handled(ref)'
    BY <1>2, <1>5, NamesAssumption DEF Handled
  <1>9. TypeOK'
    BY <1>2, <1>5, <1>7, NamesAssumption DEF IInv, TypeOK
  <1>10. \A n \in Declared : In(refs', CallOf(n))
    BY <1>7, CallInMetaCalls
  <1>11. NothingForgotten'
    BY <1>2, <1>4, <1>7, <1>8, <1>10, NothingForgottenStep
  <1>12. PICK g \in used : Refers(g, "Call", ref.name)
    BY <1>2, <1>6 DEF IInv, MetaHasCaller
  <1>13. ASSUME NEW S \in SUBSET Declared, Obeys(S)
         PROVE  Declared \subseteq S
    <2>1. g \in S
      BY <1>12, <1>13 DEF IInv, NothingExtra
    <2>. QED
      BY <2>1, <1>2, <1>12, <1>13 DEF Obeys
  <1>14. \A S : Obeys(S)' <=> Obeys(S)
    BY <1>2, <1>5 DEF Obeys, Refers
  <1>15. NothingExtra'
    BY <1>2, <1>5, <1>13, <1>14, FileFacts DEF NothingExtra
  <1>16. \A f, h, n : Refers(f, h, n)' <=> Refers(f, h, n)
    BY <1>2 DEF Refers
  <1>17. ASSUME NEW r \in Ref, In(refs', r), r.name \in Special, r.how = "Call"
         PROVE  \E f \in used' : Refers(f, "Call", r.name)
    <2>1. In(refs, r)
      BY <1>5, <1>7, <1>17, CallInMetaCalls
    <2>. QED
      BY <2>1, <1>2, <1>17 DEF IInv, MetaHasCaller
  <1>18. MetaHasCaller'
    BY <1>2, <1>5, <1>12, <1>16, <1>17 DEF MetaHasCaller
  <1>19. AtTheEnd'
    BY <1>2, <1>5, <1>6 DEF IInv, AtTheEnd, Done
  <1>. QED
    BY <1>5, <1>9, <1>11, <1>15, <1>18, <1>19 DEF IInv

LEMMA DropMetaEnumIInv ==
  ASSUME IInv, DropMetaEnum PROVE IInv'
  <1>1. PICK n \in enums \cap meta : enums' = enums \ {n}
    BY DEF DropMetaEnum
  <1>2. /\ outcome = "none" /\ refs = <<>>
        /\ UNCHANGED <<file, refs, used, externs, meta, metatable, outcome>>
    BY DEF DropMetaEnum, Running
  <1>3. Grows
    BY <1>1, <1>2 DEF Grows
  <1>4. FileOK' /\ Declared' = Declared /\ \A s : Scope(s)' = Scope(s)
    BY <1>2, FileStays
  <1>5. TypeOK'
    BY <1>1, <1>2, <1>4 DEF IInv, TypeOK
  <1>6. \A r : Handled(r) => Handled(r)'
    BY <1>3, HandledStays
  <1>7. ASSUME NEW f \in used', NEW k \in 1 .. Len(file.body[f]), NEW r, r = file.body[f][k]
        PROVE  In(refs', r) \/ Handled(r)'
    <2>1. In(refs, r) \/ Handled(r)
      BY <1>2, <1>7 DEF IInv, NothingForgotten
    <2>. QED
      BY <2>1, <1>2, <1>6
  <1>8. \A f \in used' : \A k \in 1 .. Len(file'.body[f]) :
          In(refs', file'.body[f][k]) \/ Handled(file.body[f][k])'
    BY <1>2, <1>7 DEF Handled
  <1>9. NothingForgotten'
    BY <1>2, <1>4, <1>8 DEF IInv, NothingForgotten
  <1>10. \A f, h, m : Refers(f, h, m)' <=> Refers(f, h, m)
    BY <1>2 DEF Refers
  <1>11. \A S : Obeys(S)' <=> Obeys(S)
    BY <1>4, <1>10 DEF Obeys
  <1>12. NothingExtra'
    BY <1>2, <1>4, <1>11 DEF IInv, NothingExtra
  <1>13. MetaHasCaller'
    BY <1>2, <1>4, <1>10 DEF IInv, MetaHasCaller
  <1>14. AtTheEnd'
    BY <1>1, <1>2, <1>4 DEF IInv, AtTheEnd, Done
  <1>. QED
    BY <1>4, <1>5, <1>9, <1>12, <1>13, <1>14 DEF IInv

\* What holds when nothing waits.
LEMMA VerdictType ==
  Verdict \in {"Success", "Fails", "recognition impossible"}
  BY DEF Verdict

LEMMA FinishIInv ==
  ASSUME IInv, Finish \/ UNCHANGED uvars PROVE IInv'
  <1>1. UNCHANGED <<file, refs, used, externs, meta, metatable, enums>>
    BY DEF Finish, uvars
  <1>2. FileOK' /\ Declared' = Declared /\ \A s : Scope(s)' = Scope(s)
    BY <1>1, FileStays
  <1>3. outcome' \in {"none", "Success", "Fails", "recognition impossible"}
    BY VerdictType DEF IInv, TypeOK, Finish, uvars
  <1>4. TypeOK'
    BY <1>1, <1>2, <1>3 DEF IInv, TypeOK
  <1>5. NothingForgotten'
    BY <1>1, <1>2 DEF IInv, NothingForgotten, Handled
  <1>8. NothingExtra'
    <2>1. \A S : Obeys(S)' <=> Obeys(S)
      BY <1>1, <1>2 DEF Obeys, Refers
    <2>. QED
      BY <2>1, <1>1, <1>2 DEF IInv, NothingExtra
  <1>9. MetaHasCaller'
    <2>1. \A f, h, n : Refers(f, h, n)' <=> Refers(f, h, n)
      BY <1>1 DEF Refers
    <2>. QED
      BY <2>1, <1>1, <1>2 DEF IInv, MetaHasCaller
  <1>6. Verdict' = Verdict
    BY <1>1, <1>2 DEF Verdict, Unused
  <1>7. AtTheEnd'
    BY <1>1, <1>2, <1>6 DEF IInv, AtTheEnd, Done, Finish, uvars
  <1>. QED
    BY <1>2, <1>4, <1>5, <1>7, <1>8, <1>9 DEF IInv

LEMMA InitIInv == Init => IInv
  <1>. SUFFICES ASSUME Init PROVE IInv
    OBVIOUS
  <1>1. file \in File /\ WellFormed(file) /\ refs = InitialUsage
    BY FilesAssumption DEF Init
  <1>2. file.entries \in Seq(Names)
    BY <1>1 DEF File
  <1>3. /\ refs \in Seq(Ref) /\ Len(refs) = Len(file.entries)
        /\ \A k \in 1 .. Len(file.entries) : refs[k] = CallOf(file.entries[k])
    BY <1>1, <1>2 DEF InitialUsage, CallOf, Ref
  <1>4. TypeOK
    BY <1>1, <1>3 DEF Init, TypeOK
  <1>5. {file.entries[k] : k \in 1 .. Len(file.entries)} = Scope("Entry")
    BY <1>1 DEF WellFormed, Scope, Declared
  <1>6. ASSUME NEW n \in Scope("Entry") PROVE In(refs, CallOf(n))
    <2>1. PICK k \in 1 .. Len(file.entries) : file.entries[k] = n
      BY <1>5
    <2>. QED
      BY <2>1, <1>3 DEF In
  <1>7. ASSUME NEW r, In(refs, r) PROVE r.name \in Scope("Entry")
    <2>1. PICK k \in 1 .. Len(file.entries) : r = CallOf(file.entries[k])
      BY <1>3, <1>7 DEF In
    <2>2. r.name = file.entries[k]
      BY <2>1 DEF CallOf
    <2>. QED
      BY <1>5, <2>2
  <1>8. NothingForgotten
    BY <1>6 DEF Init, NothingForgotten
  <1>9. NothingExtra
    BY <1>7 DEF Init, NothingExtra, Obeys
  <1>10. \A r : In(refs, r) => r.name \notin Special
    <2>1. PICK D \in SUBSET (Names \ (Regular \cup Special)) : file.scope \in [D -> {"Entry", "Local", "Extern"}]
      BY <1>1 DEF File
    <2>. QED
      BY <2>1, <1>7 DEF Scope, Declared
  <1>11. MetaHasCaller
    BY <1>10 DEF Init, MetaHasCaller
  <1>12. AtTheEnd
    BY DEF Init, AtTheEnd, Done
  <1>. QED
    BY <1>1, <1>4, <1>8, <1>9, <1>11, <1>12 DEF IInv, FileOK

LEMMA NextIInv == IInv /\ [Next]_uvars => IInv'
  BY UseExternIInv, UseFunctionIInv, SkipKnownIInv, UseBuiltinIInv, UseMetafunctionIInv,
     UseEnumIInv, DropMetaEnumIInv, FinishIInv DEF Next

LEMMA AlwaysIInv == Spec => []IInv
  <1>. QED
    BY InitIInv, NextIInv, PTL DEF Spec

-----------------------------------------------------------------------------
(* The results.                                                             *)

LEMMA HandledAtTheEnd ==
  ASSUME IInv, Done, NEW f \in used, NEW h \in {"Call", "Ident"}, NEW n, Refers(f, h, n)
  PROVE  Handled([how |-> h, name |-> n])
  <1>1. PICK k \in 1 .. Len(file.body[f]) : file.body[f][k] = [how |-> h, name |-> n]
    BY DEF Refers
  <1>2. ~In(refs, file.body[f][k])
    BY DEF IInv, AtTheEnd, In
  <1>. QED
    BY <1>1, <1>2 DEF IInv, NothingForgotten

LEMMA EntriesUsed ==
  ASSUME IInv, Done
  PROVE  Scope("Entry") \subseteq used /\ (meta # {} => Declared \subseteq used)
  <1>1. \A r : ~In(refs, r)
    BY DEF IInv, AtTheEnd, In
  <1>. QED
    BY <1>1 DEF IInv, NothingForgotten

(* What the compiler takes for used is what the documentation defines: no used function is
   reported, and no unused one slips through. *)
THEOREM UsedIsWhatTheDocsSay == Spec => []UsedIsLeast
  <1>1. ASSUME IInv, Done PROVE Obeys(used)
    <2>1. ASSUME NEW f \in used, NEW n \in Declared,
                 Refers(f, "Call", n) \/ (n \in Scope("Extern") /\ Refers(f, "Ident", n))
          PROVE  n \in used
      <3>1. CASE Refers(f, "Call", n)
        <4>1. Handled([how |-> "Call", name |-> n])
          BY <1>1, <3>1, HandledAtTheEnd
        <4>. QED
          BY <4>1 DEF Handled
      <3>2. CASE n \in Scope("Extern") /\ Refers(f, "Ident", n)
        <4>1. Handled([how |-> "Ident", name |-> n])
          BY <1>1, <3>2, HandledAtTheEnd
        <4>. QED
          BY <3>2, <4>1 DEF Handled
      <3>. QED
        BY <2>1, <3>1, <3>2
    <2>2. ASSUME NEW f \in used, NEW m \in Special, Refers(f, "Call", m)
          PROVE  Declared \subseteq used
      <3>1. Handled([how |-> "Call", name |-> m])
        BY <1>1, <2>2, HandledAtTheEnd
      <3>2. meta # {}
        BY <3>1 DEF Handled
      <3>. QED
        BY <1>1, <3>2, EntriesUsed
    <2>. QED
      BY <1>1, <2>1, <2>2, EntriesUsed DEF Obeys
  <1>2. IInv => UsedIsLeast
    BY <1>1 DEF UsedIsLeast, IInv, NothingExtra
  <1>. QED
    BY <1>2, AlwaysIInv, PTL

(* The messages are only ever asked for local functions and $EXTERNs. *)
THEOREM EntriesAreAlwaysUsed == Spec => []EntriesAreUsed
  <1>1. IInv => EntriesAreUsed
    BY EntriesUsed DEF EntriesAreUsed, IInv, AtTheEnd, Done, Verdict, Unused
  <1>. QED
    BY <1>1, AlwaysIInv, PTL

(* Every name the C code refers to has one declaration in it. *)
THEOREM NamesAreDeclaredOnce == Spec => []DeclaredOnce
  <1>1. ASSUME IInv, Done, NEW f \in used, NEW n \in Names, Mentions(f, n)
        PROVE  n \in Declared \cup externs \cup meta \cup enums
    <2>1. PICK h \in {"Call", "Ident"} : Refers(f, h, n)
      BY <1>1 DEF Mentions
    <2>2. Handled([how |-> h, name |-> n])
      BY <1>1, <2>1, HandledAtTheEnd
    <2>. QED
      BY <2>2 DEF Handled
  <1>2. ASSUME IInv, Done
        PROVE  /\ externs \cap meta = {} /\ enums \cap (Known \cup Regular) = {}
               /\ metatable \subseteq Declared \cup meta
    BY <1>2, NamesAssumption DEF IInv, TypeOK, AtTheEnd, MetaHasCaller, Known
  <1>3. IInv => DeclaredOnce
    BY <1>1, <1>2 DEF DeclaredOnce
  <1>. QED
    BY <1>3, AlwaysIInv, PTL

(* A file that may call anything by name has all of its functions in its metatable. *)
THEOREM MetatableHasAll == Spec => []MetatableIsWhole
  <1>1. ASSUME IInv, Done PROVE MetatableIsWhole
    <2>1. CASE \E f \in used, m \in Special : Refers(f, "Call", m)
      <3>1. PICK f \in used, m \in Special : Refers(f, "Call", m)
        BY <2>1
      <3>2. Handled([how |-> "Call", name |-> m])
        BY <1>1, <3>1, HandledAtTheEnd
      <3>3. meta # {}
        BY <3>2 DEF Handled
      <3>. QED
        BY <1>1, <2>1, <3>3 DEF IInv, MetaHasCaller, MetatableIsWhole
    <2>2. CASE ~\E f \in used, m \in Special : Refers(f, "Call", m)
      BY <1>1, <2>2 DEF IInv, MetaHasCaller, MetatableIsWhole
    <2>. QED
      BY <2>1, <2>2
  <1>2. IInv => MetatableIsWhole
    BY <1>1 DEF MetatableIsWhole
  <1>. QED
    BY <1>2, AlwaysIInv, PTL
=============================================================================
