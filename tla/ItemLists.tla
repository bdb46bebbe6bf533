----------------------------- MODULE ItemLists -----------------------------
(***************************************************************************)
(* What the compact storage promises to the runtime: three sequences of    *)
(* items and handles that go on denoting the item, or the end of a list,   *)
(* they were made for, wherever it moves, until the item is removed or the *)
(* call of the function that made them returns.                            *)
(***************************************************************************)
EXTENDS Integers, Sequences, SequencesExt, FiniteSets

CONSTANTS Item, Handle

VARIABLES
  list,      \* the sequences of items: view, buried, build
  partner,   \* pairs of linked brackets, each pair in both orders
  denotes,   \* what each live handle denotes
  lasting,   \* the handles that outlive the call: those on the call stack
  hole,      \* the item of build that the next allocation will fill, 0 if there is none
  inside     \* is a function running?

vars == <<list, partner, denotes, lasting, hole, inside>>

List  == {"view", "buried", "build"}
Begin == [view |-> -1, buried |-> -3, build |-> -5]
End   == [view |-> -2, buried |-> -4, build |-> -6]
Ends  == {Begin[l] : l \in List} \cup {End[l] : l \in List}

Held  == UNION {ToSet(list[l]) : l \in List}
Fresh == Item \ Held
Built == list["build"]

\* The handles when it is new and denotes x, if x has none yet.
Having(f, it, x) ==
  IF \E other \in DOMAIN f : f[other] = x
  THEN f
  ELSE [h \in DOMAIN f \cup {it} |-> IF h = it THEN x ELSE f[h]]

\* The handles that denote none of the items.
Without(f, items) == [h \in {g \in DOMAIN f : f[g] \notin items} |-> f[h]]

InFront(ids, i, more) == SubSeq(ids, 1, i - 1) \o more \o SubSeq(ids, i, Len(ids))
Between(ids, a, b)    == SubSeq(ids, a, b)
Cut(ids, a, b)        == SubSeq(ids, 1, a - 1) \o SubSeq(ids, b + 1, Len(ids))

-----------------------------------------------------------------------------
Init ==
  /\ list = [l \in List |-> <<>>] /\ partner = {}
  /\ denotes = [h \in {} |-> 0] /\ lasting = {}
  /\ hole = 0 /\ inside = FALSE

Enter == ~inside /\ inside' = TRUE /\ UNCHANGED <<list, partner, denotes, lasting, hole>>

Leave ==
  /\ inside /\ inside' = FALSE
  /\ denotes' = [h \in lasting |-> denotes[h]]
  /\ UNCHANGED <<list, partner, lasting, hole>>

Acquire(it, x) ==
  /\ it \notin DOMAIN denotes
  /\ denotes' = Having(denotes, it, x)
  /\ lasting' = IF inside THEN lasting ELSE lasting \cup {it}
  /\ UNCHANGED <<list, partner, hole, inside>>

Push(it) ==
  /\ inside /\ lasting' = lasting \cup {it}
  /\ UNCHANGED <<list, partner, denotes, hole, inside>>

Link(x, y) ==
  /\ inside /\ x # y /\ \A pair \in partner : pair[1] \notin {x, y}
  /\ partner' = partner \cup {<<x, y>>, <<y, x>>}
  /\ UNCHANGED <<list, denotes, lasting, hole, inside>>

Unlinked(items) == {pair \in partner : pair[1] \notin items /\ pair[2] \notin items}

Unlink(x) ==
  /\ inside /\ partner' = Unlinked({x})
  /\ UNCHANGED <<list, denotes, lasting, hole, inside>>

\* What is allocated first fills the hole; ids is what comes behind it.
Alloc(ids) ==
  /\ inside /\ hole' = 0
  /\ list' = [list EXCEPT !["build"] = @ \o ids]
  /\ UNCHANGED <<partner, denotes, lasting, inside>>

AllocNode(it, x, isHole) ==
  /\ inside /\ hole = 0 /\ it \notin DOMAIN denotes
  /\ list' = [list EXCEPT !["build"] = Append(@, x)]
  /\ denotes' = Having(denotes, it, x)
  /\ hole' = IF isHole THEN x ELSE 0
  /\ UNCHANGED <<partner, lasting, inside>>

Forget(items) ==
  /\ partner' = Unlinked(items)
  /\ lasting' = {h \in lasting : denotes[h] \notin items}

ResetBuild ==
  /\ inside /\ hole' = 0
  /\ list' = [list EXCEPT !["build"] = <<>>]
  /\ denotes' = Without(denotes, ToSet(Built))
  /\ Forget(ToSet(Built))
  /\ UNCHANGED inside

\* Items a .. b of one list go in front of place i of the other, or of its end.
Splice(from, a, b, to, i) ==
  /\ inside /\ from # to
  /\ list' = [list EXCEPT ![from] = Cut(@, a, b),
                          ![to]   = InFront(@, i, Between(list[from], a, b))]
  /\ UNCHANGED <<partner, denotes, lasting, hole, inside>>

\* Items a .. b go in front of an earlier place of their list.
SpliceBack(l, a, b, i) ==
  /\ inside /\ i < a
  /\ list' = [list EXCEPT ![l] = InFront(Cut(@, a, b), i, Between(@, a, b))]
  /\ UNCHANGED <<partner, denotes, lasting, hole, inside>>

\* The result without its hole goes in front of place i.
Publish(to, i) ==
  /\ inside /\ hole' = 0
  /\ list' = [list EXCEPT ![to] = InFront(@, i, SelectSeq(Built, LAMBDA x : x # hole)),
                          !["build"] = <<>>]
  /\ denotes' = Without(denotes, {hole})
  /\ Forget({hole})
  /\ UNCHANGED inside

\* Items a .. b die; a handle of what is behind them may be new.
Discard(l, a, b, it, behind) ==
  /\ inside
  /\ it \notin DOMAIN denotes
  /\ list' = [list EXCEPT ![l] = Cut(@, a, b)]
  /\ LET gone == ToSet(Between(list[l], a, b))
     IN  denotes' = Having(Without(denotes, gone), it, behind) /\ Forget(gone)
  /\ UNCHANGED <<hole, inside>>

Next ==
  \/ Enter \/ Leave
  \/ \E it \in Handle, x \in Held \cup Ends : Acquire(it, x)
  \/ \E it \in DOMAIN denotes : Push(it)
  \/ \E x, y \in Held : Link(x, y)
  \/ \E x \in Held : Unlink(x)
  \/ \E new \in SUBSET Fresh : \E ids \in SetToSeqs(new) : Alloc(ids)
  \/ \E it \in Handle, x \in Fresh, isHole \in BOOLEAN : AllocNode(it, x, isHole)
  \/ ResetBuild
  \/ \E from, to \in List : \E a \in DOMAIN list[from], i \in 1 .. Len(list[to]) + 1 :
       \E b \in a .. Len(list[from]) : Splice(from, a, b, to, i)
  \/ \E l \in List : \E a \in DOMAIN list[l], i \in DOMAIN list[l] :
       \E b \in a .. Len(list[l]) : SpliceBack(l, a, b, i)
  \/ \E to \in List \ {"build"} : \E i \in 1 .. Len(list[to]) + 1 : Publish(to, i)
  \/ \E l \in List : \E a \in DOMAIN list[l] : \E b \in a .. Len(list[l]) :
       \E it \in Handle : Discard(l, a, b, it, IF b = Len(list[l]) THEN End[l] ELSE list[l][b + 1])

Spec == Init /\ [][Next]_vars
=============================================================================
