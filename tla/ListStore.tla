------------------------------ MODULE ListStore ------------------------------
(***************************************************************************)
(* What the node memory promises to its callers, without addresses of      *)
(* neighbours: three sequences of nodes, and how many nodes at the start   *)
(* of the free one have been allocated since the allocator was reset.      *)
(***************************************************************************)
EXTENDS Naturals, Sequences

VARIABLES
  list,     \* [List -> Seq(node)]
  built,    \* length of the allocated prefix of list.free
  live      \* FALSE once the process has run out of memory

lvars == <<list, built, live>>

List == {"free", "view", "buried"}

Cut(s, i, j)   == SubSeq(s, 1, i - 1) \o SubSeq(s, j + 1, Len(s))
Paste(s, k, r) == SubSeq(s, 1, k - 1) \o r \o SubSeq(s, k, Len(s))

Init ==
  /\ list = [l \in List |-> <<>>]
  /\ built = 0
  /\ live = TRUE

Reset == built' = 0 /\ UNCHANGED <<list, live>>

\* New nodes only ever appear at the end of a free list that is used up.
Grow(nodes) ==
  /\ built = Len(list["free"])
  /\ list' = [list EXCEPT !["free"] = @ \o nodes]

Alloc(nodes) ==
  /\ Grow(nodes) \/ (built < Len(list["free"]) /\ UNCHANGED list)
  /\ built' = built + 1
  /\ UNCHANGED live

Prepare(nodes) == Grow(nodes) /\ UNCHANGED <<built, live>>

Fail == built = Len(list["free"]) /\ live' = FALSE /\ UNCHANGED <<list, built>>

\* The range i..j of one list goes in front of position k of what is left of another (or of
\* the same) list; in front of the allocation point it counts as built.
Move(from, to, i, j, k) ==
  LET range == SubSeq(list[from], i, j)
      rest  == [list EXCEPT ![from] = Cut(@, i, j)]
  IN  /\ k \in 1 .. Len(rest[to]) + 1
      /\ list' = [rest EXCEPT ![to] = Paste(@, k, range)]
      /\ built' = IF to = "free" /\ k <= built + 1 THEN built + Len(range) ELSE built
      /\ UNCHANGED live

\* Everything built goes in front of position k of another list.
Publish(to, k) ==
  /\ k \in 1 .. Len(list[to]) + 1
  /\ list' = [list EXCEPT !["free"] = SubSeq(@, built + 1, Len(@)),
                          ![to] = Paste(@, k, SubSeq(list["free"], 1, built))]
  /\ built' = 0
  /\ UNCHANGED live

-----------------------------------------------------------------------------
CONSTANTS Chunks    \* the sequences of nodes the host may provide

Next ==
  /\ live
  /\ \/ Reset
     \/ \E nodes \in Chunks : Alloc(nodes) \/ Prepare(nodes)
     \/ Fail
     \/ \E from \in {"view", "buried"}, to \in List : \E j \in 1 .. Len(list[from]) :
          \E i \in 1 .. j : \E k \in 1 .. Len(list[to]) + 1 : Move(from, to, i, j, k)
     \/ \E to \in {"view", "buried"} : \E k \in 1 .. Len(list[to]) + 1 : Publish(to, k)

Spec == Init /\ [][Next]_lvars
=============================================================================
