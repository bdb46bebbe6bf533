--------------------------- MODULE NodeStoreProofs ---------------------------
(***************************************************************************)
(* Proofs about NodeStore for every chunk size, number of chunks, memory   *)
(* limit and symbol set: the node lists stay doubly linked and separate,   *)
(* the allocation pointer never leaves the free list, no node is lost,     *)
(* what the program builds stays free until it is published, and the       *)
(* pointer operations implement the three sequences of ListStore.          *)
(***************************************************************************)
EXTENDS MCNodeStore, Induction, TLAPS

(* The sentinels never change lists: only owned nodes do. *)
SentinelsStay(h) == \A l \in List : h[Begin(l)] = l /\ h[End(l)] = l
SentinelsAtHome == SentinelsStay(home)

(* The inductive invariant. Linked alone is not inductive: that the node after s_free_ptr
   exists, and that a discarded range does not contain s_free_ptr, both need to know which
   list an address is in. *)
IInv ==
  /\ TypeOK
  /\ Linked
  /\ Separated
  /\ FreePtrIsFree
  /\ SentinelsAtHome

-----------------------------------------------------------------------------
(* Addresses.                                                               *)

LEMMA AddressFacts ==
  /\ MaxNode \in Nat
  /\ NULL \notin Addr
  /\ Begins \cap Ends = {}
  /\ Node \cap Sentinel = {}
  <1>1. MaxNode \in Nat
    BY ChunkAssumption, SMT DEF MaxNode
  <1>. QED
    BY <1>1 DEF Node, Addr, Sentinel, Begins, Ends, NULL, FreeBegin, FreeEnd,
                ViewBegin, ViewEnd, BuriedBegin, BuriedEnd

LEMMA OwnedAddr ==
  ASSUME TypeOK
  PROVE  Owned(mem) \subseteq Node
  BY AddressFacts DEF TypeOK, Memory, Owned, Node

LEMMA SentinelLists ==
  /\ Begin("free") = FreeBegin /\ Begin("view") = ViewBegin /\ Begin("buried") = BuriedBegin
  /\ End("free") = FreeEnd /\ End("view") = ViewEnd /\ End("buried") = BuriedEnd
  BY DEF Begin, End, FreeBegin, FreeEnd, ViewBegin, ViewEnd, BuriedBegin, BuriedEnd

-----------------------------------------------------------------------------
(* list_splice, under the contract Movable, keeps the three lists linked and separate. *)

(* The three welds of list_splice, when the ends they touch are six different links. *)
Spliced(res, b, e) ==
  /\ mem'.next = [mem.next EXCEPT ![mem.prev[res]] = b, ![e] = res,
                                         ![mem.prev[b]] = mem.next[e]]
  /\ mem'.prev = [mem.prev EXCEPT ![b] = mem.prev[res], ![res] = e,
                                  ![mem.next[e]] = mem.prev[b]]
  /\ mem'.free = mem.free /\ mem'.used = mem.used /\ mem'.exit = mem.exit /\ mem' \in Memory
  /\ {b, e, res, mem.prev[res], mem.prev[b], mem.next[e]} \subseteq Owned(mem) \cup Sentinel
  /\ b \in Owned(mem) /\ e \in Owned(mem)
  /\ res \in Owned(mem) \cup Ends /\ mem.next[e] \in Owned(mem) \cup Ends
  /\ mem.prev[res] \in Owned(mem) \cup Begins /\ mem.prev[b] \in Owned(mem) \cup Begins
  /\ b # res /\ b # mem.next[e] /\ res # mem.next[e]
  /\ e # mem.prev[res] /\ e # mem.prev[b] /\ mem.prev[res] # mem.prev[b]

LEMMA SpliceLinks ==
  ASSUME IInv, mem.exit = 0,
         NEW S, NEW res, NEW b, NEW e,
         Movable(S, res, b, e),
         mem' = ListSplice(mem, res, b, e)
  PROVE  Spliced(res, b, e)
  <1>1. /\ b \in Owned(mem) /\ e \in Owned(mem) /\ b \in S /\ e \in S
        /\ res \in Owned(mem) \cup Ends
        /\ b # res /\ res # mem.next[e] /\ b # mem.next[e]
    BY DEF Movable, IsRange
  <1>2. /\ Owned(mem) \subseteq Node /\ Owned(mem) \subseteq Addr /\ Sentinel \subseteq Addr
        /\ b # NULL /\ NULL \notin Addr
    BY <1>1, OwnedAddr, AddressFacts DEF IInv, Addr
  <1>3. /\ res \notin Begins /\ b \notin Begins /\ e \notin Ends
        /\ res \in Owned(mem) \cup Sentinel
    BY <1>1, <1>2, AddressFacts DEF Sentinel
  <1>4. /\ mem.next[e] \in Owned(mem) \cup Ends /\ mem.prev[mem.next[e]] = e
        /\ mem.prev[res] \in Owned(mem) \cup Begins /\ mem.next[mem.prev[res]] = res
        /\ mem.prev[b] \in Owned(mem) \cup Begins /\ mem.next[mem.prev[b]] = b
    BY <1>1, <1>3 DEF IInv, Linked, IsLinked
  <1>5. e # mem.prev[res] /\ e # mem.prev[b] /\ mem.prev[res] # mem.prev[b]
    BY <1>1, <1>4
  <1>6. /\ mem.next \in [Addr -> Addr \cup {NULL}] /\ mem.prev \in [Addr -> Addr \cup {NULL}]
        /\ mem \in Memory
    BY DEF IInv, TypeOK, Memory
  <1>7. mem' = [mem EXCEPT
                  !.next = [mem.next EXCEPT ![mem.prev[res]] = b, ![e] = res,
                                            ![mem.prev[b]] = mem.next[e]],
                  !.prev = [mem.prev EXCEPT ![b] = mem.prev[res], ![res] = e,
                                            ![mem.next[e]] = mem.prev[b]]]
    BY <1>2, <1>6 DEF ListSplice, Weld, Memory
  <1>8. {b, e, res, mem.prev[res], mem.prev[b], mem.next[e]} \subseteq Addr
    BY <1>1, <1>2, <1>4 DEF Sentinel
  <1>9. /\ mem'.next = [mem.next EXCEPT ![mem.prev[res]] = b, ![e] = res,
                                         ![mem.prev[b]] = mem.next[e]]
        /\ mem'.prev = [mem.prev EXCEPT ![b] = mem.prev[res], ![res] = e,
                                         ![mem.next[e]] = mem.prev[b]]
        /\ mem'.free = mem.free /\ mem'.used = mem.used /\ mem'.exit = mem.exit
    BY <1>6, <1>7 DEF Memory
  <1>10. /\ [mem.next EXCEPT ![mem.prev[res]] = b, ![e] = res, ![mem.prev[b]] = mem.next[e]]
              \in [Addr -> Addr \cup {NULL}]
         /\ [mem.prev EXCEPT ![b] = mem.prev[res], ![res] = e, ![mem.next[e]] = mem.prev[b]]
              \in [Addr -> Addr \cup {NULL}]
    BY <1>6, <1>8
  <1>11. mem' \in Memory
    BY <1>6, <1>7, <1>10 DEF Memory
  <1>. QED
    BY <1>1, <1>3, <1>4, <1>5, <1>9, <1>11 DEF Sentinel, Spliced

LEMMA SpliceInvariant ==
  ASSUME IInv, mem.exit = 0,
         NEW S, NEW res, NEW b, NEW e,
         Movable(S, res, b, e),
         mem' = ListSplice(mem, res, b, e),
         Rehome(S, res)
  PROVE  /\ TypeOK' /\ Linked' /\ Separated' /\ SentinelsAtHome'
         /\ mem'.free = mem.free /\ mem'.used = mem.used
         /\ Owned(mem') = Owned(mem) /\ Owned(mem)' = Owned(mem)
  <1> DEFINE pr == mem.prev[res]
             pb == mem.prev[b]
             ne == mem.next[e]
             All == Owned(mem) \cup Sentinel
  <1>1. /\ mem'.next = [mem.next EXCEPT ![pr] = b, ![e] = res, ![pb] = ne]
        /\ mem'.prev = [mem.prev EXCEPT ![b] = pr, ![res] = e, ![ne] = pb]
        /\ mem'.free = mem.free /\ mem'.used = mem.used /\ mem' \in Memory
        /\ {b, e, res, pr, pb, ne} \subseteq All
        /\ b \in Owned(mem) /\ e \in Owned(mem)
        /\ res \in Owned(mem) \cup Ends /\ ne \in Owned(mem) \cup Ends
        /\ pr \in Owned(mem) \cup Begins /\ pb \in Owned(mem) \cup Begins
        /\ b # res /\ b # ne /\ res # ne /\ e # pr /\ e # pb /\ pr # pb
    <2>1. Spliced(res, b, e)
      BY SpliceLinks
    <2>. QED
      BY <2>1 DEF Spliced
  <1>2. All \subseteq Addr /\ Owned(mem) \cap Sentinel = {} /\ Begins \cap Ends = {}
    BY OwnedAddr, AddressFacts DEF IInv, Addr
  <1>3. /\ mem.next \in [Addr -> Addr \cup {NULL}] /\ mem.prev \in [Addr -> Addr \cup {NULL}]
        /\ mem \in Memory /\ home \in [Addr -> List \cup {"none"}]
    BY DEF IInv, TypeOK, Memory
  <1>5. Owned(mem') = Owned(mem) /\ Owned(mem)' = Owned(mem)
    BY <1>1 DEF Owned
  <1>6. /\ mem'.next[pr] = b /\ mem'.next[e] = res /\ mem'.next[pb] = ne
        /\ mem'.prev[b] = pr /\ mem'.prev[res] = e /\ mem'.prev[ne] = pb
        /\ \A x \in All \ {pr, e, pb} : mem'.next[x] = mem.next[x]
        /\ \A x \in All \ {b, res, ne} : mem'.prev[x] = mem.prev[x]
    BY <1>1, <1>2, <1>3
  <1>7. IsLinked(mem)
    BY DEF IInv, Linked
  <1>8. IsLinked(mem')
    <2> SUFFICES ASSUME NEW x \in All
                 PROVE  /\ x \in Ends   => mem'.next[x] = NULL
                        /\ x \in Begins => mem'.prev[x] = NULL
                        /\ x \notin Ends   => /\ mem'.next[x] \in Owned(mem) \cup Ends
                                              /\ mem'.prev[mem'.next[x]] = x
                        /\ x \notin Begins => /\ mem'.prev[x] \in Owned(mem) \cup Begins
                                              /\ mem'.next[mem'.prev[x]] = x
      BY <1>5 DEF IsLinked
    <2>1. x \in Ends => mem'.next[x] = NULL
      BY <1>1, <1>2, <1>6, <1>7 DEF IsLinked, Sentinel
    <2>2. x \in Begins => mem'.prev[x] = NULL
      <3>1. x \in Begins => x \notin {b, res, ne}
        BY <1>1, <1>2 DEF Sentinel
      <3>. QED
        BY <3>1, <1>6, <1>7 DEF IsLinked
    <2>3. ASSUME x \notin Ends
          PROVE  mem'.next[x] \in Owned(mem) \cup Ends /\ mem'.prev[mem'.next[x]] = x
      <3>1. CASE x \in {pr, e, pb}
        BY <3>1, <1>1, <1>6
      <3>2. CASE x \notin {pr, e, pb}
        <4>1. mem'.next[x] = mem.next[x] /\ mem.next[x] \in Owned(mem) \cup Ends
              /\ mem.prev[mem.next[x]] = x
          BY <3>2, <2>3, <1>6, <1>7 DEF IsLinked
        <4>2. mem.next[x] \notin {b, res, ne}
          <5>1. mem.prev[b] = pb /\ mem.prev[res] = pr /\ mem.prev[ne] = e
            BY <1>1, <1>2, <1>7 DEF IsLinked, Sentinel
          <5>. QED
            BY <4>1, <3>2, <5>1
        <4>. QED
          BY <4>1, <4>2, <1>6 DEF Sentinel
      <3>. QED
        BY <3>1, <3>2
    <2>4. ASSUME x \notin Begins
          PROVE  mem'.prev[x] \in Owned(mem) \cup Begins /\ mem'.next[mem'.prev[x]] = x
      <3>1. CASE x \in {b, res, ne}
        BY <3>1, <1>1, <1>6
      <3>2. CASE x \notin {b, res, ne}
        <4>1. mem'.prev[x] = mem.prev[x] /\ mem.prev[x] \in Owned(mem) \cup Begins
              /\ mem.next[mem.prev[x]] = x
          BY <3>2, <2>4, <1>6, <1>7 DEF IsLinked
        <4>2. mem.prev[x] \notin {pr, e, pb}
          BY <4>1, <3>2, <1>1, <1>2, <1>7 DEF IsLinked, Sentinel
        <4>. QED
          BY <4>1, <4>2, <1>6 DEF Sentinel
      <3>. QED
        BY <3>1, <3>2
    <2>. QED
      BY <2>1, <2>2, <2>3, <2>4
  <1>9. /\ home' = [x \in Addr |-> IF x \in S THEN home[res] ELSE home[x]]
        /\ S \subseteq Owned(mem) /\ b \in S /\ e \in S
        /\ res \notin S /\ ne \notin S /\ pb \notin S
        /\ \A x \in S : home[x] = home[b]
        /\ \A x \in S \ {e} : mem.next[x] \in S
        /\ \A x \in S \ {b} : mem.prev[x] \in S
    BY DEF Rehome, Movable, IsRange
  <1>10. IsSeparated(mem, home)
    BY DEF IInv, Separated
  <1>11. IsSeparated(mem', home')
    <2>1. \A x \in All : home'[x] = IF x \in S THEN home[res] ELSE home[x]
      BY <1>2, <1>9
    <2>2. /\ home[pr] = home[res] /\ home[pb] = home[b] /\ home[ne] = home[e]
          /\ home[e] = home[b]
      BY <1>1, <1>2, <1>9, <1>10 DEF IsSeparated, Sentinel
    <2>3. pr \notin S
      BY <1>1, <1>2, <1>7, <1>9 DEF IsLinked, Sentinel
    <2>4. \A x \in All : home'[x] \in List
      BY <2>1, <1>1, <1>10 DEF IsSeparated
    <2>5. ASSUME NEW x \in All, x \notin Ends
          PROVE  home'[mem'.next[x]] = home'[x]
      <3>1. CASE x \in {pr, e, pb}
        BY <3>1, <2>1, <2>2, <2>3, <1>1, <1>6, <1>9
      <3>2. CASE x \notin {pr, e, pb}
        <4>1. /\ mem'.next[x] = mem.next[x] /\ mem.next[x] \in All
              /\ home[mem.next[x]] = home[x] /\ mem.prev[mem.next[x]] = x
          BY <3>2, <2>5, <1>6, <1>7, <1>10 DEF IsLinked, IsSeparated, Sentinel
        <4>2. x \in S <=> mem.next[x] \in S
          BY <4>1, <3>2, <1>9
        <4>. QED
          BY <4>1, <4>2, <2>1
      <3>. QED
        BY <3>1, <3>2
    <2>6. ASSUME NEW x \in All, x \notin Begins
          PROVE  home'[mem'.prev[x]] = home'[x]
      <3>1. /\ mem'.prev[x] \in All \ Ends /\ mem'.next[mem'.prev[x]] = x
        BY <2>6, <1>2, <1>5, <1>8 DEF IsLinked, Sentinel
      <3>. QED
        BY <3>1, <2>5
    <2>. QED
      BY <2>4, <2>5, <2>6, <1>5 DEF IsSeparated
  <1>12. home' \in [Addr -> List \cup {"none"}]
    BY <1>1, <1>2, <1>3, <1>9
  <1>13. SentinelsAtHome'
    <2>1. \A y \in Sentinel : home'[y] = home[y]
      BY <1>2, <1>9 DEF Addr
    <2>. QED
      BY <2>1, SentinelLists DEF IInv, SentinelsAtHome, SentinelsStay, List, Sentinel, Begins, Ends
  <1>. QED
    BY <1>1, <1>5, <1>8, <1>11, <1>12, <1>13 DEF TypeOK, Linked, Separated

-----------------------------------------------------------------------------
(* create_nodes adds a chunk at the end of the free list.                   *)

(* The parts of the invariant, of any memory m and assignment h of lists. *)
Sound(m, h) ==
  /\ m \in Memory
  /\ h \in [Addr -> List \cup {"none"}]
  /\ IsLinked(m)
  /\ IsSeparated(m, h)
  /\ m.free \in Owned(m) \cup {FreeEnd}
  /\ h[m.free] = "free"
  /\ SentinelsStay(h)

LEMMA SoundIsIInv ==
  IInv <=> Sound(mem, home)
  BY DEF IInv, Sound, TypeOK, Linked, Separated, FreePtrIsFree, SentinelsAtHome

Adopted(m) == [x \in Addr |-> IF x \in Owned(m) \ Owned(mem) THEN "free" ELSE home[x]]

(* The chunk first .. last of m, born in the free list, follows p, which was its last node. *)
Appended(m, p, first, last) ==
  /\ first = mem.used + 1 /\ last = mem.used + ChunkSize
  /\ m.used = last /\ m.free = first
  /\ Owned(m) = Owned(mem) \cup first .. last
  /\ (first .. last) \cap (Owned(mem) \cup Sentinel) = {} /\ first .. last \subseteq Addr
  /\ p \in Owned(mem) \cup Sentinel /\ mem.next[p] = FreeEnd /\ home[p] = "free"
  /\ m.next[p] = first /\ m.next[last] = FreeEnd
  /\ \A x \in first .. last - 1 : m.next[x] = x + 1
  /\ \A x \in (Owned(mem) \cup Sentinel) \ {p} : m.next[x] = mem.next[x]
  /\ \A x \in first .. last : Adopted(m)[x] = "free"
  /\ \A x \in Owned(mem) \cup Sentinel : Adopted(m)[x] = home[x]

LEMMA CreateNodesSound ==
  ASSUME IInv, mem.exit = 0, mem.free = FreeEnd, CanCreate(mem)
  PROVE  /\ Sound(CreateNodes(mem), Adopted(CreateNodes(mem)))
         /\ Appended(CreateNodes(mem), mem.prev[FreeEnd], mem.used + 1, mem.used + ChunkSize)
         /\ CreateNodes(mem).free \in Owned(CreateNodes(mem))
         /\ CreateNodes(mem).exit = 0
  <1> DEFINE first == mem.used + 1
             last  == mem.used + ChunkSize
             p     == mem.prev[FreeEnd]
             m     == CreateNodes(mem)
             h     == Adopted(m)
             All   == Owned(mem) \cup Sentinel
             New   == first .. last
             newNext == [[x \in Addr |-> IF x \in first .. last - 1 THEN x + 1 ELSE mem.next[x]]
                          EXCEPT ![p] = first, ![last] = FreeEnd]
             newPrev == [[x \in Addr |-> IF x \in first + 1 .. last THEN x - 1 ELSE mem.prev[x]]
                          EXCEPT ![first] = p, ![FreeEnd] = last]
             newTag  == [x \in Addr |-> IF x \in first .. last THEN "illegal" ELSE mem.tag[x]]
  <1>1. /\ mem \in Memory /\ home \in [Addr -> List \cup {"none"}]
        /\ mem.next \in [Addr -> Addr \cup {NULL}] /\ mem.prev \in [Addr -> Addr \cup {NULL}]
        /\ mem.tag \in [Addr -> Tag]
        /\ mem.used \in Nat /\ IsLinked(mem) /\ IsSeparated(mem, home)
    BY AddressFacts DEF IInv, TypeOK, Memory, Linked, Separated
  <1>2. /\ first \in New /\ last \in New /\ New \subseteq Node /\ New \cap Owned(mem) = {}
        /\ Owned(mem) \cup New = 1 .. last /\ last \in 0 .. MaxNode
    BY <1>1, ChunkAssumption, AddressFacts DEF CanCreate, Node, Owned
  <1>3. /\ All \subseteq Addr /\ New \subseteq Addr /\ New \cap All = {}
        /\ FreeEnd \in Ends /\ FreeEnd \in All /\ FreeEnd \notin Begins
        /\ Begins \cap Ends = {} /\ NULL \notin Addr
    BY <1>2, OwnedAddr, AddressFacts DEF IInv, Addr, Sentinel, Ends
  <1>4. /\ p \in Owned(mem) \cup Begins /\ mem.next[p] = FreeEnd /\ p \in All
        /\ home[p] = home[FreeEnd]
    BY <1>1, <1>3 DEF IsLinked, IsSeparated, Sentinel
  <1>5. /\ m.next = newNext /\ m.prev = newPrev /\ m.free = first /\ m.used = last
        /\ m.exit = 0 /\ m \in Memory
    <2> DEFINE next1 == [x \in Addr |-> IF x \in first .. last - 1 THEN x + 1 ELSE mem.next[x]]
               prev1 == [x \in Addr |-> IF x \in first + 1 .. last THEN x - 1 ELSE mem.prev[x]]
               chunk == [mem EXCEPT !.next = next1, !.prev = prev1, !.tag = newTag,
                                    !.free = first, !.used = last]
    <2>1. m = Weld(Weld(chunk, p, first), last, FreeEnd)
      BY DEF CreateNodes
    <2>2. newNext = [[next1 EXCEPT ![p] = first] EXCEPT ![last] = FreeEnd]
      OBVIOUS
    <2>3. newPrev = [[prev1 EXCEPT ![first] = p] EXCEPT ![FreeEnd] = last]
      OBVIOUS
    <2>4. newTag \in [Addr -> Tag]
      BY <1>1 DEF Tag
    <2>5. /\ \A x \in first .. last - 1 : x + 1 \in Addr
          /\ \A x \in first + 1 .. last : x - 1 \in Addr
          /\ first \in Addr /\ last \in Addr /\ p \in Addr /\ FreeEnd \in Addr
      BY <1>1, <1>2, <1>3, <1>4
    <2>6. next1 \in [Addr -> Addr \cup {NULL}] /\ prev1 \in [Addr -> Addr \cup {NULL}]
      BY <2>5, <1>1
    <2>. HIDE DEF next1, prev1, newTag, newNext, newPrev, m, first, last, p
    <2>7. newNext \in [Addr -> Addr \cup {NULL}] /\ newPrev \in [Addr -> Addr \cup {NULL}]
      BY <2>2, <2>3, <2>5, <2>6
    <2>8. /\ chunk.next = next1 /\ chunk.prev = prev1 /\ chunk.free = first
          /\ chunk.used = last /\ chunk.exit = 0
      BY <1>1 DEF Memory
    <2>9. chunk \in Memory
      BY <1>1, <1>2, <2>4, <2>5, <2>6 DEF Memory
    <2>. HIDE DEF chunk
    <2>10. m = [chunk EXCEPT !.next = newNext, !.prev = newPrev]
      BY <2>1, <2>2, <2>3, <2>8, <2>9 DEF Weld, Memory
    <2>11. /\ m.next = newNext /\ m.prev = newPrev /\ m.free = first /\ m.used = last
           /\ m.exit = 0
      BY <2>8, <2>9, <2>10 DEF Memory
    <2>12. m \in Memory
      BY <2>7, <2>9, <2>10 DEF Memory
    <2>. QED
      BY <2>11, <2>12
  <1>. HIDE DEF m
  <1>n. m.next = newNext /\ m.prev = newPrev
    BY <1>5
  <1>6. m.free = first /\ m.used = last /\ m.exit = 0 /\ Owned(m) = Owned(mem) \cup New
    BY <1>2, <1>5 DEF Owned
  <1>7. /\ m.next[p] = first /\ m.next[last] = FreeEnd
        /\ m.prev[first] = p /\ m.prev[FreeEnd] = last
        /\ \A x \in first .. last - 1 : m.next[x] = x + 1 /\ x + 1 \in New /\ x \in New
        /\ \A x \in first + 1 .. last : m.prev[x] = x - 1 /\ x - 1 \in New /\ x \in New
        /\ \A x \in All \ {p} : m.next[x] = mem.next[x]
        /\ \A x \in All \ {FreeEnd} : m.prev[x] = mem.prev[x]
    <2>1. p # last /\ first # FreeEnd /\ p # first /\ last # FreeEnd
      BY <1>2, <1>3, <1>4
    <2>a. p \in Addr /\ first \in Addr /\ last \in Addr /\ FreeEnd \in Addr
      BY <1>2, <1>3, <1>4
    <2>2. /\ m.next[p] = first /\ m.next[last] = FreeEnd
          /\ m.prev[first] = p /\ m.prev[FreeEnd] = last
      <3>. HIDE DEF first, last, p, New, All
      <3>. QED
        BY <2>1, <2>a, <1>n
    <2>3. \A x \in first .. last - 1 :
            x \in New /\ x + 1 \in New /\ x # last /\ x # p /\ x \in Addr
      BY <1>1, <1>2, <1>3, <1>4, ChunkAssumption
    <2>4. \A x \in first + 1 .. last :
            x \in New /\ x - 1 \in New /\ x # first /\ x # FreeEnd /\ x \in Addr
      BY <1>1, <1>2, <1>3, ChunkAssumption
    <2>5. \A x \in first .. last - 1 : m.next[x] = x + 1
      BY <2>3, <1>n
    <2>6. \A x \in first + 1 .. last : m.prev[x] = x - 1
      BY <2>4, <1>n
    <2>7. \A x \in All : x \in Addr /\ x \notin first .. last - 1 /\ x \notin first + 1 .. last
                         /\ x # first /\ x # last
      BY <1>1, <1>2, <1>3, ChunkAssumption
    <2>8. /\ \A x \in All \ {p} : m.next[x] = mem.next[x]
          /\ \A x \in All \ {FreeEnd} : m.prev[x] = mem.prev[x]
      BY <2>7, <1>n
    <2>. QED
      BY <2>2, <2>3, <2>4, <2>5, <2>6, <2>8
  <1>8. m \in Memory
    BY <1>5
  <1>9. IsLinked(m)
    <2> SUFFICES ASSUME NEW x \in All \cup New
                 PROVE  /\ x \in Ends   => m.next[x] = NULL
                        /\ x \in Begins => m.prev[x] = NULL
                        /\ x \notin Ends   => /\ m.next[x] \in Owned(m) \cup Ends
                                              /\ m.prev[m.next[x]] = x
                        /\ x \notin Begins => /\ m.prev[x] \in Owned(m) \cup Begins
                                              /\ m.next[m.prev[x]] = x
      BY <1>6 DEF IsLinked
    <2>1. CASE x \in New
      <3>1. x \notin Sentinel /\ x \notin Ends /\ x \notin Begins
        BY <2>1, <1>3 DEF Sentinel
      <3>2. m.next[x] \in Owned(m) \cup Ends /\ m.prev[m.next[x]] = x
        <4>1. CASE x = last
          BY <4>1, <1>3, <1>7
        <4>2. CASE x # last
          <5>1. x \in first .. last - 1 /\ x + 1 \in first + 1 .. last /\ (x + 1) - 1 = x
            BY <4>2, <2>1, <1>1, ChunkAssumption
          <5>. QED
            BY <5>1, <1>6, <1>7
        <4>. QED
          BY <4>1, <4>2
      <3>3. m.prev[x] \in Owned(m) \cup Begins /\ m.next[m.prev[x]] = x
        <4>1. CASE x = first
          BY <4>1, <1>4, <1>6, <1>7
        <4>2. CASE x # first
          <5>1. x \in first + 1 .. last /\ x - 1 \in first .. last - 1 /\ (x - 1) + 1 = x
            BY <4>2, <2>1, <1>1, ChunkAssumption
          <5>. QED
            BY <5>1, <1>6, <1>7
        <4>. QED
          BY <4>1, <4>2
      <3>. QED
        BY <3>1, <3>2, <3>3
    <2>2. CASE x \in All
      <3>1. x \in Ends => m.next[x] = NULL
        BY <2>2, <1>1, <1>3, <1>4, <1>7 DEF IsLinked, Sentinel
      <3>2. x \in Begins => m.prev[x] = NULL
        BY <2>2, <1>1, <1>3, <1>7 DEF IsLinked
      <3>3. ASSUME x \notin Ends PROVE m.next[x] \in Owned(m) \cup Ends /\ m.prev[m.next[x]] = x
        <4>1. CASE x = p
          BY <4>1, <1>2, <1>6, <1>7
        <4>2. CASE x # p
          <5>1. /\ m.next[x] = mem.next[x] /\ mem.next[x] \in Owned(mem) \cup Ends
                /\ mem.prev[mem.next[x]] = x /\ mem.next[x] \in All
            BY <4>2, <3>3, <2>2, <1>1, <1>7 DEF IsLinked, Sentinel
          <5>2. mem.next[x] # FreeEnd
            BY <5>1, <4>2
          <5>. QED
            BY <5>1, <5>2, <1>6, <1>7
        <4>. QED
          BY <4>1, <4>2
      <3>4. ASSUME x \notin Begins PROVE m.prev[x] \in Owned(m) \cup Begins /\ m.next[m.prev[x]] = x
        <4>1. CASE x = FreeEnd
          BY <4>1, <1>2, <1>6, <1>7
        <4>2. CASE x # FreeEnd
          <5>1. /\ m.prev[x] = mem.prev[x] /\ mem.prev[x] \in Owned(mem) \cup Begins
                /\ mem.next[mem.prev[x]] = x /\ mem.prev[x] \in All
            BY <4>2, <3>4, <2>2, <1>1, <1>7 DEF IsLinked, Sentinel
          <5>2. mem.prev[x] # p
            BY <5>1, <4>2, <1>4
          <5>. QED
            BY <5>1, <5>2, <1>6, <1>7
        <4>. QED
          BY <4>1, <4>2
      <3>. QED
        BY <3>1, <3>2, <3>3, <3>4
    <2>. QED
      BY <2>1, <2>2
  <1>10. /\ h \in [Addr -> List \cup {"none"}]
         /\ \A x \in New : h[x] = "free"
         /\ \A x \in All : h[x] = home[x]
    BY <1>1, <1>2, <1>3, <1>6 DEF Adopted, List
  <1>11. SentinelsStay(h)
    BY <1>3, <1>10, SentinelLists
       DEF IInv, SentinelsAtHome, SentinelsStay, List, Sentinel, Begins, Ends
  <1>12. home[FreeEnd] = "free" /\ home[p] = "free"
    BY <1>4, SentinelLists DEF IInv, SentinelsAtHome, SentinelsStay, List
  <1>13. IsSeparated(m, h)
    <2>1. \A x \in All \cup New : h[x] \in List
      BY <1>1, <1>10 DEF IsSeparated, List
    <2>2. ASSUME NEW x \in All \cup New, x \notin Ends PROVE h[m.next[x]] = h[x]
      <3>1. CASE x \in New
        <4>1. m.next[x] \in New \cup {FreeEnd}
          BY <3>1, <1>1, <1>7, ChunkAssumption
        <4>. QED
          BY <3>1, <4>1, <1>3, <1>10, <1>12
      <3>2. CASE x = p
        BY <3>2, <1>2, <1>4, <1>7, <1>10, <1>12
      <3>3. CASE x \in All /\ x # p
        <4>1. m.next[x] = mem.next[x] /\ mem.next[x] \in All /\ home[mem.next[x]] = home[x]
          BY <3>3, <2>2, <1>1, <1>7 DEF IsLinked, IsSeparated, Sentinel
        <4>. QED
          BY <4>1, <3>3, <1>10
      <3>. QED
        BY <3>1, <3>2, <3>3
    <2>3. ASSUME NEW x \in All \cup New, x \notin Begins PROVE h[m.prev[x]] = h[x]
      <3>1. m.prev[x] \in (All \cup New) \ Ends /\ m.next[m.prev[x]] = x
        BY <2>3, <1>3, <1>6, <1>9 DEF IsLinked, Sentinel
      <3>. QED
        BY <3>1, <2>2
    <2>. QED
      BY <2>1, <2>2, <2>3, <1>6 DEF IsSeparated
  <1>. QED
    <2>1. h[first] = "free" /\ first \in Owned(m)
      BY <1>2, <1>6, <1>10
    <2>2. Sound(m, h) /\ m.free \in Owned(m) /\ m.exit = 0
      BY <2>1, <1>6, <1>8, <1>9, <1>10, <1>11, <1>13 DEF Sound
    <2>3. Appended(m, p, first, last)
      BY <1>2, <1>3, <1>4, <1>6, <1>7, <1>10, <1>12 DEF Appended
    <2>. QED
      BY <2>2, <2>3 DEF m

-----------------------------------------------------------------------------
(* The calls.                                                               *)

LEMMA EnsureMemorySound ==
  ASSUME IInv, mem.exit = 0
  PROVE  /\ Sound(EnsureMemory(mem), Adopted(EnsureMemory(mem)))
         /\ EnsureMemory(mem).exit = 0 =>
              EnsureMemory(mem).free \in Owned(EnsureMemory(mem))
  <1>1. mem \in Memory /\ home \in [Addr -> List \cup {"none"}] /\ Sound(mem, home)
    BY SoundIsIInv DEF Sound
  <1>2. Adopted(mem) = home
    BY <1>1 DEF Adopted
  <1>3. CASE mem.free # FreeEnd
    <2>1. EnsureMemory(mem) = mem
      BY <1>3 DEF EnsureMemory
    <2>. QED
      BY <2>1, <1>1, <1>2, <1>3 DEF Sound
  <1>4. CASE mem.free = FreeEnd /\ CanCreate(mem)
    <2>1. EnsureMemory(mem) = CreateNodes(mem)
      BY <1>4 DEF EnsureMemory
    <2>. QED
      BY <2>1, <1>4, CreateNodesSound
  <1>5. CASE mem.free = FreeEnd /\ ~ CanCreate(mem)
    <2> DEFINE m == [mem EXCEPT !.exit = NoMemory]
    <2>1. EnsureMemory(mem) = m
      BY <1>5 DEF EnsureMemory
    <2>2. /\ m \in Memory /\ m.next = mem.next /\ m.prev = mem.prev /\ m.free = mem.free
          /\ m.used = mem.used /\ m.exit = NoMemory
      BY <1>1 DEF Memory, ExitCode, NoMemory
    <2>. HIDE DEF m
    <2>3. Owned(m) = Owned(mem) /\ Adopted(m) = home /\ NoMemory # 0
      BY <2>2, <1>2 DEF Owned, Adopted, NoMemory
    <2>4. Sound(m, home)
      BY <2>2, <2>3, <1>1 DEF Sound, IsLinked, IsSeparated
    <2>. QED
      BY <2>1, <2>2, <2>3, <2>4
  <1>. QED
    BY <1>3, <1>4, <1>5

(* Returning an argument and publishing a result are splices within the contract. *)
LEMMA DiscardIsMove ==
  ASSUME IInv, NEW S, NEW begin, NEW end, Discard(S, begin, end)
  PROVE  /\ mem.exit = 0 /\ home[begin] # "free" /\ IsRange(S, begin, end)
         /\ mem' = ListSplice(mem, mem.free, begin, end)
         /\ Movable(S, mem.free, begin, end) /\ Rehome(S, mem.free)
  <1>1. /\ mem.exit = 0 /\ home[begin] # "free" /\ IsRange(S, begin, end)
        /\ mem' = ListSplice(mem, mem.free, begin, end) /\ Rehome(S, FreeBegin)
    BY DEF Discard, Live, SpliceToFreelist
  <1>2. /\ mem.free \in Owned(mem) \cup {FreeEnd} /\ home[mem.free] = "free"
        /\ home[FreeBegin] = "free" /\ IsSeparated(mem, home)
    BY SentinelLists DEF IInv, FreePtrIsFree, SentinelsAtHome, SentinelsStay, List, Separated
  <1>3. end \notin Ends /\ end \in Owned(mem) /\ home[end] = home[begin]
    BY <1>1, OwnedAddr, AddressFacts DEF IsRange, IInv, Sentinel
  <1>4. home[mem.next[end]] = home[begin]
    BY <1>2, <1>3 DEF IsSeparated
  <1>5. mem.free \notin S /\ mem.free # mem.next[end]
    BY <1>1, <1>2, <1>4 DEF IsRange
  <1>6. Movable(S, mem.free, begin, end)
    BY <1>1, <1>2, <1>5 DEF Movable, Ends
  <1>7. Rehome(S, mem.free)
    BY <1>1, <1>2 DEF Rehome
  <1>. QED
    BY <1>1, <1>6, <1>7

LEMMA PublishIsMove ==
  ASSUME IInv, NEW S, NEW pos, Publish(S, pos)
  PROVE  /\ mem.exit = 0 /\ home[pos] # "free" /\ Rehome(S, pos)
         /\ mem.free = mem.next[FreeBegin] => S = {} /\ mem' = mem /\ home' = home
         /\ mem.free # mem.next[FreeBegin] =>
              /\ mem' = ListSplice(mem, pos, mem.next[FreeBegin], mem.prev[mem.free])
              /\ Movable(S, pos, mem.next[FreeBegin], mem.prev[mem.free])
              /\ mem.next[mem.prev[mem.free]] = mem.free
              /\ \A x \in S : home[x] = "free"
  <1> DEFINE b == mem.next[FreeBegin]
             e == mem.prev[mem.free]
  <1>1. /\ mem.exit = 0 /\ pos \in Owned(mem) \cup Ends /\ home[pos] # "free"
        /\ mem' = SpliceFromFreelist(mem, pos) /\ Rehome(S, pos)
    BY DEF Publish, Live
  <1>2. /\ home \in [Addr -> List \cup {"none"}] /\ mem.free \in Owned(mem) \cup {FreeEnd}
        /\ home[mem.free] = "free" /\ IsLinked(mem) /\ IsSeparated(mem, home)
    BY DEF IInv, TypeOK, FreePtrIsFree, Linked, Separated
  <1>3. CASE mem.free = b
    <2>1. mem' = mem /\ S = {}
      BY <1>1, <1>3 DEF Publish, SpliceFromFreelist
    <2>2. home' = home
      BY <2>1, <1>1, <1>2 DEF Rehome
    <2>. QED
      BY <2>1, <2>2, <1>1, <1>3
  <1>4. CASE mem.free # b
    <2>1. IsRange(S, b, e) /\ mem' = ListSplice(mem, pos, b, e)
      BY <1>1, <1>4 DEF Publish, SpliceFromFreelist
    <2>2. mem.free \in Owned(mem) \cup Sentinel /\ mem.free \notin Begins
      BY <1>2, OwnedAddr, AddressFacts DEF IInv, Sentinel, Ends
    <2>3. mem.next[e] = mem.free /\ home[e] = "free"
      BY <2>2, <1>2 DEF IsLinked, IsSeparated
    <2>4. home[b] = "free" /\ \A x \in S : home[x] = "free"
      BY <2>1, <2>3 DEF IsRange
    <2>5. Movable(S, pos, b, e)
      BY <2>1, <2>3, <2>4, <1>1, <1>2 DEF Movable
    <2>. QED
      BY <2>1, <2>3, <2>4, <2>5, <1>1, <1>4
  <1>. QED
    BY <1>3, <1>4

LEMMA InitInvariant ==
  Init => IInv
  <1> SUFFICES ASSUME NEW limit \in Limits, mem = InitialMemory(limit),
                      home = [x \in Addr |->
                               CASE x \in {FreeBegin, FreeEnd}     -> "free"
                                 [] x \in {ViewBegin, ViewEnd}     -> "view"
                                 [] x \in {BuriedBegin, BuriedEnd} -> "buried"
                                 [] OTHER                          -> "none"]
               PROVE  IInv
    BY DEF Init
  <1>1. Sentinel \subseteq Addr /\ Begins \subseteq Addr /\ Ends \subseteq Addr
    BY DEF Addr, Sentinel
  <1>2. /\ \A x \in Begins : x - 1 \in Ends /\ (x - 1) + 1 = x /\ x \notin Ends
        /\ \A x \in Ends : x + 1 \in Begins /\ (x + 1) - 1 = x /\ x \notin Begins
    BY DEF Begins, Ends, FreeBegin, FreeEnd, ViewBegin, ViewEnd, BuriedBegin, BuriedEnd
  <1>3. /\ mem.next = [x \in Addr |-> IF x \in Begins THEN x - 1 ELSE NULL]
        /\ mem.prev = [x \in Addr |-> IF x \in Ends   THEN x + 1 ELSE NULL]
        /\ mem.free = FreeEnd /\ mem.used = 0 /\ Owned(mem) = {}
    BY DEF InitialMemory, Owned
  <1>4. mem \in Memory
    <2>1. /\ mem.next \in [Addr -> Addr \cup {NULL}]
          /\ mem.prev \in [Addr -> Addr \cup {NULL}]
      BY <1>1, <1>2, <1>3
    <2>2. limit \in Nat /\ 0 \in 0 .. MaxNode /\ 0 \in ExitCode /\ FreeEnd \in Addr
      BY <1>1, StoreAssumption, AddressFacts DEF Ends, ExitCode
    <2>. QED
      BY <2>1, <2>2, <1>3 DEF Memory, InitialMemory, Tag
  <1>5. home \in [Addr -> List \cup {"none"}]
    BY DEF List
  <1>6. Linked
    BY <1>1, <1>2, <1>3 DEF Linked, IsLinked, Sentinel
  <1>7. \A x \in Sentinel : home[x] \in List
    BY <1>1 DEF Sentinel, Begins, Ends, List
  <1>8. /\ home[FreeBegin] = "free" /\ home[FreeEnd] = "free"
        /\ home[ViewBegin] = "view" /\ home[ViewEnd] = "view"
        /\ home[BuriedBegin] = "buried" /\ home[BuriedEnd] = "buried"
    BY <1>1 DEF Sentinel, Begins, Ends, FreeBegin, FreeEnd, ViewBegin, ViewEnd,
                BuriedBegin, BuriedEnd
  <1>9. \A x \in Begins : home[x - 1] = home[x]
    BY <1>8 DEF Begins, FreeBegin, FreeEnd, ViewBegin, ViewEnd, BuriedBegin, BuriedEnd
  <1>10. \A x \in Ends : home[x + 1] = home[x]
    BY <1>8 DEF Ends, FreeBegin, FreeEnd, ViewBegin, ViewEnd, BuriedBegin, BuriedEnd
  <1>11. Separated
    BY <1>1, <1>2, <1>3, <1>7, <1>9, <1>10 DEF Separated, IsSeparated, Sentinel
  <1>12. SentinelsAtHome
    BY <1>8, SentinelLists DEF SentinelsAtHome, SentinelsStay, List
  <1>. QED
    BY <1>3, <1>4, <1>5, <1>6, <1>8, <1>11, <1>12 DEF IInv, TypeOK, FreePtrIsFree

LEMMA NextInvariant ==
  IInv /\ [Next]_vars => IInv'
  <1> SUFFICES ASSUME IInv, [Next]_vars PROVE IInv'
    OBVIOUS
  <1>0. /\ mem \in Memory /\ home \in [Addr -> List \cup {"none"}]
        /\ IsLinked(mem) /\ IsSeparated(mem, home) /\ Sound(mem, home)
        /\ mem.free \in Owned(mem) \cup {FreeEnd} /\ home[mem.free] = "free"
    BY SoundIsIInv DEF Sound
  <1>a. (Sound(mem, home))' => IInv'
    BY SoundIsIInv DEF Sound, IInv, TypeOK, Linked, Separated, FreePtrIsFree, SentinelsAtHome
  <1>b. /\ FreeBegin \in Begins /\ FreeBegin \notin Ends /\ FreeEnd \notin Begins
        /\ ViewEnd # FreeEnd /\ BuriedEnd # FreeEnd
        /\ home[FreeBegin] = "free" /\ home[FreeEnd] = "free"
        /\ home[ViewEnd] = "view" /\ home[BuriedEnd] = "buried"
    BY SentinelLists DEF IInv, SentinelsAtHome, SentinelsStay, List, Begins, Ends,
         FreeBegin, FreeEnd, ViewBegin, ViewEnd, BuriedBegin, BuriedEnd
  <1>1. CASE Reset
    <2>1. mem' = [mem EXCEPT !.free = mem.next[FreeBegin]] /\ home' = home
      BY <1>1 DEF Reset, Live, ResetAllocator
    <2>2. /\ mem.next[FreeBegin] \in Owned(mem) \cup Ends
          /\ home[mem.next[FreeBegin]] = "free"
      BY <1>0, <1>b DEF IsLinked, IsSeparated, Sentinel
    <2>3. mem.next[FreeBegin] \in Owned(mem) \cup {FreeEnd}
      BY <2>2, <1>b DEF Ends
    <2>4. /\ mem'.next = mem.next /\ mem'.prev = mem.prev /\ mem'.used = mem.used
          /\ mem'.free = mem.next[FreeBegin] /\ mem' \in Memory
      BY <2>1, <2>3, <1>0, OwnedAddr DEF IInv, Memory, Addr, Sentinel, Ends
    <2>5. Owned(mem') = Owned(mem)
      BY <2>4 DEF Owned
    <2>. QED
      BY <2>1, <2>2, <2>3, <2>4, <2>5, <1>0
         DEF IInv, TypeOK, Linked, Separated, FreePtrIsFree, SentinelsAtHome, IsLinked, IsSeparated,
             Owned
  <1>2. ASSUME NEW tag \in AllocTags, NEW info \in Symbol, Alloc(tag, info)
        PROVE  IInv'
    <2> DEFINE m == EnsureMemory(mem)
    <2>1. /\ Live /\ mem' = AllocNode(mem, tag, info) /\ Adopt(mem')
      BY <1>2 DEF Alloc
    <2>2. Sound(m, Adopted(m)) /\ (m.exit = 0 => m.free \in Owned(m))
      BY <2>1, EnsureMemorySound DEF Live
    <2>3. CASE m.exit # 0
      <3>1. mem' = m /\ home' = Adopted(m)
        BY <2>1, <2>3 DEF AllocNode, Adopt, Adopted
      <3>. QED
        BY <3>1, <2>2, <1>a
    <2>4. CASE m.exit = 0
      <3>1. mem' = [m EXCEPT !.tag = [m.tag EXCEPT ![m.free] = tag],
                             !.info = [m.info EXCEPT ![m.free] = info],
                             !.free = m.next[m.free]]
        BY <2>1, <2>4 DEF AllocNode
      <3>. HIDE DEF m
      <3>2. /\ m \in Memory /\ IsLinked(m) /\ IsSeparated(m, Adopted(m)) /\ m.free \in Owned(m)
            /\ Adopted(m)[m.free] = "free" /\ SentinelsStay(Adopted(m))
            /\ Adopted(m) \in [Addr -> List \cup {"none"}]
        BY <2>2, <2>4 DEF Sound
      <3>3. m.free \notin Ends
        BY <3>2, AddressFacts DEF Owned, Memory, Node, Sentinel
      <3>4. m.next[m.free] \in Owned(m) \cup Ends /\ Adopted(m)[m.next[m.free]] = "free"
        BY <3>2, <3>3 DEF IsLinked, IsSeparated
      <3>5. m.next[m.free] \in Owned(m) \cup {FreeEnd}
        BY <3>2, <3>4, SentinelLists DEF SentinelsStay, List, Ends
      <3>6. /\ mem'.next = m.next /\ mem'.prev = m.prev /\ mem'.used = m.used
            /\ mem'.free = m.next[m.free]
        BY <3>1, <3>2 DEF Memory
      <3>7. Owned(m) \subseteq Addr /\ FreeEnd \in Addr /\ tag \in Tag
        BY <3>2, StoreAssumption, AddressFacts DEF Owned, Memory, Addr, Node, Sentinel, Ends
      <3>8. mem' \in Memory
        <4>1. /\ [m.tag EXCEPT ![m.free] = tag] \in [Addr -> Tag]
              /\ [m.info EXCEPT ![m.free] = info] \in [Addr -> Symbol \cup Addr \cup {NULL}]
          BY <3>2, <3>7 DEF Memory
        <4>2. m.next[m.free] \in Addr
          BY <3>5, <3>7
        <4>. QED
          BY <4>1, <4>2, <3>1, <3>2 DEF Memory
      <3>9. Owned(mem') = Owned(m) /\ home' = Adopted(m)
        BY <3>6, <2>1 DEF Owned, Adopt, Adopted
      <3>10. IsLinked(mem')
        BY <3>2, <3>6, <3>9 DEF IsLinked
      <3>11. IsSeparated(mem', Adopted(m))
        BY <3>2, <3>6, <3>9 DEF IsSeparated
      <3>12. Sound(mem', home')
        BY <3>2, <3>4, <3>5, <3>6, <3>8, <3>9, <3>10, <3>11 DEF Sound
      <3>. QED
        BY <3>12, <1>a
    <2>. QED
      BY <2>3, <2>4
  <1>3. CASE Prepare
    <2>1. mem' = EnsureMemory(mem) /\ home' = Adopted(EnsureMemory(mem)) /\ mem.exit = 0
      BY <1>3 DEF Prepare, InsertPos, Adopt, Adopted, Live
    <2>. QED
      BY <2>1, EnsureMemorySound, <1>a
  <1>4. ASSUME NEW S, NEW begin, NEW end, NEW res, Move(S, res, begin, end)
        PROVE  IInv'
    <2>1. /\ mem.exit = 0 /\ Movable(S, res, begin, end) /\ Rehome(S, res)
          /\ mem' = ListSplice(mem, res, begin, end) /\ home[begin] # "free"
      BY <1>4 DEF Move, Live, SpliceTevar
    <2>2. /\ TypeOK' /\ Linked' /\ Separated' /\ SentinelsAtHome'
          /\ mem'.free = mem.free /\ mem'.used = mem.used /\ Owned(mem)' = Owned(mem)
      BY <2>1, SpliceInvariant
    <2>3. mem.free \notin S
      BY <2>1, <1>0 DEF Movable, IsRange
    <2>4. home'[mem.free] = "free"
      BY <2>1, <2>3, <1>0 DEF Rehome, Memory
    <2>. QED
      BY <2>2, <2>4, <1>0 DEF IInv, FreePtrIsFree
  <1>5. ASSUME NEW S, NEW begin, NEW end, Discard(S, begin, end)
        PROVE  IInv'
    <2>1. /\ mem.exit = 0 /\ home[begin] # "free" /\ IsRange(S, begin, end)
          /\ mem' = ListSplice(mem, mem.free, begin, end)
          /\ Movable(S, mem.free, begin, end) /\ Rehome(S, mem.free)
      BY <1>5, DiscardIsMove
    <2>2. /\ TypeOK' /\ Linked' /\ Separated' /\ SentinelsAtHome'
          /\ mem'.free = mem.free /\ mem'.used = mem.used /\ Owned(mem)' = Owned(mem)
      BY <2>1, SpliceInvariant
    <2>3. mem.free \notin S
      BY <2>1 DEF Movable
    <2>4. home'[mem.free] = "free"
      BY <2>1, <2>3, <1>0 DEF Rehome, Memory
    <2>. QED
      BY <2>2, <2>4, <1>0 DEF IInv, FreePtrIsFree
  <1>6. ASSUME NEW S, NEW pos, Publish(S, pos)
        PROVE  IInv'
    <2> DEFINE b == mem.next[FreeBegin]
               e == mem.prev[mem.free]
    <2>1. CASE mem.free = b
      <3>1. mem' = mem /\ home' = home
        BY <2>1, <1>6, PublishIsMove
      <3>. QED
        BY <3>1, <1>0, <1>a
    <2>2. CASE mem.free # b
      <3>1. /\ mem.exit = 0 /\ mem' = ListSplice(mem, pos, b, e) /\ Movable(S, pos, b, e)
            /\ Rehome(S, pos) /\ mem.next[e] = mem.free
        BY <2>2, <1>6, PublishIsMove
      <3>2. /\ TypeOK' /\ Linked' /\ Separated' /\ SentinelsAtHome'
            /\ mem'.free = mem.free /\ mem'.used = mem.used /\ Owned(mem)' = Owned(mem)
        BY <3>1, SpliceInvariant
      <3>3. mem.free \notin S
        BY <3>1 DEF Movable, IsRange
      <3>4. home'[mem.free] = "free"
        BY <3>1, <3>3, <1>0 DEF Rehome, Memory
      <3>. QED
        BY <3>2, <3>4, <1>0 DEF IInv, FreePtrIsFree
    <2>. QED
      BY <2>1, <2>2
  <1>7. CASE UNCHANGED vars
    BY <1>7, <1>0, <1>a DEF vars
  <1>. QED
    BY <1>1, <1>2, <1>3, <1>4, <1>5, <1>6, <1>7 DEF Next

-----------------------------------------------------------------------------
(* The theorems.                                                            *)

LEMMA Invariance ==
  Spec => []IInv
  BY InitInvariant, NextInvariant, PTL DEF Spec

(* In every state the memory and its history have their types: no pointer of the runtime
   is ever dangling, whatever calls were made. *)
THEOREM TypeCorrect ==
  Spec => []TypeOK
  <1>1. IInv => TypeOK
    BY DEF IInv
  <1>. QED
    BY <1>1, Invariance, PTL

(* list_splice, create_nodes and the allocator keep prev and next mutually inverse. *)
THEOREM AlwaysLinked ==
  Spec => []Linked
  <1>1. IInv => Linked
    BY DEF IInv
  <1>. QED
    BY <1>1, Invariance, PTL

(* The view field, the buried store and the free list never run into each other. *)
THEOREM AlwaysSeparated ==
  Spec => []Separated
  <1>1. IInv => Separated
    BY DEF IInv
  <1>. QED
    BY <1>1, Invariance, PTL

(* s_free_ptr stays in the free list, so an allocation never reuses a node in use. *)
THEOREM FreePtrStaysFree ==
  Spec => []FreePtrIsFree
  <1>1. IInv => FreePtrIsFree
    BY DEF IInv
  <1>. QED
    BY <1>1, Invariance, PTL

-----------------------------------------------------------------------------
(* The order of the nodes in their lists: every node and sentinel has a position, one after
   its predecessor's, that no other of its list has.  From it follow the invariants that
   walk the lists.                                                                       *)

All(m) == Owned(m) \cup Sentinel

(* pos numbers each list from its first sentinel (0) along next, and the lists hold between
   them exactly the nodes that were created: six sentinels and m.used nodes. *)
IsOrder(m, h, pos) ==
  /\ pos \in [Addr -> Nat]
  /\ \A l \in List : pos[Begin(l)] = 0
  /\ \A x \in All(m) \ Ends : pos[m.next[x]] = pos[x] + 1
  /\ \A x, y \in All(m) : h[x] = h[y] /\ pos[x] = pos[y] => x = y
  /\ \A x \in All(m) : pos[x] <= pos[End(h[x])]
  /\ pos[FreeEnd] + pos[ViewEnd] + pos[BuriedEnd] = m.used + 3

IsOrdered(m, h) == \E pos : IsOrder(m, h, pos)
Ordered == IsOrdered(mem, home)

(* Ordered alone is not inductive: that next leads on, and into the same list, is IInv. *)
OInv == IInv /\ Ordered

-----------------------------------------------------------------------------
(* What the invariant says of one address.                                  *)

LEMMA AddressOrder ==
  ASSUME NEW m, NEW h, Sound(m, h), NEW pos, IsOrder(m, h, pos)
  PROVE  /\ All(m) \subseteq Addr /\ m.used \in 0 .. MaxNode
         /\ \A x \in All(m) : pos[x] \in Nat /\ h[x] \in List
         /\ \A x \in All(m) \ Ends : /\ m.next[x] \in All(m) /\ m.next[x] # NULL
                                       /\ m.prev[m.next[x]] = x
                                       /\ h[m.next[x]] = h[x]
                                       /\ pos[m.next[x]] = pos[x] + 1
         /\ \A x \in All(m) \ Begins : /\ m.prev[x] \in All(m) \ Ends
                                         /\ m.next[m.prev[x]] = x
                                         /\ h[m.prev[x]] = h[x]
                                         /\ pos[x] = pos[m.prev[x]] + 1
  <1>1. /\ All(m) \subseteq Addr /\ Owned(m) \cap Sentinel = {} /\ Begins \cap Ends = {}
        /\ NULL \notin Addr
    BY AddressFacts DEF Sound, Memory, Owned, Node, Addr, All
  <1>2. IsLinked(m) /\ IsSeparated(m, h) /\ m.used \in 0 .. MaxNode
    BY DEF Sound, Memory
  <1>3. pos \in [Addr -> Nat] /\ \A x \in All(m) \ Ends : pos[m.next[x]] = pos[x] + 1
    BY DEF IsOrder
  <1>4. ASSUME NEW x \in All(m) \ Ends
        PROVE  /\ m.next[x] \in All(m) /\ m.next[x] # NULL
               /\ m.prev[m.next[x]] = x /\ h[m.next[x]] = h[x]
    <2>1. m.next[x] \in All(m) /\ m.prev[m.next[x]] = x /\ h[m.next[x]] = h[x]
      BY <1>2 DEF IsLinked, IsSeparated, All, Sentinel
    <2>. QED
      BY <2>1, <1>1
  <1>5. ASSUME NEW x \in All(m) \ Begins
        PROVE  /\ m.prev[x] \in All(m) \ Ends /\ m.next[m.prev[x]] = x
               /\ h[m.prev[x]] = h[x]
    BY <1>1, <1>2 DEF IsLinked, IsSeparated, All, Sentinel
  <1>6. \A x \in All(m) : h[x] \in List
    BY <1>2 DEF IsSeparated, All
  <1>. QED
    BY <1>1, <1>2, <1>3, <1>4, <1>5, <1>6

(* The ends of a list are at its ends. *)
LEMMA EndOrder ==
  ASSUME NEW m, NEW h, Sound(m, h), NEW pos, IsOrder(m, h, pos), NEW l \in List
  PROVE  /\ Begin(l) \in All(m) /\ Begin(l) \in Begins /\ h[Begin(l)] = l /\ pos[Begin(l)] = 0
         /\ End(l) \in All(m) /\ End(l) \in Ends /\ h[End(l)] = l
         /\ pos[End(l)] \in 1 .. m.used + 1
  <1>1. /\ Begin(l) \in Begins /\ End(l) \in Ends /\ Begins \cap Ends = {}
    BY SentinelLists, AddressFacts DEF List, Begins, Ends
  <1>2. Begins \subseteq All(m) /\ Ends \subseteq All(m)
    BY DEF All, Sentinel
  <1>3. h[Begin(l)] = l /\ h[End(l)] = l /\ pos[Begin(l)] = 0
    BY DEF Sound, SentinelsStay, IsOrder
  <1>4. m.used \in Nat /\ \A x \in Ends : pos[x] \in Nat /\ pos[x] >= 1
    <2>1. m.used \in Nat
      BY AddressOrder, AddressFacts
    <2>2. \A x \in Ends : x \in All(m) /\ x \in All(m) \ Begins
      BY <1>1, <1>2
    <2>3. ASSUME NEW x \in Ends PROVE pos[x] \in Nat /\ pos[x] >= 1
      <3>1. pos[x] = pos[m.prev[x]] + 1 /\ pos[m.prev[x]] \in Nat
        BY <2>2, AddressOrder
      <3>. QED
        BY <3>1
    <2>. QED
      BY <2>1, <2>3
  <1>5. pos[FreeEnd] + pos[ViewEnd] + pos[BuriedEnd] = m.used + 3
    BY DEF IsOrder
  <1>6. /\ FreeEnd \in Ends /\ ViewEnd \in Ends /\ BuriedEnd \in Ends
        /\ End(l) = FreeEnd \/ End(l) = ViewEnd \/ End(l) = BuriedEnd
    BY <1>1 DEF Ends
  <1>7. pos[End(l)] \in 1 .. m.used + 1
    BY <1>4, <1>5, <1>6
  <1>. QED
    BY <1>1, <1>2, <1>3, <1>7

(* Only they are at its ends. *)
LEMMA PlaceInList ==
  ASSUME NEW m, NEW h, Sound(m, h), NEW pos, IsOrder(m, h, pos), NEW x \in All(m)
  PROVE  /\ x \in Begins <=> pos[x] = 0
         /\ x \in Ends <=> pos[x] = pos[End(h[x])]
         /\ pos[x] \in 0 .. pos[End(h[x])] /\ pos[End(h[x])] \in Nat
  <1> DEFINE l == h[x]
  <1>1. l \in List /\ pos[x] \in Nat /\ pos[x] <= pos[End(l)]
    BY AddressOrder DEF IsOrder
  <1>2. /\ End(l) \in All(m) /\ h[End(l)] = l /\ pos[End(l)] \in Nat /\ End(l) \in Ends
    BY <1>1, EndOrder, AddressOrder
  <1>3. ASSUME x \in Begins PROVE pos[x] = 0
    <2>1. PICK k \in List : x = Begin(k)
      BY <1>3, SentinelLists DEF List, Begins
    <2>. QED
      BY <2>1, EndOrder
  <1>4. ASSUME x \notin Begins PROVE pos[x] # 0
    <2>1. pos[x] = pos[m.prev[x]] + 1 /\ pos[m.prev[x]] \in Nat
      BY <1>4, AddressOrder
    <2>. QED
      BY <2>1
  <1>5. ASSUME x \in Ends PROVE pos[x] = pos[End(l)]
    <2>1. PICK k \in List : x = End(k)
      BY <1>5, SentinelLists DEF List, Ends
    <2>2. h[End(k)] = k
      BY EndOrder
    <2>. QED
      BY <2>1, <2>2
  <1>6. ASSUME pos[x] = pos[End(l)] PROVE x \in Ends
    BY <1>2, <1>6 DEF IsOrder
  <1>. QED
    BY <1>1, <1>2, <1>3, <1>4, <1>5, <1>6

-----------------------------------------------------------------------------
(* Ranges are intervals of positions.                                       *)

LEMMA RangeIsInterval ==
  ASSUME IInv, NEW pos, IsOrder(mem, home, pos),
         NEW S, NEW b, NEW e, IsRange(S, b, e)
  PROVE  /\ S = {x \in All(mem) : home[x] = home[b] /\ pos[x] \in pos[b] .. pos[e]}
         /\ pos[b] <= pos[e]
  <1>. Sound(mem, home)
    BY SoundIsIInv
  <1>1. /\ S \subseteq All(mem) /\ b \in S /\ e \in S /\ S \cap Sentinel = {}
        /\ \A x \in S \ {e} : mem.next[x] \in S
        /\ \A x \in S \ {b} : mem.prev[x] \in S
        /\ \A x \in S : home[x] = home[b]
    BY OwnedAddr, AddressFacts DEF IsRange, All, IInv
  <1>2. /\ \A x \in All(mem) : pos[x] \in Nat /\ home[x] \in List
        /\ \A x \in All(mem) \ Ends : pos[mem.next[x]] = pos[x] + 1
        /\ \A x \in All(mem) \ Begins : /\ mem.prev[x] \in All(mem) \ Ends
                                        /\ mem.next[mem.prev[x]] = x
                                        /\ home[mem.prev[x]] = home[x]
                                        /\ pos[x] = pos[mem.prev[x]] + 1
    BY AddressOrder
  <1>3. \A x \in S : pos[b] <= pos[x]
    <2>1. PICK y \in S : \A x \in S : pos[y] <= pos[x]
      BY <1>1, <1>2, LeastElement
    <2>2. y = b
      <3>. SUFFICES ASSUME y # b PROVE FALSE
        OBVIOUS
      <3>1. mem.prev[y] \in S /\ pos[y] = pos[mem.prev[y]] + 1 /\ pos[mem.prev[y]] \in Nat
        BY <1>1, <1>2 DEF Sentinel
      <3>. QED
        BY <3>1, <2>1
    <2>. QED
      BY <2>1, <2>2
  <1>4. \A x \in S : pos[x] <= pos[e]
    <2>1. pos[End(home[b])] \in Nat /\ \A x \in S : pos[x] \in 0 .. pos[End(home[b])]
      <3>1. pos[End(home[b])] \in Nat
        BY <1>1, PlaceInList
      <3>2. \A x \in S : pos[x] \in 0 .. pos[End(home[x])] /\ home[x] = home[b]
        BY <1>1, PlaceInList
      <3>. QED
        BY <3>1, <3>2
    <2>2. PICK y \in S : \A x \in S : pos[x] <= pos[y]
      BY <1>1, <2>1, GreatestElement
    <2>3. y = e
      <3>. SUFFICES ASSUME y # e PROVE FALSE
        OBVIOUS
      <3>1. mem.next[y] \in S /\ pos[mem.next[y]] = pos[y] + 1 /\ pos[y] \in Nat
        BY <1>1, <1>2 DEF Sentinel
      <3>. QED
        BY <3>1, <2>2
    <2>. QED
      BY <2>2, <2>3
  <1>5. ASSUME NEW z \in All(mem), home[z] = home[b], pos[z] \in pos[b] .. pos[e]
        PROVE  z \in S
    <2> DEFINE T == {x \in All(mem) \ S : home[x] = home[b] /\ pos[x] \in pos[b] .. pos[e]}
    <2>. SUFFICES ASSUME T # {} PROVE FALSE
      BY <1>5
    <2>1. PICK y \in T : \A x \in T : pos[y] <= pos[x]
      <3>1. \A x \in T : pos[x] \in Nat
        BY <1>2
      <3>. HIDE DEF T
      <3>. QED
        BY <3>1, LeastElement
    <2>2. y \in All(mem) /\ y \notin S /\ home[y] = home[b] /\ pos[y] \in pos[b] .. pos[e]
      OBVIOUS
    <2>3. pos[y] # pos[b]
      BY <1>1, <2>2 DEF IsOrder
    <2>4. pos[y] \in Nat /\ pos[b] \in Nat /\ pos[e] \in Nat
      BY <1>1, <1>2, <2>2
    <2>5. y \notin Begins
      <3>1. pos[b] <= pos[y] /\ pos[y] # 0
        BY <2>2, <2>3, <2>4
      <3>. QED
        BY <2>2, <3>1, PlaceInList
    <2>6. /\ mem.prev[y] \in All(mem) /\ mem.next[mem.prev[y]] = y
          /\ home[mem.prev[y]] = home[b] /\ pos[y] = pos[mem.prev[y]] + 1
          /\ pos[mem.prev[y]] \in Nat
      BY <1>2, <2>2, <2>5
    <2>7. pos[mem.prev[y]] \in pos[b] .. pos[e] /\ mem.prev[y] # e
      BY <2>2, <2>3, <2>4, <2>6
    <2>8. mem.prev[y] \in S
      BY <2>1, <2>6, <2>7
    <2>. QED
      BY <2>2, <2>6, <2>7, <2>8, <1>1
  <1>. QED
    BY <1>1, <1>2, <1>3, <1>4, <1>5

-----------------------------------------------------------------------------
(* list_splice takes an interval of positions out of one list and puts it   *)
(* into the same or another one.                                            *)

(* The positions without the range b .. e, and with it, S, in front of res. *)
CutOrder(pos, b, e) ==
  [x \in Addr |-> IF home[x] = home[b] /\ pos[x] > pos[e] THEN pos[x] - (pos[e] - pos[b] + 1)
                                                         ELSE pos[x]]

SplicedOrder(pos, S, res, b, e) ==
  LET cut == CutOrder(pos, b, e)
  IN  [x \in Addr |->
         IF x \notin All(mem) THEN 0
         ELSE IF x \in S THEN pos[x] - pos[b] + cut[res]
         ELSE IF home[x] = home[res] /\ cut[x] >= cut[res] THEN cut[x] + (pos[e] - pos[b] + 1)
         ELSE cut[x]]

LEMMA SpliceOrder ==
  ASSUME IInv, mem.exit = 0, NEW pos, IsOrder(mem, home, pos),
         NEW S, NEW res, NEW b, NEW e,
         Movable(S, res, b, e),
         mem' = ListSplice(mem, res, b, e),
         Rehome(S, res)
  PROVE  IsOrder(mem', home', SplicedOrder(pos, S, res, b, e))
  <1>. Sound(mem, home)
    BY SoundIsIInv
  <1> DEFINE pr == mem.prev[res]
             pb == mem.prev[b]
             ne == mem.next[e]
             from == home[b]
             to == home[res]
             n == pos[e] - pos[b] + 1
             Rest == All(mem) \ S
             cut == CutOrder(pos, b, e)
             at == cut[res]
             q == SplicedOrder(pos, S, res, b, e)
  <1>1. /\ mem'.next = [mem.next EXCEPT ![pr] = b, ![e] = res, ![pb] = ne]
        /\ mem'.used = mem.used
        /\ {b, e, res, pr, pb, ne} \subseteq All(mem)
        /\ b \in S /\ e \in S /\ res \in Rest /\ ne \in Rest /\ pr \in Rest /\ pb \in Rest
        /\ res # ne /\ pr # pb /\ S \subseteq Owned(mem)
        /\ mem.next[pr] = res /\ mem.next[pb] = b
        /\ pr \notin Ends /\ pb \notin Ends /\ e \notin Ends
        /\ b \notin Begins /\ res \notin Begins
    <2>1. Spliced(res, b, e)
      BY SpliceLinks
    <2>2. /\ b \in S /\ e \in S /\ res \notin S /\ ne \notin S /\ pb \notin S /\ res # ne
          /\ S \subseteq Owned(mem) /\ \A x \in S \ {e} : mem.next[x] \in S
      BY DEF Movable, IsRange
    <2>3. /\ {b, e, res, pr, pb, ne} \subseteq All(mem) /\ mem'.used = mem.used
          /\ mem'.next = [mem.next EXCEPT ![pr] = b, ![e] = res, ![pb] = ne]
          /\ b \in Owned(mem) /\ e \in Owned(mem) /\ res \in Owned(mem) \cup Ends
          /\ e # pr /\ pr # pb
      BY <2>1 DEF Spliced, All
    <2>4. b \notin Begins /\ e \notin Ends /\ res \notin Begins
      BY <2>3, OwnedAddr, AddressFacts DEF IInv, Sentinel
    <2>5. /\ mem.next[pr] = res /\ mem.next[pb] = b /\ pr \notin Ends /\ pb \notin Ends
      BY <2>3, <2>4, AddressOrder
    <2>6. pr \notin S
      BY <2>2, <2>3, <2>5
    <2>. QED
      BY <2>2, <2>3, <2>4, <2>5, <2>6
  <1>2. /\ S = {x \in All(mem) : home[x] = from /\ pos[x] \in pos[b] .. pos[e]}
        /\ pos[b] <= pos[e]
    BY RangeIsInterval DEF Movable
  <1>3. /\ All(mem) \subseteq Addr
        /\ mem.next \in [Addr -> Addr \cup {NULL}]
        /\ home \in [Addr -> List \cup {"none"}]
        /\ pos \in [Addr -> Nat]
        /\ \A x \in All(mem) \ Ends : /\ mem.next[x] \in All(mem) /\ mem.prev[mem.next[x]] = x
                                      /\ home[mem.next[x]] = home[x]
                                      /\ pos[mem.next[x]] = pos[x] + 1
        /\ \A x \in All(mem) : home[x] \in List
    BY AddressOrder DEF IInv, TypeOK, Memory, IsOrder
  <1>4. \A x, y \in All(mem) : home[x] = home[y] /\ pos[x] = pos[y] => x = y
    BY DEF IsOrder
  <1>5. /\ \A x \in All(mem) : home'[x] = IF x \in S THEN to ELSE home[x]
        /\ Owned(mem') = Owned(mem) /\ All(mem') = All(mem)
    BY <1>1, <1>3 DEF Rehome, Owned, All
  <1>6. /\ mem'.next[pr] = b /\ mem'.next[e] = res /\ mem'.next[pb] = ne
        /\ \A x \in All(mem) \ {pr, e, pb} : mem'.next[x] = mem.next[x]
    BY <1>1, <1>3
  <1>7. /\ pos[b] \in Nat /\ pos[e] \in Nat /\ pos[b] >= 1 /\ n \in Nat /\ n >= 1
        /\ home[e] = from /\ home[ne] = from /\ home[pb] = from /\ home[pr] = to
        /\ pos[ne] = pos[e] + 1 /\ pos[pb] = pos[b] - 1 /\ pos[pr] = pos[res] - 1
        /\ pos[res] \in Nat /\ pos[res] >= 1
    <2>1. /\ home[e] = from /\ home[ne] = from /\ home[pb] = from /\ home[pr] = to
          /\ pos[ne] = pos[e] + 1 /\ pos[b] = pos[pb] + 1 /\ pos[res] = pos[pr] + 1
      BY <1>1, <1>2, <1>3
    <2>2. /\ pos[b] \in Nat /\ pos[e] \in Nat /\ pos[pb] \in Nat /\ pos[pr] \in Nat
      BY <1>1, <1>3
    <2>. QED
      BY <2>1, <2>2, <1>2
  (* The lists without the range. *)
  <1>a. \A x \in Rest : pos[x] \in Nat /\ (home[x] = from => pos[x] < pos[b] \/ pos[x] > pos[e])
    BY <1>2, <1>3, <1>7
  <1>b. \A x \in Rest : home[x] = from /\ pos[x] > pos[e] => cut[x] = pos[x] - n
    BY <1>3 DEF CutOrder
  <1>8. \A x \in Rest : home[x] # from \/ pos[x] < pos[b] => cut[x] = pos[x]
    BY <1>2, <1>3, <1>7, <1>a DEF CutOrder
  <1>. HIDE DEF cut
  <1>9. \A x \in Rest : cut[x] \in Nat
    BY <1>7, <1>8, <1>a, <1>b
  <1>10. \A x, y \in Rest : home[x] = home[y] /\ cut[x] = cut[y] => x = y
    BY <1>4, <1>7, <1>8, <1>a, <1>b
  <1>11. \A x \in Rest \ Ends : x # pb => mem.next[x] \in Rest /\ cut[mem.next[x]] = cut[x] + 1
    <2>. TAKE x \in Rest \ Ends
    <2>. HAVE x # pb
    <2>1. /\ mem.next[x] \in All(mem) /\ home[mem.next[x]] = home[x]
          /\ pos[mem.next[x]] = pos[x] + 1 /\ mem.prev[mem.next[x]] = x /\ pos[x] \in Nat
      BY <1>3
    <2>2. mem.next[x] \in Rest
      <3>1. mem.next[x] \in S \ {b} => mem.prev[mem.next[x]] \in S
        BY DEF Movable, IsRange
      <3>. QED
        BY <2>1, <3>1
    <2>3. pos[x] # pos[e] \/ home[x] # from
      BY <1>1, <1>4, <1>7
    <2>. QED
      BY <2>1, <2>2, <2>3, <1>7, <1>8, <1>a, <1>b
  <1>12. cut[ne] = cut[pb] + 1 /\ cut[pb] = pos[b] - 1 /\ cut[ne] = pos[b]
    BY <1>1, <1>7, <1>8, <1>a, <1>b
  <1>13. \A l \in List : /\ Begin(l) \in Rest /\ End(l) \in Rest /\ cut[Begin(l)] = 0
                         /\ home[Begin(l)] = l /\ home[End(l)] = l
                         /\ cut[End(l)] = IF l = from THEN pos[End(l)] - n ELSE pos[End(l)]
    <2>. TAKE l \in List
    <2>1. /\ Begin(l) \in All(mem) /\ End(l) \in All(mem) /\ Begin(l) \in Sentinel
          /\ End(l) \in Sentinel /\ pos[Begin(l)] = 0 /\ home[Begin(l)] = l /\ home[End(l)] = l
          /\ home[e] = l => pos[e] <= pos[End(l)]
      BY EndOrder, <1>1 DEF Sentinel, IsOrder
    <2>2. S \cap Sentinel = {}
      BY <1>1, OwnedAddr, AddressFacts DEF IInv
    <2>3. Begin(l) \in Rest /\ End(l) \in Rest
      BY <2>1, <2>2
    <2>. QED
      BY <2>1, <2>3, <1>7, <1>8, <1>a, <1>b
  <1>14. \A x \in Rest : cut[x] <= cut[End(home[x])]
    <2>1. \A x \in Rest : /\ pos[x] <= pos[End(home[x])]
                           /\ home[x] \in List /\ pos[End(home[x])] \in Nat
      BY <1>3, <1>8, <1>13 DEF IsOrder
    <2>. QED
      BY <2>1, <1>7, <1>8, <1>13, <1>a, <1>b
  <1>15. /\ at \in Nat /\ at >= 1 /\ cut[pr] = at - 1
         /\ to = from => at # pos[b]
    <2>1. pr # pb /\ mem.next[pr] = res /\ pr \in Rest \ Ends
      BY <1>1
    <2>2. cut[res] = cut[pr] + 1 /\ cut[pr] \in Nat
      BY <2>1, <1>9, <1>11
    <2>3. to = from => at # pos[b]
      BY <1>1, <1>7, <1>10, <1>12
    <2>. QED
      BY <2>2, <2>3
  (* The range between what comes before and after res. *)
  <1>16. /\ \A x \in S : q[x] = pos[x] - pos[b] + at /\ pos[x] \in pos[b] .. pos[e]
         /\ \A x \in Rest : q[x] = IF home[x] = to /\ cut[x] >= at THEN cut[x] + n ELSE cut[x]
         /\ \A x \in Addr \ All(mem) : q[x] = 0
    BY <1>2, <1>3 DEF SplicedOrder, cut
  <1>17. q \in [Addr -> Nat]
    <2>1. \A x \in Addr : q[x] \in Nat
      <3>. HIDE DEF q, at, n
      <3>. QED
        BY <1>7, <1>9, <1>15, <1>16
    <2>2. q = [x \in Addr |-> q[x]]
      BY DEF SplicedOrder
    <2>. QED
      BY <2>1, <2>2
  <1>. HIDE DEF q, at, n
  <1>18. \A l \in List : q[Begin(l)] = 0
    BY <1>13, <1>15, <1>16
  <1>19. ASSUME NEW x \in All(mem) \ Ends
         PROVE  q[mem'.next[x]] = q[x] + 1
    <2>1. CASE x = pr
      <3>1. q[pr] = at - 1
        BY <1>1, <1>15, <1>16
      <3>2. q[b] = at
        BY <1>1, <1>7, <1>15, <1>16
      <3>. QED
        BY <3>1, <3>2, <2>1, <1>6, <1>15
    <2>2. CASE x = e
      <3>1. q[res] = at + n
        BY <1>1, <1>15, <1>16 DEF at
      <3>2. q[e] = n - 1 + at
        BY <1>1, <1>7, <1>15, <1>16 DEF n
      <3>. QED
        BY <3>1, <3>2, <2>2, <1>6, <1>7, <1>15
    <2>3. CASE x = pb
      <3>1. mem'.next[x] = ne /\ pb \in Rest /\ ne \in Rest /\ home[pb] = from /\ home[ne] = from
        BY <2>3, <1>1, <1>6, <1>7
      <3>2. to = from => (pos[b] - 1 >= at <=> pos[b] >= at)
        BY <1>7, <1>15
      <3>. QED
        BY <3>1, <3>2, <2>3, <1>7, <1>12, <1>16
    <2>4. CASE x \in S \ {e}
      <3>1. mem'.next[x] = mem.next[x] /\ mem.next[x] \in S /\ pos[mem.next[x]] = pos[x] + 1
        BY <2>4, <1>1, <1>3, <1>6 DEF Movable, IsRange
      <3>2. pos[x] \in Nat
        BY <1>3
      <3>. QED
        BY <3>1, <3>2, <2>4, <1>7, <1>15, <1>16
    <2>5. CASE x \in Rest /\ x \notin {pr, pb}
      <3>1. mem'.next[x] = mem.next[x]
        BY <2>5, <1>1, <1>6
      <3>2. mem.next[x] \in Rest /\ cut[mem.next[x]] = cut[x] + 1 /\ home[mem.next[x]] = home[x]
        BY <2>5, <1>3, <1>11
      <3>3. home[x] = to => cut[mem.next[x]] # at
        <4>1. mem.next[x] # res
          BY <2>5, <1>3
        <4>. QED
          BY <4>1, <3>2, <1>1, <1>10 DEF at
      <3>4. cut[x] \in Nat
        BY <2>5, <1>9
      <3>. QED
        BY <3>1, <3>2, <3>3, <3>4, <2>5, <1>7, <1>15, <1>16
    <2>. QED
      BY <2>1, <2>2, <2>3, <2>4, <2>5
  <1>20. ASSUME NEW x \in All(mem), NEW y \in All(mem), home'[x] = home'[y], q[x] = q[y]
         PROVE  x = y
    <2>1. \A z \in S : q[z] \in at .. at + n - 1
      BY <1>7, <1>15, <1>16 DEF n
    <2>2. \A z \in Rest : home[z] = to => q[z] \notin at .. at + n - 1
      BY <1>7, <1>9, <1>15, <1>16
    <2>3. CASE x \in S /\ y \in S
      <3>1. home[x] = home[y] /\ pos[x] \in Nat /\ pos[y] \in Nat
        BY <2>3, <1>2, <1>3
      <3>2. pos[x] = pos[y]
        BY <3>1, <2>3, <1>7, <1>15, <1>16, <1>20
      <3>. QED
        BY <3>1, <3>2, <1>4
    <2>4. CASE x \in S /\ y \notin S
      BY <2>1, <2>2, <2>4, <1>5, <1>20
    <2>5. CASE x \notin S /\ y \in S
      BY <2>1, <2>2, <2>5, <1>5, <1>20
    <2>6. CASE x \notin S /\ y \notin S
      <3>1. home[x] = home[y] /\ cut[x] \in Nat /\ cut[y] \in Nat
        BY <2>6, <1>5, <1>9, <1>20
      <3>2. cut[x] = cut[y]
        BY <3>1, <2>6, <1>7, <1>15, <1>16, <1>20
      <3>. QED
        BY <3>1, <3>2, <2>6, <1>10
    <2>. QED
      BY <2>3, <2>4, <2>5, <2>6
  <1>21. \A l \in List : q[End(l)] = IF l = to THEN cut[End(l)] + n ELSE cut[End(l)]
    <2>1. cut[res] <= cut[End(to)]
      BY <1>1, <1>14
    <2>. QED
      BY <2>1, <1>13, <1>16 DEF at
  <1>22. ASSUME NEW x \in All(mem) PROVE q[x] <= q[End(home'[x])]
    <2>1. to \in List /\ \A l \in List : cut[End(l)] \in Nat /\ q[End(l)] \in Nat
      BY <1>1, <1>3, <1>9, <1>13, <1>21, <1>7
    <2>2. CASE x \in S
      <3>1. q[End(to)] = cut[End(to)] + n /\ cut[End(to)] >= at
        BY <2>1, <1>1, <1>14, <1>21 DEF at
      <3>2. q[x] <= at + n - 1
        BY <2>2, <1>7, <1>15, <1>16 DEF n
      <3>3. q[x] \in Nat
        BY <1>3, <1>17
      <3>. QED
        BY <3>1, <3>2, <3>3, <2>1, <2>2, <1>5, <1>7, <1>15
    <2>3. CASE x \notin S
      <3>1. cut[x] \in Nat /\ cut[x] <= cut[End(home[x])] /\ home[x] \in List
        BY <2>3, <1>3, <1>9, <1>14
      <3>. QED
        BY <3>1, <2>1, <2>3, <1>5, <1>7, <1>15, <1>16, <1>21
    <2>. QED
      BY <2>2, <2>3
  <1>23. q[FreeEnd] + q[ViewEnd] + q[BuriedEnd] = mem.used + 3
    <2>1. pos[FreeEnd] + pos[ViewEnd] + pos[BuriedEnd] = mem.used + 3
      BY DEF IsOrder
    <2>2. /\ "free" \in List /\ "view" \in List /\ "buried" \in List
          /\ End("free") = FreeEnd /\ End("view") = ViewEnd /\ End("buried") = BuriedEnd
      BY SentinelLists DEF List
    <2>3. /\ from \in {"free", "view", "buried"} /\ to \in {"free", "view", "buried"}
      BY <1>1, <1>3 DEF List
    <2>4. pos[FreeEnd] \in Nat /\ pos[ViewEnd] \in Nat /\ pos[BuriedEnd] \in Nat
      BY <1>3, <1>13, <2>2
    <2>5. /\ q[FreeEnd] = (IF "free" = from THEN pos[FreeEnd] - n ELSE pos[FreeEnd])
                           + (IF "free" = to THEN n ELSE 0)
          /\ q[ViewEnd] = (IF "view" = from THEN pos[ViewEnd] - n ELSE pos[ViewEnd])
                           + (IF "view" = to THEN n ELSE 0)
          /\ q[BuriedEnd] = (IF "buried" = from THEN pos[BuriedEnd] - n ELSE pos[BuriedEnd])
                           + (IF "buried" = to THEN n ELSE 0)
      BY <2>2, <2>4, <1>7, <1>13, <1>21
    <2>. QED
      BY <2>1, <2>3, <2>4, <2>5, <1>7
  <1>24. IsOrder(mem', home', q)
    BY <1>1, <1>5, <1>17, <1>18, <1>19, <1>20, <1>22, <1>23 DEF IsOrder
  <1>. QED
    BY <1>24 DEF q

LEMMA SpliceOrdered ==
  ASSUME OInv, mem.exit = 0,
         NEW S, NEW res, NEW b, NEW e,
         Movable(S, res, b, e),
         mem' = ListSplice(mem, res, b, e),
         Rehome(S, res)
  PROVE  Ordered'
  <1>. PICK pos : IsOrder(mem, home, pos)
    BY DEF OInv, Ordered, IsOrdered
  <1>1. IsOrder(mem', home', SplicedOrder(pos, S, res, b, e))
    BY SpliceOrder DEF OInv
  <1>. QED
    BY <1>1 DEF Ordered, IsOrdered

-----------------------------------------------------------------------------
(* create_nodes puts the new nodes between the last free node and the end.  *)

GrownOrder(pos) ==
  [x \in Addr |-> IF x \in mem.used + 1 .. mem.used + ChunkSize THEN pos[FreeEnd] + (x - (mem.used + 1))
                  ELSE IF x = FreeEnd THEN pos[FreeEnd] + ChunkSize
                  ELSE pos[x]]

LEMMA CreateNodesOrder ==
  ASSUME IInv, mem.exit = 0, NEW pos, IsOrder(mem, home, pos), mem.free = FreeEnd, CanCreate(mem)
  PROVE  IsOrder(CreateNodes(mem), Adopted(CreateNodes(mem)), GrownOrder(pos))
  <1>. Sound(mem, home)
    BY SoundIsIInv
  <1> DEFINE m == CreateNodes(mem)
             h == Adopted(m)
             p == mem.prev[FreeEnd]
             first == mem.used + 1
             last == mem.used + ChunkSize
             New == first .. last
             q == GrownOrder(pos)
  <1>1. /\ m.used = last /\ Owned(m) = Owned(mem) \cup New /\ New \cap All(mem) = {}
        /\ New \subseteq Addr
        /\ p \in All(mem) /\ mem.next[p] = FreeEnd /\ home[p] = "free"
        /\ m.next[p] = first /\ m.next[last] = FreeEnd
        /\ \A x \in first .. last - 1 : m.next[x] = x + 1
        /\ \A x \in All(mem) \ {p} : m.next[x] = mem.next[x]
        /\ \A x \in New : h[x] = "free"
        /\ \A x \in All(mem) : h[x] = home[x]
    <2>1. Appended(m, p, first, last)
      BY CreateNodesSound
    <2>. QED
      BY <2>1 DEF Appended, All
  <1>2. /\ All(mem) \subseteq Addr /\ mem.used \in Nat
        /\ \A x \in All(mem) : pos[x] \in Nat /\ home[x] \in List
        /\ \A x \in All(mem) \ Ends : /\ mem.next[x] \in All(mem) /\ mem.prev[mem.next[x]] = x
                                      /\ pos[mem.next[x]] = pos[x] + 1
    BY AddressOrder, AddressFacts
  <1>3. /\ pos \in [Addr -> Nat] /\ \A l \in List : pos[Begin(l)] = 0
        /\ \A x, y \in All(mem) : home[x] = home[y] /\ pos[x] = pos[y] => x = y
        /\ \A x \in All(mem) : pos[x] <= pos[End(home[x])]
        /\ pos[FreeEnd] + pos[ViewEnd] + pos[BuriedEnd] = mem.used + 3
    BY DEF IsOrder
  <1>4. ChunkSize \in Nat /\ ChunkSize >= 1 /\ first \in New /\ last \in New
    BY <1>2, ChunkAssumption
  <1>5. /\ FreeEnd \in All(mem) /\ FreeEnd \in Ends /\ home[FreeEnd] = "free"
        /\ "free" \in List /\ End("free") = FreeEnd
        /\ \A x \in All(mem) : home[x] = "free" => pos[x] \in 0 .. pos[FreeEnd]
        /\ \A x \in All(mem) : home[x] = "free" /\ pos[x] = pos[FreeEnd] => x = FreeEnd
        /\ p \notin Ends
    <2>1. "free" \in List /\ End("free") = FreeEnd
      BY SentinelLists DEF List
    <2>2. /\ FreeEnd \in All(mem) /\ FreeEnd \in Ends /\ home[FreeEnd] = "free"
          /\ \A x \in All(mem) : home[x] = "free" => pos[x] \in 0 .. pos[FreeEnd]
      <3>1. FreeEnd \in All(mem) /\ FreeEnd \in Ends /\ home[FreeEnd] = "free"
        BY <2>1, EndOrder
      <3>2. \A x \in All(mem) : pos[x] \in 0 .. pos[End(home[x])]
        BY PlaceInList
      <3>. QED
        BY <3>1, <3>2, <2>1
    <2>3. p \notin Ends
      BY <2>2, AddressOrder, AddressFacts
    <2>. QED
      BY <2>1, <2>2, <2>3, <1>3
  <1>6. All(m) = All(mem) \cup New
    BY <1>1 DEF All
  <1>7. /\ \A x \in New : /\ q[x] = pos[FreeEnd] + (x - first) /\ x \in Int
                        /\ x - first \in Nat /\ x - first < ChunkSize
        /\ pos[FreeEnd] \in Nat
        /\ q[FreeEnd] = pos[FreeEnd] + ChunkSize
        /\ \A x \in All(mem) \ {FreeEnd} : q[x] = pos[x]
        /\ q \in [Addr -> Nat]
    <2>1. \A x \in New : x \in Addr /\ x \in Int /\ x >= first /\ x <= last
                        /\ x - first \in Nat /\ x - first < ChunkSize
      BY <1>1, <1>2, <1>4
    <2>2. q = [x \in Addr |-> IF x \in New THEN pos[FreeEnd] + (x - first)
                              ELSE IF x = FreeEnd THEN pos[FreeEnd] + ChunkSize
                              ELSE pos[x]]
      BY DEF GrownOrder
    <2>. HIDE DEF q
    <2>3. \A x \in Addr : q[x] \in Nat
      BY <2>1, <2>2, <1>3, <1>4, <1>5, <1>2
    <2>. QED
      BY <2>1, <2>2, <2>3, <1>1, <1>2, <1>5
  <1>. HIDE DEF q, m, p
  <1>8. \A l \in List : q[Begin(l)] = 0
    <2>1. \A l \in List : Begin(l) \in All(mem) /\ Begin(l) # FreeEnd
      BY <1>5, EndOrder, AddressFacts
    <2>. QED
      BY <2>1, <1>3, <1>7
  <1>9. ASSUME NEW x \in All(m) \ Ends PROVE q[m.next[x]] = q[x] + 1
    <2>1. CASE x \in New /\ x # last
      <3>1. x \in first .. last - 1 /\ x + 1 \in New /\ (x + 1) - first = (x - first) + 1
        BY <2>1, <1>2, <1>4, <1>7
      <3>2. q[x] = pos[FreeEnd] + (x - first) /\ q[x + 1] = pos[FreeEnd] + ((x - first) + 1)
        BY <3>1, <2>1, <1>7
      <3>3. m.next[x] = x + 1 /\ x - first \in Nat
        BY <3>1, <2>1, <1>1, <1>7
      <3>. QED
        BY <3>2, <3>3, <1>7
    <2>2. CASE x = last
      BY <2>2, <1>1, <1>2, <1>4, <1>5, <1>7
    <2>3. CASE x = p
      <3>1. q[p] = pos[p] /\ pos[FreeEnd] = pos[p] + 1 /\ pos[p] \in Nat
        BY <1>1, <1>2, <1>5, <1>7
      <3>. QED
        BY <3>1, <2>3, <1>1, <1>2, <1>4, <1>7
    <2>4. CASE x \in All(mem) /\ x # p
      <3>1. /\ m.next[x] = mem.next[x] /\ mem.next[x] \in All(mem) /\ pos[mem.next[x]] = pos[x] + 1
            /\ mem.next[x] # FreeEnd
        BY <2>4, <1>1, <1>2, <1>5, <1>9 DEF p
      <3>. QED
        BY <3>1, <2>4, <1>5, <1>7
    <2>. QED
      BY <2>1, <2>2, <2>3, <2>4, <1>6
  <1>10. ASSUME NEW x \in All(m), NEW y \in All(m), h[x] = h[y], q[x] = q[y] PROVE x = y
    <2>1. \A z \in All(mem) : home[z] = "free" => q[z] < pos[FreeEnd] \/ z = FreeEnd
      BY <1>2, <1>5, <1>7
    <2>2. \A z \in New : q[z] >= pos[FreeEnd] /\ q[z] < pos[FreeEnd] + ChunkSize
      <3>. HIDE DEF New, first
      <3>. QED
        BY <1>4, <1>7
    <2>3. CASE x \in New /\ y \in New
      BY <2>3, <1>2, <1>5, <1>7, <1>10
    <2>4. CASE x \in New /\ y \in All(mem)
      <3>. HIDE DEF New, first
      <3>. QED
        BY <2>4, <2>1, <2>2, <1>1, <1>2, <1>4, <1>7, <1>10
    <2>5. CASE x \in All(mem) /\ y \in New
      <3>. HIDE DEF New, first
      <3>. QED
        BY <2>5, <2>1, <2>2, <1>1, <1>2, <1>4, <1>7, <1>10
    <2>6. CASE x \in All(mem) /\ y \in All(mem)
      <3>1. home[x] = home[y]
        BY <2>6, <1>1, <1>10
      <3>2. pos[x] = pos[y] \/ x = FreeEnd \/ y = FreeEnd
        BY <2>6, <1>7, <1>10
      <3>3. CASE x = FreeEnd /\ y # FreeEnd
        BY <3>1, <3>3, <2>1, <2>6, <1>2, <1>4, <1>5, <1>7, <1>10
      <3>4. CASE y = FreeEnd /\ x # FreeEnd
        BY <3>1, <3>4, <2>1, <2>6, <1>2, <1>4, <1>5, <1>7, <1>10
      <3>. QED
        BY <3>1, <3>2, <3>3, <3>4, <2>6, <1>3
    <2>. QED
      BY <2>3, <2>4, <2>5, <2>6, <1>6
  <1>11. /\ \A l \in List \ {"free"} : End(l) \in All(mem) /\ q[End(l)] = pos[End(l)]
         /\ "view" \in List /\ "buried" \in List /\ End("view") = ViewEnd /\ End("buried") = BuriedEnd
    <2>1. \A l \in List : End(l) \in All(mem) /\ home[End(l)] = l
      BY EndOrder
    <2>. QED
      BY <2>1, <1>5, <1>7, SentinelLists DEF List
  <1>12. ASSUME NEW x \in All(m) PROVE q[x] <= q[End(h[x])]
    <2>1. CASE x \in New
      <3>1. q[x] < pos[FreeEnd] + ChunkSize
        <4>. HIDE DEF New, first
        <4>. QED
          BY <2>1, <1>4, <1>7
      <3>2. q[x] \in Nat /\ pos[FreeEnd] \in Nat
        BY <2>1, <1>1, <1>2, <1>5, <1>7
      <3>. QED
        BY <3>1, <3>2, <2>1, <1>1, <1>4, <1>5, <1>7
    <2>2. CASE x \in All(mem) /\ home[x] = "free"
      <3>1. q[x] <= pos[FreeEnd] \/ x = FreeEnd
        BY <2>2, <1>2, <1>5, <1>7
      <3>2. q[x] \in Nat /\ pos[FreeEnd] \in Nat
        BY <2>2, <1>2, <1>5, <1>7
      <3>. QED
        BY <3>1, <3>2, <2>2, <1>1, <1>4, <1>5, <1>7
    <2>3. CASE x \in All(mem) /\ home[x] # "free"
      BY <2>3, <1>1, <1>2, <1>3, <1>5, <1>7, <1>11
    <2>. QED
      BY <2>1, <2>2, <2>3, <1>6
  <1>13. q[FreeEnd] + q[ViewEnd] + q[BuriedEnd] = m.used + 3
    <2>1. q[ViewEnd] = pos[ViewEnd] /\ q[BuriedEnd] = pos[BuriedEnd]
      BY <1>11
    <2>2. pos[FreeEnd] \in Nat /\ pos[ViewEnd] \in Nat /\ pos[BuriedEnd] \in Nat
      BY <1>2, <1>5, <1>11
    <2>3. /\ q[FreeEnd] = pos[FreeEnd] + ChunkSize /\ m.used = mem.used + ChunkSize
          /\ pos[FreeEnd] + pos[ViewEnd] + pos[BuriedEnd] = mem.used + 3
      BY <1>1, <1>3, <1>7
    <2>. QED
      BY <2>1, <2>2, <2>3, <1>2, <1>4
  <1>14. IsOrder(m, h, q)
    BY <1>7, <1>8, <1>9, <1>10, <1>12, <1>13 DEF IsOrder
  <1>. QED
    BY <1>14 DEF m, q

LEMMA CreateNodesOrdered ==
  ASSUME OInv, mem.exit = 0, mem.free = FreeEnd, CanCreate(mem)
  PROVE  IsOrdered(CreateNodes(mem), Adopted(CreateNodes(mem)))
  <1>. PICK pos : IsOrder(mem, home, pos)
    BY DEF OInv, Ordered, IsOrdered
  <1>1. IsOrder(CreateNodes(mem), Adopted(CreateNodes(mem)), GrownOrder(pos))
    BY CreateNodesOrder DEF OInv
  <1>. QED
    BY <1>1 DEF IsOrdered

(* Of the memory only the links and how many nodes there are matter. *)
LEMMA SameOrder ==
  ASSUME NEW m, NEW h, NEW w, IsOrdered(m, h), w.next = m.next, w.used = m.used
  PROVE  IsOrdered(w, h)
  BY DEF IsOrdered, IsOrder, All, Owned

LEMMA EnsureMemoryOrdered ==
  ASSUME OInv, mem.exit = 0
  PROVE  IsOrdered(EnsureMemory(mem), Adopted(EnsureMemory(mem)))
  <1>1. mem \in Memory /\ home \in [Addr -> List \cup {"none"}] /\ IsOrdered(mem, home)
    BY DEF OInv, IInv, TypeOK, Ordered
  <1>2. Adopted(mem) = home
    BY <1>1 DEF Adopted
  <1>3. CASE mem.free # FreeEnd
    <2>1. EnsureMemory(mem) = mem
      BY <1>3 DEF EnsureMemory
    <2>. QED
      BY <2>1, <1>1, <1>2
  <1>4. CASE mem.free = FreeEnd /\ CanCreate(mem)
    <2>1. EnsureMemory(mem) = CreateNodes(mem)
      BY <1>4 DEF EnsureMemory
    <2>. QED
      BY <2>1, <1>4, CreateNodesOrdered
  <1>5. CASE mem.free = FreeEnd /\ ~ CanCreate(mem)
    <2> DEFINE m == [mem EXCEPT !.exit = NoMemory]
    <2>1. EnsureMemory(mem) = m
      BY <1>5 DEF EnsureMemory
    <2>2. m.next = mem.next /\ m.used = mem.used
      BY <1>1 DEF Memory
    <2>. HIDE DEF m
    <2>3. Adopted(m) = home
      BY <2>2, <1>2 DEF Owned, Adopted
    <2>. QED
      BY <2>1, <2>2, <2>3, <1>1, SameOrder
  <1>. QED
    BY <1>3, <1>4, <1>5

-----------------------------------------------------------------------------
LEMMA InitOrdered ==
  Init => OInv
  <1>. SUFFICES ASSUME Init PROVE OInv
    OBVIOUS
  <1>1. IInv
    BY InitInvariant
  <1>2. /\ mem.next = [x \in Addr |-> IF x \in Begins THEN x - 1 ELSE NULL]
        /\ mem.used = 0 /\ Owned(mem) = {}
    BY DEF Init, InitialMemory, Owned
  <1> DEFINE pos == [x \in Addr |-> IF x \in Ends THEN 1 ELSE 0]
  <1>3. /\ Begins \cap Ends = {} /\ Begins \subseteq Addr /\ Ends \subseteq Addr
        /\ All(mem) = Begins \cup Ends
    BY <1>2, AddressFacts DEF Addr, Sentinel, All
  <1>4. /\ \A l \in List : Begin(l) \in Begins /\ home[Begin(l)] = l /\ End(l) \in Ends
                          /\ home[End(l)] = l
        /\ \A x \in Begins : \E l \in List : x = Begin(l)
        /\ \A x \in Ends : \E l \in List : x = End(l)
    BY <1>1, SentinelLists DEF IInv, SentinelsAtHome, SentinelsStay, List, Begins, Ends
  <1>5. \A x \in Begins : x - 1 \in Ends
    BY DEF Begins, Ends, FreeBegin, FreeEnd, ViewBegin, ViewEnd, BuriedBegin, BuriedEnd
  <1>6. /\ \A x \in Begins : pos[x] = 0 /\ pos[mem.next[x]] = 1
        /\ \A x \in Ends : pos[x] = 1
        /\ pos \in [Addr -> Nat]
    BY <1>2, <1>3, <1>5
  <1>7. pos[FreeEnd] + pos[ViewEnd] + pos[BuriedEnd] = 0 + 3
    BY <1>6 DEF Ends
  <1>. HIDE DEF pos
  <1>8. IsOrder(mem, home, pos)
    <2>1. \A x, y \in All(mem) : home[x] = home[y] /\ pos[x] = pos[y] => x = y
      BY <1>3, <1>4, <1>6
    <2>2. \A x \in All(mem) : pos[x] <= pos[End(home[x])]
      BY <1>3, <1>4, <1>6
    <2>. QED
      BY <2>1, <2>2, <1>2, <1>3, <1>4, <1>6, <1>7 DEF IsOrder
  <1>. QED
    BY <1>1, <1>8 DEF OInv, Ordered, IsOrdered

LEMMA NextOrdered ==
  OInv /\ [Next]_vars => OInv'
  <1>. SUFFICES ASSUME OInv, [Next]_vars PROVE Ordered'
    BY NextInvariant DEF OInv
  <1>0. /\ IInv /\ mem \in Memory /\ home \in [Addr -> List \cup {"none"}]
        /\ IsOrdered(mem, home) /\ mem.free \in Owned(mem) \cup {FreeEnd} /\ home[mem.free] = "free"
        /\ (IsOrdered(mem', home') => Ordered')
        /\ IsLinked(mem) /\ IsSeparated(mem, home)
    BY DEF OInv, IInv, TypeOK, Ordered, IsOrdered, FreePtrIsFree, Linked, Separated
  <1>1. CASE Reset
    <2>1. mem' = [mem EXCEPT !.free = mem.next[FreeBegin]] /\ home' = home
      BY <1>1 DEF Reset, Live, ResetAllocator
    <2>2. mem'.next = mem.next /\ mem'.used = mem.used
      BY <2>1, <1>0 DEF Memory
    <2>. QED
      BY <2>1, <2>2, <1>0, SameOrder
  <1>2. ASSUME NEW tag \in AllocTags, NEW info \in Symbol, Alloc(tag, info)
        PROVE  Ordered'
    <2> DEFINE m == EnsureMemory(mem)
    <2>1. /\ mem.exit = 0 /\ mem' = AllocNode(mem, tag, info) /\ Adopt(mem')
      BY <1>2 DEF Alloc, Live
    <2>2. IsOrdered(m, Adopted(m)) /\ m \in Memory
      BY <2>1, <1>0, EnsureMemoryOrdered, EnsureMemorySound DEF Sound
    <2>3. mem'.next = m.next /\ mem'.used = m.used
      <3>. HIDE DEF m
      <3>1. mem' = m \/ mem' = [m EXCEPT !.tag[m.free] = tag, !.info[m.free] = info,
                                         !.free = m.next[m.free]]
        BY <2>1 DEF AllocNode, m
      <3>. QED
        BY <3>1, <2>2 DEF Memory
    <2>4. home' = Adopted(m)
      BY <2>1, <2>3 DEF Adopt, Adopted, Owned
    <2>. QED
      BY <2>2, <2>3, <2>4, <1>0, SameOrder
  <1>3. CASE Prepare
    <2>1. mem' = EnsureMemory(mem) /\ home' = Adopted(EnsureMemory(mem)) /\ mem.exit = 0
      BY <1>3 DEF Prepare, InsertPos, Adopt, Adopted, Live
    <2>. QED
      BY <2>1, EnsureMemoryOrdered, <1>0
  <1>4. ASSUME NEW S, NEW begin, NEW end, NEW res, Move(S, res, begin, end)
        PROVE  Ordered'
    <2>1. /\ mem.exit = 0 /\ Movable(S, res, begin, end) /\ Rehome(S, res)
          /\ mem' = ListSplice(mem, res, begin, end)
      BY <1>4 DEF Move, Live, SpliceTevar
    <2>. QED
      BY <2>1, SpliceOrdered
  <1>5. ASSUME NEW S, NEW begin, NEW end, Discard(S, begin, end)
        PROVE  Ordered'
    <2>1. /\ mem.exit = 0 /\ mem' = ListSplice(mem, mem.free, begin, end)
          /\ Movable(S, mem.free, begin, end) /\ Rehome(S, mem.free)
      BY <1>0, <1>5, DiscardIsMove
    <2>. QED
      BY <2>1, SpliceOrdered
  <1>6. ASSUME NEW S, NEW pos, Publish(S, pos)
        PROVE  Ordered'
    <2>1. CASE mem.free = mem.next[FreeBegin]
      BY <2>1, <1>0, <1>6, PublishIsMove
    <2>2. CASE mem.free # mem.next[FreeBegin]
      <3>1. /\ mem.exit = 0 /\ mem' = ListSplice(mem, pos, mem.next[FreeBegin], mem.prev[mem.free])
            /\ Movable(S, pos, mem.next[FreeBegin], mem.prev[mem.free]) /\ Rehome(S, pos)
        BY <2>2, <1>0, <1>6, PublishIsMove
      <3>. QED
        BY <3>1, SpliceOrdered
    <2>. QED
      BY <2>1, <2>2
  <1>7. CASE UNCHANGED vars
    BY <1>7, <1>0 DEF vars
  <1>. QED
    BY <1>1, <1>2, <1>3, <1>4, <1>5, <1>6, <1>7 DEF Next

LEMMA OrderInvariance ==
  Spec => []OInv
  BY InitOrdered, NextOrdered, PTL DEF Spec

-----------------------------------------------------------------------------
(* Walking the lists meets the addresses in the order of their positions.   *)

(* What the recursion in Path says of walk. *)
IsWalk(walk, m, end) ==
  walk = [fuel \in 0 .. MaxNode + 1 |->
            [x \in Addr |-> IF x = end \/ m.next[x] = NULL \/ fuel = 0
                            THEN <<x>>
                            ELSE <<x>> \o walk[fuel - 1][m.next[x]]]]

(* The same of its values up to k, written without a recursion. *)
IsWalkTo(walk, m, end, k) ==
  /\ walk[0] = [x \in Addr |-> <<x>>]
  /\ \A fuel \in 1 .. k :
       walk[fuel] = [x \in Addr |-> IF x = end \/ m.next[x] = NULL
                                    THEN <<x>>
                                    ELSE <<x>> \o walk[fuel - 1][m.next[x]]]

LEMMA WalkToExists ==
  ASSUME NEW m, NEW end
  PROVE  \A k \in Nat : \E walk : IsWalkTo(walk, m, end, k)
  <1> DEFINE T == {k \in Nat : \E walk : IsWalkTo(walk, m, end, k)}
  <1>1. 0 \in T
    <2> DEFINE w == [fuel \in {0} |-> [x \in Addr |-> <<x>>]]
    <2>1. IsWalkTo(w, m, end, 0)
      BY DEF IsWalkTo
    <2>. QED
      BY <2>1
  <1>2. ASSUME NEW k \in Nat, k \in T PROVE k + 1 \in T
    <2>1. PICK v : IsWalkTo(v, m, end, k)
      BY <1>2
    <2> DEFINE last == [x \in Addr |-> IF x = end \/ m.next[x] = NULL
                                       THEN <<x>>
                                       ELSE <<x>> \o v[k][m.next[x]]]
               w == [fuel \in 0 .. k + 1 |-> IF fuel = k + 1 THEN last ELSE v[fuel]]
    <2>2. w[k + 1] = last /\ \A fuel \in 0 .. k : w[fuel] = v[fuel]
      OBVIOUS
    <2>. HIDE DEF w
    <2>3. ASSUME NEW fuel \in 1 .. k + 1
          PROVE  w[fuel] = [x \in Addr |-> IF x = end \/ m.next[x] = NULL
                                           THEN <<x>>
                                           ELSE <<x>> \o w[fuel - 1][m.next[x]]]
      <3>1. fuel - 1 \in 0 .. k /\ w[fuel - 1] = v[fuel - 1]
        BY <2>2
      <3>2. CASE fuel = k + 1
        BY <3>1, <3>2, <2>2
      <3>3. CASE fuel # k + 1
        <4>1. fuel \in 1 .. k /\ w[fuel] = v[fuel]
          BY <3>3, <2>2
        <4>. QED
          BY <4>1, <3>1, <2>1 DEF IsWalkTo
      <3>. QED
        BY <3>2, <3>3
    <2>4. w[0] = [x \in Addr |-> <<x>>]
      BY <2>1, <2>2 DEF IsWalkTo
    <2>5. IsWalkTo(w, m, end, k + 1)
      BY <2>3, <2>4 DEF IsWalkTo
    <2>. QED
      BY <2>5
  <1>. HIDE DEF T
  <1>3. Nat \subseteq T
    BY <1>1, <1>2, InductionOnSet
  <1>. QED
    BY <1>3 DEF T

LEMMA PathIsWalk ==
  ASSUME NEW m, NEW begin, NEW end
  PROVE  \E walk : IsWalk(walk, m, end) /\ Path(m, begin, end) = walk[MaxNode + 1][begin]
  <1>1. MaxNode + 1 \in Nat
    BY AddressFacts
  <1>2. PICK v : IsWalkTo(v, m, end, MaxNode + 1)
    BY <1>1, WalkToExists
  <1> DEFINE w == [fuel \in 0 .. MaxNode + 1 |-> v[fuel]]
  <1>3. \A fuel \in 0 .. MaxNode + 1 :
          w[fuel] = [x \in Addr |-> IF x = end \/ m.next[x] = NULL \/ fuel = 0
                                    THEN <<x>>
                                    ELSE <<x>> \o w[fuel - 1][m.next[x]]]
    <2>. TAKE fuel \in 0 .. MaxNode + 1
    <2>1. CASE fuel = 0
      BY <2>1, <1>1, <1>2 DEF IsWalkTo
    <2>2. CASE fuel # 0
      <3>1. fuel \in 1 .. MaxNode + 1 /\ w[fuel] = v[fuel] /\ w[fuel - 1] = v[fuel - 1]
        BY <2>2, <1>1
      <3>. QED
        BY <3>1, <2>2, <1>2 DEF IsWalkTo
    <2>. QED
      BY <2>1, <2>2
  <1>4. IsWalk(w, m, end)
    <2>1. w = [fuel \in 0 .. MaxNode + 1 |-> w[fuel]]
      OBVIOUS
    <2>. HIDE DEF w
    <2>. QED
      BY <2>1, <1>3 DEF IsWalk
  <1> DEFINE Fits(h) == IsWalk(h, m, end)
  <1>5. Path(m, begin, end) = (CHOOSE h : Fits(h))[MaxNode + 1][begin]
    BY DEF Path, IsWalk
  <1>6. Fits(w)
    BY <1>4
  <1>. HIDE DEF Fits, w
  <1>7. Fits(CHOOSE h : Fits(h))
    BY <1>6
  <1>. QED
    BY <1>5, <1>7 DEF Fits

Chain(f, n) == [j \in 1 .. n + 1 |-> f[j - 1]]

(* A chain of n links from begin to end is what Path finds. *)
LEMMA PathIsChain ==
  ASSUME NEW m, NEW n \in 0 .. MaxNode + 1, NEW f \in [0 .. n -> Addr],
         \A j \in 0 .. n - 1 : f[j] # f[n] /\ m.next[f[j]] # NULL /\ m.next[f[j]] = f[j + 1]
  PROVE  Path(m, f[0], f[n]) = Chain(f, n)
  <1>0. MaxNode \in Nat
    BY AddressFacts
  <1>1. PICK walk : IsWalk(walk, m, f[n]) /\ Path(m, f[0], f[n]) = walk[MaxNode + 1][f[0]]
    BY PathIsWalk
  <1> DEFINE tail(k) == [j \in 1 .. k + 1 |-> f[n - k + j - 1]]
             T == {k \in Nat : k <= n =>
                     \A fuel \in k .. MaxNode + 1 : walk[fuel][f[n - k]] = tail(k)}
  <1>2. \A fuel \in 0 .. MaxNode + 1 : \A x \in Addr :
          /\ x = f[n] => walk[fuel][x] = <<x>>
          /\ x # f[n] /\ m.next[x] # NULL /\ fuel # 0 =>
               walk[fuel][x] = <<x>> \o walk[fuel - 1][m.next[x]]
    <2>. TAKE fuel \in 0 .. MaxNode + 1
    <2>1. walk[fuel] = [x \in Addr |-> IF x = f[n] \/ m.next[x] = NULL \/ fuel = 0
                                       THEN <<x>>
                                       ELSE <<x>> \o walk[fuel - 1][m.next[x]]]
      BY <1>1 DEF IsWalk
    <2> DEFINE before == walk[fuel - 1]
    <2>. HIDE DEF before
    <2>2. walk[fuel] = [x \in Addr |-> IF x = f[n] \/ m.next[x] = NULL \/ fuel = 0
                                       THEN <<x>>
                                       ELSE <<x>> \o before[m.next[x]]]
      BY <2>1 DEF before
    <2>3. \A x \in Addr : /\ x = f[n] => walk[fuel][x] = <<x>>
                          /\ x # f[n] /\ m.next[x] # NULL /\ fuel # 0 =>
                               walk[fuel][x] = <<x>> \o before[m.next[x]]
      BY <2>2
    <2>. QED
      BY <2>3 DEF before
  <1>3. 0 \in T
    <2>1. n - 0 + 1 - 1 = n /\ n - 0 = n /\ f[n] \in Addr
      OBVIOUS
    <2>a. tail(0) = <<f[n]>>
      BY <2>1
    <2>2. \A fuel \in 0 .. MaxNode + 1 : walk[fuel][f[n - 0]] = tail(0)
      BY <2>1, <2>a, <1>2
    <2>. QED
      BY <2>2
  <1>4. ASSUME NEW k \in Nat, k \in T PROVE k + 1 \in T
    <2>. SUFFICES ASSUME k + 1 <= n, NEW fuel \in k + 1 .. MaxNode + 1
                  PROVE  walk[fuel][f[n - (k + 1)]] = tail(k + 1)
      OBVIOUS
    <2> DEFINE j0 == n - (k + 1)
    <2>1. /\ j0 \in 0 .. n - 1 /\ j0 + 1 = n - k /\ fuel \in 0 .. MaxNode + 1 /\ fuel # 0
          /\ fuel - 1 \in k .. MaxNode + 1 /\ k <= n /\ f[j0] \in Addr
      BY <1>0
    <2>2. walk[fuel][f[j0]] = <<f[j0]>> \o walk[fuel - 1][f[n - k]]
      <3>1. f[j0] # f[n] /\ m.next[f[j0]] # NULL /\ m.next[f[j0]] = f[n - k]
        BY <2>1
      <3>. HIDE DEF j0, T
      <3>. QED
        BY <3>1, <2>1, <1>2
    <2>3. walk[fuel - 1][f[n - k]] = tail(k)
      BY <2>1, <1>4
    <2>4. <<f[j0]>> \o tail(k) = tail(k + 1)
      <3>1. tail(k) \in Seq(Addr) /\ Len(tail(k)) = k + 1 /\ <<f[j0]>> \in Seq(Addr)
        <4>1. \A j \in 1 .. k + 1 : n - k + j - 1 \in 0 .. n
          BY <2>1
        <4>. QED
          BY <4>1
      <3>2. <<f[j0]>> \o tail(k) = [j \in 1 .. k + 2 |-> IF j = 1 THEN f[j0] ELSE tail(k)[j - 1]]
        <4>. HIDE DEF tail
        <4>. QED
          BY <3>1
      <3>3. \A j \in 1 .. k + 2 : j # 1 => tail(k)[j - 1] = f[n - (k + 1) + j - 1]
        <4>. TAKE j \in 1 .. k + 2
        <4>. HAVE j # 1
        <4>1. j - 1 \in 1 .. k + 1 /\ n - k + (j - 1) - 1 = n - (k + 1) + j - 1
          OBVIOUS
        <4>. QED
          BY <4>1
      <3>4. n - (k + 1) + 1 - 1 = j0 /\ (k + 1) + 1 = k + 2
        OBVIOUS
      <3>. QED
        BY <3>2, <3>3, <3>4
    <2>. QED
      BY <2>2, <2>3, <2>4
  <1>. HIDE DEF T
  <1>5. n \in T
    BY <1>3, <1>4, InductionOnSet
  <1>6. walk[MaxNode + 1][f[0]] = tail(n)
    BY <1>0, <1>5 DEF T
  <1>7. tail(n) = [j \in 1 .. n + 1 |-> f[j - 1]]
    <2>1. \A j \in 1 .. n + 1 : n - n + j - 1 = j - 1
      OBVIOUS
    <2>. QED
      BY <2>1
  <1>. QED
    BY <1>1, <1>6, <1>7 DEF Chain

-----------------------------------------------------------------------------
(* Each position of a list is taken by one address.                         *)

At(m, h, pos, l, j) == CHOOSE x \in All(m) : h[x] = l /\ pos[x] = j

LEMMA AtPosition ==
  ASSUME NEW m, NEW h, Sound(m, h), NEW pos, IsOrder(m, h, pos),
         NEW l \in List, NEW j \in 0 .. pos[End(l)]
  PROVE  LET x == At(m, h, pos, l, j)
         IN  /\ x \in All(m) /\ h[x] = l /\ pos[x] = j
             /\ \A y \in All(m) : h[y] = l /\ pos[y] = j => y = x
  <1> DEFINE T == {k \in Nat : k <= pos[End(l)] => \E x \in All(m) : h[x] = l /\ pos[x] = k}
  <1>1. 0 \in T
    BY EndOrder
  <1>2. ASSUME NEW k \in Nat, k \in T PROVE k + 1 \in T
    <2>. SUFFICES ASSUME k + 1 <= pos[End(l)]
                  PROVE  \E x \in All(m) : h[x] = l /\ pos[x] = k + 1
      OBVIOUS
    <2>1. pos[End(l)] \in Nat
      BY EndOrder, AddressOrder
    <2>2. PICK x \in All(m) : h[x] = l /\ pos[x] = k
      BY <1>2, <2>1
    <2>3. x \notin Ends
      BY <2>1, <2>2, PlaceInList
    <2>4. m.next[x] \in All(m) /\ h[m.next[x]] = l /\ pos[m.next[x]] = k + 1
      BY <2>2, <2>3, AddressOrder
    <2>. QED
      BY <2>4
  <1>. HIDE DEF T
  <1>3. Nat \subseteq T
    BY <1>1, <1>2, InductionOnSet
  <1>4. j \in Nat /\ j <= pos[End(l)]
    BY EndOrder
  <1>5. \E x \in All(m) : h[x] = l /\ pos[x] = j
    BY <1>3, <1>4 DEF T
  <1>. QED
    BY <1>5 DEF At, IsOrder

LEMMA PathBetween ==
  ASSUME NEW m, NEW h, Sound(m, h), NEW pos, IsOrder(m, h, pos),
         NEW x \in All(m), NEW y \in All(m), h[x] = h[y], pos[x] <= pos[y]
  PROVE  Path(m, x, y) = [j \in 1 .. pos[y] - pos[x] + 1 |-> At(m, h, pos, h[x], pos[x] + j - 1)]
  <1> DEFINE l == h[x]
             n == pos[y] - pos[x]
             f == [j \in 0 .. n |-> At(m, h, pos, l, pos[x] + j)]
  <1>1. /\ l \in List /\ pos[x] \in Nat /\ pos[y] \in Nat /\ m.used \in 0 .. MaxNode
        /\ All(m) \subseteq Addr
    BY AddressOrder
  <1>2. pos[End(l)] \in 1 .. m.used + 1 /\ pos[y] \in 0 .. pos[End(l)]
    BY <1>1, EndOrder, PlaceInList
  <1>3. n \in 0 .. MaxNode + 1 /\ \A j \in 0 .. n : pos[x] + j \in 0 .. pos[End(l)]
    BY <1>1, <1>2, AddressFacts
  <1>4. \A j \in 0 .. n : /\ f[j] \in All(m) /\ h[f[j]] = l /\ pos[f[j]] = pos[x] + j
                          /\ \A z \in All(m) : h[z] = l /\ pos[z] = pos[x] + j => z = f[j]
    <2>. TAKE j \in 0 .. n
    <2>1. f[j] = At(m, h, pos, l, pos[x] + j) /\ pos[x] + j \in 0 .. pos[End(l)]
      BY <1>3
    <2>. HIDE DEF f
    <2>. QED
      BY <2>1, <1>1, AtPosition
  <1>5. f \in [0 .. n -> Addr]
    BY <1>1, <1>4
  <1>6. f[0] = x /\ f[n] = y
    <2>1. pos[x] + 0 = pos[x] /\ pos[x] + n = pos[y] /\ 0 \in 0 .. n /\ n \in 0 .. n
      BY <1>1, <1>3
    <2>. HIDE DEF f, n
    <2>. QED
      BY <2>1, <1>4
  <1>7. ASSUME NEW j \in 0 .. n - 1
        PROVE  f[j] # f[n] /\ m.next[f[j]] # NULL /\ m.next[f[j]] = f[j + 1]
    <2>1. /\ j \in 0 .. n /\ j + 1 \in 0 .. n /\ pos[x] + j < pos[x] + n
          /\ pos[x] + n \in 0 .. pos[End(l)] /\ n \in 0 .. n /\ pos[End(l)] \in Nat
          /\ pos[x] + (j + 1) = (pos[x] + j) + 1
      BY <1>1, <1>2, <1>3
    <2>. HIDE DEF f, n
    <2>2. f[j] \in All(m) /\ h[f[j]] = l /\ pos[f[j]] = pos[x] + j /\ pos[f[n]] = pos[x] + n
      BY <2>1, <1>4
    <2>3. f[j] \notin Ends
      <3>1. pos[f[j]] # pos[End(h[f[j]])]
        BY <2>1, <2>2, <1>1
      <3>. QED
        BY <3>1, <2>2, PlaceInList
    <2>4. /\ m.next[f[j]] \in All(m) /\ m.next[f[j]] # NULL /\ h[m.next[f[j]]] = l
          /\ pos[m.next[f[j]]] = pos[x] + (j + 1)
      BY <2>1, <2>2, <2>3, AddressOrder
    <2>. QED
      BY <2>1, <2>2, <2>4, <1>4
  <1>8. \A j \in 1 .. n + 1 : f[j - 1] = At(m, h, pos, l, pos[x] + j - 1)
    <2>. TAKE j \in 1 .. n + 1
    <2>1. j - 1 \in 0 .. n /\ pos[x] + (j - 1) = pos[x] + j - 1
      BY <1>1, <1>3
    <2>. QED
      BY <2>1
  <1>9. Path(m, f[0], f[n]) = Chain(f, n)
    <2>1. \A j \in 0 .. n - 1 : f[j] # f[n] /\ m.next[f[j]] # NULL /\ m.next[f[j]] = f[j + 1]
      BY <1>7
    <2>2. n \in 0 .. MaxNode + 1
      BY <1>3
    <2>. HIDE DEF f, n
    <2>. QED
      BY <2>1, <2>2, <1>5, PathIsChain
  <1>. QED
    BY <1>6, <1>8, <1>9 DEF Chain

(* The contents of a list, by position. *)
LEMMA ContentsByPosition ==
  ASSUME NEW m, NEW h, Sound(m, h), NEW pos, IsOrder(m, h, pos), NEW l \in List
  PROVE  /\ Contents(m, l) = [j \in 1 .. pos[End(l)] - 1 |-> At(m, h, pos, l, j)]
         /\ Path(m, Begin(l), End(l))[pos[End(l)] + 1] = End(l)
         /\ Len(Contents(m, l)) = pos[End(l)] - 1
  <1> DEFINE n == pos[End(l)]
             path == Path(m, Begin(l), End(l))
             at == [j \in 0 .. n |-> At(m, h, pos, l, j)]
  <1>1. /\ Begin(l) \in All(m) /\ h[Begin(l)] = l /\ End(l) \in All(m) /\ h[End(l)] = l
        /\ pos[Begin(l)] = 0 /\ n \in Nat /\ n >= 1
    BY EndOrder, AddressOrder
  <1>2. path = [j \in 1 .. n - 0 + 1 |-> At(m, h, pos, l, 0 + j - 1)]
    BY <1>1, PathBetween
  <1>3. path = [j \in 1 .. n + 1 |-> at[j - 1]]
    <2>1. \A j \in 1 .. n + 1 : 0 + j - 1 \in 0 .. n /\ 0 + j - 1 = j - 1
      BY <1>1
    <2>2. \A j \in 1 .. n + 1 : At(m, h, pos, l, 0 + j - 1) = at[j - 1]
      BY <2>1
    <2>3. n - 0 + 1 = n + 1
      BY <1>1
    <2>. HIDE DEF at
    <2>. QED
      BY <1>2, <2>2, <2>3
  <1>4. Len(path) = n + 1
    BY <1>1, <1>3
  <1>5. path[n + 1] = End(l)
    <2>1. path[n + 1] = At(m, h, pos, l, n)
      BY <1>1, <1>3
    <2>. QED
      BY <2>1, <1>1, AtPosition
  <1>6. SubSeq(path, 2, n) = [j \in 1 .. n - 1 |-> at[j]]
    <2>1. SubSeq(path, 2, n) = [j \in 1 .. n - 2 + 1 |-> path[2 + j - 1]]
      <3>. HIDE DEF path, n
      <3>. QED
        BY <1>1, <1>4
    <2>2. \A j \in 1 .. n - 1 : path[2 + j - 1] = at[j]
      <3>. TAKE j \in 1 .. n - 1
      <3>1. 2 + j - 1 = j + 1 /\ j + 1 \in 1 .. n + 1 /\ (j + 1) - 1 = j
        BY <1>1
      <3>. HIDE DEF path, at, n
      <3>. QED
        BY <3>1, <1>3
    <2>3. n - 2 + 1 = n - 1
      BY <1>1
    <2>. HIDE DEF path, at, n
    <2>. QED
      BY <2>1, <2>2, <2>3
  <1>7. Contents(m, l) = [j \in 1 .. n - 1 |-> At(m, h, pos, l, j)]
    <2>1. \A j \in 1 .. n - 1 : at[j] = At(m, h, pos, l, j)
      BY <1>1
    <2>2. Len(path) - 1 = n
      BY <1>1, <1>4
    <2>3. Contents(m, l) = SubSeq(path, 2, Len(path) - 1)
      BY DEF Contents
    <2>. HIDE DEF path, at, n
    <2>. QED
      BY <2>1, <2>2, <2>3, <1>6
  <1>8. Len(Contents(m, l)) = n - 1
    BY <1>1, <1>7
  <1>. QED
    BY <1>5, <1>7, <1>8

-----------------------------------------------------------------------------
(* The theorems.                                                            *)

(* No node is lost or shared, whatever the callers do: a walk over next from the first
   sentinel of each list ends at its last one, meets no node twice, and meets exactly the
   nodes of that list; every node that create_nodes provided is in one of the three. *)
THEOREM NothingIsLost ==
  Spec => []Conservation
  <1>1. ASSUME OInv PROVE Conservation
    <2>1. PICK pos : IsOrder(mem, home, pos)
      BY <1>1 DEF OInv, Ordered, IsOrdered
    <2>2. Sound(mem, home)
      BY <1>1, SoundIsIInv DEF OInv
    <2>3. \A x \in Owned(mem) : home[x] \in List
      BY <2>2 DEF Sound, IsSeparated
    <2>4. ASSUME NEW l \in List
          PROVE  LET c == Contents(mem, l)
                 IN  /\ Path(mem, Begin(l), End(l))[Len(c) + 2] = End(l)
                     /\ \A i, j \in 1 .. Len(c) : c[i] = c[j] => i = j
                     /\ Addresses(c) = {x \in Owned(mem) : home[x] = l}
      <3> DEFINE c == Contents(mem, l)
                 n == pos[End(l)]
      <3>1. /\ n \in Nat /\ n >= 1 /\ Len(c) = n - 1 /\ c = [j \in 1 .. n - 1 |-> At(mem, home, pos, l, j)]
            /\ Path(mem, Begin(l), End(l))[n + 1] = End(l)
        BY <2>1, <2>2, EndOrder, AddressOrder, ContentsByPosition
      <3>2. Path(mem, Begin(l), End(l))[Len(c) + 2] = End(l)
        <4>1. Len(c) + 2 = n + 1
          BY <3>1
        <4>. QED
          BY <3>1, <4>1
      <3>3. \A j \in 1 .. n - 1 : /\ c[j] \in All(mem) /\ home[c[j]] = l /\ pos[c[j]] = j
                                  /\ \A y \in All(mem) : home[y] = l /\ pos[y] = j => y = c[j]
        <4>. TAKE j \in 1 .. n - 1
        <4>1. j \in 0 .. pos[End(l)] /\ c[j] = At(mem, home, pos, l, j)
          BY <3>1
        <4>. QED
          BY <4>1, <2>1, <2>2, AtPosition
      <3>. HIDE DEF c, n
      <3>4. \A i, j \in 1 .. Len(c) : c[i] = c[j] => i = j
        BY <3>1, <3>3
      <3>5. \A x \in All(mem) : x \in Owned(mem) <=> x \notin Begins /\ x \notin Ends
        BY <2>2, AddressFacts DEF All, Sentinel, Sound, Memory, Owned, Node
      <3>6. ASSUME NEW j \in 1 .. n - 1 PROVE c[j] \in Owned(mem) /\ home[c[j]] = l
        <4>1. c[j] \in All(mem) /\ home[c[j]] = l /\ pos[c[j]] # 0 /\ pos[c[j]] # pos[End(l)]
          <5>1. j # 0 /\ j # n
            BY <3>1
          <5>. QED
            BY <5>1, <3>3 DEF n
        <4>. QED
          BY <4>1, <3>5, <2>1, <2>2, PlaceInList
      <3>7. ASSUME NEW x \in Owned(mem), home[x] = l PROVE \E j \in 1 .. n - 1 : x = c[j]
        <4>1. x \in All(mem) /\ x \notin Begins /\ x \notin Ends
          BY <3>5 DEF All
        <4>2. pos[x] # 0 /\ pos[x] # n /\ pos[x] \in 0 .. n
          BY <4>1, <3>7, <2>1, <2>2, PlaceInList DEF n
        <4>3. pos[x] \in 1 .. n - 1
          BY <4>2, <3>1
        <4>. QED
          BY <4>1, <4>3, <3>3, <3>7
      <3>8. Addresses(c) = {x \in Owned(mem) : home[x] = l}
        BY <3>1, <3>6, <3>7 DEF Addresses
      <3>. QED
        BY <3>2, <3>4, <3>8 DEF c
    <2>. QED
      BY <2>3, <2>4 DEF Conservation
  <1>. QED
    BY <1>1, OrderInvariance, PTL

(* What has been built since the allocator was reset is a range of the free list that ends
   in front of s_free_ptr: r05_splice_from_freelist moves whole results, nothing else. *)
THEOREM BuiltStaysFree ==
  Spec => []BuiltIsFree
  <1>1. ASSUME OInv PROVE BuiltIsFree
    <2>. SUFFICES ASSUME mem.free # mem.next[FreeBegin]
                  PROVE  /\ IsRange(Built, mem.next[FreeBegin], mem.prev[mem.free])
                         /\ home[mem.prev[mem.free]] = "free"
      BY DEF BuiltIsFree
    <2> DEFINE b == mem.next[FreeBegin]
               e == mem.prev[mem.free]
    <2>1. PICK pos : IsOrder(mem, home, pos)
      BY <1>1 DEF OInv, Ordered, IsOrdered
    <2>2. Sound(mem, home)
      BY <1>1, SoundIsIInv DEF OInv
    <2>3. /\ FreeBegin \in All(mem) /\ FreeBegin \notin Ends /\ home[FreeBegin] = "free"
          /\ pos[FreeBegin] = 0
          /\ mem.free \in All(mem) /\ mem.free \notin Begins /\ home[mem.free] = "free"
      <3>1. /\ "free" \in List /\ Begin("free") = FreeBegin /\ FreeEnd \in Ends
            /\ Begins \cap Ends = {}
        BY SentinelLists, AddressFacts DEF List, Ends
      <3>2. /\ FreeBegin \in All(mem) /\ FreeBegin \in Begins /\ home[FreeBegin] = "free"
            /\ pos[FreeBegin] = 0
        BY <2>1, <2>2, <3>1, EndOrder
      <3>3. mem.free \in Owned(mem) \cup {FreeEnd} /\ home[mem.free] = "free"
        BY <2>2 DEF Sound
      <3>4. mem.free \in All(mem) /\ mem.free \notin Begins
        BY <2>2, <3>1, <3>3, AddressFacts DEF Sound, Memory, Owned, Node, All, Sentinel
      <3>. QED
        BY <3>1, <3>2, <3>3, <3>4
    <2>4. /\ b \in All(mem) /\ home[b] = "free" /\ pos[b] = 1 /\ mem.prev[b] = FreeBegin
          /\ e \in All(mem) \ Ends /\ home[e] = "free" /\ mem.next[e] = mem.free
          /\ pos[mem.free] = pos[e] + 1 /\ pos[e] \in Nat /\ pos[mem.free] \in Nat
      BY <2>1, <2>2, <2>3, AddressOrder
    <2>5. pos[e] >= 1
      <3>1. pos[e] # 0
        BY <2>1, <2>3, <2>4 DEF IsOrder
      <3>. QED
        BY <3>1, <2>4
    <2> DEFINE S == {x \in All(mem) : home[x] = "free" /\ pos[x] \in 1 .. pos[e]}
    <2>6. S = Built
      <3>1. Path(mem, b, e) = [j \in 1 .. pos[e] - 1 + 1 |-> At(mem, home, pos, "free", 1 + j - 1)]
        <4>1. home[b] = home[e] /\ pos[b] <= pos[e] /\ b \in All(mem) /\ e \in All(mem)
          BY <2>4, <2>5
        <4>. HIDE DEF b, e, S
        <4>2. Path(mem, b, e) = [j \in 1 .. pos[e] - pos[b] + 1 |->
                                   At(mem, home, pos, home[b], pos[b] + j - 1)]
          BY <4>1, <2>1, <2>2, PathBetween
        <4>. QED
          BY <4>2, <2>4
      <3>2. Path(mem, b, e) = [j \in 1 .. pos[e] |-> At(mem, home, pos, "free", j)]
        <4>1. pos[e] - 1 + 1 = pos[e] /\ \A j \in 1 .. pos[e] : 1 + j - 1 = j
          BY <2>4
        <4>. QED
          BY <3>1, <4>1
      <3>3. "free" \in List /\ pos[End("free")] \in Nat /\ pos[e] <= pos[End("free")]
        BY <2>1, <2>2, <2>4, EndOrder, AddressOrder DEF List, IsOrder
      <3>4. ASSUME NEW j \in 1 .. pos[e]
            PROVE  /\ At(mem, home, pos, "free", j) \in S
                   /\ \A y \in All(mem) : home[y] = "free" /\ pos[y] = j => y = At(mem, home, pos, "free", j)
        <4>1. j \in 0 .. pos[End("free")]
          BY <2>4, <3>3
        <4>. QED
          BY <4>1, <3>3, <2>1, <2>2, AtPosition
      <3>5. Built = {At(mem, home, pos, "free", j) : j \in 1 .. pos[e]}
        <4> DEFINE path == [j \in 1 .. pos[e] |-> At(mem, home, pos, "free", j)]
        <4>1. Built = Addresses(path)
          BY <3>2 DEF Built, RangeOf
        <4>2. Len(path) = pos[e]
          BY <2>4
        <4>3. Addresses(path) = {path[j] : j \in 1 .. pos[e]}
          BY <4>2 DEF Addresses
        <4>. QED
          BY <4>1, <4>3
      <3>. QED
        BY <3>4, <3>5
    <2>7. S \subseteq Owned(mem)
      <3>1. ASSUME NEW x \in S PROVE x \notin Begins /\ x \notin Ends
        <4>1. pos[x] # 0
          BY <2>4
        <4>2. pos[x] # pos[End(home[x])]
          <5>1. pos[x] < pos[mem.free] /\ pos[mem.free] <= pos[End("free")] /\ pos[End("free")] \in Nat
            BY <2>1, <2>2, <2>3, <2>4, PlaceInList DEF IsOrder
          <5>. QED
            BY <5>1, <2>4
        <4>. QED
          BY <4>1, <4>2, <2>1, <2>2, PlaceInList
      <3>. QED
        BY <3>1 DEF All, Sentinel
    <2>8. /\ b \in S /\ e \in S /\ mem.next[e] \notin S /\ mem.prev[b] \notin S
          /\ \A x \in S : home[x] = home[b]
      BY <2>3, <2>4, <2>5
    <2>9. \A x \in S \ {e} : mem.next[x] \in S
      <3>. TAKE x \in S \ {e}
      <3>1. x \in All(mem) \ Ends /\ pos[x] \in 1 .. pos[e]
        BY <2>2, <2>7, AddressFacts DEF Sound, Memory, Owned, Node, All, Sentinel
      <3>2. pos[x] # pos[e]
        BY <2>1, <2>4 DEF IsOrder
      <3>3. mem.next[x] \in All(mem) /\ home[mem.next[x]] = "free" /\ pos[mem.next[x]] = pos[x] + 1
        BY <3>1, <2>1, <2>2, AddressOrder
      <3>. QED
        BY <3>1, <3>2, <3>3, <2>4
    <2>10. \A x \in S \ {b} : mem.prev[x] \in S
      <3>. TAKE x \in S \ {b}
      <3>1. x \in All(mem) \ Begins /\ pos[x] \in 1 .. pos[e]
        BY <2>2, <2>7, AddressFacts DEF Sound, Memory, Owned, Node, All, Sentinel
      <3>2. pos[x] # pos[b]
        BY <2>1, <2>4 DEF IsOrder
      <3>3. /\ mem.prev[x] \in All(mem) /\ home[mem.prev[x]] = "free" /\ pos[x] = pos[mem.prev[x]] + 1
            /\ pos[mem.prev[x]] \in Nat
        BY <3>1, <2>1, <2>2, AddressOrder
      <3>. QED
        BY <3>1, <3>2, <3>3, <2>4
    <2>. HIDE DEF S
    <2>. QED
      BY <2>4, <2>6, <2>7, <2>8, <2>9, <2>10 DEF IsRange
  <1>. QED
    BY <1>1, OrderInvariance, PTL

-----------------------------------------------------------------------------
(* The pointer operations implement ListStore.                              *)

ListsOf(m, h, pos) == [l \in List |-> [j \in 1 .. pos[End(l)] - 1 |-> At(m, h, pos, l, j)]]

LEMMA ListAt ==
  ASSUME NEW m, NEW h, Sound(m, h), NEW pos, IsOrder(m, h, pos), NEW l \in List
  PROVE  LET s == ListsOf(m, h, pos)[l]
         IN  /\ s \in Seq(Addr) /\ Len(s) = pos[End(l)] - 1 /\ pos[End(l)] - 1 \in Nat
             /\ \A j \in 1 .. pos[End(l)] - 1 : s[j] \in All(m) /\ h[s[j]] = l /\ pos[s[j]] = j
  <1> DEFINE s == ListsOf(m, h, pos)[l]
  <1>1. /\ pos[End(l)] \in Nat /\ pos[End(l)] - 1 \in Nat /\ All(m) \subseteq Addr
    BY EndOrder, AddressOrder
  <1>2. s = [j \in 1 .. pos[End(l)] - 1 |-> At(m, h, pos, l, j)]
    BY DEF ListsOf
  <1>. HIDE DEF s
  <1>3. \A j \in 1 .. pos[End(l)] - 1 : s[j] \in All(m) /\ h[s[j]] = l /\ pos[s[j]] = j
    <2>. TAKE j \in 1 .. pos[End(l)] - 1
    <2>1. j \in 0 .. pos[End(l)] /\ s[j] = At(m, h, pos, l, j)
      BY <1>1, <1>2
    <2>. QED
      BY <2>1, AtPosition
  <1>4. s \in Seq(Addr) /\ Len(s) = pos[End(l)] - 1
    <2>1. s \in [1 .. pos[End(l)] - 1 -> Addr]
      BY <1>1, <1>2, <1>3
    <2>. QED
      BY <2>1, <1>1, FunctionIsSeq
  <1>. QED
    BY <1>1, <1>3, <1>4 DEF s

LEMMA ListsAre ==
  ASSUME NEW m, NEW h, Sound(m, h), NEW pos, IsOrder(m, h, pos),
         NEW L \in [List -> Seq(Addr)],
         \A l \in List : /\ Len(L[l]) = pos[End(l)] - 1
                         /\ \A j \in 1 .. pos[End(l)] - 1 :
                              L[l][j] \in All(m) /\ h[L[l][j]] = l /\ pos[L[l][j]] = j
  PROVE  ListsOf(m, h, pos) = L
  <1>1. ASSUME NEW l \in List PROVE ListsOf(m, h, pos)[l] = L[l]
    <2> DEFINE s == ListsOf(m, h, pos)[l]
               t == L[l]
    <2>1. /\ s \in Seq(Addr) /\ t \in Seq(Addr) /\ Len(s) = pos[End(l)] - 1 /\ Len(t) = Len(s)
          /\ \A j \in 1 .. pos[End(l)] - 1 : s[j] \in All(m) /\ h[s[j]] = l /\ pos[s[j]] = j
          /\ \A j \in 1 .. pos[End(l)] - 1 : t[j] \in All(m) /\ h[t[j]] = l /\ pos[t[j]] = j
      <3>1. /\ s \in Seq(Addr) /\ Len(s) = pos[End(l)] - 1
            /\ \A j \in 1 .. pos[End(l)] - 1 : s[j] \in All(m) /\ h[s[j]] = l /\ pos[s[j]] = j
        BY ListAt
      <3>2. /\ t \in Seq(Addr) /\ Len(t) = pos[End(l)] - 1
            /\ \A j \in 1 .. pos[End(l)] - 1 : t[j] \in All(m) /\ h[t[j]] = l /\ pos[t[j]] = j
        OBVIOUS
      <3>. HIDE DEF s, t
      <3>. QED
        BY <3>1, <3>2
    <2>. HIDE DEF s, t
    <2>2. \A x, y \in All(m) : h[x] = h[y] /\ pos[x] = pos[y] => x = y
      BY DEF IsOrder
    <2>3. ASSUME NEW j \in 1 .. Len(s) PROVE s[j] = t[j]
      <3>1. /\ s[j] \in All(m) /\ h[s[j]] = l /\ pos[s[j]] = j
            /\ t[j] \in All(m) /\ h[t[j]] = l /\ pos[t[j]] = j
        BY <2>1
      <3>. QED
        BY <3>1, <2>2
    <2>4. s = t
      BY <2>1, <2>3, SeqEqual
    <2>. QED
      BY <2>4 DEF s, t
  <1>2. ListsOf(m, h, pos) = [l \in List |-> ListsOf(m, h, pos)[l]]
    BY DEF ListsOf
  <1>. QED
    BY <1>1, <1>2

LEMMA AbstractionByPosition ==
  ASSUME NEW m, NEW h, Sound(m, h), NEW pos, IsOrder(m, h, pos)
  PROVE  /\ Abstraction(m).list = ListsOf(m, h, pos)
         /\ Abstraction(m).built = pos[m.free] - 1
         /\ m.free \in All(m) /\ pos[m.free] \in 1 .. pos[FreeEnd] /\ pos[FreeEnd] \in Nat
         /\ h[m.free] = "free" /\ (pos[m.free] = pos[FreeEnd] <=> m.free = FreeEnd)
  <1>1. /\ "free" \in List /\ Begin("free") = FreeBegin /\ End("free") = FreeEnd
        /\ FreeEnd \in Ends /\ Begins \cap Ends = {}
    BY SentinelLists, AddressFacts DEF List, Ends
  <1>2. /\ m.free \in Owned(m) \cup {FreeEnd} /\ h[m.free] = "free" /\ m \in Memory
    BY DEF Sound
  <1>3. m.free \in All(m) /\ m.free \notin Begins
    BY <1>1, <1>2, AddressFacts DEF Memory, Owned, Node, All, Sentinel
  <1>4. /\ FreeBegin \in All(m) /\ h[FreeBegin] = "free" /\ pos[FreeBegin] = 0
        /\ FreeEnd \in All(m) /\ h[FreeEnd] = "free"
    BY <1>1, EndOrder
  <1>5. pos[m.free] \in 1 .. pos[FreeEnd] /\ pos[FreeEnd] \in Nat
    <2>1. pos[m.free] # 0 /\ pos[m.free] \in 0 .. pos[End(h[m.free])] /\ pos[End(h[m.free])] \in Nat
      BY <1>3, PlaceInList
    <2>. QED
      BY <2>1, <1>1, <1>2
  <1>6. Len(Path(m, FreeBegin, m.free)) = pos[m.free] + 1
    <2> DEFINE b == FreeBegin
               e == m.free
    <2>1. b \in All(m) /\ e \in All(m) /\ h[b] = h[e] /\ pos[b] <= pos[e]
      BY <1>2, <1>3, <1>4, <1>5
    <2>2. Path(m, b, e) =
            [j \in 1 .. pos[e] - pos[b] + 1 |-> At(m, h, pos, h[b], pos[b] + j - 1)]
      <3>. HIDE DEF b, e
      <3>. QED
        BY <2>1, PathBetween
    <2>. QED
      BY <2>2, <1>4, <1>5
  <1>7. Abstraction(m).built = pos[m.free] - 1
    BY <1>5, <1>6 DEF Abstraction
  <1>8. Abstraction(m).list = ListsOf(m, h, pos)
    <2>1. Abstraction(m).list = [l \in List |-> Contents(m, l)]
      BY DEF Abstraction
    <2>2. \A l \in List : Contents(m, l) = ListsOf(m, h, pos)[l]
      <3>. TAKE l \in List
      <3>1. Contents(m, l) = [j \in 1 .. pos[End(l)] - 1 |-> At(m, h, pos, l, j)]
        BY ContentsByPosition
      <3>. QED
        BY <3>1 DEF ListsOf
    <2>3. ListsOf(m, h, pos) = [l \in List |-> ListsOf(m, h, pos)[l]]
      BY DEF ListsOf
    <2>. QED
      BY <2>1, <2>2, <2>3
  <1>9. pos[m.free] = pos[FreeEnd] <=> m.free = FreeEnd
    BY <1>2, <1>3, <1>4 DEF IsOrder
  <1>. QED
    BY <1>2, <1>3, <1>5, <1>7, <1>8, <1>9

(* Cutting and pasting sequences, element by element. *)
LEMMA CutElements ==
  ASSUME NEW A, NEW s \in Seq(A), NEW i \in 1 .. Len(s), NEW j \in i .. Len(s)
  PROVE  LET c == Lists!Cut(s, i, j)
             n == j - i + 1
         IN  /\ c \in Seq(A) /\ Len(c) = Len(s) - n
             /\ \A p \in 1 .. Len(s) - n : c[p] = IF p < i THEN s[p] ELSE s[p + n]
  <1> DEFINE n == j - i + 1
             u == SubSeq(s, 1, i - 1)
             v == SubSeq(s, j + 1, Len(s))
             c == u \o v
  <1>1. /\ Len(s) \in Nat /\ i \in Nat /\ j \in Nat /\ 1 <= i /\ i <= j /\ j <= Len(s)
        /\ \A p \in 1 .. Len(s) : s[p] \in A
    OBVIOUS
  <1>2. u \in Seq(A) /\ Len(u) = i - 1 /\ \A p \in 1 .. i - 1 : u[p] = s[p]
    <2>1. /\ u \in Seq(A) /\ Len(u) = IF 1 <= i - 1 THEN i - 1 - 1 + 1 ELSE 0
          /\ \A p \in 1 .. i - 1 - 1 + 1 : u[p] = s[1 + p - 1]
      BY <1>1, SubSeqProperties
    <2>. QED
      BY <2>1, <1>1
  <1>3. v \in Seq(A) /\ Len(v) = Len(s) - j /\ \A p \in 1 .. Len(s) - j : v[p] = s[j + p]
    <2>1. /\ v \in Seq(A) /\ Len(v) = IF j + 1 <= Len(s) THEN Len(s) - (j + 1) + 1 ELSE 0
          /\ \A p \in 1 .. Len(s) - (j + 1) + 1 : v[p] = s[(j + 1) + p - 1]
      BY <1>1, SubSeqProperties
    <2>. QED
      BY <2>1, <1>1
  <1>. HIDE DEF u, v
  <1>4. /\ c \in Seq(A) /\ Len(c) = Len(u) + Len(v)
        /\ \A p \in 1 .. Len(u) + Len(v) : c[p] = IF p <= Len(u) THEN u[p] ELSE v[p - Len(u)]
    BY <1>2, <1>3, ConcatProperties
  <1>. HIDE DEF c
  <1>5. Len(c) = Len(s) - n
    BY <1>1, <1>2, <1>3, <1>4
  <1>6. ASSUME NEW p \in 1 .. Len(s) - n PROVE c[p] = IF p < i THEN s[p] ELSE s[p + n]
    <2>1. p \in 1 .. Len(u) + Len(v)
      BY <1>1, <1>2, <1>3
    <2>2. CASE p < i
      BY <2>1, <2>2, <1>1, <1>2, <1>4
    <2>3. CASE ~ p < i
      <3>1. p - (i - 1) \in 1 .. Len(s) - j /\ j + (p - (i - 1)) = p + n /\ ~ p <= i - 1
        BY <2>3, <1>1
      <3>. QED
        BY <3>1, <2>1, <2>3, <1>2, <1>3, <1>4
    <2>. QED
      BY <2>2, <2>3
  <1>7. c = Lists!Cut(s, i, j)
    BY DEF Lists!Cut, c, u, v
  <1>. QED
    BY <1>4, <1>5, <1>6, <1>7

LEMMA PasteElements ==
  ASSUME NEW A, NEW s \in Seq(A), NEW r \in Seq(A), NEW k \in 1 .. Len(s) + 1
  PROVE  LET c == Lists!Paste(s, k, r)
             n == Len(r)
         IN  /\ c \in Seq(A) /\ Len(c) = Len(s) + n
             /\ \A p \in 1 .. Len(s) + n : c[p] = IF p < k THEN s[p]
                                                ELSE IF p < k + n THEN r[p - k + 1] ELSE s[p - n]
  <1> DEFINE n == Len(r)
             u == SubSeq(s, 1, k - 1)
             v == SubSeq(s, k, Len(s))
             w == u \o r
             c == w \o v
  <1>1. /\ Len(s) \in Nat /\ k \in Nat /\ 1 <= k /\ k <= Len(s) + 1 /\ n \in Nat
        /\ \A p \in 1 .. Len(s) : s[p] \in A
    OBVIOUS
  <1>2. u \in Seq(A) /\ Len(u) = k - 1 /\ \A p \in 1 .. k - 1 : u[p] = s[p]
    <2>1. /\ u \in Seq(A) /\ Len(u) = IF 1 <= k - 1 THEN k - 1 - 1 + 1 ELSE 0
          /\ \A p \in 1 .. k - 1 - 1 + 1 : u[p] = s[1 + p - 1]
      BY <1>1, SubSeqProperties
    <2>. QED
      BY <2>1, <1>1
  <1>3. v \in Seq(A) /\ Len(v) = Len(s) - k + 1 /\ \A p \in 1 .. Len(s) - k + 1 : v[p] = s[k + p - 1]
    <2>1. /\ v \in Seq(A) /\ Len(v) = IF k <= Len(s) THEN Len(s) - k + 1 ELSE 0
          /\ \A p \in 1 .. Len(s) - k + 1 : v[p] = s[k + p - 1]
      BY <1>1, SubSeqProperties
    <2>. QED
      BY <2>1, <1>1
  <1>. HIDE DEF u, v
  <1>4. /\ w \in Seq(A) /\ Len(w) = Len(u) + n
        /\ \A p \in 1 .. Len(u) + n : w[p] = IF p <= Len(u) THEN u[p] ELSE r[p - Len(u)]
    BY <1>2, ConcatProperties
  <1>. HIDE DEF w
  <1>5. /\ c \in Seq(A) /\ Len(c) = Len(w) + Len(v)
        /\ \A p \in 1 .. Len(w) + Len(v) : c[p] = IF p <= Len(w) THEN w[p] ELSE v[p - Len(w)]
    <2>1. w \in Seq(A) /\ v \in Seq(A)
      BY <1>3, <1>4
    <2>. QED
      BY <2>1, ConcatProperties
  <1>. HIDE DEF c, n
  <1>6. /\ Len(u) = k - 1 /\ Len(w) = k - 1 + n /\ Len(v) = Len(s) - k + 1
        /\ Len(w) + Len(v) = Len(s) + n /\ Len(c) = Len(s) + n
    <2>1. /\ Len(u) = k - 1 /\ Len(v) = Len(s) - k + 1 /\ Len(w) = Len(u) + n
          /\ Len(c) = Len(w) + Len(v)
      BY <1>2, <1>3, <1>4, <1>5
    <2>2. Len(s) \in Nat /\ k \in Nat /\ n \in Nat
      BY <1>1
    <2>. QED
      BY <2>1, <2>2
  <1>7. ASSUME NEW p \in 1 .. Len(s) + n
        PROVE  c[p] = IF p < k THEN s[p] ELSE IF p < k + n THEN r[p - k + 1] ELSE s[p - n]
    <2>1. p \in 1 .. Len(w) + Len(v) /\ Len(w) = k - 1 + n
      BY <1>6
    <2>2. CASE p < k
      <3>1. p <= Len(w) /\ p \in 1 .. Len(u) + n /\ p <= Len(u) /\ p \in 1 .. k - 1
        BY <2>1, <2>2, <1>1, <1>2
      <3>. QED
        BY <3>1, <2>1, <2>2, <1>2, <1>4, <1>5
    <2>3. CASE ~ p < k /\ p < k + n
      <3>1. p <= Len(w) /\ p \in 1 .. Len(u) + n /\ ~ p <= Len(u) /\ p - Len(u) = p - k + 1
        BY <2>1, <2>3, <1>1, <1>2
      <3>. QED
        BY <3>1, <2>1, <2>3, <1>4, <1>5
    <2>4. CASE ~ p < k /\ ~ p < k + n
      <3>1. ~ p <= Len(w) /\ p - Len(w) \in 1 .. Len(s) - k + 1 /\ k + (p - Len(w)) - 1 = p - n
        BY <2>1, <2>4, <1>1
      <3>. QED
        BY <3>1, <2>1, <2>4, <1>3, <1>5
    <2>. QED
      BY <2>2, <2>3, <2>4
  <1>8. c = Lists!Paste(s, k, r)
    BY DEF Lists!Paste, c, w, u, v
  <1>. QED
    BY <1>5, <1>6, <1>7, <1>8 DEF n

-----------------------------------------------------------------------------
(* A splice within the contract moves one interval of one sequence.         *)

Rest(L, from, i, j) == [L EXCEPT ![from] = Lists!Cut(@, i, j)]

Moved(L, from, to, i, j, k) ==
  [Rest(L, from, i, j) EXCEPT ![to] = Lists!Paste(@, k, SubSeq(L[from], i, j))]

LEMMA MoveLists ==
  ASSUME IInv, mem.exit = 0, NEW pos, IsOrder(mem, home, pos),
         NEW S, NEW res, NEW b, NEW e,
         Movable(S, res, b, e),
         mem' = ListSplice(mem, res, b, e),
         Rehome(S, res),
         Sound(mem', home')
  PROVE  LET L  == ListsOf(mem, home, pos)
             at == CutOrder(pos, b, e)[res]
         IN  /\ pos[b] \in 1 .. pos[e] /\ pos[e] \in 1 .. Len(L[home[b]])
             /\ home[b] \in List /\ home[res] \in List
             /\ at \in 1 .. Len(Rest(L, home[b], pos[b], pos[e])[home[res]]) + 1
             /\ at \in 1 .. Len(L[home[res]]) + 1
             /\ Len(SubSeq(L[home[b]], pos[b], pos[e])) = pos[e] - pos[b] + 1
             /\ ListsOf(mem', home', SplicedOrder(pos, S, res, b, e)) =
                  Moved(L, home[b], home[res], pos[b], pos[e], at)
  <1>. Sound(mem, home)
    BY SoundIsIInv
  <1> DEFINE from == home[b]
             to == home[res]
             n == pos[e] - pos[b] + 1
             cut == CutOrder(pos, b, e)
             at == cut[res]
             q == SplicedOrder(pos, S, res, b, e)
             L == ListsOf(mem, home, pos)
             R == Rest(L, from, pos[b], pos[e])
             range == SubSeq(L[from], pos[b], pos[e])
             N == Moved(L, from, to, pos[b], pos[e], at)
  <1>1. /\ S = {x \in All(mem) : home[x] = from /\ pos[x] \in pos[b] .. pos[e]}
        /\ pos[b] <= pos[e]
    BY RangeIsInterval DEF Movable
  <1>2. /\ b \in S /\ e \in S /\ home[e] = from /\ S \subseteq Owned(mem)
        /\ res \in Owned(mem) \cup Ends /\ res \notin S
    BY <1>1 DEF Movable, IsRange
  <1>3. /\ Owned(mem) \cap Sentinel = {} /\ Begins \subseteq Sentinel /\ Ends \subseteq Sentinel
        /\ Begins \cap Ends = {}
        /\ \A l \in List : End(l) \in Ends /\ home[End(l)] = l
    BY OwnedAddr, AddressFacts, SentinelLists, EndOrder DEF IInv, Sentinel
  <1>4. /\ b \in All(mem) \ (Begins \cup Ends) /\ e \in All(mem) \ (Begins \cup Ends)
        /\ res \in All(mem) \ Begins
        /\ \A l \in List : End(l) \in All(mem) /\ End(l) \notin S
    BY <1>2, <1>3 DEF All
  <1>5. /\ from \in List /\ to \in List /\ pos[b] \in Nat /\ pos[e] \in Nat
        /\ pos[b] >= 1 /\ pos[e] < pos[End(from)] /\ n \in Nat /\ n >= 1
        /\ pos[res] \in Nat /\ pos[res] >= 1 /\ pos[res] <= pos[End(to)]
        /\ \A l \in List : pos[End(l)] \in Nat /\ pos[End(l)] >= 1
        /\ \A x \in All(mem) : pos[x] \in Nat /\ x \in Addr
    <2>1. /\ \A x \in All(mem) : pos[x] \in Nat /\ home[x] \in List /\ x \in Addr
          /\ \A x \in All(mem) : pos[x] \in 0 .. pos[End(home[x])]
          /\ \A x \in All(mem) \ Begins : pos[x] # 0
          /\ \A x \in All(mem) \ Ends : pos[x] # pos[End(home[x])]
      BY AddressOrder, PlaceInList
    <2>2. \A l \in List : pos[End(l)] \in Nat /\ pos[End(l)] # 0
      BY <2>1, <1>3, <1>4
    <2>. QED
      BY <2>1, <2>2, <1>1, <1>2, <1>4
  <1>6. /\ \A x \in All(mem) : cut[x] = IF home[x] = from /\ pos[x] > pos[e] THEN pos[x] - n
                                                                               ELSE pos[x]
        /\ \A x \in All(mem) :
             q[x] = IF x \in S THEN pos[x] - pos[b] + at
                    ELSE IF home[x] = to /\ cut[x] >= at THEN cut[x] + n ELSE cut[x]
    BY <1>5 DEF CutOrder, SplicedOrder
  <1>7. /\ Owned(mem') = Owned(mem) /\ All(mem') = All(mem)
        /\ \A x \in All(mem) : home'[x] = IF x \in S THEN to ELSE home[x]
    <2>1. mem'.used = mem.used
      BY SpliceLinks DEF Spliced
    <2>. QED
      BY <2>1, <1>5 DEF Rehome, Owned, All
  <1>8. IsOrder(mem', home', q)
    BY SpliceOrder
  <1>9. \A l \in List : /\ L[l] \in Seq(Addr) /\ Len(L[l]) = pos[End(l)] - 1
                        /\ \A j \in 1 .. pos[End(l)] - 1 :
                             L[l][j] \in All(mem) /\ home[L[l][j]] = l /\ pos[L[l][j]] = j
    BY ListAt
  <1>10. L = [l \in List |-> L[l]]
    BY DEF ListsOf
  <1>11. R = [l \in List |-> IF l = from THEN Lists!Cut(L[from], pos[b], pos[e]) ELSE L[l]]
    BY <1>5, <1>10 DEF Rest
  <1>12. N = [l \in List |-> IF l = to THEN Lists!Paste(R[to], at, range) ELSE R[l]]
    BY <1>5, <1>11 DEF Moved
  <1>13. at \in Nat /\ at >= 1 /\ at <= cut[End(to)]
    BY <1>1, <1>2, <1>3, <1>4, <1>5, <1>6
  <1>. HIDE DEF cut, q, L, R, range, N
  <1>14. /\ range \in Seq(Addr) /\ Len(range) = n
         /\ \A p \in 1 .. n : range[p] \in S /\ pos[range[p]] = pos[b] + p - 1
    <2> DEFINE s == L[from]
    <2>1. /\ s \in Seq(Addr) /\ Len(s) = pos[End(from)] - 1
          /\ \A j \in 1 .. pos[End(from)] - 1 : s[j] \in All(mem) /\ home[s[j]] = from /\ pos[s[j]] = j
          /\ pos[b] \in 1 .. Len(s) + 1 /\ pos[e] \in 0 .. Len(s)
      <3>1. /\ s \in Seq(Addr) /\ Len(s) = pos[End(from)] - 1
            /\ \A j \in 1 .. pos[End(from)] - 1 : s[j] \in All(mem) /\ home[s[j]] = from /\ pos[s[j]] = j
        BY <1>5, <1>9
      <3>. HIDE DEF s
      <3>. QED
        BY <3>1, <1>1, <1>5
    <2>. HIDE DEF s
    <2>2. /\ SubSeq(s, pos[b], pos[e]) \in Seq(Addr)
          /\ Len(SubSeq(s, pos[b], pos[e])) = IF pos[b] <= pos[e] THEN pos[e] - pos[b] + 1 ELSE 0
          /\ \A p \in 1 .. pos[e] - pos[b] + 1 : SubSeq(s, pos[b], pos[e])[p] = s[pos[b] + p - 1]
      BY <2>1, SubSeqProperties
    <2>3. range = SubSeq(s, pos[b], pos[e])
      BY DEF range, s
    <2>4. \A p \in 1 .. n : range[p] \in S /\ pos[range[p]] = pos[b] + p - 1
      <3>. TAKE p \in 1 .. n
      <3>1. range[p] = s[pos[b] + p - 1]
        BY <2>2, <2>3
      <3>2. /\ pos[b] + p - 1 \in 1 .. pos[End(from)] - 1
            /\ pos[b] + p - 1 \in pos[b] .. pos[e]
        BY <1>1, <1>5
      <3>. QED
        BY <3>1, <3>2, <2>1, <1>1
    <2>. QED
      BY <2>2, <2>3, <2>4, <1>1
  (* The lists without the range. *)
  <1>15. ASSUME NEW l \in List
         PROVE  /\ R[l] \in Seq(Addr) /\ Len(R[l]) = cut[End(l)] - 1 /\ cut[End(l)] \in Nat
                /\ cut[End(l)] >= 1
                /\ \A p \in 1 .. cut[End(l)] - 1 :
                     R[l][p] \in All(mem) \ S /\ home[R[l][p]] = l /\ cut[R[l][p]] = p
    <2> DEFINE s == L[l]
               c == Lists!Cut(s, pos[b], pos[e])
    <2>1. /\ s \in Seq(Addr) /\ Len(s) = pos[End(l)] - 1
          /\ \A j \in 1 .. pos[End(l)] - 1 : s[j] \in All(mem) /\ home[s[j]] = l /\ pos[s[j]] = j
      BY <1>9
    <2>2. /\ End(l) \in All(mem) \ S /\ home[End(l)] = l /\ pos[End(l)] \in Nat
          /\ pos[End(l)] >= 1
      BY <1>3, <1>4, <1>5
    <2>. HIDE DEF s
    <2>3. CASE l # from
      <3>1. R[l] = s /\ cut[End(l)] = pos[End(l)]
        BY <2>2, <2>3, <1>6, <1>11 DEF s
      <3>2. \A p \in 1 .. pos[End(l)] - 1 : s[p] \in All(mem) \ S /\ cut[s[p]] = p
        BY <2>1, <2>3, <1>1, <1>6
      <3>. QED
        BY <3>1, <3>2, <2>1, <2>2
    <2>4. CASE l = from
      <3>1. R[l] = c
        BY <2>4, <1>11 DEF s
      <3>2. cut[End(l)] = pos[End(l)] - n /\ pos[e] < pos[End(l)] /\ pos[End(l)] - n >= 1
        BY <2>2, <2>4, <1>1, <1>5, <1>6
      <3>3. /\ c \in Seq(Addr) /\ Len(c) = Len(s) - n
            /\ \A p \in 1 .. Len(s) - n : c[p] = IF p < pos[b] THEN s[p] ELSE s[p + n]
        <4>1. pos[b] \in 1 .. Len(s) /\ pos[e] \in pos[b] .. Len(s)
          BY <2>1, <2>2, <3>2, <1>1, <1>5
        <4>. QED
          BY <4>1, <2>1, CutElements
      <3>. HIDE DEF c
      <3>4. ASSUME NEW p \in 1 .. cut[End(l)] - 1
            PROVE  c[p] \in All(mem) \ S /\ home[c[p]] = l /\ cut[c[p]] = p
        <4>1. p \in Nat /\ p \in 1 .. Len(s) - n /\ p + n \in 1 .. pos[End(l)] - 1
              /\ p \in 1 .. pos[End(l)] - 1
          <5>1. /\ n \in Nat /\ n >= 1 /\ Len(s) = pos[End(l)] - 1 /\ pos[End(l)] \in Nat
                /\ cut[End(l)] = pos[End(l)] - n
            BY <3>2, <2>1, <2>2, <1>5
          <5>. HIDE DEF n
          <5>. QED
            BY <5>1
        <4>2. CASE p < pos[b]
          <5>1. c[p] = s[p]
            BY <4>1, <4>2, <3>3
          <5>2. s[p] \in All(mem) /\ home[s[p]] = l /\ pos[s[p]] = p
            BY <4>1, <2>1
          <5>3. p \notin pos[b] .. pos[e] /\ ~ p > pos[e]
            BY <4>1, <4>2, <1>1, <1>5
          <5>. QED
            BY <5>1, <5>2, <5>3, <1>1, <1>6
        <4>3. CASE ~ p < pos[b]
          <5>1. c[p] = s[p + n]
            BY <4>1, <4>3, <3>3
          <5>2. s[p + n] \in All(mem) /\ home[s[p + n]] = l /\ pos[s[p + n]] = p + n
            BY <4>1, <2>1
          <5>3. p + n > pos[e] /\ p + n - n = p /\ p + n \notin pos[b] .. pos[e]
            <6>1. pos[b] \in Nat /\ pos[e] \in Nat /\ p \in Nat
              BY <4>1, <1>5
            <6>. QED
              BY <6>1, <4>3
          <5> DEFINE x == s[p + n]
          <5>4. /\ c[p] = x /\ x \in All(mem) /\ home[x] = l /\ pos[x] > pos[e]
                /\ pos[x] - n = p /\ pos[x] \notin pos[b] .. pos[e]
            <6>1. n \in Nat
              BY <1>5
            <6>. HIDE DEF n
            <6>. QED
              BY <6>1, <4>1, <5>1, <5>2, <5>3
          <5>. HIDE DEF x, n
          <5>. QED
            BY <5>4, <2>4, <1>1, <1>6
        <4>. QED
          BY <4>2, <4>3
      <3>. QED
        BY <3>1, <3>2, <3>3, <3>4, <2>1, <2>2, <1>5
    <2>. QED
      BY <2>3, <2>4
  <1>16. \A l \in List : /\ End(l) \in All(mem) \ S /\ home[End(l)] = l
                         /\ q[End(l)] = IF l = to THEN cut[End(l)] + n ELSE cut[End(l)]
    <2>1. \A l \in List : End(l) \in All(mem) \ S /\ home[End(l)] = l
      BY <1>3, <1>4
    <2>. QED
      BY <2>1, <1>6, <1>13
  <1>17. ASSUME NEW l \in List
         PROVE  /\ N[l] \in Seq(Addr) /\ Len(N[l]) = q[End(l)] - 1
                /\ \A p \in 1 .. q[End(l)] - 1 :
                     N[l][p] \in All(mem) /\ home'[N[l][p]] = l /\ q[N[l][p]] = p
    <2> DEFINE s == R[l]
               c == Lists!Paste(s, at, range)
    <2>1. /\ s \in Seq(Addr) /\ Len(s) = cut[End(l)] - 1 /\ cut[End(l)] \in Nat /\ cut[End(l)] >= 1
          /\ \A p \in 1 .. cut[End(l)] - 1 :
               s[p] \in All(mem) \ S /\ home[s[p]] = l /\ cut[s[p]] = p
      BY <1>15
    <2>. HIDE DEF s
    <2>2. CASE l # to
      <3>1. N[l] = s /\ q[End(l)] = cut[End(l)]
        BY <2>2, <1>12, <1>16 DEF s
      <3>2. \A p \in 1 .. cut[End(l)] - 1 : home'[s[p]] = l /\ q[s[p]] = p
        BY <2>1, <2>2, <1>6, <1>7
      <3>. QED
        BY <3>1, <3>2, <2>1
    <2>3. CASE l = to
      <3>1. N[l] = c /\ q[End(l)] = cut[End(l)] + n
        BY <2>3, <1>12, <1>16 DEF s
      <3>2. /\ at \in Nat /\ at >= 1 /\ at <= cut[End(l)] /\ n \in Nat /\ n >= 1
            /\ range \in Seq(Addr) /\ Len(range) = n
        BY <2>3, <1>5, <1>13, <1>14
      <3>. HIDE DEF n, at
      <3>3. /\ c \in Seq(Addr) /\ Len(c) = Len(s) + n
            /\ \A p \in 1 .. Len(s) + n : c[p] = IF p < at THEN s[p]
                                              ELSE IF p < at + n THEN range[p - at + 1] ELSE s[p - n]
        <4>1. at \in 1 .. Len(s) + 1
          BY <2>1, <3>2
        <4>2. s \in Seq(Addr) /\ range \in Seq(Addr)
          BY <2>1, <3>2
        <4>3. /\ c \in Seq(Addr) /\ Len(c) = Len(s) + Len(range)
              /\ \A p \in 1 .. Len(s) + Len(range) :
                   c[p] = IF p < at THEN s[p]
                          ELSE IF p < at + Len(range) THEN range[p - at + 1] ELSE s[p - Len(range)]
          BY <4>1, <4>2, PasteElements
        <4>. QED
          BY <4>3, <3>2
      <3>. HIDE DEF c
      <3>4. Len(c) = q[End(l)] - 1
        BY <3>1, <3>2, <3>3, <2>1
      <3>5. ASSUME NEW p \in 1 .. q[End(l)] - 1
            PROVE  c[p] \in All(mem) /\ home'[c[p]] = l /\ q[c[p]] = p
        <4>1. p \in Nat /\ p >= 1 /\ p \in 1 .. Len(s) + n /\ p <= cut[End(l)] + n - 1
          BY <3>1, <3>2, <2>1
        <4>2. CASE p < at
          <5>1. c[p] = s[p] /\ p \in 1 .. cut[End(l)] - 1
            BY <4>1, <4>2, <3>2, <3>3, <2>1
          <5>2. c[p] \in All(mem) \ S /\ home[c[p]] = l /\ cut[c[p]] = p
            BY <5>1, <2>1
          <5>3. ~ p >= at
            BY <4>1, <4>2, <3>2
          <5>. QED
            BY <5>2, <5>3, <1>6, <1>7
        <4>3. CASE ~ p < at /\ p < at + n
          <5>1. c[p] = range[p - at + 1] /\ p - at + 1 \in 1 .. n
            BY <4>1, <4>3, <3>2, <3>3
          <5>2. c[p] \in S /\ pos[c[p]] = pos[b] + (p - at + 1) - 1
            BY <5>1, <1>14
          <5>3. pos[b] \in Nat /\ at \in Nat /\ p \in Nat
            BY <4>1, <3>2, <1>5
          <5>4. c[p] \in All(mem)
            BY <5>2, <1>1
          <5>5. q[c[p]] = pos[c[p]] - pos[b] + at /\ home'[c[p]] = to
            BY <5>2, <5>4, <1>6, <1>7
          <5>. QED
            BY <5>2, <5>3, <5>4, <5>5, <2>3
        <4>4. CASE ~ p < at + n
          <5>1. c[p] = s[p - n] /\ p - n \in 1 .. cut[End(l)] - 1 /\ p - n >= at /\ (p - n) + n = p
            <6>1. ~ p < at
              BY <4>1, <4>4, <3>2
            <6>2. cut[End(l)] \in Nat
              BY <2>1
            <6>. QED
              BY <6>1, <6>2, <4>1, <4>4, <3>2, <3>3
          <5>2. c[p] \in All(mem) \ S /\ home[c[p]] = l /\ cut[c[p]] = p - n
            BY <5>1, <2>1
          <5>. QED
            BY <5>1, <5>2, <2>3, <1>6, <1>7
        <4>. QED
          BY <4>1, <4>2, <4>3, <4>4, <3>2
      <3>. QED
        BY <3>1, <3>3, <3>4, <3>5
    <2>. QED
      BY <2>2, <2>3
  <1>18. N \in [List -> Seq(Addr)]
    BY <1>12, <1>17
  <1>19. ListsOf(mem', home', q) = N
    BY <1>7, <1>8, <1>17, <1>18, ListsAre
  <1>20. /\ pos[b] \in 1 .. pos[e] /\ pos[e] \in 1 .. Len(L[from])
         /\ at \in 1 .. Len(R[to]) + 1 /\ at \in 1 .. Len(L[to]) + 1
    <2>1. /\ Len(L[from]) = pos[End(from)] - 1 /\ Len(R[to]) = cut[End(to)] - 1
          /\ Len(L[to]) = pos[End(to)] - 1
      BY <1>5, <1>9, <1>15
    <2>2. /\ cut[End(to)] \in Nat /\ pos[End(from)] \in Nat /\ pos[End(to)] \in Nat
          /\ cut[End(to)] <= pos[End(to)]
      BY <1>4, <1>5, <1>6, <1>15
    <2>3. /\ pos[b] \in Nat /\ pos[e] \in Nat /\ pos[b] >= 1 /\ pos[e] < pos[End(from)]
          /\ pos[b] <= pos[e]
      BY <1>1, <1>5
    <2>. QED
      BY <2>1, <2>2, <2>3, <1>13
  <1>. QED
    BY <1>5, <1>14, <1>19, <1>20 DEF cut, q, L, R, range, N

-----------------------------------------------------------------------------
(* A new chunk goes to the end of the free list.                            *)

LEMMA GrowLists ==
  ASSUME IInv, mem.exit = 0, NEW pos, IsOrder(mem, home, pos), mem.free = FreeEnd, CanCreate(mem)
  PROVE  LET m == CreateNodes(mem)
             L == ListsOf(mem, home, pos)
         IN  /\ ListsOf(m, Adopted(m), GrownOrder(pos)) =
                  [L EXCEPT !["free"] = @ \o ChunkOf(mem.used)]
             /\ GrownOrder(pos)[m.free] = pos[mem.free]
  <1>. Sound(mem, home)
    BY SoundIsIInv
  <1> DEFINE m == CreateNodes(mem)
             h == Adopted(m)
             q == GrownOrder(pos)
             L == ListsOf(mem, home, pos)
             new == mem.used + 1 .. mem.used + ChunkSize
             k == ChunkOf(mem.used)
             N == [L EXCEPT !["free"] = @ \o k]
             s == L["free"]
             c == s \o k
             n == pos[FreeEnd]
  <1>1. /\ Sound(m, h)
        /\ new \cap All(mem) = {} /\ new \subseteq Addr
        /\ All(m) = All(mem) \cup new /\ m.free = mem.used + 1
        /\ \A x \in new : h[x] = "free"
        /\ \A x \in All(mem) : h[x] = home[x]
    BY CreateNodesSound DEF Appended, All
  <1>2. IsOrder(m, h, q)
    BY CreateNodesOrder
  <1>3. /\ \A x \in All(mem) : x \in Addr /\ pos[x] \in Nat
        /\ \A l \in List : End(l) \in All(mem) /\ home[End(l)] = l
        /\ "free" \in List /\ End("free") = FreeEnd
        /\ \A l \in List : l # "free" => End(l) # FreeEnd
        /\ mem.used \in Nat /\ ChunkSize \in Nat /\ ChunkSize >= 1
    BY AddressOrder, EndOrder, SentinelLists, ChunkAssumption DEF List
  <1>4. n \in Nat /\ n >= 1 /\ FreeEnd \in All(mem) /\ home[FreeEnd] = "free"
    <2>1. FreeEnd \notin Begins /\ FreeEnd \in All(mem)
      BY <1>3, AddressFacts DEF Ends
    <2>. QED
      BY <2>1, <1>3, PlaceInList
  <1>5. /\ \A x \in new : q[x] = n + (x - (mem.used + 1))
        /\ q[FreeEnd] = n + ChunkSize
        /\ \A x \in All(mem) \ {FreeEnd} : q[x] = pos[x]
    BY <1>1, <1>3, <1>4 DEF GrownOrder
  <1>6. \A l \in List : /\ L[l] \in Seq(Addr) /\ Len(L[l]) = pos[End(l)] - 1
                        /\ \A j \in 1 .. pos[End(l)] - 1 :
                             L[l][j] \in All(mem) /\ home[L[l][j]] = l /\ pos[L[l][j]] = j
    BY ListAt
  <1>7. N = [l \in List |-> IF l = "free" THEN c ELSE L[l]]
    BY <1>3 DEF ListsOf
  <1>8. /\ k \in Seq(Addr) /\ Len(k) = ChunkSize
        /\ \A p \in 1 .. ChunkSize : k[p] = mem.used + p /\ k[p] \in new
    <2>1. \A p \in 1 .. ChunkSize : mem.used + p \in new
      BY <1>3
    <2>2. k = [p \in 1 .. ChunkSize |-> mem.used + p]
      BY DEF ChunkOf
    <2>. HIDE DEF k, new
    <2>3. k \in [1 .. ChunkSize -> Addr]
      BY <2>1, <2>2, <1>1
    <2>4. k \in Seq(Addr) /\ Len(k) = ChunkSize
      BY <2>3, <1>3, FunctionIsSeq
    <2>. QED
      BY <2>1, <2>2, <2>4
  <1>9. s \in Seq(Addr) /\ Len(s) = n - 1
    BY <1>3, <1>6
  <1>10. \A j \in 1 .. n - 1 : s[j] \in All(mem) /\ home[s[j]] = "free" /\ pos[s[j]] = j
    BY <1>3, <1>6
  <1>. HIDE DEF m, h, q, L, k, N, s, new
  <1>11. /\ c \in Seq(Addr) /\ Len(c) = n - 1 + ChunkSize
         /\ \A p \in 1 .. n - 1 + ChunkSize : c[p] = IF p <= n - 1 THEN s[p] ELSE k[p - (n - 1)]
    <2>1. /\ c \in Seq(Addr) /\ Len(c) = Len(s) + Len(k)
          /\ \A p \in 1 .. Len(s) + Len(k) : c[p] = IF p <= Len(s) THEN s[p] ELSE k[p - Len(s)]
      BY <1>8, <1>9, ConcatProperties
    <2>. HIDE DEF c, n
    <2>. QED
      BY <2>1, <1>8, <1>9
  <1>. HIDE DEF c
  <1>12. ASSUME NEW l \in List
         PROVE  /\ N[l] \in Seq(Addr) /\ Len(N[l]) = q[End(l)] - 1
                /\ \A p \in 1 .. q[End(l)] - 1 :
                     N[l][p] \in All(m) /\ h[N[l][p]] = l /\ q[N[l][p]] = p
    <2>1. CASE l # "free"
      <3>1. N[l] = L[l] /\ q[End(l)] = pos[End(l)]
        BY <2>1, <1>3, <1>5, <1>7
      <3>2. \A j \in 1 .. pos[End(l)] - 1 : /\ L[l][j] \in All(m) /\ h[L[l][j]] = l
                                            /\ q[L[l][j]] = j
        BY <2>1, <1>1, <1>4, <1>5, <1>6
      <3>. QED
        BY <3>1, <3>2, <1>6
    <2>2. CASE l = "free"
      <3>1. N[l] = c /\ q[End(l)] = n + ChunkSize
        BY <2>2, <1>3, <1>5, <1>7
      <3>2. ASSUME NEW p \in 1 .. n + ChunkSize - 1
            PROVE  c[p] \in All(m) /\ h[c[p]] = "free" /\ q[c[p]] = p
        <4>1. p \in Nat /\ p >= 1 /\ p \in 1 .. n - 1 + ChunkSize
          BY <1>3, <1>4
        <4>2. CASE p <= n - 1
          <5>1. c[p] = s[p] /\ p \in 1 .. n - 1 /\ p # n
            BY <4>1, <4>2, <1>4, <1>11
          <5>2. c[p] \in All(mem) /\ home[c[p]] = "free" /\ pos[c[p]] = p /\ c[p] # FreeEnd
            BY <5>1, <1>10
          <5>. QED
            BY <5>2, <1>1, <1>5
        <4>3. CASE ~ p <= n - 1
          <5>1. c[p] = k[p - (n - 1)] /\ p - (n - 1) \in 1 .. ChunkSize
            <6>1. n \in Nat /\ ChunkSize \in Nat
              BY <1>3, <1>4
            <6>. HIDE DEF n
            <6>. QED
              BY <6>1, <4>1, <4>3, <1>11
          <5>2. c[p] = mem.used + (p - (n - 1)) /\ c[p] \in new
            BY <5>1, <1>8
          <5>3. q[c[p]] = n + (c[p] - (mem.used + 1)) /\ h[c[p]] = "free" /\ c[p] \in All(m)
            BY <5>2, <1>1, <1>5
          <5>4. mem.used \in Nat /\ n \in Nat
            BY <1>3, <1>4
          <5>. QED
            BY <5>2, <5>3, <5>4, <4>1
        <4>. QED
          BY <4>2, <4>3
      <3>3. /\ c \in Seq(Addr) /\ Len(c) = q[End(l)] - 1
            /\ 1 .. q[End(l)] - 1 = 1 .. n + ChunkSize - 1
        <4>1. n \in Nat /\ ChunkSize \in Nat
          BY <1>3, <1>4
        <4>. HIDE DEF n
        <4>. QED
          BY <4>1, <3>1, <1>11
      <3>. HIDE DEF n
      <3>. QED
        BY <3>1, <3>2, <3>3, <2>2
    <2>. QED
      BY <2>1, <2>2
  <1>13. N \in [List -> Seq(Addr)]
    BY <1>7, <1>12
  <1>14. ListsOf(m, h, q) = N
    BY <1>1, <1>2, <1>12, <1>13, ListsAre
  <1>15. q[m.free] = n
    <2>1. m.free \in new
      BY <1>1, <1>3 DEF new
    <2>. QED
      BY <2>1, <1>1, <1>3, <1>4, <1>5
  <1>. QED
    BY <1>14, <1>15 DEF m, h, q, L, k, N

-----------------------------------------------------------------------------
(* The mapped state, and what each operation does to it.                    *)

\* Memory comes in whole chunks, so the chunks of ListStore are the chunks of create_nodes.
WholeChunks == \E c \in 0 .. MaxChunks : mem.used = ChunkSize * c

MInv == OInv /\ WholeChunks /\ abstract = Abstraction(mem)

LEMMA MappedState ==
  ASSUME NEW m, NEW h, Sound(m, h), NEW pos, IsOrder(m, h, pos), NEW A, A = Abstraction(m)
  PROVE  /\ A.list = ListsOf(m, h, pos) /\ A.built = pos[m.free] - 1
         /\ \A l \in List : A.list[l] \in Seq(Addr)
         /\ Len(A.list["free"]) = pos[FreeEnd] - 1
         /\ "free" \in List
         /\ m.free \in All(m) /\ pos[m.free] \in 1 .. pos[FreeEnd] /\ pos[FreeEnd] \in Nat
         /\ h[m.free] = "free" /\ (pos[m.free] = pos[FreeEnd] <=> m.free = FreeEnd)
  <1>1. /\ A.list = ListsOf(m, h, pos) /\ A.built = pos[m.free] - 1
        /\ m.free \in All(m) /\ pos[m.free] \in 1 .. pos[FreeEnd] /\ pos[FreeEnd] \in Nat
        /\ h[m.free] = "free" /\ (pos[m.free] = pos[FreeEnd] <=> m.free = FreeEnd)
    BY AbstractionByPosition
  <1>2. \A l \in List : /\ ListsOf(m, h, pos)[l] \in Seq(Addr)
                        /\ Len(ListsOf(m, h, pos)[l]) = pos[End(l)] - 1
    BY ListAt
  <1>3. "free" \in List /\ End("free") = FreeEnd
    BY SentinelLists DEF List
  <1>. QED
    BY <1>1, <1>2, <1>3

LEMMA SameLists ==
  ASSUME NEW m, NEW h, NEW pos, NEW w, w.next = m.next, w.used = m.used
  PROVE  /\ ListsOf(w, h, pos) = ListsOf(m, h, pos)
         /\ IsOrder(m, h, pos) => IsOrder(w, h, pos)
  BY DEF ListsOf, At, IsOrder, All, Owned

LEMMA MoveImplements ==
  ASSUME IInv, mem.exit = 0, abstract = Abstraction(mem), abstract' = Abstraction(mem'),
         Ordered, Sound(mem', home'),
         NEW S, NEW res, NEW b, NEW e,
         Movable(S, res, b, e),
         mem' = ListSplice(mem, res, b, e),
         Rehome(S, res),
         home[b] # "free"
  PROVE  \E from \in {"view", "buried"}, to \in List : \E j \in 1 .. Len(abstract.list[from]) :
           \E i \in 1 .. j : \E k \in 1 .. Len(abstract.list[to]) + 1 : Lists!Move(from, to, i, j, k)
  <1>. Sound(mem, home)
    BY SoundIsIInv
  <1>. PICK pos : IsOrder(mem, home, pos)
    BY DEF Ordered, IsOrdered
  <1> DEFINE from == home[b]
             to == home[res]
             i == pos[b]
             j == pos[e]
             n == j - i + 1
             k == CutOrder(pos, b, e)[res]
             q == SplicedOrder(pos, S, res, b, e)
             L == abstract.list
  <1>1. IsOrder(mem', home', q)
    BY SpliceOrder
  <1>2. /\ abstract.list = ListsOf(mem, home, pos) /\ abstract.built = pos[mem.free] - 1
        /\ mem.free \in All(mem) /\ pos[mem.free] \in Nat /\ home[mem.free] = "free"
        /\ "free" \in List
    BY MappedState
  <1>3. abstract'.list = ListsOf(mem', home', q) /\ abstract'.built = q[mem'.free] - 1
    <2>. HIDE DEF q
    <2>. QED
      BY <1>1, MappedState
  <1>4. /\ i \in 1 .. j /\ j \in 1 .. Len(L[from]) /\ from \in List /\ to \in List
        /\ k \in 1 .. Len(Rest(L, from, i, j)[to]) + 1 /\ k \in 1 .. Len(L[to]) + 1
        /\ Len(SubSeq(L[from], i, j)) = n
        /\ abstract'.list = Moved(L, from, to, i, j, k)
    BY <1>2, <1>3, MoveLists
  <1>5. /\ mem'.free = mem.free /\ mem'.exit = mem.exit
    BY SpliceLinks DEF Spliced
  <1>6. q[mem.free] = IF to = "free" /\ k <= pos[mem.free] THEN pos[mem.free] + n ELSE pos[mem.free]
    <2>1. mem.free \notin S
      BY <1>2 DEF Movable, IsRange
    <2>2. mem.free \in Addr /\ k \in Nat
      BY <1>2, <1>4, AddressOrder
    <2>3. CutOrder(pos, b, e)[mem.free] = pos[mem.free]
      BY <2>2, <1>2 DEF CutOrder
    <2>. QED
      BY <2>1, <2>2, <2>3, <1>2 DEF SplicedOrder
  <1>7. abstract'.built = IF to = "free" /\ k <= abstract.built + 1 THEN abstract.built + n
                                                                  ELSE abstract.built
    <2>1. n \in Nat /\ k \in Nat
      BY <1>4
    <2>. HIDE DEF n, k, q
    <2>. QED
      BY <2>1, <1>2, <1>3, <1>5, <1>6
  <1>. HIDE DEF i, j, k, q, from, to, n
  <1>8. Lists!Move(from, to, i, j, k)
    BY <1>4, <1>5, <1>7 DEF Lists!Move, Moved, Rest
  <1>9. from \in {"view", "buried"}
    BY <1>4 DEF List, from
  <1>. QED
    BY <1>4, <1>8, <1>9

LEMMA CutPrefix ==
  ASSUME NEW A, NEW s \in Seq(A), NEW j \in 1 .. Len(s)
  PROVE  Lists!Cut(s, 1, j) = SubSeq(s, j + 1, Len(s))
  <1> DEFINE u == SubSeq(s, 1, 0)
             v == SubSeq(s, j + 1, Len(s))
  <1>1. u = <<>>
    OBVIOUS
  <1>2. v \in Seq(A)
    <2>1. Len(s) \in Nat /\ \A p \in 1 .. Len(s) : s[p] \in A
      OBVIOUS
    <2>. QED
      BY <2>1, SubSeqProperties
  <1>3. Lists!Cut(s, 1, j) = u \o v
    BY DEF Lists!Cut
  <1>. HIDE DEF u, v
  <1>4. <<>> \o v = v
    BY <1>2
  <1>. QED
    BY <1>1, <1>3, <1>4 DEF v

LEMMA PublishImplements ==
  ASSUME IInv, mem.exit = 0, abstract = Abstraction(mem), abstract' = Abstraction(mem'),
         Ordered, Sound(mem', home'),
         NEW S, NEW res,
         mem.free # mem.next[FreeBegin], home[res] # "free",
         mem' = ListSplice(mem, res, mem.next[FreeBegin], mem.prev[mem.free]),
         Movable(S, res, mem.next[FreeBegin], mem.prev[mem.free]),
         Rehome(S, res)
  PROVE  \E to \in {"view", "buried"} : \E k \in 1 .. Len(abstract.list[to]) + 1 : Lists!Publish(to, k)
  <1>. Sound(mem, home)
    BY SoundIsIInv
  <1>. PICK pos : IsOrder(mem, home, pos)
    BY DEF Ordered, IsOrdered
  <1> DEFINE b == mem.next[FreeBegin]
             e == mem.prev[mem.free]
             to == home[res]
             n == pos[e]
             k == CutOrder(pos, b, e)[res]
             q == SplicedOrder(pos, S, res, b, e)
             L == abstract.list
  <1>1. IsOrder(mem', home', q)
    BY SpliceOrder
  <1>2. /\ abstract.list = ListsOf(mem, home, pos) /\ abstract.built = pos[mem.free] - 1
        /\ mem.free \in All(mem) /\ pos[mem.free] \in Nat /\ pos[mem.free] >= 1 /\ home[mem.free] = "free"
        /\ "free" \in List /\ L["free"] \in Seq(Addr)
    BY MappedState
  <1>3. abstract'.list = ListsOf(mem', home', q) /\ abstract'.built = q[mem'.free] - 1
    <2>. HIDE DEF q
    <2>. QED
      BY <1>1, MappedState
  <1>4. /\ home[b] = "free" /\ pos[b] = 1 /\ home[e] = "free" /\ n \in Nat
        /\ pos[mem.free] = n + 1 /\ e \in All(mem)
    <2>1. /\ FreeBegin \in All(mem) \ Ends /\ home[FreeBegin] = "free" /\ pos[FreeBegin] = 0
      BY <1>2, EndOrder, SentinelLists, AddressFacts DEF Begins
    <2>2. mem.free \notin Begins
      <3>1. mem.free \in Owned(mem) \cup {FreeEnd} /\ Owned(mem) \cap Sentinel = {}
        BY OwnedAddr, AddressFacts DEF Sound, Sentinel, IInv, FreePtrIsFree
      <3>. QED
        BY <3>1, AddressFacts DEF Sentinel, Ends
    <2>. QED
      BY <2>1, <2>2, <1>2, AddressOrder
  <1>5. /\ pos[b] \in 1 .. pos[e] /\ n \in 1 .. Len(L["free"])
        /\ to \in List /\ k \in 1 .. Len(L[to]) + 1
        /\ abstract'.list = Moved(L, "free", to, 1, n, k)
    <2>. HIDE DEF b, e, k, q
    <2>1. /\ pos[b] \in 1 .. pos[e] /\ pos[e] \in 1 .. Len(ListsOf(mem, home, pos)[home[b]])
          /\ home[res] \in List
          /\ CutOrder(pos, b, e)[res] \in 1 .. Len(ListsOf(mem, home, pos)[home[res]]) + 1
          /\ ListsOf(mem', home', SplicedOrder(pos, S, res, b, e)) =
               Moved(ListsOf(mem, home, pos), home[b], home[res], pos[b], pos[e], CutOrder(pos, b, e)[res])
      BY MoveLists DEF b, e
    <2>. QED
      BY <2>1, <1>2, <1>3, <1>4 DEF k, q
  <1>6. /\ mem'.free = mem.free /\ mem'.exit = mem.exit
    BY SpliceLinks DEF Spliced
  <1>7. abstract'.built = 0
    <2>1. mem.free \notin S
      <3>1. pos[mem.free] \notin pos[b] .. pos[e] /\ S = {x \in All(mem) : home[x] = home[b] /\ pos[x] \in pos[b] .. pos[e]}
        BY <1>4, RangeIsInterval DEF Movable
      <3>. QED
        BY <3>1
    <2>2. CutOrder(pos, b, e)[mem.free] = n + 1 - (n - 1 + 1)
      <3>1. mem.free \in Addr /\ pos[mem.free] > pos[e]
        BY <1>2, <1>4, AddressOrder
      <3>. QED
        BY <3>1, <1>2, <1>4 DEF CutOrder
    <2>3. mem.free \in Addr
      BY <1>2, AddressOrder
    <2>4. q[mem.free] = CutOrder(pos, b, e)[mem.free]
      BY <2>1, <2>3, <1>2 DEF SplicedOrder
    <2>5. q[mem.free] = 1
      BY <2>2, <2>4, <1>4
    <2>. QED
      BY <2>5, <1>3, <1>6
  <1>8. abstract.built = n
    BY <1>2, <1>4
  <1>9. Lists!Cut(L["free"], 1, n) = SubSeq(L["free"], n + 1, Len(L["free"]))
    BY <1>2, <1>5, CutPrefix
  <1>. HIDE DEF b, e, k, q, to, n
  <1>10. to # "free" /\ to \in {"view", "buried"}
    BY <1>5 DEF to, List
  <1>11. abstract'.list = [abstract.list EXCEPT
                             !["free"] = SubSeq(@, n + 1, Len(@)),
                             ![to] = Lists!Paste(@, k, SubSeq(abstract.list["free"], 1, n))]
    <2>1. L = [l \in List |-> ListsOf(mem, home, pos)[l]]
      BY <1>2 DEF ListsOf
    <2>. QED
      BY <2>1, <1>2, <1>5, <1>9, <1>10 DEF Moved, Rest
  <1>12. Lists!Publish(to, k)
    BY <1>5, <1>6, <1>7, <1>8, <1>11 DEF Lists!Publish
  <1>. QED
    BY <1>5, <1>10, <1>12

LEMMA ChunkCount ==
  ASSUME NEW c \in 0 .. MaxChunks, ChunkSize * c + ChunkSize <= MaxNode
  PROVE  /\ c \in 0 .. MaxChunks - 1 /\ c + 1 \in 0 .. MaxChunks
         /\ ChunkSize * c + ChunkSize = ChunkSize * (c + 1)
  <1>1. c \in Nat /\ MaxChunks \in Nat /\ ChunkSize \in Nat /\ ChunkSize >= 1
    BY ChunkAssumption
  <1>2. c < MaxChunks
    <2>. SUFFICES ASSUME c >= MaxChunks PROVE FALSE
      BY <1>1
    <2>1. ChunkSize * c >= ChunkSize * MaxChunks
      BY <1>1
    <2>2. ChunkSize * c \in Nat /\ ChunkSize * MaxChunks \in Nat
      BY <1>1
    <2>. QED
      BY <2>1, <2>2, <1>1 DEF MaxNode
  <1>3. ChunkSize * c + ChunkSize = ChunkSize * (c + 1)
    BY <1>1
  <1>. QED
    BY <1>1, <1>2, <1>3

LEMMA ChunksStayWhole ==
  IInv /\ WholeChunks /\ [Next]_vars => WholeChunks'
  <1>. SUFFICES ASSUME IInv, WholeChunks, [Next]_vars PROVE WholeChunks'
    OBVIOUS
  <1>1. mem \in Memory
    BY DEF IInv, TypeOK
  <1>2. mem'.used = mem.used => WholeChunks'
    BY DEF WholeChunks
  <1>3. ASSUME NEW m, m.used = mem.used \/ (CanCreate(mem) /\ m.used = mem.used + ChunkSize),
               mem'.used = m.used
        PROVE  WholeChunks'
    <2>1. CASE m.used = mem.used
      BY <2>1, <1>2, <1>3
    <2>2. CASE CanCreate(mem) /\ m.used = mem.used + ChunkSize
      <3>1. PICK c \in 0 .. MaxChunks : mem.used = ChunkSize * c
        BY DEF WholeChunks
      <3>2. ChunkSize * c + ChunkSize <= MaxNode
        BY <2>2, <3>1 DEF CanCreate
      <3>3. c + 1 \in 0 .. MaxChunks /\ mem'.used = ChunkSize * (c + 1)
        BY <3>1, <3>2, <2>2, <1>3, ChunkCount
      <3>. QED
        BY <3>3 DEF WholeChunks
    <2>. QED
      BY <2>1, <2>2, <1>3
  <1>4. ASSUME mem.exit = 0
        PROVE  LET m == EnsureMemory(mem)
               IN  m \in Memory /\ (m.used = mem.used \/ (CanCreate(mem) /\ m.used = mem.used + ChunkSize))
    <2>1. EnsureMemory(mem) \in Memory
      BY <1>4, EnsureMemorySound DEF Sound
    <2>2. CASE mem.free = FreeEnd /\ CanCreate(mem)
      <3>1. EnsureMemory(mem) = CreateNodes(mem)
        BY <2>2, <1>4 DEF EnsureMemory
      <3>2. CreateNodes(mem).used = mem.used + ChunkSize
        BY <1>4, <2>2, CreateNodesSound DEF Appended
      <3>. QED
        BY <3>1, <3>2, <2>1, <2>2
    <2>3. CASE mem.free # FreeEnd \/ ~ CanCreate(mem)
      <3>1. EnsureMemory(mem).used = mem.used
        BY <2>3, <1>1, <1>4 DEF EnsureMemory, Memory
      <3>. QED
        BY <3>1, <2>1
    <2>. QED
      BY <2>2, <2>3
  <1>5. CASE Reset
    BY <1>1, <1>2, <1>5 DEF Reset, ResetAllocator, Memory
  <1>6. ASSUME NEW tag \in AllocTags, NEW info \in Symbol, Alloc(tag, info)
        PROVE  WholeChunks'
    <2> DEFINE m == EnsureMemory(mem)
    <2>1. mem.exit = 0 /\ mem' = AllocNode(mem, tag, info)
      BY <1>6 DEF Alloc, Live
    <2>2. m \in Memory /\ (m.used = mem.used \/ (CanCreate(mem) /\ m.used = mem.used + ChunkSize))
      BY <2>1, <1>4
    <2>3. mem' = m \/ mem' = [m EXCEPT !.tag[m.free] = tag, !.info[m.free] = info, !.free = m.next[m.free]]
      BY <2>1 DEF AllocNode, m
    <2>. HIDE DEF m
    <2>4. mem'.used = m.used
      BY <2>2, <2>3 DEF Memory
    <2>. QED
      BY <2>2, <2>4, <1>3
  <1>7. CASE Prepare
    <2>1. mem.exit = 0 /\ mem' = EnsureMemory(mem)
      BY <1>7 DEF Prepare, InsertPos, Live
    <2>. QED
      BY <2>1, <1>3, <1>4
  <1>8. ASSUME NEW S, NEW begin, NEW end, NEW res, Move(S, res, begin, end)
        PROVE  WholeChunks'
    <2>1. /\ mem.exit = 0 /\ Movable(S, res, begin, end)
          /\ mem' = ListSplice(mem, res, begin, end)
      BY <1>8 DEF Move, Live, SpliceTevar
    <2>. QED
      BY <2>1, <1>2, SpliceLinks DEF Spliced
  <1>9. ASSUME NEW S, NEW begin, NEW end, Discard(S, begin, end)
        PROVE  WholeChunks'
    <2>1. /\ mem.exit = 0 /\ mem' = ListSplice(mem, mem.free, begin, end)
          /\ Movable(S, mem.free, begin, end)
      BY <1>9, DiscardIsMove
    <2>. QED
      BY <2>1, <1>2, SpliceLinks DEF Spliced
  <1>10. ASSUME NEW S, NEW pos, Publish(S, pos)
         PROVE  WholeChunks'
    <2>1. CASE mem.free = mem.next[FreeBegin]
      BY <2>1, <1>2, <1>10, PublishIsMove
    <2>2. CASE mem.free # mem.next[FreeBegin]
      <3>1. /\ mem.exit = 0 /\ mem' = ListSplice(mem, pos, mem.next[FreeBegin], mem.prev[mem.free])
            /\ Movable(S, pos, mem.next[FreeBegin], mem.prev[mem.free])
        BY <2>2, <1>10, PublishIsMove
      <3>. QED
        BY <3>1, <1>2, SpliceLinks DEF Spliced
    <2>. QED
      BY <2>1, <2>2
  <1>11. CASE UNCHANGED vars
    BY <1>2, <1>11 DEF vars
  <1>. QED
    BY <1>5, <1>6, <1>7, <1>8, <1>9, <1>10, <1>11 DEF Next

(* When only s_free_ptr moves, the lists stay and the built prefix follows it. *)
LEMMA SameLinks ==
  ASSUME NEW m, NEW h, NEW w, Sound(m, h), IsOrdered(m, h), Sound(w, h),
         w.next = m.next, w.used = m.used
  PROVE  /\ Abstraction(w).list = Abstraction(m).list
         /\ w.free = m.free => Abstraction(w).built = Abstraction(m).built
         /\ w.free = m.next[FreeBegin] => Abstraction(w).built = 0
         /\ m.free \in Owned(m) => Abstraction(m).built < Len(Abstraction(m).list["free"])
         /\ m.free \in Owned(m) /\ w.free = m.next[m.free] =>
              Abstraction(w).built = Abstraction(m).built + 1
         /\ m.free = FreeEnd => Abstraction(m).built = Len(Abstraction(m).list["free"])
         /\ Abstraction(m).built \in Nat
  <1>. PICK pos : IsOrder(m, h, pos)
    BY DEF IsOrdered
  <1>1. IsOrder(w, h, pos) /\ ListsOf(w, h, pos) = ListsOf(m, h, pos)
    BY SameLists
  <1>2. /\ Abstraction(m).list = ListsOf(m, h, pos) /\ Abstraction(m).built = pos[m.free] - 1
        /\ m.free \in All(m) /\ pos[m.free] \in 1 .. pos[FreeEnd] /\ pos[FreeEnd] \in Nat
        /\ (pos[m.free] = pos[FreeEnd] <=> m.free = FreeEnd)
        /\ Len(Abstraction(m).list["free"]) = pos[FreeEnd] - 1
    BY MappedState
  <1>3. Abstraction(w).list = ListsOf(w, h, pos) /\ Abstraction(w).built = pos[w.free] - 1
    BY <1>1, MappedState
  <1>4. pos[m.next[FreeBegin]] = 1
    <2>1. /\ FreeBegin \in All(m) \ Ends /\ pos[FreeBegin] = 0
      BY EndOrder, SentinelLists, AddressFacts DEF Begins, List
    <2>. QED
      BY <2>1, AddressOrder
  <1>5. m.free \in Owned(m) => m.free # FreeEnd /\ pos[m.next[m.free]] = pos[m.free] + 1
    <2>. SUFFICES ASSUME m.free \in Owned(m)
                  PROVE  m.free # FreeEnd /\ pos[m.next[m.free]] = pos[m.free] + 1
      OBVIOUS
    <2>1. m.free \notin Ends
      BY AddressFacts DEF Sound, Memory, Owned, Node, Sentinel
    <2>. QED
      BY <2>1, <1>2, AddressOrder DEF Ends
  <1>. QED
    BY <1>1, <1>2, <1>3, <1>4, <1>5

Chunks == {ChunkOf(ChunkSize * c) : c \in 0 .. MaxChunks - 1}

LEMMA CreateNodesImplements ==
  ASSUME IInv, Ordered, WholeChunks, mem.exit = 0, mem.free = FreeEnd, CanCreate(mem)
  PROVE  LET m == CreateNodes(mem)
         IN  /\ \E nodes \in Chunks :
                  Abstraction(m).list = [Abstraction(mem).list EXCEPT !["free"] = @ \o nodes]
             /\ Abstraction(m).built = Abstraction(mem).built
  <1>. Sound(mem, home)
    BY SoundIsIInv
  <1>. PICK pos : IsOrder(mem, home, pos)
    BY DEF Ordered, IsOrdered
  <1> DEFINE m == CreateNodes(mem)
             h == Adopted(m)
             q == GrownOrder(pos)
  <1>1. Sound(m, h) /\ IsOrder(m, h, q)
    BY CreateNodesSound, CreateNodesOrder
  <1>2. Abstraction(m).list = ListsOf(m, h, q) /\ Abstraction(m).built = q[m.free] - 1
    <2>. HIDE DEF m, h, q
    <2>. QED
      BY <1>1, MappedState
  <1>3. Abstraction(mem).list = ListsOf(mem, home, pos) /\ Abstraction(mem).built = pos[mem.free] - 1
    BY MappedState
  <1>4. /\ ListsOf(m, h, q) = [ListsOf(mem, home, pos) EXCEPT !["free"] = @ \o ChunkOf(mem.used)]
        /\ q[m.free] = pos[mem.free]
    BY GrowLists
  <1>5. ChunkOf(mem.used) \in Chunks
    <2>1. PICK c \in 0 .. MaxChunks : mem.used = ChunkSize * c
      BY DEF WholeChunks
    <2>2. c \in 0 .. MaxChunks - 1
      BY <2>1, ChunkCount DEF CanCreate
    <2>. QED
      BY <2>1, <2>2 DEF Chunks
  <1>. HIDE DEF m, h, q
  <1>6. Abstraction(m).list = [Abstraction(mem).list EXCEPT !["free"] = @ \o ChunkOf(mem.used)]
    BY <1>2, <1>3, <1>4
  <1>7. Abstraction(m).built = Abstraction(mem).built
    BY <1>2, <1>3, <1>4
  <1>. QED
    BY <1>5, <1>6, <1>7 DEF m

LEMMA SomeChunk ==
  ASSUME IInv, WholeChunks, mem.free \in Owned(mem)
  PROVE  \E nodes \in Chunks : TRUE
  <1>1. PICK c \in 0 .. MaxChunks : mem.used = ChunkSize * c
    BY DEF WholeChunks
  <1>2. mem.used # 0
    BY DEF Owned, IInv, TypeOK, Memory
  <1>3. c # 0
    BY <1>1, <1>2, ChunkAssumption
  <1>4. 0 \in 0 .. MaxChunks - 1
    BY <1>1, <1>3, ChunkAssumption
  <1>. QED
    BY <1>4 DEF Chunks

(* ensure_memory has nothing to do, brings a new chunk, or ends the process. *)
LEMMA EnsureMemoryImplements ==
  ASSUME IInv, Ordered, WholeChunks, mem.exit = 0
  PROVE  LET m == EnsureMemory(mem)
         IN  /\ Sound(m, Adopted(m)) /\ IsOrdered(m, Adopted(m))
             /\ \/ /\ mem.free # FreeEnd /\ m = mem
                \/ /\ mem.free = FreeEnd /\ m.exit = 0
                   /\ \E nodes \in Chunks :
                        Abstraction(m).list = [Abstraction(mem).list EXCEPT !["free"] = @ \o nodes]
                   /\ Abstraction(m).built = Abstraction(mem).built
                \/ /\ mem.free = FreeEnd /\ m.exit = NoMemory
                   /\ Abstraction(m).list = Abstraction(mem).list
                   /\ Abstraction(m).built = Abstraction(mem).built
  <1> DEFINE m == EnsureMemory(mem)
  <1>1. Sound(m, Adopted(m)) /\ IsOrdered(m, Adopted(m))
    BY EnsureMemorySound, EnsureMemoryOrdered DEF OInv
  <1>2. mem \in Memory /\ Sound(mem, home) /\ IsOrdered(mem, home)
    BY SoundIsIInv DEF IInv, TypeOK, Ordered
  <1>3. CASE mem.free # FreeEnd
    <2>1. m = mem
      BY <1>3 DEF EnsureMemory
    <2>. QED
      BY <1>1, <1>3, <2>1
  <1>4. CASE mem.free = FreeEnd /\ CanCreate(mem)
    <2>1. m = CreateNodes(mem)
      BY <1>4 DEF EnsureMemory
    <2>2. m.exit = 0
      BY <2>1, <1>4, CreateNodesSound
    <2>3. /\ \E nodes \in Chunks :
               Abstraction(m).list = [Abstraction(mem).list EXCEPT !["free"] = @ \o nodes]
          /\ Abstraction(m).built = Abstraction(mem).built
      BY <2>1, <1>4, CreateNodesImplements
    <2>. QED
      BY <1>1, <1>4, <2>2, <2>3
  <1>5. CASE mem.free = FreeEnd /\ ~ CanCreate(mem)
    <2>1. m = [mem EXCEPT !.exit = NoMemory]
      BY <1>5 DEF EnsureMemory
    <2>2. m.next = mem.next /\ m.used = mem.used /\ m.free = mem.free /\ m.exit = NoMemory
      BY <2>1, <1>2 DEF Memory
    <2>3. Adopted(m) = home
      BY <2>2, <1>2 DEF Adopted, Owned, Sound
    <2>4. Sound(m, home)
      BY <2>3, <1>1
    <2>. HIDE DEF m
    <2>5. Abstraction(m).list = Abstraction(mem).list /\ Abstraction(m).built = Abstraction(mem).built
      BY <2>2, <2>4, <1>2, SameLinks
    <2>. QED
      BY <1>1, <1>5, <2>2, <2>5 DEF m
  <1>. QED
    BY <1>3, <1>4, <1>5

LEMMA AllocImplements ==
  ASSUME IInv, Ordered, WholeChunks, Sound(mem', home'),
         abstract = Abstraction(mem), abstract' = Abstraction(mem'),
         NEW tag, NEW info, Alloc(tag, info)
  PROVE  Lists!Next
  <1> DEFINE m == EnsureMemory(mem)
             h == Adopted(m)
  <1>1. mem.exit = 0 /\ mem' = AllocNode(mem, tag, info) /\ Adopt(mem')
    BY DEF Alloc, Live
  <1>2. /\ Sound(m, h) /\ IsOrdered(m, h)
        /\ \/ /\ mem.free # FreeEnd /\ m = mem
           \/ /\ mem.free = FreeEnd /\ m.exit = 0
              /\ \E nodes \in Chunks :
                   Abstraction(m).list = [Abstraction(mem).list EXCEPT !["free"] = @ \o nodes]
              /\ Abstraction(m).built = Abstraction(mem).built
           \/ /\ mem.free = FreeEnd /\ m.exit = NoMemory
              /\ Abstraction(m).list = Abstraction(mem).list
              /\ Abstraction(m).built = Abstraction(mem).built
    BY <1>1, EnsureMemoryImplements
  <1>3. m.exit = 0 => m.free \in Owned(m)
    BY <1>1, EnsureMemorySound
  <1>4. /\ mem'.next = m.next /\ mem'.used = m.used /\ mem'.exit = m.exit
        /\ IF m.exit = 0 THEN mem'.free = m.next[m.free] ELSE mem'.free = m.free
    <2>1. IF m.exit = 0
          THEN mem' = [m EXCEPT !.tag[m.free] = tag, !.info[m.free] = info, !.free = m.next[m.free]]
          ELSE mem' = m
      BY <1>1 DEF AllocNode
    <2>2. m \in Memory
      BY <1>2 DEF Sound
    <2>. HIDE DEF m
    <2>. QED
      BY <2>1, <2>2 DEF Memory
  <1>5. home' = h
    BY <1>1, <1>4 DEF Adopt, Adopted, Owned
  <1>6. Sound(mem, home) /\ IsOrdered(mem, home)
    BY SoundIsIInv DEF Ordered
  <1>. HIDE DEF m, h
  <1>7. /\ Abstraction(mem').list = Abstraction(m).list
        /\ mem'.free = m.free => Abstraction(mem').built = Abstraction(m).built
        /\ m.free \in Owned(m) /\ mem'.free = m.next[m.free] =>
             Abstraction(mem').built = Abstraction(m).built + 1
    BY <1>2, <1>4, <1>5, SameLinks
  <1>8. /\ mem.free \in Owned(mem) => Abstraction(mem).built < Len(Abstraction(mem).list["free"])
        /\ mem.free = FreeEnd => Abstraction(mem).built = Len(Abstraction(mem).list["free"])
    BY <1>6, SameLinks
  <1>9. CASE mem.free # FreeEnd /\ m = mem
    <2>1. mem.free \in Owned(mem)
      BY <1>6, <1>9 DEF Sound
    <2>2. PICK nodes \in Chunks : TRUE
      BY <2>1, SomeChunk
    <2>3. Lists!Alloc(nodes)
      BY <2>1, <1>1, <1>4, <1>7, <1>8, <1>9 DEF Lists!Alloc
    <2>. QED
      BY <2>2, <2>3, <1>1 DEF Lists!Next, Chunks
  <1>10. CASE mem.free = FreeEnd /\ m.exit = 0
    <2>1. /\ \E nodes \in Chunks :
               Abstraction(m).list = [Abstraction(mem).list EXCEPT !["free"] = @ \o nodes]
          /\ Abstraction(m).built = Abstraction(mem).built
      <3>1. NoMemory # 0
        BY DEF NoMemory
      <3>2. mem.free = FreeEnd
        BY <1>10
      <3>. QED
        BY <3>1, <3>2, <1>2, <1>10
    <2>2. PICK nodes \in Chunks :
            Abstraction(m).list = [Abstraction(mem).list EXCEPT !["free"] = @ \o nodes]
      BY <2>1
    <2>3. Abstraction(mem').built = Abstraction(mem).built + 1
      BY <2>1, <1>3, <1>4, <1>7, <1>10
    <2>4. Lists!Alloc(nodes)
      BY <2>2, <2>3, <1>1, <1>4, <1>7, <1>8, <1>10 DEF Lists!Alloc, Lists!Grow
    <2>. QED
      BY <2>2, <2>4, <1>1 DEF Lists!Next, Chunks
  <1>11. CASE mem.free = FreeEnd /\ m.exit = NoMemory /\ Abstraction(m).list = Abstraction(mem).list
              /\ Abstraction(m).built = Abstraction(mem).built
    <2>1. m.exit # 0
      BY <1>11 DEF NoMemory
    <2>2. Lists!Fail
      BY <2>1, <1>4, <1>7, <1>8, <1>11 DEF Lists!Fail
    <2>. QED
      BY <2>2, <1>1 DEF Lists!Next
  <1>. QED
    BY <1>2, <1>9, <1>10, <1>11

LEMMA PrepareImplements ==
  ASSUME IInv, Ordered, WholeChunks, 
         abstract = Abstraction(mem), abstract' = Abstraction(mem'),
         Prepare
  PROVE  [Lists!Next]_(Lists!lvars)
  <1> DEFINE m == EnsureMemory(mem)
  <1>1. mem.exit = 0 /\ mem' = m
    BY DEF Prepare, Live, InsertPos
  <1>2. Sound(mem, home) /\ IsOrdered(mem, home)
    BY SoundIsIInv DEF Ordered
  <1>3. mem.free = FreeEnd => Abstraction(mem).built = Len(Abstraction(mem).list["free"])
    BY <1>2, SameLinks
  <1>4. \/ /\ mem.free # FreeEnd /\ m = mem
        \/ /\ mem.free = FreeEnd /\ m.exit = 0
           /\ \E nodes \in Chunks :
                Abstraction(m).list = [Abstraction(mem).list EXCEPT !["free"] = @ \o nodes]
           /\ Abstraction(m).built = Abstraction(mem).built
        \/ /\ mem.free = FreeEnd /\ m.exit = NoMemory
           /\ Abstraction(m).list = Abstraction(mem).list
           /\ Abstraction(m).built = Abstraction(mem).built
    BY <1>1, EnsureMemoryImplements
  <1>. HIDE DEF m
  <1>5. CASE m = mem
    BY <1>1, <1>5 DEF Lists!lvars
  <1>6. ASSUME mem.free = FreeEnd, m.exit = 0,
               NEW nodes \in Chunks,
               Abstraction(m).list = [Abstraction(mem).list EXCEPT !["free"] = @ \o nodes],
               Abstraction(m).built = Abstraction(mem).built
        PROVE  Lists!Next
    <2>1. Lists!Prepare(nodes)
      BY <1>1, <1>3, <1>6 DEF Lists!Prepare, Lists!Grow
    <2>. QED
      BY <2>1, <1>1 DEF Lists!Next, Chunks
  <1>7. CASE mem.free = FreeEnd /\ m.exit = NoMemory /\ Abstraction(m).list = Abstraction(mem).list
             /\ Abstraction(m).built = Abstraction(mem).built
    <2>1. m.exit # 0
      BY <1>7 DEF NoMemory
    <2>2. Lists!Fail
      BY <2>1, <1>1, <1>3, <1>7 DEF Lists!Fail
    <2>. QED
      BY <2>2, <1>1 DEF Lists!Next
  <1>. QED
    BY <1>4, <1>5, <1>6, <1>7

LEMMA StepImplements ==
  MInv /\ IInv' /\ MCNext => [Lists!Next]_(Lists!lvars)
  <1>. SUFFICES ASSUME MInv, IInv', MCNext PROVE [Lists!Next]_(Lists!lvars)
    OBVIOUS
  <1>1. /\ IInv /\ Ordered /\ WholeChunks /\ abstract = Abstraction(mem) /\ Next
        /\ abstract' = Abstraction(mem')
    BY DEF MInv, OInv, MCNext
  <1>2. Sound(mem', home')
    BY DEF IInv, Sound, TypeOK, Linked, Separated, FreePtrIsFree, SentinelsAtHome
  <1>3. Sound(mem, home) /\ IsOrdered(mem, home)
    BY <1>1, SoundIsIInv DEF Ordered
  <1>4. CASE Reset
    <2>1. mem.exit = 0 /\ mem' = [mem EXCEPT !.free = mem.next[FreeBegin]] /\ home' = home
      BY <1>4 DEF Reset, Live, ResetAllocator
    <2>2. /\ mem'.next = mem.next /\ mem'.used = mem.used /\ mem'.free = mem.next[FreeBegin]
          /\ mem'.exit = mem.exit
      BY <2>1, <1>3 DEF Sound, Memory
    <2>3. Abstraction(mem').list = Abstraction(mem).list /\ Abstraction(mem').built = 0
      <3>1. Sound(mem', home)
        BY <2>1, <1>2
      <3>. QED
        BY <3>1, <2>2, <1>3, SameLinks
    <2>4. Lists!Reset
      BY <2>2, <2>3, <1>1 DEF Lists!Reset
    <2>. QED
      BY <2>1, <2>4 DEF Lists!Next
  <1>5. ASSUME NEW tag \in AllocTags, NEW info \in Symbol, Alloc(tag, info)
        PROVE  Lists!Next
    BY <1>1, <1>2, <1>5, AllocImplements
  <1>6. CASE Prepare
    BY <1>1, <1>6, PrepareImplements
  <1>7. ASSUME NEW S, NEW begin, NEW end, NEW res, Move(S, res, begin, end)
        PROVE  Lists!Next
    <2>1. /\ mem.exit = 0 /\ Movable(S, res, begin, end) /\ Rehome(S, res)
          /\ mem' = ListSplice(mem, res, begin, end) /\ home[begin] # "free"
      BY <1>7 DEF Move, Live, SpliceTevar
    <2>. QED
      BY <2>1, <1>1, <1>2, MoveImplements DEF Lists!Next, Lists!List, List
  <1>8. ASSUME NEW S, NEW begin, NEW end, Discard(S, begin, end)
        PROVE  Lists!Next
    <2>1. /\ mem.exit = 0 /\ mem' = ListSplice(mem, mem.free, begin, end) /\ home[begin] # "free"
          /\ Movable(S, mem.free, begin, end) /\ Rehome(S, mem.free)
      BY <1>1, <1>8, DiscardIsMove
    <2>. QED
      BY <2>1, <1>1, <1>2, MoveImplements DEF Lists!Next, Lists!List, List
  <1>9. ASSUME NEW S, NEW res, Publish(S, res)
        PROVE  [Lists!Next]_(Lists!lvars)
    <2>1. CASE mem.free = mem.next[FreeBegin]
      <3>1. mem' = mem
        BY <2>1, <1>1, <1>9, PublishIsMove
      <3>. QED
        BY <3>1, <1>1 DEF Lists!lvars
    <2>2. CASE mem.free # mem.next[FreeBegin]
      <3>1. /\ mem.exit = 0 /\ home[res] # "free" /\ Rehome(S, res)
            /\ mem' = ListSplice(mem, res, mem.next[FreeBegin], mem.prev[mem.free])
            /\ Movable(S, res, mem.next[FreeBegin], mem.prev[mem.free])
        BY <2>2, <1>1, <1>9, PublishIsMove
      <3>. QED
        BY <3>1, <2>2, <1>1, <1>2, PublishImplements DEF Lists!Next
    <2>. QED
      BY <2>1, <2>2
  <1>. QED
    BY <1>1, <1>4, <1>5, <1>6, <1>7, <1>8, <1>9 DEF Next

LEMMA InitImplements ==
  MCInit => MInv /\ Lists!Init
  <1>. SUFFICES ASSUME MCInit PROVE MInv /\ Lists!Init
    OBVIOUS
  <1>1. /\ Init /\ abstract = Abstraction(mem)
    BY DEF MCInit
  <1>2. OInv
    BY <1>1, InitOrdered
  <1>3. mem.free = FreeEnd /\ mem.used = 0 /\ mem.exit = 0 /\ Owned(mem) = {}
    BY <1>1 DEF Init, InitialMemory, Owned
  <1>4. WholeChunks
    <2>1. 0 \in 0 .. MaxChunks /\ ChunkSize * 0 = 0
      BY ChunkAssumption
    <2>. QED
      BY <2>1, <1>3 DEF WholeChunks
  <1>5. Sound(mem, home)
    BY <1>2, SoundIsIInv DEF OInv
  <1>6. PICK pos : IsOrder(mem, home, pos)
    BY <1>2 DEF OInv, Ordered, IsOrdered
  <1>7. \A l \in List : pos[End(l)] = 1
    <2>1. /\ pos[FreeEnd] + pos[ViewEnd] + pos[BuriedEnd] = 3
      BY <1>3, <1>6 DEF IsOrder
    <2>2. /\ pos[FreeEnd] \in Nat /\ pos[ViewEnd] \in Nat /\ pos[BuriedEnd] \in Nat
          /\ pos[FreeEnd] >= 1 /\ pos[ViewEnd] >= 1 /\ pos[BuriedEnd] >= 1
      BY <1>5, <1>6, EndOrder, SentinelLists DEF List
    <2>. QED
      BY <2>1, <2>2, SentinelLists DEF List
  <1>8. abstract.list = ListsOf(mem, home, pos) /\ abstract.built = pos[mem.free] - 1
    BY <1>1, <1>5, <1>6, MappedState
  <1>9. \A l \in List : ListsOf(mem, home, pos)[l] = << >>
    <2>. TAKE l \in List
    <2>1. /\ ListsOf(mem, home, pos)[l] \in Seq(Addr)
          /\ Len(ListsOf(mem, home, pos)[l]) = pos[End(l)] - 1
      BY <1>5, <1>6, ListAt
    <2>. QED
      BY <2>1, <1>7
  <1>10. ListsOf(mem, home, pos) = [l \in List |-> ListsOf(mem, home, pos)[l]]
    BY DEF ListsOf
  <1>11. abstract.list = [l \in Lists!List |-> << >>]
    BY <1>8, <1>9, <1>10 DEF Lists!List, List
  <1>12. abstract.built = 0
    BY <1>3, <1>7, <1>8, SentinelLists DEF List
  <1>. QED
    BY <1>1, <1>2, <1>3, <1>4, <1>11, <1>12 DEF Lists!Init, MInv

(* The pointer operations of refal05rts.c implement the three sequences of ListStore, for
   every chunk size, number of chunks, memory limit and set of symbols. *)
THEOREM ListsImplemented == MCSpec => ImplementsLists
  <1>1. MCInit => MInv /\ Lists!Init
    BY InitImplements
  <1>2. MInv /\ [MCNext]_<<vars, abstract>> => MInv' /\ IInv'
    <2>. SUFFICES ASSUME MInv, [MCNext]_<<vars, abstract>> PROVE MInv' /\ IInv'
      OBVIOUS
    <2>1. [Next]_vars /\ abstract' = Abstraction(mem')
      BY DEF MCNext, MInv, vars
    <2>2. OInv' /\ IInv'
      BY <2>1, NextOrdered DEF MInv, OInv
    <2>3. WholeChunks'
      BY <2>1, ChunksStayWhole DEF MInv, OInv
    <2>. QED
      BY <2>1, <2>2, <2>3 DEF MInv
  <1>3. MInv /\ IInv' /\ [MCNext]_<<vars, abstract>> => [Lists!Next]_(Lists!lvars)
    <2>1. CASE UNCHANGED <<vars, abstract>>
      BY <2>1 DEF vars, Lists!lvars
    <2>. QED
      BY <2>1, StepImplements
  <1>. QED
    BY <1>1, <1>2, <1>3, PTL DEF MCSpec, ImplementsLists, Lists!Spec
=============================================================================
