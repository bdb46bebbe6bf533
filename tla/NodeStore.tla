------------------------------ MODULE NodeStore ------------------------------
(***************************************************************************)
(* The allocator and the list operations of the runtime under any sequence *)
(* of calls its callers may make: generated functions, the library and the *)
(* buried store only ever move ranges of nodes between the three lists.    *)
(*                                                                         *)
(* One action per API call of lib/refal05rts.c.  What a caller must ensure *)
(* (the range it passes is part of one list, the destination is outside of *)
(* it) is the guard Movable; RefalMachine is the model of real callers.    *)
(***************************************************************************)
EXTENDS NodeMemory

CONSTANTS
  Limits,      \* the values R05_MEMORY_LIMIT is built with
  AllocTags    \* the tags callers allocate with

ASSUME StoreAssumption == Limits \subseteq Nat /\ AllocTags \subseteq Tag

VARIABLES
  mem,    \* the node memory
  home    \* history: the list an address belongs to; the C code has no such field

vars == <<mem, home>>

-----------------------------------------------------------------------------
(* Ranges.                                                                  *)

\* S is the range begin..end of one list: closed under next up to end, under prev down to begin.
IsRange(S, begin, end) ==
  /\ S \subseteq Owned(mem)
  /\ begin \in S /\ end \in S
  /\ \A x \in S \ {end}   : mem.next[x] \in S
  /\ \A x \in S \ {begin} : mem.prev[x] \in S
  /\ \A x \in S : home[x] = home[begin]
  /\ mem.next[end] \notin S
  /\ mem.prev[begin] \notin S

\* The contract of a splice: res is neither in the range nor the address after it.
Movable(S, res, begin, end) ==
  /\ IsRange(S, begin, end)
  /\ res \in (Owned(mem) \cup Ends) \ (S \cup {mem.next[end]})

-----------------------------------------------------------------------------
Init ==
  /\ \E limit \in Limits : mem = InitialMemory(limit)
  /\ home = [x \in Addr |->
               CASE x \in {FreeBegin, FreeEnd}     -> "free"
                 [] x \in {ViewBegin, ViewEnd}     -> "view"
                 [] x \in {BuriedBegin, BuriedEnd} -> "buried"
                 [] OTHER                          -> "none"]

Live == mem.exit = 0

\* Nodes of a chunk that has just been created are born in the free list.
Adopt(m) ==
  home' = [x \in Addr |-> IF x \in Owned(m) \ Owned(mem) THEN "free" ELSE home[x]]

Rehome(S, res) == home' = [x \in Addr |-> IF x \in S THEN home[res] ELSE home[x]]

Reset ==
  /\ Live
  /\ mem' = ResetAllocator(mem)
  /\ UNCHANGED home

Alloc(tag, info) ==
  /\ Live
  /\ mem' = AllocNode(mem, tag, info)
  /\ Adopt(mem')

Prepare ==
  /\ Live
  /\ mem' = InsertPos(mem)
  /\ Adopt(mem')

\* A matched variable, or a range of the library, moves to another place.
Move(S, res, begin, end) ==
  /\ Live
  /\ home[begin] # "free"
  /\ Movable(S, res, begin, end)
  /\ mem' = SpliceTevar(mem, res, <<begin, end>>)
  /\ Rehome(S, res)

\* The argument of a finished call returns to the free list.
Discard(S, begin, end) ==
  /\ Live
  /\ home[begin] # "free"
  /\ IsRange(S, begin, end)
  /\ mem' = SpliceToFreelist(mem, begin, end)
  /\ Rehome(S, FreeBegin)

\* The built prefix S of the free list replaces a call; nothing was built if S is empty.
Publish(S, pos) ==
  /\ Live
  /\ pos \in Owned(mem) \cup Ends
  /\ home[pos] # "free"
  /\ IF mem.free = mem.next[FreeBegin]
     THEN S = {}
     ELSE IsRange(S, mem.next[FreeBegin], mem.prev[mem.free])
  /\ mem' = SpliceFromFreelist(mem, pos)
  /\ Rehome(S, pos)

\* Which set is the range from begin to end.
RangeOf(begin, end) == Addresses(Path(mem, begin, end))

Built ==
  IF mem.free = mem.next[FreeBegin]
  THEN {}
  ELSE RangeOf(mem.next[FreeBegin], mem.prev[mem.free])

Next ==
  \/ Reset
  \/ \E tag \in AllocTags, info \in Symbol : Alloc(tag, info)
  \/ Prepare
  \/ \E begin, end \in Owned(mem), res \in Addr : Move(RangeOf(begin, end), res, begin, end)
  \/ \E begin, end \in Owned(mem) : Discard(RangeOf(begin, end), begin, end)
  \/ \E pos \in Addr : Publish(Built, pos)

Spec == Init /\ [][Next]_vars

-----------------------------------------------------------------------------
(* Properties.                                                              *)

TypeOK ==
  /\ mem \in Memory
  /\ home \in [Addr -> List \cup {"none"}]

(* next and prev are each other's inverses, and only the sentinels at the ends of the
   lists lack a neighbour: no operation leaves a one-sided link behind. *)
Linked == IsLinked(mem)

(* Neighbours live in the same list: a splice never leaves the view field joined to the
   free list or to the buried store. *)
IsSeparated(m, h) ==
  \A x \in Owned(m) \cup Sentinel :
    /\ h[x] \in List
    /\ x \notin Ends   => h[m.next[x]] = h[x]
    /\ x \notin Begins => h[m.prev[x]] = h[x]
Separated == IsSeparated(mem, home)

(* s_free_ptr is the sentinel at the end of the free list or a node of the free list, so
   no allocation hands out a node that the view field or the buried store uses, and
   everything built so far is a range of the free list. *)
FreePtrIsFree ==
  /\ mem.free \in Owned(mem) \cup {FreeEnd}
  /\ home[mem.free] = "free"
BuiltIsFree ==
  mem.free # mem.next[FreeBegin] =>
    IsRange(Built, mem.next[FreeBegin], mem.prev[mem.free]) /\ home[mem.prev[mem.free]] = "free"

(* No leak and no sharing: walking the lists from their sentinels meets every node that
   was ever created exactly once, in the list it belongs to. *)
Conservation ==
  /\ \A l \in List :
       LET c == Contents(mem, l)
       IN  /\ Path(mem, Begin(l), End(l))[Len(c) + 2] = End(l)
           /\ \A i, j \in 1 .. Len(c) : c[i] = c[j] => i = j
           /\ Addresses(c) = {x \in Owned(mem) : home[x] = l}
  /\ \A x \in Owned(mem) : home[x] \in List

=============================================================================
