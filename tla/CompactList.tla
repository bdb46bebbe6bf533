---------------------------- MODULE CompactList ----------------------------
(***************************************************************************)
(* Lists of macronodes (lib/compact_list.c): a macronode holds several     *)
(* items in an array; a list is a chain of macronodes between two without  *)
(* capacity.  A round bracket knows its partner by macronode and offset,   *)
(* so whatever moves items mends the brackets that point at them and       *)
(* reports the move to the table of handles.                               *)
(*                                                                         *)
(* A macronode is named by its macro_id, which is what slots keep, where   *)
(* links keep its address: both are unique among the macronodes alive.     *)
(* The least free id is used, where the code takes the one freed last.     *)
(* Indices start at 0 as in the code; index i is place i + 1 of a sequence. *)
(***************************************************************************)
EXTENDS HandleTable

CONSTANTS
  MinBucket,      \* CM_MIN_BUCKET
  MaxMacronode,   \* R05_MAX_MACRONODE
  MaxCapacity     \* SHRT_MAX, as capacities and offsets are shorts

ASSUME BucketAssumption ==
  /\ MinBucket \in Nat \ {0}
  /\ MaxMacronode \in Nat \ {0}
  /\ MaxCapacity \in Nat \ {0}

\* An item is [id, bracket, link, offset]; id stands for what it holds, link = 0 is NULL.
Atom(id)    == [id |-> id, bracket |-> FALSE, link |-> 0, offset |-> 0]
Bracket(id) == [id |-> id, bracket |-> TRUE,  link |-> 0, offset |-> 0]

NoMacro == [prev |-> 0, next |-> 0, capacity |-> 0, items |-> <<>>, chain |-> {}, map |-> {}]

Count(h, m)      == Len(h.macro[m].items)
IsSentinel(h, m) == h.macro[m].capacity = 0
Pos(m, i)        == [macro |-> m, index |-> i]
HasItem(h, pos)  == pos.macro \in h.live /\ pos.index \in 0 .. Count(h, pos.macro) - 1
ItemAt(h, pos)   == IF HasItem(h, pos)
                    THEN h.macro[pos.macro].items[pos.index + 1]
                    ELSE Atom(0)

MacroWeld(h, left, right) ==
  [h EXCEPT !.macro[left].next = right, !.macro[right].prev = left]

MacroInsert(h, prev, m, next) == MacroWeld(MacroWeld(h, prev, m), m, next)

GrowCapacity(current, need) ==
  LET base == IF current < MinBucket THEN MinBucket ELSE current
  IN  Least({c \in base .. base + need + MinBucket : c >= need /\ (c - base) % MinBucket = 0})

\* The macronode that cm_macronode_alloc would return.
NextMacro(h) == Least(Macro \ h.live)

MacronodeAlloc(h, capacity) ==
  LET m == NextMacro(h)
  IN  [Check(h, capacity \in 0 .. MaxCapacity)
        EXCEPT !.live     = @ \cup {m},
               !.macro[m] = [NoMacro EXCEPT !.capacity = capacity]]

Unregister(h, m) == [h EXCEPT !.live = @ \ {m}, !.macro[m] = NoMacro]

MacronodeFree(h, m) == Unregister(SlotsKillMacro(h, m), m)

\* Mutant of Pointers: the bracket at from itself is passed over.
PointersBehind(h, old, from) ==
  {p \in UNION {{m} \X DOMAIN h.macro[m].items : m \in h.live} :
     LET item == h.macro[p[1]].items[p[2]]
     IN  item.bracket /\ item.link = old /\ item.offset > from}

\* The places of the brackets, in any macronode, that point at index from or later of old.
Pointers(h, old, from) ==
  {p \in UNION {{m} \X DOMAIN h.macro[m].items : m \in h.live} :
     LET item == h.macro[p[1]].items[p[2]]
     IN  item.bracket /\ item.link = old /\ item.offset >= from}

TransformBracketTargets(h, old, from, new, delta) ==
  LET Mend(p, g) == [g EXCEPT !.macro[p[1]].items[p[2]] =
                       [@ EXCEPT !.link = new, !.offset = @ + delta]]
  IN  FoldSet(Mend, h, Pointers(h, old, from))

UnlinkBracket(h, item) ==
  IF item.bracket /\ item.link # 0
  THEN [h EXCEPT !.macro[item.link].items[item.offset + 1].link = 0,
                 !.macro[item.link].items[item.offset + 1].offset = 0]
  ELSE h

-----------------------------------------------------------------------------
(* Growing, splitting and merging macronodes.                               *)

\* The heap after m was replaced by a macronode of another capacity, and that macronode.
MacroGrow(h, m, capacity) ==
  LET grown == NextMacro(h)
      Filled(g) == [g EXCEPT !.macro[grown] = [@ EXCEPT !.items = g.macro[m].items,
                                                        !.chain = g.macro[m].chain]]
      Linked(g) == MacroInsert(g, g.macro[m].prev, grown, g.macro[m].next)
      allocated == MacronodeAlloc(Check(h, capacity >= Count(h, m)), capacity)
  IN  [heap |-> Unregister(SlotsRelocateMacro(Linked(Filled(
                  TransformBracketTargets(allocated, m, 0, grown, 0))), grown), m),
       macro |-> grown]

\* The heap with a macronode that starts at pos, and pos in it.
Split(h, pos) ==
  LET left  == pos.macro
      count == Count(h, left)
      right == NextMacro(h)
      Filled(g) == [g EXCEPT !.macro[right].items =
                      SubSeq(g.macro[left].items, pos.index + 1, count)]
      Cut(g)    == [g EXCEPT !.macro[left].items = SubSeq(@, 1, pos.index)]
      mended    == TransformBracketTargets(MacronodeAlloc(h, count - pos.index),
                                           left, pos.index, right, -pos.index)
  IN  IF pos.index = 0
      THEN [heap |-> h, pos |-> pos]
      ELSE [heap |-> MacroInsert(Cut(SlotsMoveRange(Filled(mended), left, pos.index, count, right, 0)),
                                 left, right, h.macro[left].next),
            pos  |-> Pos(right, 0)]

Merge(h, left, right) ==
  LET at     == Count(h, left)
      behind == h.macro[right].next
      Joined(g) == [g EXCEPT !.macro[left].items = @ \o g.macro[right].items]
      mended    == TransformBracketTargets(Check(h, h.macro[left].next = right), right, 0, left, at)
  IN  IF at + Count(h, right) > h.macro[left].capacity
      THEN h
      ELSE MacronodeFree(MacroWeld(SlotsMoveRange(Joined(mended), right, 0, Count(h, right), left, at),
                                   left, behind), right)

\* The heap, and the macronode that holds what left held.
MergeGrowingLeft(h, left, right) ==
  LET total == Count(h, left) + Count(h, right)
      g0 == Check(h, h.macro[left].next = right)
      Merged(g) == [heap |-> Merge(g.heap, g.macro, right), macro |-> g.macro]
  IN  IF IsSentinel(h, left) \/ IsSentinel(h, right) \/ total > MaxMacronode
      THEN [heap |-> g0, macro |-> left]
      ELSE Merged(IF total > h.macro[left].capacity
                  THEN MacroGrow(g0, left, total)
                  ELSE [heap |-> g0, macro |-> left])

-----------------------------------------------------------------------------
(* Lists.  A list is [head, tail].                                          *)

ListCreate(h) ==
  LET h1 == MacronodeAlloc(h, 0)
      h2 == MacronodeAlloc(h1, 0)
      list == [head |-> NextMacro(h), tail |-> NextMacro(h1)]
  IN  [heap |-> MacroWeld(h2, list.head, list.tail), list |-> list]

\* The macronodes of a list in their order, without the two at its ends.
Macros(h, list) ==
  LET hops[n \in 0 .. MaxMacro] ==
        IF n = 0
        THEN <<>>
        ELSE LET seen == hops[n - 1]
                 next == h.macro[IF seen = <<>> THEN list.head ELSE Last(seen)].next
             IN  IF next \in {0, list.tail} THEN seen ELSE Append(seen, next)
  IN  hops[MaxMacro]

ListDestroy(h, list) ==
  FoldLeft(MacronodeFree, h, <<list.head>> \o Macros(h, list) \o <<list.tail>>)

\* Only the macronodes at the ends are ever empty, so the loops that skip empty ones do not turn.
ListBegin(h, list) == Pos(h.macro[list.head].next, 0)
ListEnd(h, list)   == Pos(list.tail, 0)
ListEmpty(h, list) == ListBegin(h, list) = ListEnd(h, list)

\* Mutant of IterNext: off by one, the last item of a macronode is passed over.
IterNextEarly(h, pos) ==
  IF pos.index + 2 < Count(h, pos.macro)
  THEN Pos(pos.macro, pos.index + 1)
  ELSE Pos(h.macro[pos.macro].next, 0)

IterNext(h, pos) ==
  IF pos.index + 1 < Count(h, pos.macro)
  THEN Pos(pos.macro, pos.index + 1)
  ELSE Pos(h.macro[pos.macro].next, 0)

IterPrev(h, pos) ==
  LET before == h.macro[pos.macro].prev
  IN  CASE pos.index > 0                              -> Pos(pos.macro, pos.index - 1)
        [] pos.index = 0 /\ Count(h, before) = 0      -> Pos(before, 0)
        [] OTHER                                      -> Pos(before, Count(h, before) - 1)

\* The heap with item at the end of the list, and its position.
PushBack(h, list, item) ==
  LET last == h.macro[list.tail].prev
      new  == NextMacro(h)
  IN  IF last # list.head /\ Count(h, last) < h.macro[last].capacity
      THEN [heap |-> [h EXCEPT !.macro[last].items = Append(@, item)],
            pos  |-> Pos(last, Count(h, last))]
      ELSE [heap |-> MacroInsert(
              [MacronodeAlloc(h, GrowCapacity(0, 1)) EXCEPT !.macro[new].items = <<item>>],
              last, new, list.tail),
            pos  |-> Pos(new, 0)]

PushBackBulk(h, list, items) ==
  LET new == NextMacro(h)
  IN  MacroInsert([MacronodeAlloc(h, Len(items)) EXCEPT !.macro[new].items = @ \o items],
                  h.macro[list.tail].prev, new, list.tail)

-----------------------------------------------------------------------------
(* Removing and moving items.                                               *)

\* The heap, and the position of the item that followed.
RemoveOnly(h, pos) ==
  LET m     == pos.macro
      left  == h.macro[m].prev
      right == h.macro[m].next
      Closed(g) == IF /\ ~IsSentinel(g, left) /\ ~IsSentinel(g, right)
                      /\ Count(g, left) + Count(g, right) <= g.macro[left].capacity
                   THEN [heap |-> Merge(g, left, right), pos |-> Pos(left, Count(g, left))]
                   ELSE [heap |-> g, pos |-> Pos(right, 0)]
      killed == SlotsKillAt(UnlinkBracket(h, ItemAt(h, pos)), m, pos.index)
  IN  Closed(MacronodeFree(MacroWeld(killed, left, right), m))

RemoveOneOf(h, pos) ==
  LET m     == pos.macro
      i     == pos.index
      right == h.macro[m].next
      Cut(g) == [g EXCEPT !.macro[m].items = RemoveAt(@, i + 1)]
      Closed(g) ==
        CASE i < Count(g, m) -> [heap |-> g, pos |-> pos]
          [] /\ i >= Count(g, m) /\ ~IsSentinel(g, right)
             /\ Count(g, m) + Count(g, right) <= g.macro[m].capacity ->
               [heap |-> Merge(g, m, right), pos |-> Pos(m, Count(g, m))]
          [] OTHER -> [heap |-> g, pos |-> Pos(right, 0)]
      Shifted(g) == IF i + 1 < Count(h, m)
                    THEN SlotsShiftInMacro(Cut(TransformBracketTargets(g, m, i + 1, m, -1)),
                                           m, i + 1, -1)
                    ELSE Cut(g)
  IN  Closed(Shifted(SlotsKillAt(UnlinkBracket(h, ItemAt(h, pos)), m, i)))

\* Mutant of RemoveItem: a macronode whose last item dies is kept.
RemoveItemInPlace(h, pos) == RemoveOneOf(h, pos)

RemoveItem(h, pos) ==
  LET checked == Check(h, HasItem(h, pos))
  IN  IF Count(h, pos.macro) = 1 THEN RemoveOnly(checked, pos) ELSE RemoveOneOf(checked, pos)

\* The heap in which begin and the item behind end start macronodes of their own,
\* and the first and the last macronode of the range.
SplitAround(h, begin, end) ==
  LET Behind(g, first, last) ==
        [heap  |-> IF last.index + 1 < Count(g, last.macro)
                   THEN Split(g, Pos(last.macro, last.index + 1)).heap
                   ELSE g,
         first |-> first,
         last  |-> last.macro]
      From(s) == Behind(s.heap, s.pos.macro,
                        IF begin.macro = end.macro
                        THEN Pos(s.pos.macro, end.index - begin.index)
                        ELSE end)
  IN  From(Split(h, begin))

CloseGap(h, left, right, dest) ==
  LET welded == MacroWeld(h, left, right)
  IN  IF left # dest /\ right # dest THEN MergeGrowingLeft(welded, left, right).heap ELSE welded

\* Macronodes first .. last go between before and dest.
OpenGap(h, before, first, last, dest) ==
  LET Left(m) == MergeGrowingLeft(m.heap, before, IF first = last THEN m.macro ELSE first).heap
  IN  Left(MergeGrowingLeft(MacroWeld(MacroWeld(h, before, first), last, dest), last, dest))

\* begin .. end goes in front of dest.
Splice(h, dest, begin, end) ==
  LET Moved(g, first, last, d) ==
        OpenGap(CloseGap(g, g.macro[first].prev, g.macro[last].next, d), g.macro[d].prev, first, last, d)
      To(r, s) == Moved(s.heap, r.first, r.last, s.pos.macro)
      Cut(r)   == To(r, Split(r.heap, dest))
  IN  Cut(SplitAround(h, begin, end))

CompactWholeList(h, list) ==
  LET \* the last macronode gives up what it does not use
      Fit(g, cur) == [heap |-> IF g.macro[cur].capacity > Count(g, cur)
                               THEN MacroGrow(g, cur, Count(g, cur)).heap
                               ELSE g,
                      cur  |-> list.tail]
      \* others take in the next one, as often as it fits
      Behind(m) == [heap |-> m.heap,
                    cur  |-> LET next == m.heap.macro[m.macro].next
                             IN  IF Count(m.heap, m.macro) + Count(m.heap, next) > MaxMacronode
                                 THEN next
                                 ELSE m.macro]
      Visit(at, n) ==
        CASE at.cur = list.tail -> at
          [] at.cur # list.tail /\ at.heap.macro[at.cur].next = list.tail -> Fit(at.heap, at.cur)
          [] OTHER -> Behind(MergeGrowingLeft(at.heap, at.cur, at.heap.macro[at.cur].next))
  IN  FoldLeft(Visit, [heap |-> h, cur |-> h.macro[list.head].next],
               [n \in 1 .. 2 * MaxMacro |-> n]).heap
=============================================================================
