--------------------------- MODULE CompactStorage ---------------------------
(***************************************************************************)
(* The runtime's storage in the build with R05_COMPACT_HANDLES: the view   *)
(* field, the buried store and the result under construction as compact    *)
(* lists (lib/compact_runtime_storage.c), used through handles             *)
(* (lib/compact_iter.c) by the functions that the main loop calls, one     *)
(* frame per call (lib/refal05rts.c 1236-1255).                            *)
(*                                                                         *)
(* A function may use every handle that lives: those it got in its frame   *)
(* and those that last, on the call stack.  What its callers see to is in  *)
(* the guards: begin .. end is a range of one list, and dest lies in       *)
(* another list or before it.                                              *)
(***************************************************************************)
EXTENDS CompactList, FiniteSets

CONSTANTS
  MaxItem,          \* items alive at a time
  MaxLiteral,       \* chars of the longest string literal; neither compiler nor runtime bounds it
  MaxLasting,       \* handles alive between two calls: the depth of the call stack
  Reached,          \* the lists whose ends functions ask for
  Kinds             \* the kinds of items: TRUE is a round bracket, FALSE anything else

ASSUME StorageAssumption ==
  /\ {MaxItem, MaxLiteral, MaxLasting} \subseteq Nat
  /\ Reached \subseteq {"view", "buried"}
  /\ Kinds \subseteq BOOLEAN

VARIABLES
  heap,      \* macronodes and slots
  store,     \* compact_runtime_storage_t: view, buried, build and pending_insert_pos
  abstract   \* history: what heap and store mean; the C code has no such variable

cvars == <<heap, store, abstract>>

Item == 1 .. MaxItem

Meaning == INSTANCE ItemLists WITH
  Handle  <- Slot \X (0 .. Generations - 1),
  list    <- abstract.list,
  partner <- abstract.partner,
  denotes <- abstract.denotes,
  lasting <- abstract.lasting,
  hole    <- abstract.hole,
  inside  <- abstract.inside

List  == Meaning!List
Begin == Meaning!Begin
End   == Meaning!End

-----------------------------------------------------------------------------
(* What the storage means: sequences of items, and what handles denote.     *)

Items(h, list) == FlattenSeq([i \in DOMAIN Macros(h, list) |-> h.macro[Macros(h, list)[i]].items])

Handles(h) == {HandleOf(h, s) : s \in {t \in Slot : h.slot[t].macro # 0}}

Denoted(h, st, it) ==
  LET pos  == Deref(h, it)
      head == {l \in List : st[l].head = pos.macro}
      tail == {l \in List : st[l].tail = pos.macro}
  IN  CASE head # {} -> Begin[CHOOSE l \in head : TRUE]
        [] tail # {} -> End[CHOOSE l \in tail : TRUE]
        [] OTHER     -> ItemAt(h, pos).id

\* @@ <<>> and \o <<>> change nothing, but let TLC store a value and not how to compute it.
Abstraction(h, st) ==
  LET held == [l \in List |-> Items(h, st[l])]
      all  == UNION {ToSet(held[l]) : l \in List}
      linked == {item \in all : item.bracket /\ item.link # 0}
  IN  [list    |-> [l \in List |-> [i \in DOMAIN held[l] |-> held[l][i].id] \o <<>>] @@ <<>>,
       partner |-> {<<item.id, ItemAt(h, Pos(item.link, item.offset)).id>> : item \in linked},
       denotes |-> [it \in Handles(h) |-> Denoted(h, st, it)] @@ <<>>,
       \* slots of no frame: the call stack, and the handles the main loop takes itself
       lasting |-> {it \in Handles(h) : h.slot[it[1]].frame = 0},
       hole    |-> IF st.pending = NullHandle THEN 0 ELSE Denoted(h, st, st.pending),
       inside  |-> h.frame # 0]

Handle     == DOMAIN abstract.denotes
IsItem(it) == abstract.denotes[it] \in Item
ListOf(it) == CHOOSE l \in List : abstract.denotes[it] \in
                                    {Begin[l], End[l]} \cup ToSet(abstract.list[l])
Place(it)  == LET ids == abstract.list[ListOf(it)]
              IN  CHOOSE i \in DOMAIN ids : ids[i] = abstract.denotes[it]
AtBegin(it) == \E l \in List : abstract.denotes[it] = Begin[l]
AtEnd(it)   == \E l \in List : abstract.denotes[it] = End[l]
ItemOf(it)  == ItemAt(heap, Deref(heap, it))

FreshItem == Item \ UNION {ToSet(abstract.list[l]) : l \in List}
NewItem   == Least(FreshItem)
FreeSlot  == \E s \in Slot : heap.slot[s].macro = 0

Within(begin, end) == {abstract.list[ListOf(begin)][i] : i \in Place(begin) .. Place(end)}

\* Values of variables and calls are moved and removed, so brackets go in pairs.
IsRange(begin, end) ==
  /\ IsItem(begin) /\ IsItem(end)
  /\ ListOf(begin) = ListOf(end)
  /\ ListOf(begin) # "build"
  /\ Place(begin) <= Place(end)
  /\ \A pair \in abstract.partner :
       pair[1] \in Within(begin, end) <=> pair[2] \in Within(begin, end)

-----------------------------------------------------------------------------
Init ==
  LET h0 == [macro |-> [m \in Macro |-> NoMacro] @@ <<>>, live |-> {},
             slot |-> [s \in Slot |-> NoSlot] @@ <<>>, frame |-> 0, nextFrame |-> 1, frameHead |-> 0,
             failed |-> FALSE]
      view   == ListCreate(h0)
      build  == ListCreate(view.heap)
      buried == ListCreate(build.heap)
  IN  /\ heap = buried.heap
      /\ store = [view |-> view.list, build |-> build.list, buried |-> buried.list,
                  pending |-> NullHandle]
      /\ abstract = Abstraction(heap, store)

Becomes(h, st) == heap' = h /\ store' = st /\ abstract' = Abstraction(heap', store')

InFrame  == heap.frame # 0 /\ ~heap.failed
NoFrame  == heap.frame = 0 /\ ~heap.failed

EnterFunction == NoFrame /\ Becomes(FrameBegin(heap), store)

\* Whoever asks for an insert position goes on to fill it or to publish the result.
LeaveFunction ==
  /\ InFrame /\ store.pending = NullHandle
  /\ Becomes(FrameEnd(heap), store)

\* after_step: R05_COMPACT_AUTO_COMPACT.
Compact ==
  /\ NoFrame
  /\ Becomes(CompactWholeList(CompactWholeList(CompactWholeList(
               heap, store.view), store.build), store.buried), store)

\* A handle of a position: crs_view_begin, cl_iter_next, cl_iter_link and their like.
HandleFor(pos) == FreeSlot /\ Becomes(IterAlloc(heap, pos.macro, pos.index).heap, store)

BeginOf(l) == InFrame /\ HandleFor(ListBegin(heap, store[l]))
EndOf(l)   == InFrame /\ HandleFor(ListEnd(heap, store[l]))

\* The placeholder of r05_insert_pos is nobody's item yet.
IsWritten(it) == IsItem(it) /\ abstract.denotes[it] # abstract.hole

CanLast == Cardinality(abstract.lasting) < MaxLasting

\* The main loop looks at the function of a call before it begins the frame.
IterNextOf(it) ==
  /\ ~heap.failed
  /\ heap.frame = 0 => CanLast
  /\ ListOf(it) # "build" /\ ~AtEnd(it)
  /\ HandleFor(IterNext(heap, Deref(heap, it)))

IterPrevOf(it) ==
  /\ InFrame
  /\ ListOf(it) # "build" /\ ~AtBegin(it)
  /\ HandleFor(IterPrev(heap, Deref(heap, it)))

IterLink(it) ==
  /\ InFrame /\ IsItem(it)
  /\ ItemOf(it).link # 0
  /\ HandleFor(Pos(ItemOf(it).link, ItemOf(it).offset))

\* r05_link_brackets on two brackets that are not linked yet.
SetLink(h, it, target) ==
  LET pos == Deref(h, it)
      to  == Deref(h, target)
  IN  [h EXCEPT !.macro[pos.macro].items[pos.index + 1] =
        [@ EXCEPT !.link = to.macro, !.offset = to.index]]

LinkBrackets(left, right) ==
  /\ InFrame /\ left # right /\ ListOf(left) = ListOf(right)
  /\ \A it \in {left, right} :
       IsWritten(it) /\ ItemOf(it).bracket /\ ItemOf(it).link = 0
  /\ Becomes(SetLink(SetLink(heap, left, right), right, left), store)

\* cl_iter_set_tag: to a round bracket (of a call bracket, by the library) or from one.
SetTag(it, bracket) ==
  /\ InFrame /\ IsWritten(it)
  /\ LET pos  == Deref(heap, it)
         item == ItemAt(heap, pos)
         partner == ItemAt(heap, Pos(item.link, item.offset))
         h1 == IF /\ item.bracket /\ item.link # 0
                  /\ partner.bracket /\ partner.link = pos.macro /\ partner.offset = pos.index
               THEN UnlinkBracket(heap, item)
               ELSE heap
     IN  Becomes([h1 EXCEPT !.macro[pos.macro].items[pos.index + 1] =
                    IF bracket THEN Bracket(item.id) ELSE Atom(item.id)], store)

Push(it) == InFrame /\ IsWritten(it) /\ CanLast /\ Becomes(Escape(heap, it), store)

\* No function destroys what it has pushed on the call stack itself.
NotPushed(items) ==
  \A s \in ToSet(FrameList(heap)) :
    HandleOf(heap, s) \in abstract.lasting => abstract.denotes[HandleOf(heap, s)] \notin items

-----------------------------------------------------------------------------
(* Building a result.                                                       *)

Pending(it) == [store EXCEPT !.pending = it]

ResetBuild ==
  /\ InFrame /\ NotPushed(ToSet(abstract.list["build"]))
  /\ IF ListEmpty(heap, store.build)
     THEN Becomes(heap, Pending(NullHandle))
     ELSE LET new == ListCreate(ListDestroy(heap, store.build))
          IN  Becomes(new.heap, [Pending(NullHandle) EXCEPT !.build = new.list])

\* The placeholder becomes the next item that is allocated.
FillPending(bracket) ==
  LET pos == Deref(heap, store.pending)
      id  == ItemAt(heap, pos).id
  IN  [Check(heap, HasItem(heap, pos)) EXCEPT !.macro[pos.macro].items[pos.index + 1] =
        IF bracket THEN Bracket(id) ELSE Atom(id)]

HasPending == store.pending # NullHandle
Pushed(bracket) ==
  PushBack(heap, store.build, IF bracket THEN Bracket(NewItem) ELSE Atom(NewItem))

AllocNode(bracket) ==
  /\ InFrame
  /\ \/ HasPending /\ Becomes(FillPending(bracket), Pending(NullHandle))
     \/ /\ ~HasPending /\ FreshItem # {} /\ FreeSlot
        /\ LET new == Pushed(bracket)
           IN  Becomes(IterAlloc(new.heap, new.pos.macro, new.pos.index).heap, store)

\* crs_alloc_item: as AllocNode, but no handle is made.
AllocItem ==
  /\ InFrame /\ FALSE \in Kinds
  /\ \/ HasPending /\ Becomes(FillPending(FALSE), Pending(NullHandle))
     \/ ~HasPending /\ FreshItem # {} /\ Becomes(Pushed(FALSE).heap, store)

AllocChars(n) ==
  /\ InFrame /\ FALSE \in Kinds /\ n > 0
  /\ LET h    == IF HasPending THEN FillPending(FALSE) ELSE heap
         rest == IF HasPending THEN n - 1 ELSE n
         ids  == SetToSortSeq(FreshItem, <)
     IN  /\ rest <= Len(ids)
         /\ Becomes(IF rest = 0
                    THEN h
                    ELSE PushBackBulk(h, store.build, [i \in 1 .. rest |-> Atom(ids[i])]),
                    Pending(NullHandle))

InsertPos ==
  /\ InFrame
  /\ \/ HasPending /\ UNCHANGED cvars
     \/ /\ ~HasPending /\ FreshItem # {} /\ FreeSlot
        /\ LET new == Pushed(FALSE)
               got == IterAlloc(new.heap, new.pos.macro, new.pos.index)
           IN  Becomes(got.heap, Pending(got.it))

-----------------------------------------------------------------------------
(* Moving and removing.                                                     *)

SpliceBefore(dest, begin, end) ==
  /\ InFrame
  /\ IsRange(begin, end)
  /\ ~AtBegin(dest)
  /\ ListOf(dest) = "build" => IsItem(dest)
  /\ ListOf(dest) = ListOf(begin) => IsItem(dest) /\ Place(dest) < Place(begin)
  /\ Becomes(Splice(heap, Deref(heap, dest), Deref(heap, begin), Deref(heap, end)), store)

Published(h)     == Becomes(Check(h, ListEmpty(h, store.build)), Pending(NullHandle))
WithoutHole(h)   == RemoveItem(h, Deref(h, store.pending)).heap
BuildUpTo(at, i) == Splice(heap, at, ListBegin(heap, store.build), IterPrev(heap, i))

SpliceFromBuild(dest) ==
  /\ InFrame
  /\ ListOf(dest) # "build" /\ ~AtBegin(dest)
  /\ LET at   == Deref(heap, dest)
         hole == Deref(heap, store.pending)
         onlyHole == HasPending /\ ListBegin(heap, store.build) = hole
     IN  \/ ListEmpty(heap, store.build) /\ UNCHANGED cvars
         \/ onlyHole /\ Published(WithoutHole(heap))
         \/ HasPending /\ ~onlyHole /\ Published(WithoutHole(BuildUpTo(at, hole)))
         \/ /\ ~HasPending /\ ~ListEmpty(heap, store.build)
            /\ Published(BuildUpTo(at, ListEnd(heap, store.build)))

\* Items go one by one until the position that the handle behind the range has by then.
RemoveAll(begin, end) ==
  LET behind == IterNext(heap, Deref(heap, end))
      Upto(after) ==
        LET Step(at, n) == IF at.pos = Deref(at.heap, after.it) THEN at ELSE RemoveItem(at.heap, at.pos)
        IN  FoldLeft(Step, [heap |-> after.heap, pos |-> Deref(heap, begin)],
                     [n \in 1 .. MaxItem |-> n]).heap
  IN  Upto(IterAlloc(heap, behind.macro, behind.index))

RemoveRange(begin, end) ==
  /\ InFrame /\ FreeSlot
  /\ IsRange(begin, end)
  /\ NotPushed(Within(begin, end))
  /\ Becomes(RemoveAll(begin, end), store)

Next ==
  \/ EnterFunction \/ LeaveFunction \/ Compact
  \/ \E l \in Reached : BeginOf(l) \/ EndOf(l)
  \/ \E it \in Handle : IterNextOf(it) \/ IterPrevOf(it) \/ IterLink(it) \/ Push(it)
  \/ \E left, right \in Handle : LinkBrackets(left, right)
  \/ \E it \in Handle, bracket \in Kinds : SetTag(it, bracket)
  \/ ResetBuild \/ AllocItem \/ InsertPos
  \/ \E bracket \in Kinds : AllocNode(bracket)
  \/ \E n \in 1 .. MaxLiteral : AllocChars(n)
  \/ \E dest, begin, end \in Handle : SpliceBefore(dest, begin, end)
  \/ \E dest \in Handle : SpliceFromBuild(dest)
  \/ \E begin, end \in Handle : RemoveRange(begin, end)

Spec == Init /\ [][Next]_cvars

-----------------------------------------------------------------------------
(* Properties.                                                              *)

(* The storage does to its lists, links and handles what ItemLists says:
   handles follow their items through splits, merges and compaction, and
   exactly those on the call stack survive the frame. *)
ImplementsItemLists == Meaning!Spec

(* cl_iter_alloc: two slots alive never name one position, and the map of a
   macronode finds each slot of its chain that has an index below the
   capacity; otherwise one item would get two handles. *)
SlotsKnown ==
  /\ \A s \in Slot : heap.slot[s].macro # 0 => s \in heap.macro[heap.slot[s].macro].chain
  /\ \A m \in heap.live :
       /\ \A s \in heap.macro[m].chain :
            /\ heap.slot[s].macro = m
            /\ SlotsAt(heap, m, heap.slot[s].index) = {s}
       /\ heap.macro[m].map = {<<heap.slot[s].index, s>> :
            s \in {t \in heap.macro[m].chain : heap.slot[t].index < heap.macro[m].capacity}}

(* Only the two macronodes at the ends of a list are empty: cm_list_begin,
   cm_iter_next and cm_remove rely on it when they look at a neighbour. *)
NoEmptyMacronode ==
  \A m \in heap.live :
    IF m \in UNION {{store[l].head, store[l].tail} : l \in List}
    THEN Count(heap, m) = 0
    ELSE Count(heap, m) \in 1 .. heap.macro[m].capacity

(* cl_iter_next from a handle reaches the next item, or the end, of the list. *)
NextIsNext ==
  \A it \in Handle :
    LET next == IterNext(heap, Deref(heap, it))
        ids  == abstract.list[ListOf(it)]
        place == IF AtBegin(it) THEN 0 ELSE Place(it)
    IN  ~AtEnd(it) =>
          IF place = Len(ids)
          THEN next = ListEnd(heap, store[ListOf(it)])
          ELSE next.macro \in heap.live /\ ItemAt(heap, next).id = ids[place + 1]

(* No assertion of the files fails that is about lists, slots and frames, and
   macronodes keep below SHRT_MAX however they are split, merged and grown, as
   long as MaxLiteral <= MaxCapacity: a string literal becomes one macronode
   (cm_push_back_bulk), so a longer one does abort.  Memory that runs out and
   SLOT_ID_MAX are left out: there is a FreeSlot for each new handle. *)
NeverAborts == ~heap.failed

(* check_brackets_at: a linked bracket points at a bracket that points back. *)
BracketsMutual ==
  \A m \in heap.live : \A i \in DOMAIN heap.macro[m].items :
    LET item    == heap.macro[m].items[i]
        partner == ItemAt(heap, Pos(item.link, item.offset))
    IN  item.bracket /\ item.link # 0 =>
          /\ item.offset \in 0 .. Count(heap, item.link) - 1
          /\ partner.bracket
          /\ partner.link = m /\ partner.offset = i - 1
=============================================================================
