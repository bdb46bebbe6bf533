-------------------------- MODULE MCCompactStorage --------------------------
(***************************************************************************)
(* CompactStorage for TLC.  Nothing depends on the numbers that name       *)
(* macronodes, slots and items, so two states are one if they differ by    *)
(* these alone: Shape numbers them by their place.  Of the order in which  *)
(* slots were allocated in the frame it keeps which slots FrameEnd visits. *)
(*                                                                         *)
(* Handles and links are mended by different loops of the same operations. *)
(* Each scope explores one of the two without the states of the other.     *)
(***************************************************************************)
EXTENDS CompactStorage

\* What there is of the bounds in a behaviour: the kind of its items, how many, and the handles that last.
Scopes == { [bracket |-> FALSE, items |-> 3, lasting |-> 2],     \* handles, frames and the call stack
            [bracket |-> TRUE,  items |-> 4, lasting |-> 0] }    \* links, and macronodes that split and merge

VARIABLE scope

\* The placeholder of an insert position is of no kind yet.
Fits(h, meaning) ==
  /\ Cardinality(meaning.lasting) <= scope.lasting
  /\ Len(meaning.list["view"]) + Len(meaning.list["buried"]) + Len(meaning.list["build"]) <= scope.items
  /\ \A m \in h.live : \A item \in ToSet(h.macro[m].items) :
       item.bracket = scope.bracket \/ item.id = meaning.hole

MCInit == Init /\ scope \in Scopes
MCNext == Next /\ UNCHANGED scope /\ Fits(heap', abstract')
MCSpec == MCInit /\ [][MCNext]_<<cvars, scope>>

Chain == LET Of(l) == <<store[l].head>> \o Macros(heap, store[l]) \o <<store[l].tail>>
         IN  Of("view") \o Of("buried") \o Of("build")

Number(seq, x) == IF x \in ToSet(seq) THEN CHOOSE i \in DOMAIN seq : seq[i] = x ELSE 0

Shape ==
  LET chain  == Chain
      list   == ToSet(FrameList(heap))
      Key(s) == LET slot == heap.slot[s]
                IN  IF slot.macro # 0
                    THEN <<0, Number(chain, slot.macro), slot.index, s>>
                    ELSE <<1, IF s \in list THEN 0 ELSE 1, 0, s>>
      Before(s, t) == \E k \in 1 .. 4 : /\ Key(s)[k] < Key(t)[k]
                                        /\ \A j \in 1 .. k - 1 : Key(s)[j] = Key(t)[j]
      slots  == SetToSortSeq(Slot, Before)
      Node(m) == LET n == heap.macro[m]
                 IN  <<n.capacity,
                       [i \in DOMAIN n.items |->
                          <<n.items[i].bracket, Number(chain, n.items[i].link), n.items[i].offset>>],
                       {<<entry[1], Number(slots, entry[2])>> : entry \in n.map},
                       {Number(slots, s) : s \in n.chain}>>
      Place_(s) == [heap.slot[s] EXCEPT !.macro = Number(chain, @), !.frameNext = s \in list]
  IN  << scope, [i \in DOMAIN chain |-> Node(chain[i])],
         [l \in List |-> Number(chain, store[l].tail)],
         [i \in DOMAIN slots |-> Place_(slots[i])],
         heap.frame, heap.nextFrame, heap.failed,
         <<Number(slots, store.pending[1]), store.pending[2]>>, Cardinality(heap.live) >>
=============================================================================
