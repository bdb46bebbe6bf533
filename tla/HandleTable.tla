---------------------------- MODULE HandleTable ----------------------------
(***************************************************************************)
(* The table of iterator slots (lib/cl_iter_table.c).  Clients of the      *)
(* compact list hold handles <<slot, generation>>; a slot holds where its  *)
(* element is now, and the compact list tells the table about every move.  *)
(*                                                                         *)
(* The table and the macronodes point at each other, so the heap is one    *)
(* record: the operators below read and write its slots, and the chain of  *)
(* slots and the map from indices to slots that each macronode keeps.      *)
(*                                                                         *)
(* All slots are attached: cl_iter_alloc_temp has no caller in the runtime.*)
(* A chain is a set (its order shows nowhere), slot_by_index the set of    *)
(* its entries <<index, slot>>, and the free slots, those with macro_id 0, *)
(* are handed out least first.                                             *)
(***************************************************************************)
EXTENDS Integers, Sequences, SequencesExt

CONSTANTS
  MaxSlot,       \* slots of the table; the code grows it up to SLOT_ID_MAX
  Generations,   \* values of gen, 256 in the code (an unsigned char)
  Frames,        \* values of frame_id, 256 in the code; 0 is no frame
  MaxMacro       \* macronodes alive at a time; bounded by the host alone

ASSUME TableAssumption ==
  /\ MaxSlot \in Nat \ {0}
  /\ Generations \in Nat \ {0}
  /\ Frames \in Nat \ {0, 1}
  /\ MaxMacro \in Nat \ {0}

Slot  == 1 .. MaxSlot
Macro == 1 .. MaxMacro

Least(S) == CHOOSE x \in S : \A y \in S : x <= y

\* CL_ITER_NULL.
NullHandle == <<0, 0>>

NoSlot == [macro |-> 0, index |-> 0, gen |-> 0, frame |-> 0, frameNext |-> 0,
           attached |-> FALSE]

\* assert(): the process ends with SIGABRT if it does not hold.
Check(h, holds) == [h EXCEPT !.failed = @ \/ ~holds]

-----------------------------------------------------------------------------
(* Slots of one macronode.                                                  *)

SlotListAttach(h, m, s) ==
  LET i == h.slot[s].index
  IN  [Check(h, ~h.slot[s].attached)
        EXCEPT !.macro[m].chain   = @ \cup {s},
               !.macro[m].map     = IF i < h.macro[m].capacity
                                    THEN {entry \in @ : entry[1] # i} \cup {<<i, s>>}
                                    ELSE @,
               !.slot[s].attached = TRUE]

SlotListDetach(h, m, s) ==
  [Check(h, s \in h.macro[m].chain)
    EXCEPT !.macro[m].chain   = @ \ {s},
           !.macro[m].map     = @ \ {<<h.slot[s].index, s>>},
           !.slot[s].attached = FALSE]

\* The slots of the chain of m that say index i.
SlotsAt(h, m, i) == {s \in h.macro[m].chain : h.slot[s].index = i}

SlotMapRebuild(h, m) ==
  LET mapped == {s \in h.macro[m].chain : h.slot[s].index < h.macro[m].capacity}
  IN  [Check(h, /\ \A s \in h.macro[m].chain : h.slot[s].attached
                /\ \A s, t \in mapped : h.slot[s].index = h.slot[t].index => s = t)
        EXCEPT !.macro[m].map = {<<h.slot[s].index, s>> : s \in mapped}]

\* The slot that the map names for index i and that is still there.
SlotMapLookup(h, m, i) ==
  {s \in Slot : /\ <<i, s>> \in h.macro[m].map
                /\ h.slot[s].attached /\ h.slot[s].macro = m /\ h.slot[s].index = i}

-----------------------------------------------------------------------------
(* Frames.  The slots allocated in a frame are threaded by frameNext.       *)

\* A slot of the running frame stays in its list; others leave none.
SlotRecycle(h, s) ==
  LET inFrame == h.slot[s].frame = h.frame /\ h.frame # 0
  IN  [h EXCEPT !.slot[s] =
        [NoSlot EXCEPT !.gen       = (h.slot[s].gen + 1) % Generations,
                       !.frame     = IF inFrame THEN h.slot[s].frame     ELSE 0,
                       !.frameNext = IF inFrame THEN h.slot[s].frameNext ELSE 0]]

FrameBegin(h) ==
  [Check(h, h.frame = 0)
    EXCEPT !.frame = h.nextFrame,
           !.nextFrame = IF (h.nextFrame + 1) % Frames = 0 THEN 1 ELSE h.nextFrame + 1,
           !.frameHead = 0]

\* The list from frameHead, up to its end or to a slot it has already passed.
FrameList(h) ==
  LET hops[n \in 0 .. MaxSlot] ==
        IF n = 0
        THEN <<>>
        ELSE LET seen == hops[n - 1]
                 next == IF seen = <<>> THEN h.frameHead ELSE h.slot[Last(seen)].frameNext
             IN  IF next = 0 \/ next \in ToSet(seen) THEN seen ELSE Append(seen, next)
  IN  hops[MaxSlot]

\* Mutant of FrameEnd: the slots that have left the frame are recycled like the others.
FrameEndAll(h) ==
  LET Visit(g, s) == IF g.slot[s].macro # 0
                     THEN SlotRecycle(SlotListDetach(g, g.slot[s].macro, s), s)
                     ELSE [g EXCEPT !.slot[s].frame = 0, !.slot[s].frameNext = 0]
  IN  FoldLeft(Visit, [Check(h, h.frame # 0) EXCEPT !.frame = 0, !.frameHead = 0], FrameList(h))

FrameEnd(h) ==
  LET id == h.frame
      Visit(g, s) ==
        CASE g.slot[s].macro # 0 /\ g.slot[s].frame = id ->
               SlotRecycle(SlotListDetach(g, g.slot[s].macro, s), s)
          [] g.slot[s].macro # 0 /\ g.slot[s].frame # id ->
               [g EXCEPT !.slot[s].frameNext = 0]
          [] g.slot[s].macro = 0 /\ g.slot[s].frame = id ->
               [g EXCEPT !.slot[s].frame = 0, !.slot[s].frameNext = 0]
          [] OTHER -> g
  IN  FoldLeft(Visit, [Check(h, id # 0) EXCEPT !.frame = 0, !.frameHead = 0], FrameList(h))

-----------------------------------------------------------------------------
(* Handles.                                                                 *)

HandleOf(h, s) == <<s, h.slot[s].gen>>

HandleValid(h, it) ==
  \/ it = NullHandle
  \/ h.slot[it[1]].gen = it[2] /\ h.slot[it[1]].macro \in h.live

Deref(h, it) == [macro |-> h.slot[it[1]].macro, index |-> h.slot[it[1]].index]

Escape(h, it) ==
  [Check(h, HandleValid(h, it)) EXCEPT !.slot[it[1]].frame = 0]

\* The heap in which slot s is the handle of index i of m, and s.  One element has one slot.
IterAlloc(h, m, i) ==
  LET known == IF i < h.macro[m].capacity THEN SlotMapLookup(h, m, i) ELSE SlotsAt(h, m, i)
      s     == Least({t \in Slot : h.slot[t].macro = 0})
      threaded == h.frame # 0 /\ h.slot[s].frame # h.frame
  IN  IF known # {}
      THEN [heap |-> h, it |-> HandleOf(h, Least(known))]
      ELSE [heap |-> SlotListAttach(
              [h EXCEPT !.slot[s] = [@ EXCEPT !.macro = m, !.index = i, !.attached = FALSE,
                                              !.frame = h.frame,
                                              !.frameNext =
                                                CASE h.frame = 0 -> 0
                                                  [] threaded    -> h.frameHead
                                                  [] OTHER       -> @],
                        !.frameHead = IF threaded THEN s ELSE @],
              m, s),
            it |-> HandleOf(h, s)]

-----------------------------------------------------------------------------
(* What the compact list tells the table.                                   *)

SlotsRelocateMacro(h, m) ==
  LET Relocate(s, g) == [g EXCEPT !.slot[s].macro = m]
  IN  SlotMapRebuild(FoldSet(Relocate, h, h.macro[m].chain), m)

SlotsShiftInMacro(h, m, from, delta) ==
  LET Shift(s, g) == [g EXCEPT !.slot[s].index = @ + delta]
      shifted == {s \in h.macro[m].chain : h.slot[s].index >= from}
  IN  SlotMapRebuild(FoldSet(Shift, h, shifted), m)

\* Mutant of SlotsMoveRange: only the map of the target is rebuilt.
SlotsMoveRangeOneMap(h, src, from, to, dst, base) ==
  LET moved == {s \in h.macro[src].chain : h.slot[s].index \in from .. to - 1}
      Move(s, g) == [g EXCEPT !.macro[src].chain = @ \ {s},
                              !.macro[dst].chain = @ \cup {s},
                              !.slot[s].macro = dst,
                              !.slot[s].index = @ - from + base]
  IN  SlotMapRebuild(FoldSet(Move, h, moved), dst)

SlotsMoveRange(h, src, from, to, dst, base) ==
  LET moved == {s \in h.macro[src].chain : h.slot[s].index \in from .. to - 1}
      Move(s, g) == [g EXCEPT !.macro[src].chain = @ \ {s},
                              !.macro[dst].chain = @ \cup {s},
                              !.slot[s].macro = dst,
                              !.slot[s].index = @ - from + base]
  IN  SlotMapRebuild(SlotMapRebuild(FoldSet(Move, h, moved), src), dst)

SlotsKillMacro(h, m) ==
  LET Kill(s, g) == SlotRecycle(g, s)
  IN  [FoldSet(Kill, h, h.macro[m].chain)
        EXCEPT !.macro[m].chain = {}, !.macro[m].map = {}]

\* Mutant of SlotsKillAt: the slot stays in the chain of its macronode.
SlotsKillAtInPlace(h, m, i) ==
  LET Kill(s, g) == SlotRecycle(g, s)
  IN  FoldSet(Kill, h, SlotsAt(h, m, i))

SlotsKillAt(h, m, i) ==
  LET Kill(s, g) == SlotRecycle(SlotListDetach(g, m, s), s)
  IN  FoldSet(Kill, h, SlotsAt(h, m, i))
=============================================================================
