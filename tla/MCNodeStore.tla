---------------------------- MODULE MCNodeStore ----------------------------
(* A small node memory: four nodes in two chunks, and every sequence of calls. *)
EXTENDS NodeStore

CONSTANT a

MCSymbol == {a}
MCLimits == {0, 1, 3, 5}
MCAllocTags == {"char"}

\* The refinement mapping to ListStore, computed once per state.
VARIABLE abstract

Abstraction(m) ==
  [list  |-> [l \in List |-> Contents(m, l)],
   built |-> Len(Path(m, FreeBegin, m.free)) - 2]

MCInit == Init /\ abstract = Abstraction(mem)
MCNext == Next /\ abstract' = Abstraction(mem')
MCSpec == MCInit /\ [][MCNext]_<<vars, abstract>>

ChunkOf(n) == [i \in 1 .. ChunkSize |-> n + i]

Lists == INSTANCE ListStore WITH
  list   <- abstract.list,
  built  <- abstract.built,
  live   <- mem.exit = 0,
  Chunks <- {ChunkOf(ChunkSize * c) : c \in 0 .. MaxChunks - 1}

(* The pointer operations of refal05rts.c implement the three sequences of ListStore: a
   splice moves exactly its range, keeps the order of everything else, and what is built
   is what was allocated or spliced in front of the allocation pointer, in call order. *)
ImplementsLists == Lists!Spec
=============================================================================
