----------------------------- MODULE NodeMemory -----------------------------
(***************************************************************************)
(* The node memory of the Refal-05 runtime (lib/refal05rts.c, the build    *)
(* without R05_COMPACT_HANDLES): three doubly linked lists between pairs   *)
(* of sentinels, the free list with its allocation pointer, and the call   *)
(* stack threaded through the link fields of call brackets.                *)
(*                                                                         *)
(* The memory is a record; every operation of the runtime is an operator   *)
(* from a memory to a memory, so that a caller that makes several calls is *)
(* the composition of their operators.  r05_exit never returns, so an      *)
(* operation leaves a memory that is exiting as it is.                     *)
(***************************************************************************)
EXTENDS Integers, Sequences

CONSTANTS
  ChunkSize,    \* nodes malloc hands out at a time (CHUNK_SIZE)
  MaxChunks,    \* chunks the host can provide before malloc returns NULL
  Symbol        \* what a char, number or function node can hold

ASSUME ChunkAssumption ==
  /\ ChunkSize \in Nat \ {0}
  /\ MaxChunks \in Nat

-----------------------------------------------------------------------------
(* Addresses.  Sentinels are static variables, nodes live in the chunks.    *)

NULL        == 0
FreeBegin   == -1
FreeEnd     == -2
ViewBegin   == -3
ViewEnd     == -4
BuriedBegin == -5
BuriedEnd   == -6

Begins   == {FreeBegin, ViewBegin, BuriedBegin}
Ends     == {FreeEnd, ViewEnd, BuriedEnd}
Sentinel == Begins \cup Ends

MaxNode == ChunkSize * MaxChunks
Node    == 1 .. MaxNode
Addr    == Node \cup Sentinel

Tag == {"illegal", "char", "function", "number", "open_bracket",
        "close_bracket", "open_call", "close_call"}

\* EXIT_CODE_RECOGNITION_IMPOSSIBLE and EXIT_CODE_NO_MEMORY; 0 is a live process, or r05_exit(0).
RecognitionImpossible == 201
NoMemory              == 202

\* A failed assert() ends the process with SIGABRT.
Aborted == 134

\* What exit() is given; a call of Exit gives it any eight bits.
ExitCode == 0 .. 255

Memory ==
  [next : [Addr -> Addr \cup {NULL}],
   prev : [Addr -> Addr \cup {NULL}],
   tag  : [Addr -> Tag],
   info : [Addr -> Symbol \cup Addr \cup {NULL}],   \* the union of struct r05_node
   free  : Addr,                \* s_free_ptr
   used  : 0 .. MaxNode,        \* s_memory_use
   limit : Nat,                 \* R05_MEMORY_LIMIT
   stack : Addr \cup {NULL},    \* s_stack_ptr
   exit  : ExitCode]

\* The static initialisers of the sentinels, s_free_ptr, s_memory_use and s_stack_ptr.
InitialMemory(limit) ==
  [next |-> [x \in Addr |-> IF x \in Begins THEN x - 1 ELSE NULL],
   prev |-> [x \in Addr |-> IF x \in Ends   THEN x + 1 ELSE NULL],
   tag  |-> [x \in Addr |-> "illegal"],
   info |-> [x \in Addr |-> NULL],
   free |-> FreeEnd, used |-> 0, limit |-> limit, stack |-> NULL, exit |-> 0]

\* The nodes that some chunk has provided.
Owned(m) == 1 .. m.used

-----------------------------------------------------------------------------
(* Links.                                                                   *)

Weld(m, left, right) ==
  [m EXCEPT !.next[left] = right, !.prev[right] = left]

\* Mutant of ListSplice: the neighbours are read when they are needed, not beforehand.
ListSpliceLateReads(m, res, begin, end) ==
  IF begin = NULL \/ m.exit # 0
  THEN m
  ELSE LET first  == Weld(m, m.prev[res], begin)
           second == Weld(first, end, res)
       IN  Weld(second, second.prev[begin], second.next[end])

\* list_splice: move begin..end in front of res; a NULL range is left alone.
ListSplice(m, res, begin, end) ==
  IF begin = NULL \/ m.exit # 0
  THEN m
  ELSE LET prevRes   == m.prev[res]
           prevBegin == m.prev[begin]
           nextEnd   == m.next[end]
       IN  Weld(Weld(Weld(m, prevRes, begin), end, res), prevBegin, nextEnd)

-----------------------------------------------------------------------------
(* The allocator.                                                           *)

\* create_nodes fails at the limit or when malloc does.
CanCreate(m) == m.used < m.limit /\ m.used + ChunkSize <= MaxNode

\* Mutant of CreateNodes: the new chunk replaces the free list instead of following it.
CreateNodesAlone(m) ==
  LET first == m.used + 1
      last  == m.used + ChunkSize
      chunk == [m EXCEPT
                 !.next = [x \in Addr |-> IF x \in first .. last - 1 THEN x + 1 ELSE @[x]],
                 !.prev = [x \in Addr |-> IF x \in first + 1 .. last THEN x - 1 ELSE @[x]],
                 !.free = first,
                 !.used = last]
  IN  Weld(Weld(chunk, FreeBegin, first), last, FreeEnd)

CreateNodes(m) ==
  LET first == m.used + 1
      last  == m.used + ChunkSize
      chunk == [m EXCEPT
                 !.next = [x \in Addr |-> IF x \in first .. last - 1 THEN x + 1 ELSE @[x]],
                 !.prev = [x \in Addr |-> IF x \in first + 1 .. last THEN x - 1 ELSE @[x]],
                 !.tag  = [x \in Addr |-> IF x \in first .. last THEN "illegal" ELSE @[x]],
                 !.free = first,
                 !.used = last]
  IN  Weld(Weld(chunk, m.prev[FreeEnd], first), last, FreeEnd)

\* ensure_memory
EnsureMemory(m) ==
  CASE m.exit # 0 \/ m.free # FreeEnd -> m
    [] m.exit = 0 /\ m.free = FreeEnd /\ CanCreate(m) -> CreateNodes(m)
    [] OTHER -> [m EXCEPT !.exit = NoMemory]

\* Mutant of ResetAllocator: the call is forgotten.
ResetAllocatorForgotten(m) == m

\* r05_reset_allocator: everything in the free list may be allocated again.
ResetAllocator(m) ==
  IF m.exit # 0 THEN m ELSE [m EXCEPT !.free = m.next[FreeBegin]]

\* Mutant of AllocNode: the end of the free list is not noticed.
AllocNodeUnchecked(m, tag, info) ==
  [m EXCEPT !.tag[m.free] = tag, !.info[m.free] = info, !.free = m.next[m.free]]

\* r05_alloc_node and the writers of info: the node is m'.prev[m'.free].
AllocNode(m, tag, info) ==
  LET e == EnsureMemory(m)
  IN  IF e.exit # 0
      THEN e
      ELSE [e EXCEPT !.tag[e.free] = tag, !.info[e.free] = info, !.free = e.next[e.free]]

LastAllocated(m) == m.prev[m.free]

\* r05_insert_pos: the position is m'.free, which the next allocation returns too.
InsertPos(m) == EnsureMemory(m)

-----------------------------------------------------------------------------
(* Ranges: a pair <<first, last>>; an empty one has last before first.      *)

\* Mutant of CorrectEvar: the call is forgotten, an empty variable is moved as it is.
CorrectEvarForgotten(m, evar) == evar

\* r05_correct_evar
CorrectEvar(m, evar) ==
  IF m.next[evar[2]] = evar[1] THEN <<NULL, NULL>> ELSE evar

\* r05_splice_tevar, r05_splice_to_freelist, r05_splice_from_freelist
SpliceTevar(m, res, tevar) == ListSplice(m, res, tevar[1], tevar[2])

SpliceToFreelist(m, begin, end) == ListSplice(m, m.free, begin, end)

\* Mutants of SpliceFromFreelist: nothing built is not told apart; the node that would be
\* allocated next goes too; only one node goes.
SpliceFromFreelistAlways(m, pos) == ListSplice(m, pos, m.next[FreeBegin], m.prev[m.free])

SpliceFromFreelistOneMore(m, pos) ==
  IF m.free = m.next[FreeBegin] \/ m.free = FreeEnd
  THEN m
  ELSE ListSplice(m, pos, m.next[FreeBegin], m.free)

SpliceFromFreelistFirst(m, pos) ==
  IF m.free = m.next[FreeBegin]
  THEN m
  ELSE ListSplice(m, pos, m.next[FreeBegin], m.next[FreeBegin])

SpliceFromFreelist(m, pos) ==
  IF m.free = m.next[FreeBegin]
  THEN m
  ELSE ListSplice(m, pos, m.next[FreeBegin], m.prev[m.free])

-----------------------------------------------------------------------------
(* Brackets and the call stack.                                             *)

SetInfo(m, x, info) == IF m.exit # 0 THEN m ELSE [m EXCEPT !.info[x] = info]

\* Mutant of LinkBrackets: the closing bracket does not get its link.
LinkBracketsOneWay(m, left, right) == SetInfo(m, left, right)

\* r05_link_brackets
LinkBrackets(m, left, right) == SetInfo(SetInfo(m, left, right), right, left)

\* r05_push_stack and pop_stack: the stack is threaded through info.link.
PushStack(m, bracket) ==
  IF m.exit # 0
  THEN m
  ELSE [m EXCEPT !.info[bracket] = m.stack, !.stack = bracket]

PopStack(m) == [m EXCEPT !.stack = m.info[m.stack]]

\* r05_recognition_impossible, r05_builtin_error
Exit(m, code) == IF m.exit # 0 THEN m ELSE [m EXCEPT !.exit = code]

-----------------------------------------------------------------------------
List == {"free", "view", "buried"}

Begin(l) == CASE l = "free" -> FreeBegin [] l = "view" -> ViewBegin [] l = "buried" -> BuriedBegin
End(l)   == Begin(l) - 1

(* Walking the lists.                                                       *)

\* The addresses met going from begin over next, up to end or to a dead end.
Path(m, begin, end) ==
  LET walk[fuel \in 0 .. MaxNode + 1] ==
        [x \in Addr |-> IF x = end \/ m.next[x] = NULL \/ fuel = 0
                        THEN <<x>>
                        ELSE <<x>> \o walk[fuel - 1][m.next[x]]]
  IN  walk[MaxNode + 1][begin]

Addresses(path) == {path[i] : i \in 1 .. Len(path)}

\* The nodes of a list, in order.
Contents(m, l) ==
  LET path == Path(m, Begin(l), End(l)) IN SubSeq(path, 2, Len(path) - 1)

\* Every node and sentinel is its neighbours' neighbour.
IsLinked(m) ==
  \A x \in Owned(m) \cup Sentinel :
    /\ x \in Ends   => m.next[x] = NULL
    /\ x \in Begins => m.prev[x] = NULL
    /\ x \notin Ends   => /\ m.next[x] \in Owned(m) \cup Ends
                          /\ m.prev[m.next[x]] = x
    /\ x \notin Begins => /\ m.prev[x] \in Owned(m) \cup Begins
                          /\ m.next[m.prev[x]] = x

=============================================================================
