# Refal-05 in TLA+

Refal-05 is a compiler from a subset of Refal-5 to C, written in Refal
(`src/`), and a runtime in C (`lib/`) that the generated code is linked with.
This directory models the runtime and the part of the compiler that decides
what generated code does, checks the models with TLC and proves part of them
with TLAPS.

Paths below are relative to the root of the repository.

## 1. Inventory

| part | where | its state | its operations | who calls whom |
|---|---|---|---|---|
| node memory and allocator | `lib/refal05rts.c` 342-766 | free list, view field, buried store as doubly linked lists between sentinels; `s_free_ptr`, `s_memory_use`, `s_stack_ptr` | `r05_reset_allocator`, `r05_alloc_*`, `r05_insert_pos`, `r05_alloc_tevar`, `r05_splice_*`, `r05_correct_evar`, `r05_link_brackets`, `r05_push_stack` | called by generated code, by the library and by the buried store |
| matching primitives | `lib/refal05rts.c` 61-331 | none; they fill the array `p` of a sentence | `r05_*_left`, `r05_*_right`, `r05_open_evar_advance` | called by generated code and the library, read the lists |
| main loop | `lib/refal05rts.c` 1165-1276, 1655-1702, 1900-1912 | call stack, step counter, exit code | `init_view_field`, `main_loop`, `r05_exit` and the ways to fail | pops a call, calls the function behind it; every callee pushes the calls of its result |
| buried store | `lib/refal05rts.c` 1735-1879 | third list | `Br`, `Dg`, `Cp`, `Rp`, `buried_query` | functions like any other |
| metafunctions | `lib/Library.c` 36-180, 1631-1655; `src/R05-Parser.ref` 146-189 | metatable of a module, `s_builtin_info` | `Mu`, `Up`, `Ev-met`, `Residue` | `Mu` pushes the call again under another name |
| sentence compiler | `src/R05-Generator.ref` 195-843 | holes, known variables, two lists of commands | `GenPattern`, `GenResult`, `CompileSentence` | its output is generated code |
| semantic checks | `src/R05-Parser.ref` 13-272 | syntax tree, errors | `CheckAST`, `FindUnused`, `AddMetatable` | between the grammar and the generator |
| compact list | `lib/compact_list.c` | lists of macronodes, registry of their ids | split, splice, merge, insert, remove, compact | replaces the node lists with `R05_COMPACT_HANDLES` |
| handle table | `lib/cl_iter_table.c` | slots, generations, free list, frames | allocate, dereference, escape, frame begin and end, relocate | keeps iterators valid while the compact list moves elements |
| compact runtime storage | `lib/compact_runtime_storage.c` | view, buried and build lists, pending insert position | `crs_*` | what the allocator calls in that build |
| arithmetic | `lib/Library.c` 182-484, 936-1124, 1388-1491, 1951-1973 | none | `Add`, `Inc`, `Sub`, `Mul`, `Div`, `Mod`, `Divmod`, `Compare`, `Numb`, `Symb` | functions |
| streams | `lib/Library.c` 381-405, 566-697, 1137-1321, 1776-1884 | table of streams, under it the buffers of stdio | `Open`, `Close`, `Get`, `Card`, `Put`, `Putout`, `Write`, `Print`, `Prout`, `LoadFile`, `ExistFile`, `RemoveFile` | functions; `r05_exit` closes what is open |
| implode table | `lib/Library.c` 765-873 | hash table of names, its growth | `implode`, `cleanup_imploded_table` | called by `Implode` and `Implode_Ext`, cleaned up at exit |
| random numbers | `lib/Library.c` 1985-2093 | ring of the generator, its two indices | `Random`, `RandomDigit` | functions |
| builtins on terms | `lib/Library.c` | none | `First`, `Lenw`, `Type`, `Chr`, `Ord`, `Lower`, `Upper`, `Explode`, `Implode`, `Implode_Ext`, `Exit` | functions; write their results over their calls |
| builtins on the host | `lib/Library.c` | `argv`, a start time | `Arg`, `GetEnv`, `System`, `Time`, `TimeElapsed`, `Step`, `ListOfBuiltin` | functions |
| profilers | `lib/refal05rts.c` 780-1113, 1234-1267 | clocks, counters, list of the functions called | `start_profiler`, `start_building_result`, `after_step`, `r05_start_e_loop`, `r05_stop_e_loop`, `end_profiler`, the two reports | hooks in the allocator, the matching functions and the main loop |
| dumps | `lib/refal05rts.c` 1279-1655 | none | | called by `r05_exit` |
| lexer, grammar, driver | `src/` | text | | input and output |

What makes a part correct, and what is hard about it:

- **Node memory.** Every node is in exactly one list; a splice moves exactly
  its range. Hard because one routine, `list_splice`, serves all callers with
  ranges read before earlier splices, because freed nodes go in front of the
  allocation pointer, where built nodes are, and because memory may end
  between any two allocations of a result.
- **Compiler and matching.** The generated C must find the substitution that
  the language prescribes (shortest e-variables from the left), though it
  matches from both ends in an order of its own and backtracks by nested C
  loops; the result must be built from moved and copied variables whatever
  their order, with positions that alias the next allocated node.
- **Main loop.** Calls are executed leftmost and innermost first, though each
  result pushes its calls on its own.
- **Buried store.** Last in first out for each key, with keys found by prefix.
- **Compact list and handles.** A handle denotes the same element whatever
  splits, merges and moves do; bracket links follow.
- **Semantic checks.** What is marked used is what the documentation calls
  used, whatever circle functions call each other in, and the generated code
  declares each name once. Hard because a word may be met as a symbol before it
  is called as a metafunction, and because one call of a metafunction makes all
  functions used.
- **Implode table.** A word keeps its symbol, although the table moves its
  items to a larger array from time to time.
- **Streams.** What was put is read back. Hard because text waits in buffers,
  because a number opens itself on first use, and because a file may be reopened
  under the number it is open under.
- **Random numbers.** No value is favoured, and the rejection of draws ends.
- **Profilers.** The counters are the time spent, whatever loops are left in the
  middle, and the profile lists every function called.
- **Arithmetic.** The results are those of the integers, in as many words as
  they need. Hard because a function writes its result over the call it was
  given, from one end or the other, and because carries, signs and conversions
  between bases go wrong at the ends of ranges.

The program has one thread, no signals and no persistence: no interleaving or
crash recovery exists to be modelled. What is hard are orders of calls, values
that are stale after a splice, limits, and the agreement of a compiler with a
language. `PROJECT.json` lists each hazard at its line. What must happen in the end is
that loops end: the growth of the table, the walk of the references, the
rejection of random numbers, the sort of the profile.

## 2. Modules

```
RefalSyntax ---- SentenceCompiler --.
     |                               GeneratedCode -- TermBuiltins -- RefalMachine -- RefalRefinement -- MCRefalMachine
     |           NodeMemory --------'                                                       |                  |
     |               |                                                Refal <-- INSTANCE ---'                  |
     '---------------|----- PatternPrograms, TermPrograms <------------------------- INSTANCE -----------------'
                     |
                 NodeStore ---- MCNodeStore --- INSTANCE ---> ListStore
                                     |
                              NodeStoreProofs ---- Induction (also of ArithmeticProofs,
                                                   RandomDigitsProofs and StreamsProofs)

HandleTable ---- CompactList ---- CompactStorage ---- MCCompactStorage
                                        '--- INSTANCE ---> ItemLists

Arithmetic --+-- Decimal ---- ArithmeticCalls --+-- MCArithmetic
             |                       |          |
             |                       '---- INSTANCE ----> Calculator
             '-- MulLoop -----------------------+-- ArithmeticProofs

ImplodeTable --+-- MCImplodeTable              UsedFunctions --+-- MCUsedFunctions
      |        '-- ImplodeProofs                               '-- UsedFunctionsProofs
      '--- INSTANCE ---> Symbols

Streams ---+-- MCStreams, StreamsProofs        RandomDigits --- INSTANCE ---> LaggedFibonacci
      '--- INSTANCE ---> LineFiles                   '---- RandomDigitsProofs

Profiler ------+-- MCProfilers                 Profiler ------+-- ProfilerProofs
FunctionProfile '                              FunctionProfile '
```

- `NodeMemory` (operators, no variables) - the record of a node memory
  and one operator per routine of the runtime, from a memory to a memory. An
  address is an integer, 0 is NULL, sentinels are negative. `r05_exit` does not
  return, so each operator leaves a memory with `exit # 0` alone. Since chunks
  are handed out in order, `Owned(m)` is `1 .. m.used`.
- `NodeStore` - that memory as a state machine under *any* legal sequence of
  calls: `Reset`, `Alloc`, `Prepare` (`r05_insert_pos`), `Move`
  (`r05_splice_tevar`), `Discard` (`r05_splice_to_freelist`), `Publish`
  (`r05_splice_from_freelist`). Legal means what the C code takes for granted:
  the range is a range of one list (`IsRange`), the destination is not in it or
  right behind it (`Movable`). The history variable `home` remembers the list a
  node belongs to. `Move` needs a range outside of the free list, since no
  caller moves a range of free nodes except through `Publish`.
- `ListStore` - the abstract specification: three sequences and the length of
  the built prefix of the free one.
- `RefalSyntax` - items of patterns and results, tokens of expressions.
- `SentenceCompiler` - `GenPattern` and `GenResult`. `Clauses` is the order
  of the sentences of `DoGenPattern`; `Take` is the right side of each.
- `GeneratedCode` - what each command does when it runs. `RunMatch` and
  `OpenLoop` are the nested `do ... while` loops; `{}` is a failed match.
- `TermBuiltins` (operators) - the builtins that rework the nodes of their own
  call: a bracket, the name and a number become the brackets, the number or the
  char of the result.
- `RefalMachine` - `main`: a step of `main_loop` is one action for each kind of
  callee, the whole callee included.
- `Refal` - the language: a view field and a buried store as token sequences,
  pattern matching by substitution, and one step per call. It knows nothing of
  nodes, holes, commands or the allocator.
- `RefalRefinement` - the mapping: the view field of the language is the tokens
  of the nodes between the sentinels. The mapped state is kept in variables,
  so that TLC computes it once for each state.

- `HandleTable` (operators, no variables) - `cl_iter_table.c`: slots, the
  chain and the map of slots of each macronode, frames. The table and the
  macronodes point at each other, so the heap is one record that the operators
  of this module and of `CompactList` take and return; `heap.failed` says that
  an assertion has failed.
- `CompactList` (operators) - `compact_list.c`: `MacroGrow`, `Split`, `Merge`,
  `MergeGrowingLeft`, `Splice`, `RemoveItem`, `PushBack`, `CompactWholeList`,
  each with the mending of bracket links and the notices to the table of slots.
- `CompactStorage` - the three lists of the build with `R05_COMPACT_HANDLES`
  as a state machine: one action per call of the runtime that changes the
  heap, in functions that begin and end a frame. Its variable `abstract` holds
  what the heap means.
- `ItemLists` - the abstract specification: three sequences of items, pairs of
  linked brackets, and the map from handles to what they denote. It knows
  nothing of macronodes, offsets, slots or frames.

- `Arithmetic` (operators) - `Add`, `Inc`, `Sub`, `Mul`, `Div`, `Mod`, `Divmod`
  and `Compare` on words less than `Radix`. The nodes of a call are a sequence
  of cells; a function takes the cells and returns what it leaves in their
  place, or how it ends the process, or `Overrun`, where the code would write
  behind the call or discard an empty range.
- `Decimal` (operators) - `Numb` and `Symb`, digit portions, words and chunks
  as in the code, for words of four times `PortionBits` bits.
- `ArithmeticCalls` - a program that calls these functions, the result of one
  being an argument of the next.
- `Calculator` - the abstract specification: the same program over integers.
- `MulLoop` - the loop of `Mul` as a state machine, one turn a step.

- `ImplodeTable` - `implode`: the lookup and the new item are one action, the
  growth is one action for each item moved, each bucket passed and the change of
  arrays. `Symbols` is what the table promises: each word denotes one symbol.
- `UsedFunctions` - `FindUnused`: one action for each clause of
  `FindUnused-Loop`, which takes the first reference of the queue, and the
  verdict of `PrepareAST`. The rules of `docs/2-syntax.md` 76-95 are `Obeys`.
- `RandomDigits` - a draw from the ring is one action, so a call of `Random` or
  `RandomDigit` is many. `LaggedFibonacci` is the sequence of numbers that the
  comment at `random_digit` names.
- `Streams` - one action for each builtin, over a disk and the buffers of stdio;
  `Flush` writes a buffer out at any time, a full disk stops a program that closes
  or writes, and `Exit` closes what is open. `LineFiles` knows files made of
  lines and nothing of buffers.
- `Profiler` - the counters of `R05_SHOW_STAT`, the functions that move them and
  a clock that ticks anywhere. `spent` is the time really spent on each
  activity.
- `FunctionProfile` - the list of functions of `R05_PROFILER` and its insertion
  sort, one turn of each loop a step.

`MCArithmetic` runs the calls and the loop of `Mul` side by side, and
`MCProfilers` the two profilers: a behaviour is of one of the two.

Operators named for what a slip in the code would make of their neighbour
(`ListSpliceLateReads`, `BuryLast`, ...) stand in front of the definition they
alter. They are used nowhere; each shows, put in the place of that definition,
that a property below notices.

## 3. Runs

| run | module, cfg | checks | result |
|---|---|---|---|
| `node_store` | `MCNodeStore` | six invariants and `ImplementsLists`, a refinement of `ListStore` | holds |
| `machine` | `MCRefalMachine` | lists, links, call stack, exhaustion, and `ImplementsRefal`, a refinement of `Refal` | holds |
| `compact` | `MCCompactStorage` | the assertions, slots, macronodes and links, and `ImplementsItemLists`, a refinement of `ItemLists` | holds |
| `arithmetic` | `MCArithmetic` | `StaysInCall`, `ProductIsExact`, and `ImplementsCalculator`, a refinement of `Calculator` | holds |
| `implode` | `MCImplodeTable` | lookups, clean-up, load, the end of the growth, and `ImplementsSymbols`, a refinement of `Symbols` | holds |
| `used_functions` | `MCUsedFunctions` | the marks, the declarations, the metatable, and the end of the walk | holds |
| `random` | `RandomDigits`, `MCRandomDigits.cfg` | the ring, the fairness of the rejection, the end and the result of calls | holds |
| `streams` | `MCStreams` | `ImplementsLineFiles`, a refinement of `LineFiles` | holds |
| `profilers` | `MCProfilers` | the assertions, the counters, the report, the sort and its end | holds |
| `exit_code` | `MCRefalMachine`, `MCExitCode.cfg` | `BuiltinErrorExitCode` | violated |
| `name_clash` | `MCRefalMachine`, `MCNameClash.cfg` | `MuFindsOneFunction` | violated |
| `profile_of_go` | `FunctionProfile`, `MCProfileOfGO.cfg` | `ProfileIsMade` | violated |

**node_store.** Two chunks of two nodes; limits 0, 1 and 3 make the first
allocation, the third and the fifth fail; with 5 it is malloc that fails. Four nodes are enough for each list
to have a range with neighbours on both sides, for a range of two nodes to
move past another, for freed nodes to land behind built ones, and for the
second chunk to arrive while nodes are built. Deadlock is not checked: a
process that has run out of memory has stopped.

**machine.** Three families of programs, for chunks of four nodes.

- *basic*: ten bodies of functions on eight arguments, and programs for the
  buried store and for `Mu`. The limits 0, 1, 5, 9 and 100 end the memory at the
  start, in the first result, in later ones and, at sixteen chunks, when malloc
  gives up, so that programs that grow for ever end as well.
- *term*: each of fifteen uses of the builtins on terms on the result of each
  other one, for fourteen arguments (3150 programs), `Exit` with ten arguments
  and `Ev-met`, at the limit 7, which leaves two chunks, and at 100.
- *pattern*: all sequences of up to three items out of seven (a symbol, an s-, a
  t- and two e-variables, so repeated ones occur, and two kinds of brackets), of
  four items out of five, and patterns with two open e-variables one inside of the
  other: 1050 patterns, each on eleven arguments of up to four terms with
  brackets of depth two, empty ones among them. The result uses every variable once moved and once more
  in reverse order, so it shows all of the substitution.

`ImplementsRefal` says that *each* step of the machine is one step of the
language; a refinement that allowed stuttering would also hold of a machine that
skips a call. The deadlock check is on: a state with no successor that is not the
end of the process would be reported.

**compact.** Every legal sequence of calls, of any length, in two scopes: three
items that are no brackets with up to two entries on the call stack, and four
brackets, linked in any way, without a call stack. Handles and links are mended
by different loops of the same operations, and each scope explores one of the
two without the states of the other. There are up to three slots at a time: one
for each end of a range and one for the destination; four brackets are two
linked pairs, so that a link crosses every split and merge. `MinBucket` is 2 and
`MaxMacronode` 3, so that macronodes of one, two and three items occur, that
some neighbours fit into one macronode and others do not, and that a macronode
grows past its first bucket. `MaxCapacity`, which stands for `SHRT_MAX`, is 3 as well,
the least it can be, so that a macronode that came out larger than `MaxMacronode` from a
merge, a growth or a split would fail the assertion of `cm_macronode_alloc`, and
`MaxLiteral` is 3: the longest literal just fits (see section 5). `MaxMacro` bounds nothing: three lists need six
macronodes for their ends and four items at most four more, two more exist only
within a split or a growth.

The run uses the view `Shape`, which numbers macronodes, slots and items by
their place in the lists. The code never compares two of these numbers but for
equality; it takes *a* free one, and which one is a choice of the model. So states of one shape have
the same futures up to names. Each step of the refinement is checked as it is
found, before the view drops its target. Deadlock is not checked: a function that holds every slot
and every item may have nothing left to do.

**arithmetic.** Words of eight bits: a word has four portions of an even number
of bits, and eight is the smallest such width. `PortionBits` is 2, hence decimal
portions of two digits, and `DecChunk` 1, since 10 is the one power of ten below
half a word. Numbers of 0, 1, 15, 16, 127, 128, 255 and others with all signs,
numbers of two to four words with zeros in front and inside, and texts of up to
eight digits with blanks, signs, leading zeros and all kinds of rests; operands
0, 1, 16 and 255 with all signs; chains of three calls, so that a result with a
high word, a minus before a zero or several words becomes an argument. In
behaviours of the second kind the loop of `Mul` runs on all pairs of words whose
product overflows. Deadlock is not checked: a chain ends after `MaxCalls` calls,
or with the process, and a loop when it has its product.

**implode.** Two buckets at first (`InitialSize`, 100 in the code) and one item
per bucket (`Load`, 3 in the code), five words whose hashes collide in each of
the small tables, and a name of the library: the table grows from two to three
and from there to four and six buckets, with chains of several items to be moved in between.

**used_functions.** All 74 273 files with an entry, two functions and an
`$EXTERN`, up to two references in the body of the entry and one in the others,
out of calls and mentions of eight names: these four, a builtin, two
metafunctions and a word that is none of them. A metafunction is met first as a
symbol and first as a call, from an entry and from a function, and functions
refer to themselves and to each other.

**random.** Numbers of three bits and a ring of three with the lags 3 and 2, for
each start of the clock, each argument of both functions and any sequence of calls.
`MAX` is 7; the limits 0, 1, powers of two and 7, which leaves draws out, are all
among the arguments. The run reaches every state of the generator that
a time can start.

**streams.** Two entries (`FILE_LIMIT`, 40 in the code), called by the numbers 0
and 3, so that `% 40` matters; two files with texts of up to two chars
(`MaxText`), which are an empty line, a line and an unfinished one; a buffer of
`LoadFile` of two chars (4096 in the code), so that lines that are shorter than the buffer and that fill it occur; a disk
that may become full whenever something is written out.

**profilers.** A clock of five ticks (`MaxClock`) and loops in two levels
(`MaxLoops`): a tick in each phase of a step and one more of the next step. For
the list of functions four functions and four ticks (`MaxTime`), so that equal and different times come in any order.

**exit_code.** `docs/3-install-and-usage.md` 761 and `docs/5-implementation.md`
2638 give 203 as the exit code of an error in a builtin;
`r05_builtin_error` (`lib/refal05rts.c` 1691) exits with 201.

**name_clash.** `<Mu ('Mu') ...>`: the name is in the metatable, where the
compiler puts all metafunctions, and in `s_builtin_info`, and
`assert(callee == NULL)` (`lib/Library.c` 155) ends the process.

**profile_of_go.** `main_loop` links a function whose `next` is NULL into the
list (`lib/refal05rts.c` 1260), but the first function of all, `GO`, is the last
of the list and keeps its NULL: when `GO` is called again, the list becomes a
circle, and `print_functions_profile` does not end.
`docs/3-install-and-usage.md` 386 says that the program makes the profile when it
ends. The run has the fairness of `Sort`; without the second call of `GO`
`ProfileIsMade` holds (run `profilers`).

Other places where the documentation and the code disagree were met while
modelling and have no run:

- `Random` draws the number of its digits, 1 up to s.Len - 1, as the text of
  `docs/2-syntax.md` 1220 allows; the format above it (1218) and the comment at
  `lib/Library.c` 1983 promise exactly s.Len.
- `Putout` to a number that is 0 modulo 40 writes to stderr and opens no file
  (`lib/Library.c` 674), while `docs/2-syntax.md` 952 says that every file that
  is not open is opened.
- After a failed match `after_step` adds the time since the last result that was
  built (`lib/refal05rts.c` 873), so the Refal time may exceed the total and the
  time of builtins, an unsigned difference, wraps; `docs/3-install-and-usage.md`
  302 says that together they are 100 %.
- Copies made by `Cp` count as copies but not as building
  (`lib/refal05rts.c` 908, 988), so that `Linear result time` may be negative.
- The line for repeated e-variables outside of loops prints the time of
  t-variables (`lib/refal05rts.c` 993-994).

`CountersAreTrue` and `PartsFitTheWhole` leave exactly these three cases of the profiler out.

The bounds of the machine are `ChunkSize`, `MaxChunks` and `Limits` (memory), the programs
and their arguments. No counter is cut off: a program that loops for ever
either repeats a state or runs out of its chunks.

**Fairness.** Four specifications assume weak fairness, each of the loop of one
computation: `Grow` (the growth of the table), `Next` of `UsedFunctions` (the
walk of the references), `Step` of `RandomDigits` (a running call) and `Sort`
(the sort of the profile). The program is one process with one thread that waits for
nothing, so a loop that can go on does. Nothing is assumed of the program that
is run: it need not call a builtin, nor end. Elsewhere no fairness is assumed;
that a step is possible until the process ends is what the deadlock check of
`machine` shows.

## 4. What is proved

`NodeStoreProofs`, for every `ChunkSize`, `MaxChunks`, `Symbol`, `Limits` and
`AllocTags` that satisfy `ChunkAssumption` and `StoreAssumption` (a chunk has
at least one node; limits are naturals):

- `TypeCorrect`: `Spec => []TypeOK`
- `AlwaysLinked`: `Spec => []Linked`
- `AlwaysSeparated`: `Spec => []Separated`
- `FreePtrStaysFree`: `Spec => []FreePtrIsFree`
- `NothingIsLost`: `Spec => []Conservation`
- `BuiltStaysFree`: `Spec => []BuiltIsFree`

None of them is inductive alone. To show that an allocation stays well typed
one needs that `s_free_ptr` is not the end of the free list and has a
successor, which is `Linked` and `FreePtrIsFree`; to show that a splice keeps
the links inverse one needs that the neighbours it reads are inverse and that
the destination is not next to the range; to show that the allocation pointer
stays free when nodes move away one needs that a range is wholly in one list,
and that list is not the free one unless it is the built prefix, which ends
right before the pointer. So the inductive invariant `IInv` is the conjunction of
the first four properties with one more, that sentinels never change lists. The proof
first treats `Weld` and `ListSplice` as operators on a linked memory, in lemmas
that each action cites, then has one lemma per action.

`IInv` does not exclude that some nodes of a list form a circle that no path
from the sentinel meets. So the last two theorems need more: the nodes have
*positions* (`Ordered`): 0 at the first sentinel of each list, one more at each
link, none twice in a list, and those of the end sentinels add up to the number of nodes that were created.
Positions are no state of the code; the invariant `OInv` says that some exist. A splice shifts them: down behind the gap it leaves, up behind the
destination, and the range goes in between (`SpliceOrder`). A node then is on the path from the first
sentinel because its position counts the links to it (`PathIsChain`), and a
range of one list is the nodes with positions between those of its ends, which is why
what moves is what was meant and nothing else. The runs define paths by
recursion over the links; the proofs read that recursion in one place only
(`PathIsWalk`).

For the same constants:

- `ListsImplemented`: `MCSpec => ImplementsLists`.

Each list is the sequence of its nodes by position. A step of the memory maps to one of
`ListStore`: an allocation adds the next free node to the built prefix,
`Move`, `Discard` and `Publish` cut a range out of one sequence and
put it into another, and a refusal of memory ends both. The variable `abstract`
of `MCNodeStore` holds the mapped state, so the proof also shows that it is always
the abstraction of the memory.

`Induction` states the least-number principle and induction on a *set*,
`InductionOnSet`: a set of naturals with 0 in it and closed under successor has all of
them, by the library's theorem that the naturals are well founded. Induction over a
formula would need an operator as a parameter, which the provers
cannot instantiate; a set that the formula carves out does instead. A
recursive function is unfolded in a lemma of its own that shows that a function with
that equation exists. `RunExists` and `RunsAgree` say that for the recursions that go
through a sequence, `InductionOnSeq` is induction on a set of sequences. `RecursionByRank`
says it for any recursion of a function through which a rank, a natural, falls, and
`FoldExists` for the folds of the community modules, which are such recursions
over subsets of a domain.

`ArithmeticProofs`, for every even `Radix` greater than 1:

- `SumIsExact`: the sign, carry and value that `add` computes are the sum.
- `OrderIsExact`: `Compare` orders its arguments as integers, given that a
  zero has the sign +1, which is what `parse_signed_number` sees to.
- `MulIsExact`: `Spec => []ProductIsExact` in `MulLoop`. The invariant is that
  what is added up, plus x times y as they are now, is the product. It keeps
  the sum so far and the multiple of y that is added below `Radix` squared, so
  the second word does not overflow and the carry is found by one comparison
  (`AddTwoWords`). A doubling of y loses nothing as long as x has another bit
  (`DoubleTwoWords`); the last one may, and then x is 0.
- `LongProductIsExact`: the same of `LongProduct`, the function that
  `ArithmeticCalls` uses: the loop ends, and on the short way the product fits.
  The recursion that runs the loop to its end is unfolded by means of the runs
  of the loop (`RunGoesOn`): before and after a turn they have one end.
- `OverflowIsSeen`: the division that decides between the two ways decides it right.
- `DivisionIsExact`: x is quotient times y plus remainder, with signs.
- `WordsStayInCall`: no function but `Numb` and `Symb`, which are about digits,
  ends with `Overrun`, whatever the cells. `Divmod` is the close one: with
  a minus before the first number alone it needs every cell of the call.
- `ChainsStayInCall`: `Spec => []StaysInCall` in `ArithmeticCalls`, `Numb` and
  `Symb` included, for every `PortionBits`, `DecChunk`, arguments and length of a chain that satisfy
  `DecimalAssumption` and `ProgramAssumption`: a word is four portions of an even number of
  bits, a chunk fits in half a word, and a cell that is a number holds a word; a
  program starts with numbers or texts, and its second arguments are numbers of one word.
  The code has 8 or 16 for `PortionBits` and 4 or 9 for `DecChunk`.
- `ChainsCompute`: `Spec => ImplementsCalculator`, for the same constants. Whatever
  the chain, every step answers what `Calculator` answers, for numbers of any length.

In `ChainsStayInCall` the invariant is only that what a function leaves are cells again
(`CallsTyped`); what is hard is that the two loops over digits fit. For `Numb`: there are at most half as many
portions as digits, rounded up (`PortionBits` is at least 2); each round of the
loop over the portions lowers their `Effort`, which is at most four for each portion,
and four rounds make a word, so there are at most as many
words as portions, which leaves a cell for the sign. For `Symb`: the words after a
division have the value of those before, divided by `DecPower` (`Value`, a Horner
sum), so if there are D digits then 10 to the power D - 1 is at most the value; that
is less than 2 to the number of bits; and 10^28 > 2^93 turns this into the bound on D
by which `Symb` allocates.

In `ChainsCompute` the invariant (`CallsMeant`) adds what kind of cells are shown, and that a call
asks for a function of that kind. The mapping reads integers off cells, so one lemma per
function says what the cells that it leaves stand for. A number is a sign and words (`NumeralParts`), which a function on words recognises
as its arguments if there is one word each (`ArgumentsAre`); the lemmas from
`AddShows` to `CompareShows` then follow from the theorems on signs and words above.
For `Symb`, the D digits are cut from the lowest end in chunks: the last k digits of n are
those of n modulo 10^k whatever k is (`LastFigures`), a chunk in the middle keeps its
zeros, and the first has none (`DigitsShow`, `SymbShows`). For `Numb`, the portions are digits in base 10^P, P
being `PortionBits` (`PortionsShow`); halving P times is exact because 10^P is 2^P 5^P
(`TenFacts`), so a round leaves the quotient by 2^P in the portions, all below 10^P again, and the remainder
in the words (`QuarterShows`). The sum of what is done and what is left is the number
at each round (`Amount`, `RoundShows`), and a portion that becomes zero is dropped exactly
when it is the first, so no word in front is zero (`WordsShow`). That a text has one value
at all, although `TextValue` chooses the range of its digits, is `NumberIsUnique`.

`ImplodeProofs`, for every set of words, hash function, first size of at least
two buckets and load:

- `NamesAreFound`: `TypeOK`, `EveryNameFound` and `OneItemPerName` always hold.
- `TableKeepsUp`: `Spec => []ChainsStayShort`.
- `FreedOnce`: `Spec => []EachFreedOnce`.
- `OneSymbolPerWord`: `Spec => ImplementsSymbols`, the refinement.

That a lookup misses only for a new word is not inductive: one needs that an
item is in the bucket that its stored hash selects, that the stored hash is that
of its name (`HashesKept`), that the buckets the growth has passed are empty
(`Drained`), else freeing the old array would lose items, and that the sizes fit
the number of items (`Sized`): 3/2 of two or more buckets, rounded down, is at
least one more, which is why the first size must not be 1. That the clean-up frees an
item once needs that no chain has an item twice, in either array, and
that the two arrays share none (`Once`): moving an item takes it
from one before it enters the other.

`UsedFunctionsProofs`, for every file of any size (`FilesAssumption` says that
it is one):

- `UsedIsWhatTheDocsSay`: `Spec => []UsedIsLeast`.
- `EntriesAreAlwaysUsed`, `NamesAreDeclaredOnce`, `MetatableHasAll`.

The invariant says what holds in the middle of the walk: a reference in the body
of a used function has been handled or waits in the queue (`NothingForgotten`),
and what is marked or waits is in every set that obeys the rules
(`NothingExtra`, `MetaHasCaller`). At the end the queue is empty.

`RandomDigitsProofs`, for every word of an even number of values, every size of
ring and lags `1 <= Short < Long` and every set of natural seeds:

- `LowBitStaysAlive`: `Spec => []LowBitAlive`. The filling multiplies by an odd
  number and adds an odd one, so each turn flips the low bit and two cells that follow each other
  differ in it; afterwards the low bit that the generator overwrites is the
  difference of the new one and one that stays, so not all can become zero. The word size must be even,
  else the low bit of a sum is not the sum of the low bits.
- `FibonacciImplemented`: `Spec => ImplementsFibonacci`. The window of the last
  `Long` numbers is read from the ring at `k`; the invariant is that
  `j` keeps its distance from `k` across both wraps.
- `LoopIsUnbiased`: `Spec => []Unbiased`. Adding r maps the accepted draws with the
  remainder 0 one to one onto those with the remainder r, since
  `max_valid` is a multiple of the limit; and the limit is never 0.
- `ReturnsInBounds`: what a call has returned is within the bounds of its
  argument, the part of `CallsReturn` that is safety.

`ProfilerProofs`, for every length of a run and any nesting of loops:

- `AssertionsHold`: `Spec => []NoAssertFails`.
- `CountersHold`: `Spec => []CountersAreTrue`.
- `ReportAddsUp`: `Spec => []PartsFitTheWhole`.
- `ProfileSorts`: `ProfileSpec => []ProfileIsSorted`, for every set of functions
  and every bound on the times, if `CallsFirst` is FALSE: the program does not call `GO`
  again. Without that hypothesis the theorem is wrong, which is the finding of
  `profile_of_go`.

The invariant of the first three is what a counter lacks: in the middle of a phase it is the time
spent minus what has passed since the reading of the clock that will be
subtracted (`Sums`), and the flags tell which phase it is (`Flags`). The
invariant of the sort (`FInv`) is that the links hold two chains, what is left of the
list and what is sorted, that together they have each function called once, that
a NULL link is that of an end or of a function never called, and that what
the search has passed is slower than the function to be put in.

`StreamsProofs`, for every number of entries of the table, all numbers, names,
expressions and inputs, every `BufferSize` and `MaxText`, on a disk that may
become full or not. `TableAssumption` and `TextAssumption` give the constants
their types; `MarkAssumption` says that NULL is no FILE and `NoFile` no text, which
in the code are a pointer and the absence of a file:

- `StreamsSound`: `Spec => [](Good(disk, s_streams))`.
- `StreamsImplementLines`: `Spec => ImplementsLineFiles`, the refinement.

The invariant (`Good`) is that a file is open under one number, which `Free` sees to,
that a file that is open is there, and that nothing waits in a FILE opened
for reading. The lemmas about texts come first: cutting a text into lines
commutes with joining texts (`LinesJoin`), so it does not matter what of a text is
on the disk and what waits; one read takes one line off (`ReadsALine`); the loop of
`LoadFile` makes the lines whatever the size of its buffer (`LoadsTheLines`).
Then each thing that can happen to one entry has a lemma over a
disk and a table as values: `Flushing`, `Closing`, `Opening`, `Reading`, `Writing`,
`Ending`; an action is one of these or two in a row. `Open` is `Closing`, then
`Opening` on the disk that `Closing` left, which is the step that fails if a file is
opened before the old stream is closed.

Only model-checked:

- liveness (`GrowthEnds`, `WalkEnds`, `CallsReturn`, `ProfileIsMade`), since the prover does
  not reason about fairness, and deadlock freedom;
- everything about `RefalMachine`: matching and compiling are recursive operators,
  which the prover does not accept;
- `CompactStorage`: its invariants and its refinement are about folds over slots and chains of
  macronodes, and are not proved yet. The way of `NodeStoreProofs`, with positions for
  macronodes, should do, but no one of them is inductive alone: a slot stays in range only
  if the neighbour that a move reaches is not empty, and a new macronode has an id of its
  own only if those alive are counted by the items they hold, which bounds `MaxMacro`
  from below by `MaxItem`.

## 5. Abstractions

- `NodeMemory` and what is built on it model the build without
  `R05_COMPACT_HANDLES`, the default of the makefiles; `CompactStorage` models
  the storage of the other build under any legal sequence of calls. The
  machine is not run on the compact storage.
- Legal means, for the compact storage, what the callers see to. A range is
  one of values or calls, so brackets are in it in pairs. A destination is in
  another list or before the range: `cm_splice` would split at a stale position
  if it were behind the range in the same macronode. A function does not
  destroy what it has pushed on the call stack itself (`NotPushed`):
  `cl_iter_escape` leaves the slot in the list of the frame, and `slot_recycle`
  would cut that list there. Whoever asks for an insert position fills it or
  publishes the result before the function returns.
- A string literal becomes one macronode: the compiler emits one `r05_alloc_chars` for
  it (`src/R05-Generator.ref` 352), and `cm_push_back_bulk` allocates as many places as
  it has chars. A literal of more than 32767 therefore fails
  `assert(capacity <= SHRT_MAX)` (`lib/compact_list.c` 242) and the program aborts; neither
  the compiler nor the runtime divides it or says so. `NeverAborts` is about programs
  whose literals are no longer than that (`MaxLiteral <= MaxCapacity` in the cfg). With
  `MaxCapacity` and `MaxMacronode` 2 and `MaxLiteral` 3 TLC finds it violated by the first
  function that builds its literal. `LoadFile` hands over a buffer at a time.
- The assertions on memory (`malloc`, `calloc`, `realloc`) and on `SLOT_ID_MAX`, 2^24 - 1
  slots alive at a time, are left out: a new handle has a slot (`FreeSlot`). So a call stack
  of more than 2^24 calls, each of which keeps a handle, is outside of the model, too.
- `Generations` is 1 and `Frames` 2 in the runs: a stale handle is never
  recognised by its generation, and all frames have the same number, which is the
  hardest case for the properties.
- Left out of the compact storage: `init_view_field`, which allocates outside of any
  frame (what it leaves behind is reached from inside one),
  `cl_iter_alloc_temp`, `cm_insert_before` in the middle of a list and
  `cm_push_pinned_singleton`, which only the demo calls.
- `Compact` may run after any step; the code runs it
  after every tenth, if it is built with `R05_COMPACT_AUTO_COMPACT`.
- One module per program, hence one metatable; local functions of the same
  name in two modules are not told apart. Functions are compared by identity
  where the code compares names.
- The programs of the machine call no arithmetic functions; `ArithmeticCalls`
  models those on cells. Arithmetic operators as names (`<Mu '+' ...>`) are left out.
  `Residue` is the C function of `Mu` under another name, and `Ev-met` that of `Up`.
- Chars are their codes, 0 to 255, and their classes those of the C locale. `Exit`
  keeps the low eight bits of its number, as `docs/3-install-and-usage.md` 755 says.
- In the machine the symbol that `implode` finds or makes for a name is a constant
  (`Imploded`); that it is one is what `ImplodeTable` shows. The name of a
  function of the program denotes a symbol of its own, as in the code.
- malloc and calloc of the implode table, which the code does not check,
  succeed, and so does the memory for random digits.
- A program uses a file through one number at a time (`Free`): of two numbers on
  one file neither the code nor the documentation promises anything. File names
  are whole; names that are too long and binary modes are left out. A FILE opened
  for writing delivers nothing to `Get`; a `Put` into one opened for reading fails.
- The order and the text of messages are left out, of the compiler's as of the
  runtime's.
- `Mul`, `Div` and `Mod` give a zero a minus, `<Mul 0 '-' 5>` is `'-' 0`. The
  documented formats allow it, and the functions read it as 0, so
  `NumeralValue` does, too.
- The cells of a call in `Arithmetic` are values: `InPlaceOf` says what of the
  nodes stays. `Numb` compares what it lays down with the room that the
  portions leave; of the digits that `Symb` allocates only the number matters.
- A string of chars is allocated char by char.
- The link field of a bracket that was just allocated is NULL instead of what
  the node held before; nothing reads it before it is linked.
- Not modelled: `Arg`, `GetEnv`, `System`, `Time`, `TimeElapsed`, `Step` and
  `ListOfBuiltin`, each of which returns what the host or a counter says in one step;
  the lexer and the grammar, which are text processing (their trees are the
  inputs of `SentenceCompiler` and `UsedFunctions`); the driver, which finds
  files and runs the C compiler; the memory statistics of the compact build,
  which only count.
- One hazard has no property (see `PROJECT.json`): two numbers on one file
  (`lib/Library.c` 680), which the guard `Free` excludes. Handles hold eight bits of a generation
  (`lib/cl_iter_table.c` 240); the runtime keeps no handle of a dead element, so
  no generation is ever compared to a purpose.
- Dumps are left out; `r05_exit` is the value of `exit`
  and keeps the rest of the state, which is what the dump prints.

## 6. Plan

Done: every component of the inventory but the text processing, the host and the
dumps; 35 theorems. Next, in this order:

1. `ListStore` as what `ItemLists` looks like without handles, so that both
   builds implement one specification.
2. The machine on the compact storage, for the programs of `MCRefalMachine`.
3. Proofs: the slots and chains of the handle table (`SlotsKnown`), then
   `NoEmptyMacronode` and `NextIsNext` of the compact list.
4. The order of the compiler's messages, and that `EscapeName` maps different
   names to different C names.
