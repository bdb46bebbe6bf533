---------------------------- MODULE ImplodeTable ----------------------------
(***************************************************************************)
(* The table of imploded names of Library.c: a hash table with chains that *)
(* grows by moving every item into a larger array of buckets.  implode()   *)
(* is one action up to the point where the table may have to grow; the     *)
(* loop that moves the items is one action per item.                       *)
(*                                                                         *)
(* malloc and calloc are not checked by the code and succeed here.         *)
(***************************************************************************)
EXTENDS Integers, Sequences

CONSTANTS
  Words,          \* the strings that may be imploded
  Library,        \* names of s_builtin_info and s_arithmetic_names
  Hash,           \* the polynomial hash of a word
  InitialSize,    \* buckets of the first table: 100 in the code
  Load            \* items per bucket that make the table grow: 3 in the code

ASSUME HashAssumption == Hash \in [Words -> Nat]
ASSUME SizeAssumption == InitialSize \in Nat /\ InitialSize >= 2 /\ Load \in Nat \ {0}

VARIABLES
  items,       \* the struct imploded ever allocated, by address: 1, 2, ...
  table,       \* s_imploded: bucket -> its chain, the front first
  size,        \* s_imploded_size; 0 while s_imploded is NULL
  count,       \* s_imploded_count
  newTable,    \* new_table and
  newSize,     \*   new_size, while the table grows
  i,           \* the bucket being moved
  result       \* the last call: its word and the function it returns

ivars == <<items, table, size, count, newTable, newSize, i, result>>

EmptyTable(n) == [b \in 0 .. n - 1 |-> <<>>]

Bucket(hash, n) == hash % n

\* Mutant of Front: the chain that was there is lost.
OnlyItem(t, b, x) == [t EXCEPT ![b] = <<x>>]

\* An item becomes the front of the chain of its bucket.
Front(t, b, x) == [t EXCEPT ![b] = <<x>> \o @]

Address == 1 .. Len(items)

Growing == newSize # 0

-----------------------------------------------------------------------------
Init ==
  /\ items = <<>> /\ table = EmptyTable(0) /\ size = 0 /\ count = 0
  /\ newTable = EmptyTable(0) /\ newSize = 0 /\ i = 0
  /\ result = [word |-> "none", function |-> <<"none">>]

Returns(w, f) == result' = [word |-> w, function |-> f]

\* The first two loops of implode: the word is a name of the library.
ImplodeKnown(w) ==
  /\ ~Growing /\ w \in Library
  /\ Returns(w, <<"library", w>>)
  /\ UNCHANGED <<items, table, size, count, newTable, newSize, i>>

\* The table at the time of the lookup: the first lookup creates it.
Size  == IF size = 0 THEN InitialSize ELSE size
Table == IF size = 0 THEN EmptyTable(InitialSize) ELSE table
Chain(w) == Table[Bucket(Hash[w], Size)]

\* Positions in the chain where a word is found.
Positions(w) == {k \in 1 .. Len(Chain(w)) : items[Chain(w)[k]].name = w}

ImplodeAgain(w) ==
  /\ ~Growing /\ w \notin Library
  /\ \E k \in Positions(w) :
       /\ \A q \in Positions(w) : k <= q
       /\ Returns(w, <<"imploded", Chain(w)[k]>>)
  /\ UNCHANGED <<items, table, size, count, newTable, newSize, i>>

\* Mutant of TooSmall: the table grows one item too late.
TooSmallLate(n, buckets) == n > Load * buckets + 1

TooSmall(n, buckets) == n > Load * buckets

\* A new item goes to the front of its chain; a table that is too small starts to grow.
ImplodeNew(w) ==
  /\ ~Growing /\ w \notin Library
  /\ Positions(w) = {}
  /\ LET new  == Len(items) + 1
         grow == TooSmall(count + 1, Size)
     IN  /\ items' = Append(items, [name |-> w, hash |-> Hash[w]])
         /\ table' = Front(Table, Bucket(Hash[w], Size), new)
         /\ size' = Size
         /\ count' = count + 1
         /\ newSize' = IF grow THEN (3 * Size) \div 2 ELSE 0
         /\ newTable' = EmptyTable(newSize')
         /\ i' = 0
         /\ Returns(w, <<"imploded", new>>)

\* Mutant of MoveItem: the item goes to the bucket it had in the old array.
MoveItemSameBucket ==
  /\ Growing /\ i < size /\ table[i] # <<>>
  /\ newTable' = Front(newTable, i, Head(table[i]))
  /\ table' = [table EXCEPT ![i] = Tail(@)]
  /\ UNCHANGED <<items, size, count, newSize, i, result>>

\* The inner loop: the first item left in bucket i becomes the front of its new chain.
MoveItem ==
  /\ Growing /\ i < size /\ table[i] # <<>>
  /\ LET known == Head(table[i])
     IN  newTable' = Front(newTable, Bucket(items[known].hash, newSize), known)
  /\ table' = [table EXCEPT ![i] = Tail(@)]
  /\ UNCHANGED <<items, size, count, newSize, i, result>>

\* Mutant of NextBucket: the loop starts at the first bucket again.
SameBucket ==
  /\ Growing /\ i < size /\ table[i] = <<>>
  /\ i' = 0
  /\ UNCHANGED <<items, table, size, count, newTable, newSize, result>>

NextBucket ==
  /\ Growing /\ i < size /\ table[i] = <<>>
  /\ i' = i + 1
  /\ UNCHANGED <<items, table, size, count, newTable, newSize, result>>

\* The old array is freed, the new one takes its place and implode returns.
Install ==
  /\ Growing /\ i = size
  /\ table' = newTable /\ size' = newSize
  /\ newTable' = EmptyTable(0) /\ newSize' = 0
  /\ i' = 0
  /\ UNCHANGED <<items, count, result>>

Grow == MoveItem \/ NextBucket \/ Install

Implode(w) == ImplodeKnown(w) \/ ImplodeAgain(w) \/ ImplodeNew(w)

Next == Grow \/ \E w \in Words : Implode(w)

\* The loop of a running call goes on: nothing in it waits.  Nobody has to call Implode.
Spec == Init /\ [][Next]_ivars /\ WF_ivars(Grow)

-----------------------------------------------------------------------------
(* Properties.                                                              *)

Item == [name : Words, hash : Nat]

TypeOK ==
  /\ items \in Seq(Item)
  /\ size \in Nat /\ count \in Nat /\ newSize \in Nat
  /\ i \in 0 .. size
  /\ table \in [0 .. size - 1 -> Seq(Address)]
  /\ newTable \in [0 .. newSize - 1 -> Seq(Address)]

(* A name already imploded is found again: its item is in the chain that the current
   array assigns to it, also after any number of growths, and while the table grows it is
   in the old array's chain or in the new one's. *)
InBucket(t, n, x) == \E k \in 1 .. Len(t[Bucket(items[x].hash, n)]) : t[Bucket(items[x].hash, n)][k] = x

EveryNameFound ==
  \A x \in Address :
    \/ size # 0 /\ InBucket(table, size, x)
    \/ Growing /\ InBucket(newTable, newSize, x)

\* Two items never have one name: a word has one symbol.
OneItemPerName == \A x, y \in Address : items[x].name = items[y].name => x = y

Places(t, n) == {p \in (0 .. n - 1) \X Address : p[2] <= Len(t[p[1]])}

(* cleanup_imploded_table frees what the chains hold: every item is in them exactly once,
   so the exit of the program frees each once and forgets none. *)
EachFreedOnce ==
  \A x \in Address :
    LET old == {p \in Places(table, size) : table[p[1]][p[2]] = x}
        new == {p \in Places(newTable, newSize) : newTable[p[1]][p[2]] = x}
    IN  \/ new = {} /\ \E p \in old : old = {p}
        \/ old = {} /\ \E p \in new : new = {p}

(* The table keeps up with the names: between calls there are at most Load items per
   bucket on the average, and every growth adds buckets. *)
ChainsStayShort == ~Growing /\ size # 0 => Len(items) <= Load * size

\* A call that makes the table grow returns: the loop reaches the last bucket.
GrowthEnds == Growing ~> ~Growing

-----------------------------------------------------------------------------
(* Refinement: the table implements the symbols of Symbols.                 *)

ItemOf(w) == CHOOSE x \in Address : items[x].name = w

SymbolTable == INSTANCE Symbols WITH
  symbol <- [w \in {items[x].name : x \in Address} |-> ItemOf(w)]

\* Every call of Implode gives the word's symbol; growing changes no symbol.
ImplementsSymbols == SymbolTable!Spec
=============================================================================
