---------------------------- MODULE ImplodeProofs ----------------------------
(***************************************************************************)
(* Proofs about ImplodeTable for every set of words, hash function, first  *)
(* size of at least two buckets and load: a word keeps one symbol for ever *)
(* whatever the number of growths in between.                              *)
(***************************************************************************)
EXTENDS ImplodeTable, FunctionTheorems, TLAPS

Has(c, x) == \E k \in 1 .. Len(c) : c[k] = x

\* The hash kept in an item is that of its name.
HashesKept == \A x \in Address : items[x].hash = Hash[items[x].name]

\* The buckets the loop has passed are empty, so nothing is lost when the old array is freed.
Drained == Growing => \A b \in 0 .. i - 1 : table[b] = <<>>

\* The table exists once there is an item, and its size fits the number of items.
Sized ==
  /\ count = Len(items)
  /\ size = 0 => items = <<>> /\ ~Growing
  /\ size # 0 => size >= 2
  /\ ~Growing /\ size # 0 => count <= Load * size
  /\ Growing => newSize >= 2 /\ count <= Load * newSize

(* The inductive invariant.  That a lookup misses only for a new word needs all of it: the
   item is in the bucket its stored hash selects, the stored hash is the word's hash. *)
IInv == TypeOK /\ HashesKept /\ EveryNameFound /\ OneItemPerName /\ Drained /\ Sized

-----------------------------------------------------------------------------
LEMMA BucketRange ==
  ASSUME NEW h \in Nat, NEW n \in Nat, n # 0
  PROVE  Bucket(h, n) \in 0 .. n - 1
  BY DEF Bucket

LEMMA HasFront ==
  ASSUME NEW S, NEW c \in Seq(S), NEW x \in S
  PROVE  /\ <<x>> \o c \in Seq(S)
         /\ Has(<<x>> \o c, x)
         /\ \A y : Has(c, y) => Has(<<x>> \o c, y)
  <1>1. <<x>> \o c \in Seq(S) /\ Len(<<x>> \o c) = Len(c) + 1 /\ Len(c) \in Nat
    OBVIOUS
  <1>2. (<<x>> \o c)[1] = x
    OBVIOUS
  <1>3. ASSUME NEW y, Has(c, y) PROVE Has(<<x>> \o c, y)
    <2>1. PICK k \in 1 .. Len(c) : c[k] = y
      BY <1>3 DEF Has
    <2>2. (<<x>> \o c)[k + 1] = y /\ k + 1 \in 1 .. Len(<<x>> \o c)
      BY <1>1, <2>1
    <2>. QED
      BY <2>2 DEF Has
  <1>4. Has(<<x>> \o c, x)
    <2>1. 1 \in 1 .. Len(<<x>> \o c)
      BY <1>1
    <2>. QED
      BY <1>2, <2>1 DEF Has
  <1>. QED
    BY <1>1, <1>3, <1>4

LEMMA HasTail ==
  ASSUME NEW S, NEW c \in Seq(S), c # <<>>, NEW y, Has(c, y)
  PROVE  /\ Tail(c) \in Seq(S) /\ Head(c) \in S
         /\ y = Head(c) \/ Has(Tail(c), y)
  <1>1. Tail(c) \in Seq(S) /\ Head(c) \in S /\ Len(Tail(c)) = Len(c) - 1 /\ Len(c) \in Nat
    OBVIOUS
  <1>2. PICK k \in 1 .. Len(c) : c[k] = y
    BY DEF Has
  <1>3. CASE k = 1
    BY <1>1, <1>2, <1>3
  <1>4. CASE k # 1
    <2>1. Tail(c)[k - 1] = y /\ k - 1 \in 1 .. Len(Tail(c))
      BY <1>1, <1>2, <1>4
    <2>. QED
      BY <1>1, <2>1 DEF Has
  <1>. QED
    BY <1>3, <1>4

\* An item is found in a table iff its bucket's chain has it.
LEMMA InBucketHas ==
  ASSUME NEW t, NEW n, NEW x, InBucket(t, n, x)
  PROVE  Has(t[Bucket(items[x].hash, n)], x)
  BY DEF InBucket, Has

LEMMA EmptyTableType ==
  ASSUME NEW n \in Nat, NEW S
  PROVE  EmptyTable(n) \in [0 .. n - 1 -> Seq(S)]
  BY DEF EmptyTable

-----------------------------------------------------------------------------
(* Initial state and the steps.                                             *)

LEMMA InitIInv == Init => IInv
  <1>. SUFFICES ASSUME Init PROVE IInv
    OBVIOUS
  <1>1. Address = {} /\ items \in Seq(Item) /\ Len(items) = 0
    BY DEF Init, Address
  <1>2. TypeOK
    BY <1>1 DEF Init, TypeOK, EmptyTable
  <1>. QED
    BY <1>1, <1>2 DEF Init, IInv, HashesKept, EveryNameFound, OneItemPerName, Drained, Sized, Growing

\* The array a lookup uses: the first lookup creates it.
LEMMA LookupTable ==
  ASSUME IInv, ~Growing
  PROVE  /\ Size \in Nat /\ Size >= 2
         /\ Table \in [0 .. Size - 1 -> Seq(Address)]
         /\ \A x \in Address : Has(Table[Bucket(items[x].hash, Size)], x)
         /\ count <= Load * Size
  <1>1. CASE size = 0
    <2>1. Address = {} /\ count = 0
      BY <1>1 DEF IInv, Sized, Address
    <2>2. Size = InitialSize /\ Table = EmptyTable(InitialSize) /\ InitialSize \in Nat
      BY <1>1, SizeAssumption DEF Size, Table
    <2>3. Load * Size \in Nat
      BY <2>2, SizeAssumption
    <2>. QED
      BY <2>1, <2>2, <2>3, SizeAssumption, EmptyTableType
  <1>2. CASE size # 0
    <2>1. Size = size /\ Table = table
      BY <1>2 DEF Size, Table
    <2>2. \A x \in Address : InBucket(table, size, x)
      BY <1>2 DEF IInv, EveryNameFound
    <2>. QED
      BY <1>2, <2>1, <2>2, InBucketHas DEF IInv, TypeOK, Sized
  <1>. QED
    BY <1>1, <1>2

\* A lookup misses only for a word that has no item.
LEMMA MissMeansNew ==
  ASSUME IInv, ~Growing, NEW w \in Words, Positions(w) = {}
  PROVE  \A x \in Address : items[x].name # w
  <1>. SUFFICES ASSUME NEW x \in Address, items[x].name = w PROVE FALSE
    OBVIOUS
  <1>1. items[x].hash = Hash[w]
    BY DEF IInv, HashesKept
  <1>2. Has(Chain(w), x)
    BY <1>1, LookupTable DEF Chain
  <1>3. PICK k \in 1 .. Len(Chain(w)) : Chain(w)[k] = x
    BY <1>2 DEF Has
  <1>4. k \in Positions(w)
    BY <1>3 DEF Positions
  <1>. QED
    BY <1>4

\* A lookup that hits returns an item of that name.
LEMMA HitMeansName ==
  ASSUME IInv, ~Growing, NEW w \in Words, Positions(w) # {}, NEW k \in Positions(w)
  PROVE  Chain(w)[k] \in Address /\ items[Chain(w)[k]].name = w
  <1>1. Bucket(Hash[w], Size) \in 0 .. Size - 1
    BY LookupTable, BucketRange, HashAssumption
  <1>2. Chain(w) \in Seq(Address)
    BY <1>1, LookupTable DEF Chain
  <1>. QED
    BY <1>2 DEF Positions

\* More buckets after a growth, and enough of them.
LEMMA NewSizeFits ==
  ASSUME NEW s \in Nat, s >= 2, NEW c \in Nat, c <= Load * s
  PROVE  /\ (3 * s) \div 2 \in Nat /\ (3 * s) \div 2 >= 2
         /\ c + 1 <= Load * ((3 * s) \div 2)
  <1> DEFINE n == (3 * s) \div 2
  <1>1. n \in Nat /\ n >= s + 1
    OBVIOUS
  <1>2. Load * n >= Load * (s + 1) /\ Load * (s + 1) = Load * s + Load
    BY <1>1, SizeAssumption
  <1>. QED
    BY <1>1, <1>2, SizeAssumption

LEMMA ImplodeNewIInv ==
  ASSUME IInv, NEW w \in Words, ImplodeNew(w)
  PROVE  IInv'
  <1> DEFINE new == Len(items) + 1
             b   == Bucket(Hash[w], Size)
             item == [name |-> w, hash |-> Hash[w]]
  <1>1. /\ items' = Append(items, item) /\ table' = Front(Table, b, new)
        /\ size' = Size /\ count' = count + 1 /\ i' = 0
        /\ newSize' = IF TooSmall(count + 1, Size) THEN (3 * Size) \div 2 ELSE 0
        /\ newTable' = EmptyTable(newSize')
        /\ ~Growing /\ Positions(w) = {}
    BY DEF ImplodeNew
  <1>2. /\ Size \in Nat /\ Size >= 2 /\ Table \in [0 .. Size - 1 -> Seq(Address)]
        /\ \A x \in Address : Has(Table[Bucket(items[x].hash, Size)], x)
        /\ count <= Load * Size
    BY <1>1, LookupTable
  <1>3. item \in Item /\ Hash[w] \in Nat /\ b \in 0 .. Size - 1
    BY <1>2, HashAssumption, BucketRange DEF Item
  <1>4. /\ items \in Seq(Item) /\ Len(items) \in Nat /\ count \in Nat
        /\ items' \in Seq(Item) /\ Len(items') = new
        /\ Address' = Address \cup {new} /\ new \notin Address
        /\ items'[new] = item /\ \A x \in Address : items'[x] = items[x]
    BY <1>1, <1>3 DEF IInv, TypeOK, Address
  <1>5. \A c \in Seq(Address) : c \in Seq(Address')
    BY <1>4
  <1>6. /\ Table[b] \in Seq(Address') /\ table'[b] = <<new>> \o Table[b]
        /\ \A c \in 0 .. Size - 1 : c # b => table'[c] = Table[c]
        /\ <<new>> \o Table[b] \in Seq(Address')
    BY <1>1, <1>2, <1>3, <1>4, <1>5, HasFront DEF Front
  <1>7. table' \in [0 .. size' - 1 -> Seq(Address')]
    BY <1>1, <1>2, <1>3, <1>5, <1>6 DEF Front
  <1>8. newSize' \in Nat /\ newTable' \in [0 .. newSize' - 1 -> Seq(Address')]
    BY <1>1, <1>2, <1>4, NewSizeFits, EmptyTableType
  <1>9. TypeOK'
    <2>1. size' \in Nat /\ count' \in Nat /\ i' \in 0 .. size'
      BY <1>1, <1>2, <1>4
    <2>. QED
      BY <2>1, <1>4, <1>7, <1>8 DEF TypeOK
  <1>10. HashesKept'
    BY <1>4 DEF IInv, HashesKept
  <1>11. Has(table'[b], new) /\ \A y : Has(Table[b], y) => Has(table'[b], y)
    BY <1>4, <1>6, HasFront
  <1>12. ASSUME NEW x \in Address' PROVE InBucket(table, size, x)'
    <2>1. CASE x = new
      BY <2>1, <1>1, <1>4, <1>11 DEF InBucket, Has
    <2>2. CASE x \in Address
      <3> DEFINE c == Bucket(items[x].hash, Size)
      <3>1. items'[x].hash = items[x].hash /\ items[x].hash \in Nat
        <4>1. items[x] \in Item
          BY <2>2, <1>4 DEF Address
        <4>. QED
          BY <4>1, <2>2, <1>4 DEF Item
      <3>2. c \in 0 .. Size - 1 /\ Has(Table[c], x)
        <4>1. Size \in Nat /\ Size # 0 /\ Has(Table[Bucket(items[x].hash, Size)], x)
          BY <2>2, <1>2
        <4>2. Bucket(items[x].hash, Size) \in 0 .. Size - 1
          BY <3>1, <4>1, BucketRange
        <4>. QED
          BY <4>1, <4>2
      <3>3. Has(table'[c], x)
        BY <3>2, <1>6, <1>11
      <3>. QED
        <4>1. Bucket(items'[x].hash, size') = c
          BY <3>1, <1>1
        <4>. QED
          BY <3>3, <4>1 DEF InBucket, Has
    <2>. QED
      BY <1>4, <2>1, <2>2
  <1>13. EveryNameFound'
    BY <1>12, <1>1, <1>2 DEF EveryNameFound
  <1>14. \A x \in Address : items[x].name # w
    BY <1>1, MissMeansNew
  <1>15. OneItemPerName'
    BY <1>4, <1>14 DEF IInv, OneItemPerName
  <1>16. Drained'
    BY <1>1 DEF Drained
  <1>17. Sized'
    <2>1. count + 1 = Len(items') /\ Size # 0
      BY <1>2, <1>4 DEF IInv, Sized
    <2>2. CASE TooSmall(count + 1, Size)
      <3>1. newSize' >= 2 /\ count + 1 <= Load * newSize'
        BY <2>2, <1>1, <1>2, <1>4, NewSizeFits
      <3>. QED
        BY <3>1, <2>1, <1>1, <1>2, <1>4 DEF Sized, Growing
    <2>3. CASE ~TooSmall(count + 1, Size)
      <3>1. newSize' = 0 /\ count + 1 <= Load * Size
        BY <2>3, <1>1, <1>2, <1>4, SizeAssumption DEF TooSmall
      <3>. QED
        BY <3>1, <2>1, <1>1, <1>2, <1>4 DEF Sized, Growing
    <2>. QED
      BY <2>2, <2>3
  <1>. QED
    BY <1>9, <1>10, <1>13, <1>15, <1>16, <1>17 DEF IInv

LEMMA MoveItemIInv ==
  ASSUME IInv, MoveItem
  PROVE  IInv'
  <1> DEFINE known == Head(table[i])
             c == Bucket(items[known].hash, newSize)
  <1>1. /\ Growing /\ i < size /\ table[i] # <<>>
        /\ newTable' = Front(newTable, c, known)
        /\ table' = [table EXCEPT ![i] = Tail(@)]
        /\ items' = items /\ size' = size /\ count' = count /\ newSize' = newSize /\ i' = i
    BY DEF MoveItem
  <1>2. /\ items \in Seq(Item) /\ size \in Nat /\ newSize \in Nat /\ newSize # 0 /\ size # 0
        /\ i \in 0 .. size - 1
        /\ table \in [0 .. size - 1 -> Seq(Address)]
        /\ newTable \in [0 .. newSize - 1 -> Seq(Address)]
        /\ Address' = Address
    BY <1>1 DEF IInv, TypeOK, Growing, Address
  <1>3. ASSUME NEW x \in Address PROVE items[x].hash \in Nat
    <2>1. items[x] \in Item
      BY <1>2 DEF Address
    <2>. QED
      BY <2>1 DEF Item
  <1>4. /\ table[i] \in Seq(Address) /\ known \in Address /\ Tail(table[i]) \in Seq(Address)
    BY <1>1, <1>2
  <1>5. items[known].hash \in Nat
    BY <1>3, <1>4
  <1>6. c \in 0 .. newSize - 1
    BY <1>2, <1>5, BucketRange
  <1>7. /\ newTable[c] \in Seq(Address)
        /\ newTable'[c] = <<known>> \o newTable[c]
        /\ \A d \in 0 .. newSize - 1 : d # c => newTable'[d] = newTable[d]
        /\ newTable'[c] \in Seq(Address)
    BY <1>1, <1>2, <1>4, <1>6, HasFront DEF Front
  <1>8. newTable' \in [0 .. newSize - 1 -> Seq(Address)]
    BY <1>1, <1>2, <1>6, <1>7 DEF Front
  <1>9. /\ table' \in [0 .. size - 1 -> Seq(Address)]
        /\ table'[i] = Tail(table[i])
        /\ \A d \in 0 .. size - 1 : d # i => table'[d] = table[d]
    BY <1>1, <1>2, <1>4
  <1>10. TypeOK'
    BY <1>1, <1>2, <1>8, <1>9 DEF IInv, TypeOK
  <1>11. /\ Has(newTable'[c], known)
         /\ \A y : Has(newTable[c], y) => Has(newTable'[c], y)
    <2> DEFINE chain == newTable[c]
    <2>1. chain \in Seq(Address) /\ newTable'[c] = <<known>> \o chain /\ known \in Address
      BY <1>4, <1>7
    <2>. HIDE DEF chain, known, c
    <2>2. Has(<<known>> \o chain, known) /\ \A y : Has(chain, y) => Has(<<known>> \o chain, y)
      BY <2>1, HasFront
    <2>3. Has(newTable'[c], known) /\ \A y : Has(chain, y) => Has(newTable'[c], y)
      BY <2>1, <2>2
    <2>. QED
      BY <2>3 DEF chain
  <1>12. ASSUME NEW x \in Address, ~(InBucket(newTable, newSize, x)')
         PROVE  InBucket(table, size, x)'
    <2> DEFINE old == Bucket(items[x].hash, size)
               new == Bucket(items[x].hash, newSize)
    <2>1. /\ Bucket(items'[x].hash, size') = old /\ Bucket(items'[x].hash, newSize') = new
      BY <1>1
    <2>2. old \in 0 .. size - 1 /\ new \in 0 .. newSize - 1
      BY <1>2, <1>3, BucketRange
    <2>3. ~Has(newTable'[new], x)
      BY <1>12, <2>1 DEF InBucket, Has
    <2>4. ~Has(newTable[new], x)
      BY <2>2, <2>3, <1>7, <1>11
    <2>5. x # known
      BY <2>3, <1>11
    <2>6. Has(table[old], x)
      BY <2>4 DEF IInv, EveryNameFound, InBucket, Has
    <2>7. Has(table'[old], x)
      <3>1. CASE old = i
        BY <3>1, <2>5, <2>6, <1>1, <1>4, <1>9, HasTail
      <3>2. CASE old # i
        BY <3>2, <2>2, <2>6, <1>9
      <3>. QED
        BY <3>1, <3>2
    <2>. QED
      BY <2>1, <2>7 DEF InBucket, Has
  <1>13. EveryNameFound'
    BY <1>1, <1>2, <1>12 DEF EveryNameFound, Growing
  <1>14. HashesKept' /\ OneItemPerName' /\ Sized'
    BY <1>1, <1>2 DEF IInv, HashesKept, OneItemPerName, Sized, Growing
  <1>15. Drained'
    <2>1. ASSUME NEW b \in 0 .. i - 1 PROVE table'[b] = <<>>
      <3>1. b \in 0 .. size - 1 /\ b # i
        BY <1>2
      <3>2. table[b] = <<>>
        BY <1>1 DEF IInv, Drained
      <3>. QED
        BY <3>1, <3>2, <1>9
    <2>. QED
      BY <2>1, <1>1 DEF Drained
  <1>. QED
    BY <1>10, <1>13, <1>14, <1>15 DEF IInv

LEMMA NextBucketIInv ==
  ASSUME IInv, NextBucket
  PROVE  IInv'
  <1>1. /\ i < size /\ table[i] = <<>> /\ i' = i + 1
        /\ UNCHANGED <<items, table, size, count, newTable, newSize, result>>
    BY DEF NextBucket
  <1>2. Address' = Address
    BY <1>1 DEF Address
  <1>3. TypeOK'
    BY <1>1, <1>2 DEF IInv, TypeOK
  <1>4. HashesKept' /\ OneItemPerName' /\ Sized' /\ EveryNameFound'
    BY <1>1, <1>2 DEF IInv, HashesKept, OneItemPerName, Sized, Growing, EveryNameFound, InBucket
  <1>5. Drained'
    BY <1>1 DEF IInv, TypeOK, Drained, Growing
  <1>. QED
    BY <1>3, <1>4, <1>5 DEF IInv

LEMMA InstallIInv ==
  ASSUME IInv, Install
  PROVE  IInv'
  <1>1. /\ Growing /\ i = size
        /\ table' = newTable /\ size' = newSize
        /\ newTable' = EmptyTable(0) /\ newSize' = 0 /\ i' = 0
        /\ items' = items /\ count' = count
    BY DEF Install
  <1>2. /\ Address' = Address /\ size \in Nat /\ newSize \in Nat /\ newSize >= 2
        /\ ~(Growing')
    BY <1>1 DEF IInv, TypeOK, Sized, Address, Growing
  <1>3. TypeOK'
    BY <1>1, <1>2, EmptyTableType DEF IInv, TypeOK
  <1>4. HashesKept' /\ OneItemPerName' /\ Drained' /\ Sized'
    BY <1>1, <1>2 DEF IInv, HashesKept, OneItemPerName, Drained, Sized
  <1>5. ASSUME NEW x \in Address PROVE ~Has(table[Bucket(items[x].hash, size)], x)
    <2>1. items[x] \in Item
      BY DEF IInv, TypeOK, Address
    <2>2. items[x].hash \in Nat /\ size # 0
      BY <2>1, <1>1 DEF Item, IInv, Sized
    <2>3. Bucket(items[x].hash, size) \in 0 .. size - 1
      BY <1>2, <2>2, BucketRange
    <2>4. table[Bucket(items[x].hash, size)] = <<>>
      BY <1>1, <2>3 DEF IInv, Drained
    <2>. QED
      BY <2>4 DEF Has
  <1>6. \A x \in Address : InBucket(newTable, newSize, x)
    BY <1>5 DEF IInv, EveryNameFound, InBucket, Has
  <1>7. EveryNameFound'
    BY <1>1, <1>2, <1>6 DEF EveryNameFound, InBucket
  <1>. QED
    BY <1>3, <1>4, <1>7 DEF IInv

LEMMA LookupIInv ==
  ASSUME IInv, NEW w \in Words, ImplodeKnown(w) \/ ImplodeAgain(w)
  PROVE  IInv'
  <1>1. UNCHANGED <<items, table, size, count, newTable, newSize, i>>
    BY DEF ImplodeKnown, ImplodeAgain
  <1>2. Address' = Address
    BY <1>1 DEF Address
  <1>. QED
    BY <1>1, <1>2 DEF IInv, TypeOK, HashesKept, EveryNameFound, InBucket, OneItemPerName,
                      Drained, Sized, Growing

LEMMA NextIInv == IInv /\ [Next]_ivars => IInv'
  <1>. SUFFICES ASSUME IInv, [Next]_ivars PROVE IInv'
    OBVIOUS
  <1>1. ASSUME NEW w \in Words, ImplodeKnown(w) PROVE IInv'
    BY <1>1, LookupIInv
  <1>2. ASSUME NEW w \in Words, ImplodeAgain(w) PROVE IInv'
    BY <1>2, LookupIInv
  <1>3. ASSUME NEW w \in Words, ImplodeNew(w) PROVE IInv'
    BY <1>3, ImplodeNewIInv
  <1>4. CASE MoveItem
    BY <1>4, MoveItemIInv
  <1>5. CASE NextBucket
    BY <1>5, NextBucketIInv
  <1>6. CASE Install
    BY <1>6, InstallIInv
  <1>7. CASE UNCHANGED ivars
    <2>1. Address' = Address
      BY <1>7 DEF ivars, Address
    <2>. QED
      BY <1>7, <2>1 DEF ivars, IInv, TypeOK, HashesKept, EveryNameFound, InBucket, OneItemPerName,
                        Drained, Sized, Growing
  <1>. QED
    BY <1>1, <1>2, <1>3, <1>4, <1>5, <1>6, <1>7 DEF Next, Grow, Implode

LEMMA AlwaysIInv == Spec => []IInv
  <1>. QED
    BY InitIInv, NextIInv, PTL DEF Spec

(* The table is well typed, a name once imploded is always found, and it has one item:
   for every hash function, so for every set of names that fall into one bucket. *)
THEOREM NamesAreFound == Spec => [](TypeOK /\ EveryNameFound /\ OneItemPerName)
  <1>1. IInv => TypeOK /\ EveryNameFound /\ OneItemPerName
    BY DEF IInv
  <1>. QED
    BY <1>1, AlwaysIInv, PTL

(* The table grows before its chains become longer than Load items on the average. *)
THEOREM TableKeepsUp == Spec => []ChainsStayShort
  <1>1. IInv => ChainsStayShort
    BY DEF IInv, Sized, ChainsStayShort
  <1>. QED
    BY <1>1, AlwaysIInv, PTL

-----------------------------------------------------------------------------
(* Refinement.                                                              *)

LEMMA ItemOfName ==
  ASSUME OneItemPerName, NEW x \in Address
  PROVE  ItemOf(items[x].name) = x
  BY DEF OneItemPerName, ItemOf

Known == {items[x].name : x \in Address}

LEMMA SymbolUnchanged ==
  ASSUME items' = items
  PROVE  UNCHANGED [w \in Known |-> ItemOf(w)]
  BY DEF Known, ItemOf, Address

LEMMA SymbolAgain ==
  ASSUME IInv, NEW w \in Words, ImplodeAgain(w)
  PROVE  SymbolTable!ImplodeAgain(w)
  <1>1. PICK k \in Positions(w) : result' = [word |-> w, function |-> <<"imploded", Chain(w)[k]>>]
    BY DEF ImplodeAgain, Returns
  <1>2. Chain(w)[k] \in Address /\ items[Chain(w)[k]].name = w
    BY HitMeansName DEF ImplodeAgain
  <1>3. w \in Known /\ ItemOf(w) = Chain(w)[k]
    BY <1>2, ItemOfName DEF IInv, Known
  <1>4. UNCHANGED [v \in Known |-> ItemOf(v)]
    BY SymbolUnchanged DEF ImplodeAgain
  <1>. QED
    BY <1>1, <1>3, <1>4 DEF SymbolTable!ImplodeAgain, SymbolTable!Returns, Known

LEMMA SymbolNew ==
  ASSUME IInv, IInv', NEW w \in Words, ImplodeNew(w)
  PROVE  SymbolTable!ImplodeNew(w)
  <1> DEFINE new == Len(items) + 1
  <1>1. /\ w \notin Library /\ result' = [word |-> w, function |-> <<"imploded", new>>]
        /\ items' = Append(items, [name |-> w, hash |-> Hash[w]])
    BY DEF ImplodeNew, Returns
  <1>2. /\ Address' = Address \cup {new} /\ new \notin Address /\ new \in Address'
        /\ items'[new].name = w /\ \A x \in Address : items'[x] = items[x]
    BY <1>1 DEF IInv, TypeOK, Address
  <1>3. \A x \in Address : items[x].name # w
    BY MissMeansNew DEF ImplodeNew
  <1>4. w \notin Known /\ Known' = Known \cup {w}
    BY <1>2, <1>3 DEF Known
  <1>5. ASSUME NEW v, NEW x \in Address', items'[x].name = v PROVE ItemOf(v)' = x
    <2>1. \A y \in Address' : items'[y].name = v => y = x
      BY <1>5 DEF IInv, OneItemPerName
    <2>. QED
      BY <1>5, <2>1 DEF ItemOf
  <1>6. ItemOf(w)' = new
    BY <1>2, <1>5
  <1>7. ASSUME NEW v \in Known PROVE ItemOf(v)' = ItemOf(v) /\ ItemOf(v) # new
    <2>1. PICK x \in Address : v = items[x].name
      BY DEF Known
    <2>2. x \in Address' /\ items'[x].name = v
      BY <2>1, <1>2
    <2>3. ItemOf(v) = x /\ ItemOf(v)' = x
      BY <2>1, <2>2, <1>5, ItemOfName DEF IInv
    <2>. QED
      BY <2>3, <1>2
  <1>8. w \in Known'
    BY <1>4
  <1>. QED
    BY <1>1, <1>4, <1>6, <1>7, <1>8 DEF SymbolTable!ImplodeNew, SymbolTable!Returns, Known

LEMMA SymbolStep ==
  ASSUME IInv, IInv', [Next]_ivars
  PROVE  SymbolTable!Next \/ UNCHANGED <<[w \in Known |-> ItemOf(w)], result>>
  <1>2. ASSUME NEW w \in Words, ImplodeKnown(w) PROVE SymbolTable!Next
    <2>1. SymbolTable!ImplodeKnown(w)
      BY <1>2, SymbolUnchanged
      DEF ImplodeKnown, Returns, SymbolTable!ImplodeKnown, SymbolTable!Returns, Known
    <2>. QED
      BY <2>1 DEF SymbolTable!Next
  <1>3. ASSUME NEW w \in Words, ImplodeAgain(w) PROVE SymbolTable!Next
    BY <1>3, SymbolAgain DEF SymbolTable!Next
  <1>4. ASSUME NEW w \in Words, ImplodeNew(w) PROVE SymbolTable!Next
    BY <1>4, SymbolNew DEF SymbolTable!Next
  <1>5. CASE Grow
    BY <1>5, SymbolUnchanged DEF Grow, MoveItem, NextBucket, Install
  <1>6. CASE UNCHANGED ivars
    BY <1>6, SymbolUnchanged DEF ivars
  <1>. QED
    BY <1>2, <1>3, <1>4, <1>5, <1>6 DEF Next, Implode

(* Every word keeps the symbol of its first implosion, no two words share one, and growing
   the table is invisible to the program. *)
THEOREM OneSymbolPerWord == Spec => ImplementsSymbols
  <1>1. Init => SymbolTable!Init
    <2>. SUFFICES ASSUME Init PROVE SymbolTable!Init
      OBVIOUS
    <2>1. Address = {} /\ result = [word |-> "none", function |-> <<"none">>]
      BY DEF Init, Address
    <2>2. [w \in Known |-> ItemOf(w)] = <<>>
      BY <2>1 DEF Known
    <2>. QED
      BY <2>1, <2>2 DEF SymbolTable!Init, SymbolTable!NoCall, Known
  <1>2. IInv /\ IInv' /\ [Next]_ivars
          => [SymbolTable!Next]_<<[w \in {items[x].name : x \in Address} |-> ItemOf(w)], result>>
    BY SymbolStep DEF Known
  <1>. QED
    BY <1>1, <1>2, AlwaysIInv, PTL DEF Spec, ImplementsSymbols, SymbolTable!Spec

-----------------------------------------------------------------------------
(* Every item is in one place.                                              *)

Holds(t, n, x) == \E b \in 0 .. n - 1 : Has(t[b], x)

\* No two places of the first n chains of t hold one item.
Distinct(t, n) ==
  \A b, c \in 0 .. n - 1 : \A k \in 1 .. Len(t[b]), l \in 1 .. Len(t[c]) :
    t[b][k] = t[c][l] => b = c /\ k = l

\* An item that has been moved has left the old array.
Apart == \A x \in Address : ~(Holds(table, size, x) /\ Holds(newTable, newSize, x))

(* EachFreedOnce speaks of the places of an item, so it needs no more than that they are
   distinct; that there is one is EveryNameFound. *)
Once == Distinct(table, size) /\ Distinct(newTable, newSize) /\ Apart

LEMMA EmptyDistinct ==
  ASSUME NEW n \in Nat
  PROVE  Distinct(EmptyTable(n), n) /\ \A x : ~Holds(EmptyTable(n), n, x)
  BY DEF EmptyTable, Distinct, Holds, Has

LEMMA FrontDistinct ==
  ASSUME NEW S, NEW n \in Nat, NEW t \in [0 .. n - 1 -> Seq(S)], NEW b \in 0 .. n - 1, NEW x \in S,
         Distinct(t, n), ~Holds(t, n, x)
  PROVE  /\ Distinct(Front(t, b, x), n)
         /\ \A y : Holds(Front(t, b, x), n, y) => y = x \/ Holds(t, n, y)
  <1> DEFINE u == Front(t, b, x)
  <1>1. /\ \A c \in 0 .. n - 1 : t[c] \in Seq(S)
        /\ u[b] = <<x>> \o t[b] /\ \A c \in 0 .. n - 1 : c # b => u[c] = t[c]
    BY DEF Front
  <1>. HIDE DEF u
  <1>2. \A k \in 1 .. Len(u[b]) : /\ k = 1 => u[b][k] = x
                                  /\ k # 1 => k - 1 \in 1 .. Len(t[b]) /\ u[b][k] = t[b][k - 1]
    BY <1>1
  <1>3. \A c \in 0 .. n - 1 : \A k \in 1 .. Len(t[c]) : t[c][k] # x
    BY DEF Holds, Has
  <1>4. ASSUME NEW c \in 0 .. n - 1, NEW d \in 0 .. n - 1,
               NEW k \in 1 .. Len(u[c]), NEW l \in 1 .. Len(u[d]), u[c][k] = u[d][l]
        PROVE  c = d /\ k = l
    <2>1. CASE c = b /\ d = b
      <3>1. k = 1 <=> l = 1
        BY <2>1, <1>2, <1>3, <1>4
      <3>2. CASE k # 1
        <4>1. k - 1 \in 1 .. Len(t[b]) /\ l - 1 \in 1 .. Len(t[b]) /\ t[b][k - 1] = t[b][l - 1]
          BY <2>1, <3>1, <3>2, <1>2, <1>4
        <4>2. k - 1 = l - 1
          <5>1. \A p, q \in 1 .. Len(t[b]) : t[b][p] = t[b][q] => p = q
            BY DEF Distinct
          <5>. QED
            BY <4>1, <5>1
        <4>3. k \in Int /\ l \in Int
          BY <1>4
        <4>. QED
          BY <2>1, <4>2, <4>3
      <3>. QED
        BY <2>1, <3>1, <3>2
    <2>2. CASE c = b /\ d # b
      <3>1. l \in 1 .. Len(t[d]) /\ u[b][k] = t[d][l] /\ k \in 1 .. Len(u[b])
        BY <2>2, <1>1, <1>4
      <3>2. k - 1 \in 1 .. Len(t[b]) /\ t[b][k - 1] = t[d][l]
        <4>1. u[b][k] # x
          BY <3>1, <1>3
        <4>. QED
          BY <3>1, <4>1, <1>2
      <3>3. \A p \in 1 .. Len(t[b]), q \in 1 .. Len(t[d]) : t[b][p] = t[d][q] => b = d
        BY DEF Distinct
      <3>. QED
        BY <2>2, <3>1, <3>2, <3>3
    <2>3. CASE c # b /\ d = b
      <3>1. k \in 1 .. Len(t[c]) /\ u[b][l] = t[c][k] /\ l \in 1 .. Len(u[b])
        BY <2>3, <1>1, <1>4
      <3>2. l - 1 \in 1 .. Len(t[b]) /\ t[b][l - 1] = t[c][k]
        <4>1. u[b][l] # x
          BY <3>1, <1>3
        <4>. QED
          BY <3>1, <4>1, <1>2
      <3>3. \A p \in 1 .. Len(t[b]), q \in 1 .. Len(t[c]) : t[b][p] = t[c][q] => b = c
        BY DEF Distinct
      <3>. QED
        BY <2>3, <3>1, <3>2, <3>3
    <2>4. CASE c # b /\ d # b
      <3>1. /\ k \in 1 .. Len(t[c]) /\ l \in 1 .. Len(t[d]) /\ t[c][k] = t[d][l]
        BY <2>4, <1>1, <1>4
      <3>. QED
        BY <3>1 DEF Distinct
    <2>. QED
      BY <2>1, <2>2, <2>3, <2>4
  <1>5. ASSUME NEW y, Holds(u, n, y) PROVE y = x \/ Holds(t, n, y)
    <2>0. PICK c \in 0 .. n - 1 : \E k \in 1 .. Len(u[c]) : u[c][k] = y
      BY <1>5 DEF Holds, Has
    <2>1. PICK k \in 1 .. Len(u[c]) : u[c][k] = y
      BY <2>0
    <2>2. CASE c = b
      BY <2>1, <2>2, <1>2 DEF Holds, Has
    <2>3. CASE c # b
      <3>1. k \in 1 .. Len(t[c]) /\ t[c][k] = y
        BY <2>1, <2>3, <1>1
      <3>. QED
        BY <3>1 DEF Holds, Has
    <2>. QED
      BY <2>2, <2>3
  <1>. QED
    BY <1>4, <1>5 DEF Distinct, u

LEMMA TailDistinct ==
  ASSUME NEW S, NEW n \in Nat, NEW t \in [0 .. n - 1 -> Seq(S)], NEW b \in 0 .. n - 1,
         t[b] # <<>>, Distinct(t, n)
  PROVE  LET u == [t EXCEPT ![b] = Tail(@)]
         IN  /\ Distinct(u, n)
             /\ \A y : Holds(u, n, y) => y # Head(t[b]) /\ Holds(t, n, y)
             /\ Holds(t, n, Head(t[b]))
  <1> DEFINE u == [t EXCEPT ![b] = Tail(@)]
  <1>1. /\ \A c \in 0 .. n - 1 : t[c] \in Seq(S)
        /\ u[b] = Tail(t[b]) /\ \A c \in 0 .. n - 1 : c # b => u[c] = t[c]
    OBVIOUS
  <1>. HIDE DEF u
  <1>2. /\ \A k \in 1 .. Len(u[b]) : k + 1 \in 1 .. Len(t[b]) /\ u[b][k] = t[b][k + 1]
        /\ 1 \in 1 .. Len(t[b]) /\ Head(t[b]) = t[b][1]
    BY <1>1
  <1>3. ASSUME NEW c \in 0 .. n - 1, NEW d \in 0 .. n - 1,
               NEW k \in 1 .. Len(u[c]), NEW l \in 1 .. Len(u[d]), u[c][k] = u[d][l]
        PROVE  c = d /\ k = l
    <2>1. CASE c = b /\ d = b
      BY <2>1, <1>2, <1>3 DEF Distinct
    <2>2. CASE c = b /\ d # b
      BY <2>2, <1>1, <1>2, <1>3 DEF Distinct
    <2>3. CASE c # b /\ d = b
      BY <2>3, <1>1, <1>2, <1>3 DEF Distinct
    <2>4. CASE c # b /\ d # b
      <3>1. /\ k \in 1 .. Len(t[c]) /\ l \in 1 .. Len(t[d]) /\ t[c][k] = t[d][l]
        BY <2>4, <1>1, <1>3
      <3>. QED
        BY <3>1 DEF Distinct
    <2>. QED
      BY <2>1, <2>2, <2>3, <2>4
  <1>4. ASSUME NEW y, Holds(u, n, y) PROVE y # Head(t[b]) /\ Holds(t, n, y)
    <2>0. PICK c \in 0 .. n - 1 : \E k \in 1 .. Len(u[c]) : u[c][k] = y
      BY <1>4 DEF Holds, Has
    <2>1. PICK k \in 1 .. Len(u[c]) : u[c][k] = y
      BY <2>0
    <2>2. CASE c = b
      <3>1. k + 1 \in 1 .. Len(t[b]) /\ t[b][k + 1] = y /\ k + 1 # 1
        BY <2>1, <2>2, <1>2
      <3>. QED
        BY <3>1, <1>2 DEF Holds, Has, Distinct
    <2>3. CASE c # b
      <3>1. k \in 1 .. Len(t[c]) /\ t[c][k] = y
        BY <2>1, <2>3, <1>1
      <3>. QED
        BY <3>1, <2>3, <1>2 DEF Holds, Has, Distinct
    <2>. QED
      BY <2>2, <2>3
  <1>5. Holds(t, n, Head(t[b]))
    BY <1>2 DEF Holds, Has
  <1>. QED
    BY <1>3, <1>4, <1>5 DEF Distinct, u

LEMMA OnceStep == IInv /\ Once /\ [Next]_ivars => Once'
  <1>. SUFFICES ASSUME IInv, Once, [Next]_ivars PROVE Once'
    OBVIOUS
  <1>1. /\ items \in Seq(Item) /\ size \in Nat /\ newSize \in Nat /\ i \in 0 .. size
        /\ table \in [0 .. size - 1 -> Seq(Address)]
        /\ newTable \in [0 .. newSize - 1 -> Seq(Address)]
        /\ \A x \in Address : items[x].hash \in Nat
    <2>1. \A x \in Address : items[x] \in Item
      BY DEF IInv, TypeOK, Address
    <2>. QED
      BY <2>1 DEF IInv, TypeOK, Item
  <1>2. CASE UNCHANGED <<items, table, size, newTable, newSize>>
    BY <1>2 DEF Once, Apart, Address
  <1>3. ASSUME NEW w \in Words, ImplodeNew(w) PROVE Once'
    <2> DEFINE new == Len(items) + 1
               b == Bucket(Hash[w], Size)
    <2>1. /\ ~Growing /\ size' = Size /\ table' = Front(Table, b, new)
          /\ items' = Append(items, [name |-> w, hash |-> Hash[w]])
          /\ newTable' = EmptyTable(newSize')
          /\ newSize' = (IF TooSmall(count + 1, Size) THEN (3 * Size) \div 2 ELSE 0)
      BY <1>3 DEF ImplodeNew
    <2>2. Size \in Nat /\ Size # 0 /\ Table \in [0 .. Size - 1 -> Seq(Address)]
      BY <2>1, LookupTable
    <2>3. /\ Address' = Address \cup {new} /\ new \notin Address
      BY <1>1, <2>1, <1>3 DEF Address
    <2>4. b \in 0 .. Size - 1 /\ newSize' \in Nat
      <3>1. Hash[w] \in Nat
        BY HashAssumption
      <3>2. b \in 0 .. Size - 1
        BY <3>1, <2>2, BucketRange
      <3>3. (3 * Size) \div 2 \in Nat
        BY <2>2
      <3>. QED
        BY <3>2, <3>3, <2>1
    <2>5. Table \in [0 .. Size - 1 -> Seq(Address')]
      <3>1. \A c \in Seq(Address) : c \in Seq(Address')
        BY <2>3
      <3>. QED
        BY <3>1, <2>2
    <2>6. ~Holds(Table, Size, new)
      <3>1. \A c \in 0 .. Size - 1 : Table[c] \in Seq(Address)
        BY <2>2
      <3>. QED
        BY <3>1, <2>3 DEF Holds, Has
    <2>7. Distinct(Table, Size)
      <3>1. CASE size = 0
        BY <3>1, <2>2, EmptyDistinct DEF Size, Table
      <3>2. CASE size # 0
        BY <3>2 DEF Size, Table, Once
      <3>. QED
        BY <3>1, <3>2
    <2>. HIDE DEF new, b
    <2>8. Distinct(table', size')
      <3>1. new \in Address' /\ Size \in Nat
        BY <2>2, <2>3
      <3>2. Distinct(Front(Table, b, new), Size)
        BY <3>1, <2>4, <2>5, <2>6, <2>7, FrontDistinct
      <3>. QED
        BY <3>2, <2>1
    <2>9. Distinct(newTable', newSize') /\ \A x : ~Holds(newTable', newSize', x)
      BY <2>1, <2>4, EmptyDistinct
    <2>. QED
      BY <2>8, <2>9 DEF Once, Apart
  <1>4. CASE MoveItem
    <2> DEFINE known == Head(table[i])
               c == Bucket(items[known].hash, newSize)
    <2>1. /\ i \in 0 .. size - 1 /\ table[i] # <<>> /\ newSize # 0
          /\ newTable' = Front(newTable, c, known)
          /\ table' = [table EXCEPT ![i] = Tail(@)]
          /\ items' = items /\ size' = size /\ newSize' = newSize
      BY <1>1, <1>4 DEF MoveItem, Growing
    <2>2. table[i] \in Seq(Address) /\ known \in Address
      BY <1>1, <2>1
    <2>3. c \in 0 .. newSize - 1
      BY <1>1, <2>1, <2>2, BucketRange
    <2>4. /\ Distinct(table', size)
          /\ \A y : Holds(table', size, y) => y # known /\ Holds(table, size, y)
          /\ Holds(table, size, known)
      BY <1>1, <2>1, TailDistinct DEF Once
    <2>5. ~Holds(newTable, newSize, known)
      BY <2>2, <2>4 DEF Once, Apart
    <2>. HIDE DEF known, c
    <2>6. /\ Distinct(newTable', newSize)
          /\ \A y : Holds(newTable', newSize, y) => y = known \/ Holds(newTable, newSize, y)
      BY <1>1, <2>1, <2>2, <2>3, <2>5, FrontDistinct DEF Once
    <2>7. Apart'
      BY <2>1, <2>4, <2>6 DEF Once, Apart, Address
    <2>. QED
      BY <2>1, <2>4, <2>6, <2>7 DEF Once
  <1>5. CASE Install
    <2>1. table' = newTable /\ size' = newSize /\ newTable' = EmptyTable(0) /\ newSize' = 0
      BY <1>5 DEF Install
    <2>2. Distinct(newTable', newSize') /\ \A x : ~Holds(newTable', newSize', x)
      BY <2>1, EmptyDistinct
    <2>. QED
      BY <2>1, <2>2 DEF Once, Apart
  <1>6. ASSUME NEW w \in Words, ImplodeKnown(w) \/ ImplodeAgain(w) PROVE Once'
    BY <1>2, <1>6 DEF ImplodeKnown, ImplodeAgain
  <1>7. CASE NextBucket
    BY <1>2, <1>7 DEF NextBucket
  <1>8. CASE UNCHANGED ivars
    BY <1>2, <1>8 DEF ivars
  <1>. QED
    BY <1>3, <1>4, <1>5, <1>6, <1>7, <1>8 DEF Next, Grow, Implode

\* A chain of distinct items is not longer than there are items.
LEMMA ShortChain ==
  ASSUME NEW n \in Nat, NEW t \in [0 .. n - 1 -> Seq(Address)], Distinct(t, n),
         NEW b \in 0 .. n - 1, NEW k \in 1 .. Len(t[b]), Len(items) \in Nat
  PROVE  <<b, k>> \in Places(t, n)
  <1> DEFINE c == t[b]
  <1>1. c \in Seq(Address) /\ Len(c) \in Nat /\ c \in [1 .. Len(c) -> 1 .. Len(items)]
    BY DEF Address
  <1>2. \A p, q \in 1 .. Len(c) : c[p] = c[q] => p = q
    BY DEF Distinct
  <1>. HIDE DEF c
  <1>3. c \in Injection(1 .. Len(c), 1 .. Len(items))
    BY <1>1, <1>2 DEF Injection, IsInjective
  <1>4. Len(c) <= Len(items)
    BY <1>1, <1>3, Fun_NatInjLeq DEF ExistsInjection
  <1>5. k \in 1 .. Len(c)
    BY DEF c
  <1>. QED
    BY <1>1, <1>4, <1>5 DEF Places, Address, c

LEMMA PlacesOf ==
  ASSUME NEW n \in Nat, NEW t \in [0 .. n - 1 -> Seq(Address)], Distinct(t, n), NEW x,
         Len(items) \in Nat
  PROVE  LET at == {p \in Places(t, n) : t[p[1]][p[2]] = x}
         IN  /\ Holds(t, n, x) => \E p \in at : at = {p}
             /\ ~Holds(t, n, x) => at = {}
  <1> DEFINE at == {p \in Places(t, n) : t[p[1]][p[2]] = x}
  <1>1. \A p \in Places(t, n) : /\ p[1] \in 0 .. n - 1 /\ p[2] \in 1 .. Len(t[p[1]])
                                /\ p = <<p[1], p[2]>>
    BY DEF Places, Address
  <1>2. \A p, q \in at : p = q
    BY <1>1 DEF Distinct
  <1>3. ASSUME Holds(t, n, x) PROVE \E p \in at : at = {p}
    <2>0. PICK b \in 0 .. n - 1 : \E k \in 1 .. Len(t[b]) : t[b][k] = x
      BY <1>3 DEF Holds, Has
    <2>1. PICK k \in 1 .. Len(t[b]) : t[b][k] = x
      BY <2>0
    <2>2. <<b, k>> \in at
      BY <2>1, ShortChain
    <2>. QED
      BY <2>2, <1>2
  <1>4. ASSUME ~Holds(t, n, x) PROVE at = {}
    BY <1>1, <1>4 DEF Holds, Has
  <1>. QED
    BY <1>3, <1>4

(* cleanup_imploded_table frees every item once, whenever the program exits, also from
   between two items of a growing table: for every hash function and every first size. *)
THEOREM FreedOnce == Spec => []EachFreedOnce
  <1>1. Init => Once
    BY EmptyDistinct DEF Init, Once, Apart, Address
  <1>2. IInv /\ Once => EachFreedOnce
    <2>. SUFFICES ASSUME IInv, Once, NEW x \in Address
                  PROVE  LET old == {p \in Places(table, size) : table[p[1]][p[2]] = x}
                             new == {p \in Places(newTable, newSize) : newTable[p[1]][p[2]] = x}
                         IN  \/ new = {} /\ \E p \in old : old = {p}
                             \/ old = {} /\ \E p \in new : new = {p}
      BY DEF EachFreedOnce
    <2>1. /\ size \in Nat /\ newSize \in Nat /\ Len(items) \in Nat
          /\ table \in [0 .. size - 1 -> Seq(Address)]
          /\ newTable \in [0 .. newSize - 1 -> Seq(Address)]
          /\ Distinct(table, size) /\ Distinct(newTable, newSize)
          /\ items[x].hash \in Nat
      <3>1. items[x] \in Item
        BY DEF IInv, TypeOK, Address
      <3>. QED
        BY <3>1 DEF IInv, TypeOK, Once, Item
    <2>2. Holds(table, size, x) \/ Holds(newTable, newSize, x)
      <3>1. CASE size # 0 /\ InBucket(table, size, x)
        BY <2>1, <3>1, BucketRange, InBucketHas DEF Holds
      <3>2. CASE Growing /\ InBucket(newTable, newSize, x)
        BY <2>1, <3>2, BucketRange, InBucketHas DEF Holds, Growing
      <3>. QED
        BY <3>1, <3>2 DEF IInv, EveryNameFound
    <2>3. ~(Holds(table, size, x) /\ Holds(newTable, newSize, x))
      BY DEF Once, Apart
    <2> DEFINE old == {p \in Places(table, size) : table[p[1]][p[2]] = x}
               new == {p \in Places(newTable, newSize) : newTable[p[1]][p[2]] = x}
    <2>4. /\ Holds(table, size, x) => \E p \in old : old = {p}
          /\ ~Holds(table, size, x) => old = {}
      BY <2>1, PlacesOf
    <2>5. /\ Holds(newTable, newSize, x) => \E p \in new : new = {p}
          /\ ~Holds(newTable, newSize, x) => new = {}
      BY <2>1, PlacesOf
    <2>. QED
      BY <2>2, <2>3, <2>4, <2>5
  <1>. QED
    BY <1>1, <1>2, OnceStep, AlwaysIInv, PTL DEF Spec

=============================================================================
