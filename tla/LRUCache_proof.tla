--------------------------- MODULE LRUCache_proof ---------------------------
(***************************************************************************)
(* The LRU cache for any keys, values, size and number of uses: CacheInv   *)
(* is inductive, a Put evicts what was unused for longest, and the cache   *)
(* implements the bounded cache its users rely on.                         *)
(***************************************************************************)
EXTENDS LRUCache, FiniteSetTheorems, TLAPS

(* The map has as many entries as the list has elements: what Put compares *)
(* with maxSize is the length of the list.                                 *)
LEMMA SizeIsLength ==
    ASSUME NEW c, IsCache(c), NoRepeats(c.order)
    PROVE  Size(c) = Len(c.order)
<1> DEFINE S == DOMAIN c.items
           n == Len(c.order)
<1>1. S = Elements(c.order) /\ n \in Nat /\ c.order \in Seq(Key)
  BY DEF IsCache
<1>2. c.order \in [1..n -> S]
  BY <1>1 DEF Elements
<1>3. c.order \in Bijection(1..n, S)
  BY <1>1, <1>2 DEF Bijection, Injection, IsInjective, Surjection, Elements, NoRepeats
<1>4. ExistsBijection(1..n, S)
  BY <1>3 DEF ExistsBijection
<1> QED BY <1>1, <1>4, FS_CountingElements DEF Size

(* list.MoveToFront.                                                       *)
LEMMA MoveToFrontDef ==
    ASSUME NEW order \in Seq(Key), NEW i \in 1..Len(order)
    PROVE  LET moved == MoveToFront(order, i)
           IN  /\ moved \in Seq(Key)
               /\ Len(moved) = Len(order)
               /\ moved[1] = order[i]
               /\ \A j \in 2..Len(order) : moved[j] = IF j <= i THEN order[j - 1] ELSE order[j]
<1>1. Len(order) \in Nat /\ \A j \in 1..Len(order) : order[j] \in Key
  OBVIOUS
<1>2. \A j \in 1..Len(order) :
         (IF j = 1 THEN order[i] ELSE IF j <= i THEN order[j - 1] ELSE order[j]) \in Key
  BY <1>1
<1>3. MoveToFront(order, i) \in [1..Len(order) -> Key]
  BY <1>2 DEF MoveToFront
<1>4. MoveToFront(order, i) \in Seq(Key)
  BY <1>1, <1>3
<1>5. Len(MoveToFront(order, i)) = Len(order)
  BY <1>1, <1>4 DEF MoveToFront
<1> QED BY <1>1, <1>4, <1>5 DEF MoveToFront

(* Promotion keeps the elements and makes the promoted one the latest: the *)
(* list stays in the order of the uses when that use is dated.             *)
LEMMA PromoteKeeps ==
    ASSUME NEW order \in Seq(Key), NEW i \in 1..Len(order), NoRepeats(order),
           NEW now \in Nat, NEW use \in [Key -> 0..now], Ordered(order, use)
    PROVE  LET moved == MoveToFront(order, i)
           IN  /\ Elements(moved) = Elements(order)
               /\ NoRepeats(moved)
               /\ Ordered(moved, [use EXCEPT ![order[i]] = now + 1])
<1> DEFINE moved == MoveToFront(order, i)
           n == Len(order)
           from == [j \in 1..n |-> IF j = 1 THEN i ELSE IF j <= i THEN j - 1 ELSE j]
           later == [use EXCEPT ![order[i]] = now + 1]
<1>1. n \in Nat /\ i \in 1..n
  OBVIOUS
<1>2. \A j \in 1..n : from[j] \in 1..n /\ (from[j] = i => j = 1)
  BY <1>1
<1>3. \A j, l \in 1..n : from[j] = from[l] => j = l
  BY <1>1
<1>4. \A j, l \in 1..n : (1 < j /\ j < l) => from[j] < from[l]
  BY <1>1
<1>5. \A j \in 1..n : \E l \in 1..n : from[l] = j
  <2> SUFFICES ASSUME NEW j \in 1..n PROVE \E l \in 1..n : from[l] = j
    OBVIOUS
  <2>1. CASE j = i
    <3>1. 1 \in 1..n /\ from[1] = j
      BY <1>1, <2>1
    <3> QED BY <3>1
  <2>2. CASE j < i
    <3>1. j + 1 \in 1..n /\ from[j + 1] = j
      BY <1>1, <2>2
    <3> QED BY <3>1
  <2>3. CASE j > i
    <3>1. from[j] = j
      BY <1>1, <2>3
    <3> QED BY <3>1
  <2> QED BY <1>1, <2>1, <2>2, <2>3
<1>6. moved \in Seq(Key) /\ Len(moved) = n
  BY MoveToFrontDef
<1>7. ASSUME NEW j \in 1..n PROVE moved[j] = order[from[j]]
  <2>1. CASE j = 1
    BY <2>1, MoveToFrontDef
  <2>2. CASE j # 1
    <3>1. j \in 2..n
      BY <1>1, <2>2
    <3> QED BY <2>2, <3>1, MoveToFrontDef
  <2> QED BY <2>1, <2>2
<1>8. ASSUME NEW j \in 1..n PROVE order[j] \in Key
  OBVIOUS
<1> HIDE DEF moved, from
<1>9. Elements(moved) = Elements(order)
  <2>1. ASSUME NEW x \in Elements(moved) PROVE x \in Elements(order)
    <3>1. PICK j \in 1..n : x = moved[j]
      BY <1>6 DEF Elements
    <3>2. from[j] \in 1..n /\ x = order[from[j]]
      BY <1>2, <1>7, <3>1
    <3> QED BY <3>2 DEF Elements
  <2>2. ASSUME NEW x \in Elements(order) PROVE x \in Elements(moved)
    <3>1. PICK j \in 1..n : x = order[j]
      BY DEF Elements
    <3>2. PICK l \in 1..n : from[l] = j
      BY <1>5
    <3>3. x = moved[l] /\ l \in 1..Len(moved)
      BY <1>6, <1>7, <3>1, <3>2
    <3> QED BY <3>3 DEF Elements
  <2> QED BY <2>1, <2>2
<1>10. NoRepeats(moved)
  <2> SUFFICES ASSUME NEW j \in 1..n, NEW l \in 1..n, moved[j] = moved[l]
               PROVE  j = l
    BY <1>6 DEF NoRepeats
  <2>1. order[from[j]] = order[from[l]] /\ from[j] \in 1..n /\ from[l] \in 1..n
    BY <1>2, <1>7
  <2>2. from[j] = from[l]
    BY <2>1 DEF NoRepeats
  <2> QED BY <1>3, <2>2
<1>11. ASSUME NEW j \in 1..n, NEW l \in 1..n, j < l
       PROVE  later[moved[j]] > later[moved[l]]
  <2>1. l # 1
    BY <1>1, <1>11
  <2>2. /\ moved[j] = order[from[j]] /\ moved[l] = order[from[l]]
        /\ from[j] \in 1..n /\ from[l] \in 1..n /\ from[l] # i
    BY <1>2, <1>7, <2>1
  <2>3. moved[j] \in Key /\ moved[l] \in Key
    BY <1>8, <2>2
  <2>4. moved[l] # order[i]
    BY <1>1, <2>2 DEF NoRepeats
  <2>5. later[moved[l]] = use[moved[l]] /\ use[moved[l]] \in 0..now
    BY <2>3, <2>4
  <2>6. CASE from[j] = i
    <3>1. later[moved[j]] = now + 1
      BY <2>2, <2>3, <2>6
    <3> QED BY <2>5, <3>1
  <2>7. CASE from[j] # i
    <3>1. moved[j] # order[i]
      BY <1>1, <2>2, <2>7 DEF NoRepeats
    <3>2. later[moved[j]] = use[moved[j]]
      BY <2>3, <3>1
    <3>3. j # 1
      BY <1>1, <2>7 DEF from
    <3>4. from[j] < from[l]
      BY <1>1, <1>4, <1>11, <3>3
    <3>5. use[order[from[j]]] > use[order[from[l]]]
      BY <2>2, <3>4 DEF Ordered
    <3> QED BY <2>2, <2>5, <3>2, <3>5
  <2> QED BY <2>6, <2>7
<1>12. Ordered(moved, later)
  BY <1>6, <1>11 DEF Ordered
<1> QED BY <1>9, <1>10, <1>12 DEF moved

(* A new key in front.                                                     *)
LEMMA PushKeeps ==
    ASSUME NEW c, IsCache(c), NoRepeats(c.order), NEW k \in Key, NEW v \in Value,
           k \notin Elements(c.order),
           NEW now \in Nat, NEW use \in [Key -> 0..now], Ordered(c.order, use)
    PROVE  LET p == PushFront(c, k, v)
           IN  /\ IsCache(p) /\ Len(p.order) = Len(c.order) + 1
               /\ NoRepeats(p.order)
               /\ Ordered(p.order, [use EXCEPT ![k] = now + 1])
<1> DEFINE p == PushFront(c, k, v)
           n == Len(c.order)
           later == [use EXCEPT ![k] = now + 1]
<1>1. /\ c.order \in Seq(Key) /\ n \in Nat /\ c.items \in [Elements(c.order) -> Value]
      /\ \A j \in 1..n : c.order[j] \in Key /\ c.order[j] # k
  BY DEF IsCache, Elements
<1>2. p.order = <<k>> \o c.order
  BY DEF PushFront
<1>3. /\ p.order \in Seq(Key) /\ Len(p.order) = n + 1 /\ p.order[1] = k
      /\ \A j \in 2..n + 1 : p.order[j] = c.order[j - 1]
  BY <1>1, <1>2
<1>4. Elements(p.order) = Elements(c.order) \cup {k}
  <2>1. ASSUME NEW x \in Elements(p.order) PROVE x \in Elements(c.order) \cup {k}
    <3>1. PICK j \in 1..n + 1 : x = p.order[j]
      BY <1>3 DEF Elements
    <3>2. CASE j = 1
      BY <1>3, <3>1, <3>2
    <3>3. CASE j # 1
      <4>1. j \in 2..n + 1 /\ j - 1 \in 1..n
        BY <1>1, <3>3
      <4>2. x = c.order[j - 1]
        BY <1>3, <3>1, <4>1
      <4> QED BY <4>1, <4>2 DEF Elements
    <3> QED BY <3>2, <3>3
  <2>2. ASSUME NEW j \in 1..n PROVE c.order[j] \in Elements(p.order)
    <3>1. j + 1 \in 2..n + 1 /\ (j + 1) - 1 = j
      BY <1>1
    <3>2. p.order[j + 1] = c.order[j] /\ j + 1 \in 1..Len(p.order)
      BY <1>1, <1>3, <3>1
    <3> QED BY <3>2 DEF Elements
  <2>3. k \in Elements(p.order)
    <3>1. 1 \in 1..Len(p.order)
      BY <1>1, <1>3
    <3> QED BY <1>3, <3>1 DEF Elements
  <2> QED BY <2>1, <2>2, <2>3 DEF Elements
<1>5. p.items \in [Elements(c.order) \cup {k} -> Value]
  BY <1>1 DEF PushFront
<1>6. p = [items |-> p.items, order |-> p.order]
  BY DEF PushFront
<1>7. IsCache(p)
  BY <1>3, <1>4, <1>5, <1>6 DEF IsCache
<1> HIDE DEF p
<1>8. NoRepeats(p.order)
  <2> SUFFICES ASSUME NEW i \in 1..Len(p.order), NEW j \in 1..Len(p.order),
                      p.order[i] = p.order[j]
               PROVE  i = j
    BY DEF NoRepeats
  <2>1. ASSUME NEW l \in 1..Len(p.order), l # 1
        PROVE  l - 1 \in 1..n /\ p.order[l] = c.order[l - 1] /\ p.order[l] # k
    <3>1. l \in 2..n + 1 /\ l - 1 \in 1..n
      BY <1>1, <1>3, <2>1
    <3> QED BY <1>1, <1>3, <3>1
  <2>2. CASE i = 1 \/ j = 1
    BY <1>3, <2>1, <2>2
  <2>3. CASE i # 1 /\ j # 1
    <3>1. i - 1 \in 1..n /\ j - 1 \in 1..n /\ c.order[i - 1] = c.order[j - 1]
      BY <2>1, <2>3
    <3>2. i - 1 = j - 1
      BY <3>1 DEF NoRepeats
    <3> QED BY <3>2
  <2> QED BY <2>2, <2>3
<1>9. Ordered(p.order, later)
  <2> SUFFICES ASSUME NEW i \in 1..Len(p.order), NEW j \in 1..Len(p.order), i < j
               PROVE  later[p.order[i]] > later[p.order[j]]
    BY DEF Ordered
  <2>1. j - 1 \in 1..n /\ p.order[j] = c.order[j - 1]
    BY <1>1, <1>3
  <2>2. later[p.order[j]] = use[c.order[j - 1]] /\ use[c.order[j - 1]] \in 0..now
    BY <1>1, <2>1
  <2>3. CASE i = 1
    <3>1. later[p.order[i]] = now + 1
      BY <1>3, <2>3
    <3> QED BY <2>2, <3>1
  <2>4. CASE i # 1
    <3>1. i - 1 \in 1..n /\ p.order[i] = c.order[i - 1] /\ i - 1 < j - 1
      BY <1>1, <1>3, <2>4
    <3>2. later[p.order[i]] = use[c.order[i - 1]]
      BY <1>1, <3>1
    <3>3. use[c.order[i - 1]] > use[c.order[j - 1]]
      BY <2>1, <3>1 DEF Ordered
    <3> QED BY <2>2, <3>2, <3>3
  <2> QED BY <2>3, <2>4
<1> QED BY <1>3, <1>7, <1>8, <1>9 DEF p

(* The entry at the back goes, from the list and from the map.             *)
LEMMA EvictKeeps ==
    ASSUME NEW c, IsCache(c), NoRepeats(c.order), c.order # <<>>
    PROVE  LET e == evictOldest(c)
               back == c.order[Len(c.order)]
           IN  /\ IsCache(e) /\ NoRepeats(e.order)
               /\ Len(e.order) = Len(c.order) - 1
               /\ \A j \in 1..Len(e.order) : e.order[j] = c.order[j]
               /\ DOMAIN e.items = DOMAIN c.items \ {back}
               /\ \A k \in DOMAIN e.items : e.items[k] = c.items[k]
<1> DEFINE e == evictOldest(c)
           n == Len(c.order)
           back == c.order[n]
<1>1. /\ c.order \in Seq(Key) /\ n \in Nat \ {0} /\ c.items \in [Elements(c.order) -> Value]
  BY DEF IsCache
<1>2. e = [items |-> [k \in DOMAIN c.items \ {back} |-> c.items[k]],
           order |-> SubSeq(c.order, 1, n - 1)]
  BY DEF evictOldest
<1>3. /\ e.order \in Seq(Key) /\ Len(e.order) = n - 1
      /\ \A j \in 1..n - 1 : e.order[j] = c.order[j]
  BY <1>1, <1>2
<1>4. Elements(e.order) = Elements(c.order) \ {back}
  <2>1. ASSUME NEW j \in 1..n - 1 PROVE c.order[j] \in Elements(c.order) \ {back}
    BY <1>1 DEF NoRepeats, Elements
  <2>2. ASSUME NEW j \in 1..n, c.order[j] # back PROVE j \in 1..n - 1
    BY <1>1, <2>2
  <2>3. ASSUME NEW x \in Elements(e.order) PROVE x \in Elements(c.order) \ {back}
    <3>1. PICK j \in 1..n - 1 : x = e.order[j]
      BY <1>3 DEF Elements
    <3> QED BY <1>3, <2>1, <3>1
  <2>4. ASSUME NEW x \in Elements(c.order) \ {back} PROVE x \in Elements(e.order)
    <3>1. PICK j \in 1..n : x = c.order[j]
      BY DEF Elements
    <3>2. j \in 1..Len(e.order) /\ x = e.order[j]
      BY <1>3, <2>2, <3>1
    <3> QED BY <3>2 DEF Elements
  <2> QED BY <2>3, <2>4
<1>5. e.items \in [Elements(e.order) -> Value]
  BY <1>1, <1>2, <1>4
<1>6. IsCache(e)
  BY <1>2, <1>3, <1>5 DEF IsCache
<1>7. NoRepeats(e.order)
  BY <1>1, <1>3 DEF NoRepeats
<1> QED BY <1>1, <1>2, <1>3, <1>6, <1>7

-----------------------------------------------------------------------------
LEMMA PositionDef ==
    ASSUME NEW order \in Seq(Key), NEW k \in Elements(order)
    PROVE  Position(order, k) \in 1..Len(order) /\ order[Position(order, k)] = k
BY DEF Position, Elements

(* A Get that hits, and a Put of a key that is there: the element moves to *)
(* the front, and at most the value under its key changes.                 *)
LEMMA TouchKeeps ==
    ASSUME CacheInv, NEW k \in DOMAIN cache.items,
           NEW items \in [DOMAIN cache.items -> Value], NEW c,
           c = [items |-> items, order |-> MoveToFront(cache.order, Position(cache.order, k))],
           cache' = c, Use(k)
    PROVE  CacheInv'
<1> DEFINE order == cache.order
           i == Position(order, k)
           moved == MoveToFront(order, i)
           later == [lastUse EXCEPT ![k] = clock + 1]
<1>1. /\ order \in Seq(Key) /\ k \in Elements(order) /\ clock \in Nat
      /\ lastUse \in [Key -> 0..clock] /\ DOMAIN cache.items = Elements(order)
  BY DEF CacheInv, TypeOK, IsCache
<1>2. i \in 1..Len(order) /\ order[i] = k
  BY <1>1, PositionDef
<1>3. moved \in Seq(Key) /\ Len(moved) = Len(order)
  BY <1>1, <1>2, MoveToFrontDef
<1>4. Elements(moved) = Elements(order) /\ NoRepeats(moved) /\ Ordered(moved, later)
  BY <1>1, <1>2, PromoteKeeps DEF CacheInv, OneElementPerKey, OrderedByUse
<1>5. cache'.items = items /\ cache'.order = moved /\ clock' = clock + 1 /\ lastUse' = later
  BY DEF Use
<1>6. IsCache(cache')
  BY <1>1, <1>3, <1>4 DEF IsCache
<1>7. k \in Key
  BY <1>1, <1>2
<1>8. lastUse' \in [Key -> 0..clock']
  BY <1>1, <1>5, <1>7
<1>9. TypeOK'
  BY <1>1, <1>5, <1>6, <1>8 DEF TypeOK, IsCache
<1> QED BY <1>3, <1>4, <1>5, <1>9 DEF CacheInv, OneElementPerKey, Bounded, OrderedByUse

(* Where a new key is put: in the cache as it is, or less its oldest entry. *)
Room == IF Size(cache) >= maxSize THEN evictOldest(cache) ELSE cache

LEMMA RoomKeeps ==
    ASSUME CacheInv
    PROVE  /\ IsCache(Room) /\ NoRepeats(Room.order) /\ Ordered(Room.order, lastUse)
           /\ Len(Room.order) < maxSize /\ Len(Room.order) <= Len(cache.order)
           /\ \A j \in 1..Len(Room.order) : Room.order[j] = cache.order[j]
           /\ DOMAIN Room.items \subseteq DOMAIN cache.items
           /\ \A k \in DOMAIN Room.items : Room.items[k] = cache.items[k]
<1>1. /\ IsCache(cache) /\ NoRepeats(cache.order) /\ Ordered(cache.order, lastUse)
      /\ Len(cache.order) \in Nat /\ Len(cache.order) <= maxSize
  BY DEF CacheInv, TypeOK, IsCache, OneElementPerKey, Bounded, OrderedByUse
<1>2. Size(cache) = Len(cache.order)
  BY <1>1, SizeIsLength
<1>3. maxSize \in Nat \ {0}
  BY MaxSizeAssumption
<1>4. CASE Size(cache) >= maxSize
  <2>1. Room = evictOldest(cache) /\ cache.order # <<>>
    BY <1>2, <1>3, <1>4 DEF Room
  <2>2. /\ IsCache(Room) /\ NoRepeats(Room.order)
        /\ Len(Room.order) = Len(cache.order) - 1
        /\ \A j \in 1..Len(Room.order) : Room.order[j] = cache.order[j]
        /\ DOMAIN Room.items \subseteq DOMAIN cache.items
        /\ \A k \in DOMAIN Room.items : Room.items[k] = cache.items[k]
    BY <1>1, <2>1, EvictKeeps
  <2>3. Ordered(Room.order, lastUse)
    BY <1>1, <2>2 DEF Ordered
  <2> QED BY <1>1, <1>3, <2>2, <2>3
<1>5. CASE ~(Size(cache) >= maxSize)
  <2>1. Room = cache
    BY <1>5 DEF Room
  <2> QED BY <1>1, <1>2, <1>3, <1>5, <2>1
<1> QED BY <1>4, <1>5

LEMMA PutNewKeeps ==
    ASSUME CacheInv, NEW k \in Key \ DOMAIN cache.items, NEW v \in Value,
           cache' = PushFront(Room, k, v), Use(k)
    PROVE  CacheInv'
<1> DEFINE later == [lastUse EXCEPT ![k] = clock + 1]
<1>1. /\ clock \in Nat /\ lastUse \in [Key -> 0..clock]
      /\ clock' = clock + 1 /\ lastUse' = later
  BY DEF CacheInv, TypeOK, Use
<1>2. k \notin Elements(Room.order)
  BY RoomKeeps DEF IsCache
<1>3. /\ IsCache(cache') /\ Len(cache'.order) = Len(Room.order) + 1
      /\ NoRepeats(cache'.order) /\ Ordered(cache'.order, later)
  BY <1>1, <1>2, RoomKeeps, PushKeeps
<1>4. Len(Room.order) \in Nat /\ maxSize \in Nat
  BY RoomKeeps, MaxSizeAssumption DEF IsCache
<1>5. Len(cache'.order) <= maxSize
  BY <1>3, <1>4, RoomKeeps
<1>6. lastUse' \in [Key -> 0..clock']
  BY <1>1
<1>7. TypeOK'
  BY <1>1, <1>3, <1>6 DEF TypeOK, IsCache
<1> QED BY <1>1, <1>3, <1>5, <1>7 DEF CacheInv, OneElementPerKey, Bounded, OrderedByUse

(* What a step does, in terms of the lemmas above.                         *)
LEMMA PutCases ==
    ASSUME CacheInv, NEW k \in Key, NEW v \in Value, Put(k, v)
    PROVE  \/ /\ k \in DOMAIN cache.items
              /\ cache' = [items |-> [cache.items EXCEPT ![k] = v],
                           order |-> MoveToFront(cache.order, Position(cache.order, k))]
           \/ /\ k \notin DOMAIN cache.items
              /\ cache' = PushFront(Room, k, v)
BY DEF Put, PutCache, Room

LEMMA EmptyCache ==
    /\ IsCache(NewLRUCache) /\ NewLRUCache.order = <<>> /\ Len(NewLRUCache.order) = 0
    /\ NewLRUCache.items = [k \in {} |-> {}]
<1>1. Elements(<<>>) = {}
  BY DEF Elements
<1> QED BY <1>1 DEF IsCache, NewLRUCache

LEMMA EmptyKeeps ==
    ASSUME clock \in Nat, lastUse \in [Key -> 0..clock], cache = NewLRUCache
    PROVE  CacheInv
<1>1. TypeOK /\ Len(cache.order) = 0
  BY EmptyCache DEF TypeOK
<1> QED BY <1>1, MaxSizeAssumption
        DEF CacheInv, OneElementPerKey, NoRepeats, Bounded, OrderedByUse, Ordered

(* A cache keeps its two structures together, in the order of the uses and *)
(* within its size.                                                        *)
THEOREM CacheInvariant == Spec => []CacheInv
<1>1. Init => CacheInv
  <2> SUFFICES ASSUME Init PROVE CacheInv
    OBVIOUS
  <2>1. clock \in Nat /\ lastUse \in [Key -> 0..clock]
    BY DEF Init
  <2> QED BY <2>1, EmptyKeeps DEF Init
<1>2. CacheInv /\ [Next]_vars => CacheInv'
  <2> SUFFICES ASSUME CacheInv, [Next]_vars PROVE CacheInv'
    OBVIOUS
  <2>1. ASSUME NEW k \in Key, Get(k) PROVE CacheInv'
    <3>1. /\ cache.items \in [DOMAIN cache.items -> Value]
          /\ cache = [items |-> cache.items, order |-> cache.order]
      BY DEF CacheInv, TypeOK, IsCache
    <3>2. cache' = [items |-> cache.items,
                    order |-> MoveToFront(cache.order, Position(cache.order, k))]
      BY <2>1, <3>1 DEF Get, GetCache
    <3> QED BY <2>1, <3>1, <3>2, TouchKeeps DEF Get
  <2>2. ASSUME NEW k \in Key, Miss(k) PROVE CacheInv'
    BY <2>2 DEF Miss, GetCache, CacheInv, TypeOK, OneElementPerKey, Bounded, OrderedByUse
  <2>3. ASSUME NEW k \in Key, NEW v \in Value, Put(k, v) PROVE CacheInv'
    <3>1. Use(k)
      BY <2>3 DEF Put
    <3>2. [cache.items EXCEPT ![k] = v] \in [DOMAIN cache.items -> Value]
      BY DEF CacheInv, TypeOK, IsCache
    <3> QED BY <2>3, <3>1, <3>2, PutCases, TouchKeeps, PutNewKeeps
  <2>4. CASE Clear
    <3>1. /\ clock' \in Nat /\ lastUse' \in [Key -> 0..clock'] /\ cache' = NewLRUCache
      BY <2>4 DEF Clear, CacheInv, TypeOK
    <3>2. TypeOK' /\ Len(cache'.order) = 0
      BY <3>1, EmptyCache DEF TypeOK
    <3> QED BY <3>2, MaxSizeAssumption
            DEF CacheInv, OneElementPerKey, NoRepeats, Bounded, OrderedByUse, Ordered
  <2>5. CASE UNCHANGED vars
    BY <2>5 DEF vars, CacheInv, TypeOK, OneElementPerKey, Bounded, OrderedByUse
  <2> QED BY <2>1, <2>2, <2>3, <2>4, <2>5 DEF Next
<1> QED BY <1>1, <1>2, PTL DEF Spec

(* The cache never holds more than maxSize entries.                        *)
THEOREM CacheBounded == Spec => []Bounded
<1>1. CacheInv => Bounded
  BY DEF CacheInv
<1> QED BY <1>1, CacheInvariant, PTL

(* The list is always in the order of the uses.                            *)
THEOREM CacheOrderedByUse == Spec => []OrderedByUse
<1>1. CacheInv => OrderedByUse
  BY DEF CacheInv
<1> QED BY <1>1, CacheInvariant, PTL

-----------------------------------------------------------------------------
(* The abstract module counts with the same Cardinality.                   *)
LEMMA SameCardinality ==
    ASSUME NEW S
    PROVE  Abstract!Cardinality(S) = Cardinality(S)
BY DEF Abstract!Cardinality, Cardinality

(* A step of the cache is one of the bounded cache, or leaves the entries. *)
LEMMA PutImplements ==
    ASSUME CacheInv, NEW k \in Key, NEW v \in Value, Put(k, v)
    PROVE  Abstract!Put(k, v)
<1> DEFINE old == DOMAIN cache.items
           back == cache.order[Len(cache.order)]
<1>1. /\ IsCache(cache) /\ NoRepeats(cache.order) /\ Size(cache) = Cardinality(old)
      /\ cache.items \in [old -> Value] /\ old \subseteq Key
  BY DEF CacheInv, TypeOK, OneElementPerKey, IsCache, Elements, Size
<1>2. CASE k \in old
  <2>1. cache'.items = [cache.items EXCEPT ![k] = v]
    BY <1>2, PutCases
  <2>2. cache'.items \in [old -> Value]
    BY <1>1, <2>1
  <2>3. cache'.items \in Abstract!Store
    BY <1>1, <2>2 DEF Abstract!Store
  <2>4. Abstract!KeepsOthers(cache.items, cache'.items, k, {})
    BY <1>1, <1>2, <2>1 DEF Abstract!KeepsOthers
  <2>5. Abstract!Holds(cache'.items, k, v)
    BY <1>1, <1>2, <2>1 DEF Abstract!Holds
  <2> QED BY <1>2, <2>3, <2>4, <2>5 DEF Abstract!Put
<1>3. CASE k \notin old
  <2>1. cache'.items = [j \in DOMAIN Room.items \cup {k} |->
                           IF j = k THEN v ELSE Room.items[j]]
    <3>1. cache' = PushFront(Room, k, v)
      BY <1>3, PutCases
    <3> QED BY <3>1 DEF PushFront
  <2>2. /\ DOMAIN Room.items \subseteq old
        /\ \A j \in DOMAIN Room.items : Room.items[j] = cache.items[j]
    BY RoomKeeps
  <2>3. cache'.items \in [DOMAIN Room.items \cup {k} -> Value]
    BY <1>1, <2>1, <2>2
  <2>4. cache'.items \in Abstract!Store
    BY <1>1, <2>2, <2>3 DEF Abstract!Store
  <2>5. Abstract!Holds(cache'.items, k, v)
    BY <2>1 DEF Abstract!Holds
  <2>6. CASE Size(cache) >= maxSize
    <3>1. Room = evictOldest(cache) /\ cache.order # <<>>
      <4>1. Size(cache) = Len(cache.order)
        BY <1>1, SizeIsLength
      <4> QED BY <2>6, <4>1, MaxSizeAssumption DEF Room
    <3>2. DOMAIN Room.items = old \ {back}
      BY <1>1, <3>1, EvictKeeps
    <3>3. back \in old
      BY <1>1, <3>1 DEF IsCache, Elements
    <3>4. Abstract!KeepsOthers(cache.items, cache'.items, k, {back})
      BY <2>1, <2>2, <3>2 DEF Abstract!KeepsOthers
    <3>5. {back} # {} /\ ~(k \in old \/ Cardinality(old) < maxSize)
      <4>1. Cardinality(old) \in Nat
        BY <1>1, SizeIsLength DEF IsCache
      <4> QED BY <1>1, <1>3, <2>6, <4>1, MaxSizeAssumption
    <3>6. {back} \in {{}} \cup {{other} : other \in old}
      BY <3>3
    <3>7. {back} = {} <=> k \in old \/ Abstract!Cardinality(old) < maxSize
      BY <3>5, SameCardinality
    <3> QED BY <2>4, <2>5, <3>4, <3>6, <3>7 DEF Abstract!Put
  <2>7. CASE ~(Size(cache) >= maxSize)
    <3>1. Room = cache
      BY <2>7 DEF Room
    <3>2. Abstract!KeepsOthers(cache.items, cache'.items, k, {})
      BY <2>1, <3>1 DEF Abstract!KeepsOthers
    <3>3. Cardinality(old) < maxSize
      <4>1. Cardinality(old) \in Nat
        BY <1>1, SizeIsLength DEF IsCache
      <4> QED BY <1>1, <2>7, <4>1, MaxSizeAssumption
    <3>4. {} \in {{}} \cup {{other} : other \in old}
      OBVIOUS
    <3>5. {} = {} <=> k \in old \/ Abstract!Cardinality(old) < maxSize
      BY <3>3, SameCardinality
    <3> QED BY <2>4, <2>5, <3>2, <3>4, <3>5 DEF Abstract!Put
  <2> QED BY <2>6, <2>7
<1> QED BY <1>2, <1>3

(* The LRU cache is a bounded cache: it answers with what was last stored, *)
(* and gives up one other entry, and only one, when a new key does not fit. *)
THEOREM CacheImplements == Spec => ImplementsBoundedCache
<1>1. Init => Abstract!Init
  BY EmptyCache DEF Init, Abstract!Init
<1>2. CacheInv /\ [Next]_vars => [Abstract!Next]_(cache.items)
  <2> SUFFICES ASSUME CacheInv, [Next]_vars PROVE [Abstract!Next]_(cache.items)
    OBVIOUS
  <2>1. ASSUME NEW k \in Key, Get(k) \/ Miss(k) PROVE cache'.items = cache.items
    <3>1. cache = [items |-> cache.items, order |-> cache.order]
      BY DEF CacheInv, TypeOK, IsCache
    <3> QED BY <2>1, <3>1 DEF Get, Miss, GetCache
  <2>2. ASSUME NEW k \in Key, NEW v \in Value, Put(k, v) PROVE Abstract!Next
    BY <2>2, PutImplements DEF Abstract!Next
  <2>3. CASE Clear
    BY <2>3, EmptyCache DEF Clear, Abstract!Next, Abstract!Clear
  <2>4. CASE UNCHANGED vars
    BY <2>4 DEF vars
  <2> QED BY <2>1, <2>2, <2>3, <2>4 DEF Next
<1> QED BY <1>1, <1>2, CacheInvariant, PTL DEF Spec, ImplementsBoundedCache, Abstract!Spec

(* A Put that drops an entry drops the one that was unused for longest.    *)
THEOREM CacheEvictsLeastRecentlyUsed == Spec => EvictsLeastRecentlyUsed
<1> DEFINE Evicts == \A k \in DOMAIN cache.items \ DOMAIN cache'.items :
                        DOMAIN cache'.items # {} =>
                           \A kept \in DOMAIN cache.items \cap DOMAIN cache'.items :
                              lastUse[k] < lastUse[kept]
<1>1. CacheInv /\ [Next]_vars => [Evicts]_vars
  <2> SUFFICES ASSUME CacheInv, [Next]_vars PROVE Evicts
    OBVIOUS
  <2>1. ASSUME NEW k \in Key, Get(k) \/ Miss(k) PROVE cache'.items = cache.items
    <3>1. cache = [items |-> cache.items, order |-> cache.order]
      BY DEF CacheInv, TypeOK, IsCache
    <3> QED BY <2>1, <3>1 DEF Get, Miss, GetCache
  <2>2. ASSUME NEW k \in Key, NEW v \in Value, Put(k, v) PROVE Evicts
    <3> SUFFICES ASSUME NEW gone \in DOMAIN cache.items \ DOMAIN cache'.items,
                        NEW kept \in DOMAIN cache.items \cap DOMAIN cache'.items
                 PROVE  lastUse[gone] < lastUse[kept]
      OBVIOUS
    <3>1. k \notin DOMAIN cache.items /\ cache' = PushFront(Room, k, v)
      <4>1. k \in DOMAIN cache.items =>
                cache'.items = [cache.items EXCEPT ![k] = v]
        BY <2>2, PutCases
      <4>2. DOMAIN [cache.items EXCEPT ![k] = v] = DOMAIN cache.items
        OBVIOUS
      <4> QED BY <2>2, <4>1, <4>2, PutCases
    <3>2. DOMAIN cache'.items = DOMAIN Room.items \cup {k}
      BY <3>1 DEF PushFront
    <3>3. gone \notin DOMAIN Room.items
      BY <3>2
    <3>4. Room = evictOldest(cache) /\ cache.order # <<>>
      <4>1. Room # cache
        BY <3>3
      <4>2. Size(cache) >= maxSize
        BY <4>1 DEF Room
      <4>3. Size(cache) = Len(cache.order)
        BY SizeIsLength DEF CacheInv, TypeOK, OneElementPerKey
      <4> QED BY <4>2, <4>3, MaxSizeAssumption DEF Room
    <3>5. /\ IsCache(cache) /\ NoRepeats(cache.order) /\ Ordered(cache.order, lastUse)
      BY DEF CacheInv, TypeOK, OneElementPerKey, OrderedByUse
    <3>6. gone = cache.order[Len(cache.order)]
      BY <3>3, <3>4, <3>5, EvictKeeps
    <3>7. /\ Len(cache.order) \in Nat \ {0} /\ DOMAIN cache.items = Elements(cache.order)
          /\ cache.order \in Seq(Key) /\ lastUse \in [Key -> 0..clock] /\ clock \in Nat
      BY <3>4 DEF CacheInv, TypeOK, IsCache
    <3>8. PICK i \in 1..Len(cache.order) : kept = cache.order[i]
      BY <3>7 DEF Elements
    <3>9. kept # gone
      OBVIOUS
    <3>10. i < Len(cache.order)
      BY <3>6, <3>7, <3>8, <3>9
    <3>11. lastUse[kept] > lastUse[gone]
      BY <3>5, <3>6, <3>7, <3>8, <3>10 DEF Ordered
    <3>12. lastUse[kept] \in Nat /\ lastUse[gone] \in Nat
      BY <3>6, <3>7, <3>8
    <3> QED BY <3>11, <3>12
  <2>3. CASE Clear
    <3>1. DOMAIN cache'.items = {}
      BY <2>3, EmptyCache DEF Clear
    <3> QED BY <3>1
  <2>4. CASE UNCHANGED vars
    BY <2>4 DEF vars
  <2> QED BY <2>1, <2>2, <2>3, <2>4 DEF Next
<1> QED BY <1>1, CacheInvariant, PTL DEF Spec, EvictsLeastRecentlyUsed
=============================================================================
