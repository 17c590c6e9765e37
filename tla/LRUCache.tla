------------------------------ MODULE LRUCache ------------------------------
(***************************************************************************)
(* internal/server/cache.go. An LRUCache is two structures that have to    *)
(* agree: the map items, from key to list element, and the list order,     *)
(* front = most recently used. Here items maps a key to the value its      *)
(* element holds, and order is the sequence of the elements' keys. Every   *)
(* method holds mu from its first line to its return, so that each is one  *)
(* step.                                                                   *)
(***************************************************************************)
EXTENDS Naturals, Sequences, FiniteSets

CONSTANTS Key, Value,
          maxSize,   \* CacheSize, GITVISTA_CACHE_SIZE or defaultCacheSize
          MaxUses    \* bound on the clock that dates the uses

ASSUME MaxSizeAssumption == maxSize \in Nat \ {0}

NewLRUCache == [items |-> [k \in {} |-> {}], order |-> <<>>]

Size(c) == Cardinality(DOMAIN c.items)

(* list.MoveToFront of the element at position i. *)
MoveToFront(order, i) ==
    [j \in 1..Len(order) |-> IF j = 1 THEN order[i]
                             ELSE IF j <= i THEN order[j - 1]
                             ELSE order[j]]

Position(order, k) == CHOOSE i \in 1..Len(order) : order[i] = k

(* Mutant: a hit is not promoted. *)
GetWithoutPromotion(c, k) == c

(* The cache after Get(k); the answer is c.items[k], or a miss. *)
GetCache(c, k) ==
    IF k \in DOMAIN c.items
    THEN [c EXCEPT !.order = MoveToFront(@, Position(@, k))]
    ELSE c

(* Mutant: the newest entry goes. *)
evictNewest(c) ==
    IF c.order = <<>> THEN c
    ELSE [items |-> [k \in DOMAIN c.items \ {c.order[1]} |-> c.items[k]],
          order |-> Tail(c.order)]

evictOldest(c) ==
    IF c.order = <<>> THEN c
    ELSE [items |-> [k \in DOMAIN c.items \ {c.order[Len(c.order)]} |-> c.items[k]],
          order |-> SubSeq(c.order, 1, Len(c.order) - 1)]

(* A new entry in front of those of c. *)
PushFront(c, k, v) ==
    [items |-> [j \in DOMAIN c.items \cup {k} |-> IF j = k THEN v ELSE c.items[j]],
     order |-> <<k>> \o c.order]

(* Mutants: Put does not look for the key; it evicts before it looks; it   *)
(* evicts one entry too late.                                              *)
PutWithoutLookup(c, k, v) ==
    PushFront(IF Size(c) >= maxSize THEN evictOldest(c) ELSE c, k, v)

PutEvictsFirst(c, k, v) ==
    LET room == IF Size(c) >= maxSize THEN evictOldest(c) ELSE c
    IN  IF k \in DOMAIN room.items
        THEN [items |-> [room.items EXCEPT ![k] = v],
              order |-> MoveToFront(room.order, Position(room.order, k))]
        ELSE PushFront(room, k, v)

PutOverflows(c, k, v) ==
    IF k \in DOMAIN c.items
    THEN [items |-> [c.items EXCEPT ![k] = v],
          order |-> MoveToFront(c.order, Position(c.order, k))]
    ELSE PushFront(IF Size(c) > maxSize THEN evictOldest(c) ELSE c, k, v)

(* The cache after Put(k, v): update in place, or evict and push in front. *)
PutCache(c, k, v) ==
    IF k \in DOMAIN c.items
    THEN [items |-> [c.items EXCEPT ![k] = v],
          order |-> MoveToFront(c.order, Position(c.order, k))]
    ELSE PushFront(IF Size(c) >= maxSize THEN evictOldest(c) ELSE c, k, v)

-----------------------------------------------------------------------------
VARIABLES cache,    \* the LRUCache
          clock,    \* history: number of uses so far
          lastUse   \* history: when a key was last stored or hit

vars == <<cache, clock, lastUse>>

Use(k) == /\ clock < MaxUses
          /\ clock' = clock + 1
          /\ lastUse' = [lastUse EXCEPT ![k] = clock + 1]

Init == /\ cache = NewLRUCache
        /\ clock = 0
        /\ lastUse = [k \in Key |-> 0]

Get(k) == /\ k \in DOMAIN cache.items
          /\ cache' = GetCache(cache, k)
          /\ Use(k)

Miss(k) == /\ k \notin DOMAIN cache.items
           /\ cache' = GetCache(cache, k)
           /\ UNCHANGED <<clock, lastUse>>

Put(k, v) == /\ cache' = PutCache(cache, k, v)
             /\ Use(k)

Clear == /\ cache' = NewLRUCache
         /\ UNCHANGED <<clock, lastUse>>

Next == \/ \E k \in Key : Get(k) \/ Miss(k)
        \/ \E k \in Key, v \in Value : Put(k, v)
        \/ Clear

Spec == Init /\ [][Next]_vars

-----------------------------------------------------------------------------
(* Types; and the map and the list name the same keys: a key only in the   *)
(* map could never be evicted, and one only in the list would be evicted   *)
(* in the place of a live one (evictOldest, Put, Clear).                   *)
Elements(order) == {order[i] : i \in 1..Len(order)}

IsCache(c) == /\ c = [items |-> c.items, order |-> c.order]
              /\ c.order \in Seq(Key)
              /\ c.items \in [Elements(c.order) -> Value]

TypeOK == /\ IsCache(cache)
          /\ clock \in Nat
          /\ lastUse \in [Key -> 0..clock]

(* The list has one element for each key: the map can only lead to one of  *)
(* two, and evicting the other would drop a key from the map that the list *)
(* still has.                                                              *)
NoRepeats(order) == \A i, j \in 1..Len(order) : order[i] = order[j] => i = j

OneElementPerKey == NoRepeats(cache.order)

(* "Evict the LRU entry before inserting to keep Len <= maxSize."          *)
Bounded == Len(cache.order) <= maxSize

(* The list is in the order of the uses, so that the entry at its back,    *)
(* which Put evicts, is the one unused for longest.                        *)
Ordered(order, use) ==
    \A i, j \in 1..Len(order) : i < j => use[order[i]] > use[order[j]]

OrderedByUse == Ordered(cache.order, lastUse)

CacheInv == TypeOK /\ OneElementPerKey /\ Bounded /\ OrderedByUse

(* A Put that drops an entry drops one that was used before every entry    *)
(* that stays.                                                             *)
EvictsLeastRecentlyUsed ==
    [][\A k \in DOMAIN cache.items \ DOMAIN cache'.items :
          DOMAIN cache'.items # {} =>
             \A kept \in DOMAIN cache.items \cap DOMAIN cache'.items :
                lastUse[k] < lastUse[kept]]_vars

Abstract == INSTANCE BoundedCache WITH store <- cache.items

(* Every step of the LRU cache is one of the bounded cache or none.        *)
ImplementsBoundedCache == Abstract!Spec
=============================================================================
