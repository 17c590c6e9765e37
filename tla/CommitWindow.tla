---------------------------- MODULE CommitWindow ----------------------------
(***************************************************************************)
(* The lazy pipeline of the lane layout: the index of all commits by their *)
(* height (web/graph/state/commitIndex.js), the window of the index that   *)
(* is close to the viewport (viewportWindow.js), and the pool of node      *)
(* objects that are given to the commits of the window                     *)
(* (nodeMaterializer.js).                                                  *)
(*                                                                         *)
(* The index is the sequence of the known commits, newest first; the       *)
(* layout puts the i-th of them at height Step * (i - 1).  Heights are     *)
(* whole numbers and the zoom scale is 1.                                  *)
(***************************************************************************)
EXTENDS GraphFilter, Integers, SequencesExt

CONSTANTS Newest,        \* all commits, newest first
          Step,          \* LANE_VERTICAL_STEP
          BufferFactor,  \* viewport heights queried above and below
          Margin,        \* hysteresisMargin
          PoolCapacity,  \* node objects the pool keeps
          Objects        \* node objects the model has

ASSUME NewestAssumption == Newest \in Seq(Commit) /\ Range(Newest) = Commit /\ IsInjective(Newest)
ASSUME WindowAssumption == /\ {Step, BufferFactor, Margin, PoolCapacity} \subseteq Nat
                           /\ Step > 0 /\ Objects \in Nat
(* The code makes a node object whenever it needs one: with so many of     *)
(* them the model never runs short.                                        *)
ASSUME ObjectsAssumption == Objects >= 2 * Cardinality(Commit) + 2

NodeId == 1..Objects

----------------------------------------------------------------------------
(* CommitIndex *)

(* The elements of a sequence that are in a set, in their order.           *)
Among(seq, set) ==
    LET kept[n \in 0..Len(seq)] ==
            IF n = 0 THEN <<>>
            ELSE IF seq[n] \in set THEN Append(kept[n - 1], seq[n]) ELSE kept[n - 1]
    IN  kept[Len(seq)]

NewestFirst(commits) == Among(Newest, commits)

rebuild(known) == NewestFirst(known)

Indexed(index, h) == h \in Range(index)
EntryY(index, h) == Step * ((CHOOSE i \in DOMAIN index : index[i] = h) - 1)

(* The binary search for the first entry at or below yMin: each pass of    *)
(* the loop halves the range, which no more than Len(index) of them close. *)
Halved(range, yMin) ==
    LET mid == (range.lo + range.hi) \div 2
    IN  IF range.lo >= range.hi THEN range
        ELSE IF Step * (mid - 1) < yMin THEN [range EXCEPT !.lo = mid + 1] ELSE [range EXCEPT !.hi = mid]

FirstAtLeast(index, yMin) ==
    LET search[n \in 0..Len(index)] == IF n = 0 THEN [lo |-> 1, hi |-> Len(index) + 1]
                                       ELSE Halved(search[n - 1], yMin)
    IN  search[Len(index)].lo

queryYRange(index, yMin, yMax) ==
    LET first == FirstAtLeast(index, yMin)
        below == {i \in first..Len(index) : Step * (i - 1) > yMax}
    IN  SubSeq(index, first, IF below = {} THEN Len(index) ELSE Min(below) - 1)

----------------------------------------------------------------------------
(* ViewportWindow *)

(* Mutant: the bottom edge of the viewport is forgotten. *)
WellInsideTop(w, top, height) == top > w.lo + Margin

WellInside(w, top, height) == top > w.lo + Margin /\ top + height < w.hi - Margin

Query(index, top, height) ==
    LET lo == top - BufferFactor * height
        hi == top + height + BufferFactor * height
    IN  [lo |-> lo, hi |-> hi, entries |-> queryYRange(index, lo, hi)]

----------------------------------------------------------------------------
(* NodeMaterializer.  A node object is the hash and the commit data it     *)
(* carries and whether it is dimmed; m is any record with the fields node  *)
(* (the objects), active (those in use, oldest first) and pool.            *)

Blank == [hash |-> NoHash, data |-> "none", dimmed |-> FALSE]
NodeObject == [hash : Commit \cup {NoHash}, data : Level \cup {"none"}, dimmed : BOOLEAN]

ActiveHashes(m) == {m.node[id].hash : id \in Range(m.active)}
NodeOf(m, h) == CHOOSE id \in Range(m.active) : m.node[id].hash = h

DataOf(commits, h) == IF h \in DOMAIN commits THEN commits[h] ELSE "none"

(* Objects nobody refers to; inUse are those outside the materializer.     *)
FreeIds(m, inUse) == Among([i \in NodeId |-> i], NodeId \ (Range(m.active) \cup Range(m.pool) \cup inUse))

(* The first n of them.                                                    *)
NewIds(m, inUse, n) == SubSeq(FreeIds(m, inUse), 1, Min({n, Len(FreeIds(m, inUse))}))

(* Mutant: an evicted object keeps what it carried. *)
_evictUncleared(m, ids) ==
    [m EXCEPT !.active = Among(@, NodeId \ Range(ids)),
              !.pool = LET room == PoolCapacity - Len(@)
                       IN  @ \o SubSeq(ids, 1, IF Len(ids) < room THEN Len(ids) ELSE room)]

_evict(m, ids) ==
    [m EXCEPT !.node = [id \in NodeId |-> IF id \in Range(ids) THEN Blank ELSE @[id]],
              !.active = Among(@, NodeId \ Range(ids)),
              !.pool = LET room == PoolCapacity - Len(@)
                       IN  @ \o SubSeq(ids, 1, IF Len(ids) < room THEN Len(ids) ELSE room)]

(* One object for each hash of the sequence: the last one put into the     *)
(* pool first, new objects when it is empty.                               *)
_acquire(m, hashes, inUse) ==
    LET k     == Min({Len(hashes), Len(m.pool)})
        taken == [i \in 1..k |-> m.pool[Len(m.pool) + 1 - i]]
        ids   == taken \o NewIds(m, inUse, Len(hashes) - k)
        hash(id) == hashes[CHOOSE i \in DOMAIN ids : ids[i] = id]
    IN  [m EXCEPT !.pool = SubSeq(@, 1, Len(@) - k),
                  !.active = @ \o ids,
                  !.node = [id \in NodeId |->
                              IF id \in Range(ids)
                              THEN [Blank EXCEPT !.hash = hash(id)] ELSE @[id]]]

WithData(m, ids, commits) ==
    [m EXCEPT !.node = [id \in NodeId |->
         IF id \in ids THEN [@[id] EXCEPT !.data = DataOf(commits, m.node[id].hash)] ELSE @[id]]]

WithAllData(m, commits) == WithData(m, Range(m.active), commits)

synchronize(m, entries, commits, inUse) ==
    LET gone == Among(m.active, {id \in NodeId : m.node[id].hash \notin Range(entries)})
        new  == Among(entries, Commit \ ActiveHashes(m))
    IN  WithAllData(_acquire(_evict(m, gone), new, inUse), commits)

forceMaterialize(m, h, commits, inUse) ==
    LET next == IF h \in ActiveHashes(m) THEN m ELSE _acquire(m, <<h>>, inUse)
    IN  WithData(next, {id \in Range(next.active) : next.node[id].hash = h}, commits)

clear(m) == _evict(m, m.active)
=============================================================================
