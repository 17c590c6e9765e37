---------------------------- MODULE LaneStrategy ----------------------------
(***************************************************************************)
(* The lane layout of the browser's commit graph as it is used: the        *)
(* controller lays a graph out and indexes the positions, the reader       *)
(* scrolls, drags a lane's header sideways or rebalances.  The strategy    *)
(* remembers where each segment is on a number line (0 for the main        *)
(* branch) and restores the places by label when the graph is laid out     *)
(* again.                                                                  *)
(***************************************************************************)
EXTENDS LaneAssignment

CONSTANTS Graphs,       \* the graphs a repository may have
          Changes,      \* the pairs of graphs a repository goes from and to
          Positions,    \* where a header is dragged to
          MaxSteps      \* bound on what happens after the first layout

ASSUME GraphsAssumption == \A g \in Graphs : IsHistory(g)
ASSUME ChangesAssumption == Changes \subseteq Graphs \X Graphs
ASSUME PositionsAssumption == Positions \subseteq Int
ASSUME MaxStepsAssumption == MaxSteps \in Nat

VARIABLES graph,      \* what updateGraph was last given
          segments,   \* _segments, sorted from the top down, with positions
          placed,     \* _segmentPositions and _segmentLabels, in Map order
          index,      \* the CommitIndex: a position per commit
          nodes,      \* the drawn commits, with the position each is drawn at
          steps       \* what happened since the first layout

vars == <<graph, segments, placed, index, nodes, steps>>

segmentsOverlapY(a, b) == a.extMinY <= b.extMaxY /\ b.extMinY <= a.extMaxY
PositionsOf(segs) == [i \in DOMAIN segs |-> segs[i].position]
PlacedAt(segs, at) == [i \in DOMAIN segs |-> [segs[i] EXCEPT !.position = at[i]]]

-----------------------------------------------------------------------------
(* Positions on the number line: at[i] is the place of segment i.          *)

(* The next place in a direction; 0 is for the main branch.                *)
Candidate(p, direction) == IF p + direction = 0 THEN direction ELSE p + direction

(* Segment k is to have place p: one after the other, whatever of the      *)
(* others is there and in its way is pushed.                               *)
Cleared(segs, push, k, p, at) ==
    LET Clear(acc, j) == IF j # k /\ acc[j] = p /\ segmentsOverlapY(segs[k], segs[j])
                         THEN push[j][acc] ELSE acc
        cleared[j \in 0 .. Len(segs)] == IF j = 0 THEN at ELSE Clear(cleared[j - 1], j)
    IN  cleared[Len(segs)]

(* Mutant: whatever is in the way stays there.                             *)
pushAlone(segs, direction) ==
    [k \in DOMAIN segs |-> [at \in [DOMAIN segs -> Int] |->
        IF segs[k].isMain THEN at ELSE [at EXCEPT ![k] = Candidate(at[k], direction)]]]

(* What the places are when segment k is pushed one place: what is in its  *)
(* way is pushed first, and is further out: no chain of them is longer     *)
(* than there are segments.                                                *)
pushSegment(segs, direction) ==
    LET push[n \in 0 .. Len(segs)] ==
            [k \in DOMAIN segs |-> [at \in [DOMAIN segs -> Int] |->
                IF n = 0 \/ segs[k].isMain THEN at
                ELSE LET p == Candidate(at[k], direction)
                     IN  [Cleared(segs, push[n - 1], k, p, at) EXCEPT ![k] = p]]]
    IN  push[Len(segs)]

(* The nearest free place, 1, -1, 2, -2, ... up to 99, else a place all    *)
(* the same.                                                               *)
MaxDistance == 99
assignInitialPosition(segs, at, i) ==
    LET Spiral(n) == IF n % 2 = 1 THEN (n + 1) \div 2 ELSE -(n \div 2)
        Free(n) == \A j \in DOMAIN segs :
                       j # i /\ at[j] = Spiral(n) => ~segmentsOverlapY(segs[i], segs[j])
    IN  IF \E n \in 1 .. 2 * MaxDistance : Free(n)
        THEN Spiral(CHOOSE n \in 1 .. 2 * MaxDistance : Free(n) /\ \A m \in 1 .. n - 1 : ~Free(m))
        ELSE Len(segs)

Collide(segs, at, i, j) ==
    at[i] = at[j] /\ ~(segs[i].isMain /\ segs[j].isMain) /\ segmentsOverlapY(segs[i], segs[j])
Separate(segs, at, i, j) ==
    LET k == IF segs[j].isMain THEN i ELSE j
    IN  IF Collide(segs, at, i, j)
        THEN pushSegment(segs, IF at[k] < 0 THEN -1 ELSE 1)[k][at] ELSE at

(* One pass: segment i with those below it, for every i.                   *)
SeparateFrom(segs, at, i) ==
    LET columns[j \in i .. Len(segs)] ==
            IF j = i THEN at ELSE Separate(segs, columns[j - 1], i, j)
    IN  columns[Len(segs)]
Pass(segs, at) ==
    LET rows[i \in 0 .. Len(segs)] == IF i = 0 THEN at ELSE SeparateFrom(segs, rows[i - 1], i)
    IN  rows[Len(segs)]

(* At most 50 passes, until there is no collision.                         *)
MaxPasses == 50
resolveAllCollisions(segs, positions) ==
    LET resolved[n \in 0 .. MaxPasses] ==
            [at \in [DOMAIN segs -> Int] |->
                IF n = 0 \/ \A i, j \in DOMAIN segs : i < j => ~Collide(segs, at, i, j)
                THEN at ELSE resolved[n - 1][Pass(segs, at)]]
    IN  resolved[MaxPasses][positions]

(* A segment is restored when the Map still had a place for its label:     *)
(* segments of one label take the places in order.                         *)
Ascending(S) == InOrder(S, LAMBDA i, j : i < j)
Previous(before, label) == Ascending({k \in DOMAIN before : before[k].label = label})
Rank(segs, i) == Cardinality({j \in 1 .. i : ~segs[j].isMain /\ segs[j].label = segs[i].label})
(* Mutant: the places are not remembered.                                  *)
NeverRestored(before, segs, i) == FALSE

IsRestored(before, segs, i) ==
    ~segs[i].isMain /\ Rank(segs, i) <= Len(Previous(before, segs[i].label))

(* The main segment first, the restored ones, the new ones.                *)
PlacingOrder(before, segs) ==
    LET Main == {i \in DOMAIN segs : segs[i].isMain}
        Restored == {i \in DOMAIN segs : IsRestored(before, segs, i)}
    IN  Ascending(Main) \o Ascending(Restored) \o Ascending(DOMAIN segs \ (Main \cup Restored))

(* Main at 0, the restored where they were, the rest spirals outwards;     *)
(* then collisions are resolved.                                           *)
PlaceOf(before, segs, at, i) ==
    IF segs[i].isMain THEN 0
    ELSE IF IsRestored(before, segs, i)
    THEN before[Previous(before, segs[i].label)[Rank(segs, i)]].position
    ELSE assignInitialPosition(segs, at, i)
Place(before, segs, at, i) == [at EXCEPT ![i] = PlaceOf(before, segs, at, i)]
assignSegmentPositions(before, segs) ==
    LET order == PlacingOrder(before, segs)
        placing[n \in 0 .. Len(order)] ==
            IF n = 0 THEN PositionsOf(segs) ELSE Place(before, segs, placing[n - 1], order[n])
    IN  PlacedAt(segs, resolveAllCollisions(segs, placing[Len(order)]))

(* The Map after it.                                                       *)
Remembered(before, segs) ==
    LET order == PlacingOrder(before, segs)
    IN  [k \in DOMAIN order |-> [id |-> segs[order[k]].id, label |-> segs[order[k]].label,
                                 position |-> segs[order[k]].position]]
(* The Map after segments moved: no entry is added.                        *)
RememberedMoves(before, segs) ==
    [k \in DOMAIN before |->
        [before[k] EXCEPT !.position =
            (CHOOSE s \in ToSet(segs) : s.id = before[k].id).position]]

(* Where a commit is drawn: its segment's place and its row.               *)
SegmentOf(segs, h) == CHOOSE s \in ToSet(segs) : h \in s.hashes
computeXPositions(segs, S) == [h \in S |-> SegmentOf(segs, h).position]

-----------------------------------------------------------------------------
(* What is drawn of the lanes, and what a point in it hits.                *)

(* Two backgrounds that meet are cut between the lanes proper.             *)
Clip(bars, i) ==
    IF i = Len(bars) \/ bars[i].maxY + Pad <= bars[i + 1].minY - Pad THEN bars
    ELSE LET mid == (bars[i].coreMaxY + bars[i + 1].coreMinY) \div 2
         IN  [bars EXCEPT ![i].maxY = Max({bars[i].coreMaxY, mid - Pad}),
                          ![i + 1].minY = Min({bars[i + 1].coreMinY, mid + Pad})]

(* The backgrounds at a position, from the top down.                       *)
buildLaneInfo(segs, position) ==
    LET here == Ascending({i \in DOMAIN segs : segs[i].position = position})
        bars == [n \in DOMAIN here |->
                    [hashes |-> segs[here[n]].hashes,
                     minY |-> segs[here[n]].extMinY, maxY |-> segs[here[n]].extMaxY,
                     coreMinY |-> segs[here[n]].minY, coreMaxY |-> segs[here[n]].maxY]]
        clipped[i \in 0 .. Len(bars)] == IF i = 0 THEN bars ELSE Clip(clipped[i - 1], i)
    IN  clipped[Len(bars)]

BodyContains(bar, y) == /\ y >= Min({bar.minY + Pad, bar.coreMinY})
                        /\ y <= Max({bar.maxY - Pad, bar.coreMaxY})
findLaneBodyAt(segs, position, y) ==
    LET bars == buildLaneInfo(segs, position)
    IN  IF \E b \in ToSet(bars) : BodyContains(b, y)
        THEN UNION {b.hashes : b \in ToSet(bars)} ELSE {}

-----------------------------------------------------------------------------
(* The commits of the first rows, which the window shows.                  *)
FirstRows(g, n) == {h \in g.commits : computeYPositions(g)[h] <= Step * n}

NoGraph == [commits |-> {}, parents |-> <<>>, time |-> <<>>, branches |-> <<>>, stashes |-> {},
            label |-> <<>>, merged |-> <<>>, note |-> <<>>]

Init ==
    /\ graph = NoGraph
    /\ segments = <<>>
    /\ placed = <<>>
    /\ index = <<>>
    /\ nodes = <<>>
    /\ steps = 0

LaidOut(g, rows, segs) ==
    /\ graph' = g
    /\ segments' = segs
    /\ placed' = Remembered(placed, segs)
    /\ index' = computeXPositions(segs, g.commits)
    /\ nodes' = computeXPositions(segs, FirstRows(g, rows))

(* updateGraph, the index rebuilt from it, the visible commits drawn.      *)
Update(g, rows) == LaidOut(g, rows, assignSegmentPositions(placed, buildSegments(g)))

(* The window moves: the drawn commits take their places from the index.   *)
Scroll(rows) ==
    /\ nodes' = [h \in FirstRows(graph, rows) |-> index[h]]
    /\ UNCHANGED <<graph, segments, placed, index>>

(* Mutant: what was pushed out of the way is drawn where it was.           *)
moveSegmentAlone(h, target) ==
    LET i == CHOOSE j \in DOMAIN segments : h \in segments[j].hashes
        old == segments[i].position
        direction == IF old > target THEN 1 ELSE -1
        at == [PositionsOf(segments) EXCEPT ![i] = target]
        moved == PlacedAt(segments,
                          Cleared(segments, pushSegment(segments, direction), i, target, at))
    IN  /\ target # 0
        /\ h \in graph.commits
        /\ ~segments[i].isMain
        /\ old # target
        /\ segments' = moved
        /\ placed' = RememberedMoves(placed, moved)
        /\ nodes' = [c \in DOMAIN nodes |-> IF c \in segments[i].hashes THEN target ELSE nodes[c]]
        /\ UNCHANGED <<graph, index>>

(* The header over commit h is dragged to another position.                *)
moveSegment(h, target) ==
    LET i == CHOOSE j \in DOMAIN segments : h \in segments[j].hashes
        old == segments[i].position
        direction == IF old > target THEN 1 ELSE -1
        at == [PositionsOf(segments) EXCEPT ![i] = target]
        moved == PlacedAt(segments,
                          Cleared(segments, pushSegment(segments, direction), i, target, at))
    IN  /\ target # 0
        /\ h \in graph.commits
        /\ ~segments[i].isMain
        /\ old # target
        /\ segments' = moved
        /\ placed' = RememberedMoves(placed, moved)
        /\ nodes' = computeXPositions(moved, DOMAIN nodes)
        /\ UNCHANGED <<graph, index>>

(* The Map is cleared and every segment placed anew.                       *)
rebalance ==
    LET segs == assignSegmentPositions(<<>>, segments)
    IN  /\ segments' = segs
        /\ placed' = Remembered(<<>>, segs)
        /\ nodes' = computeXPositions(segs, DOMAIN nodes)
        /\ UNCHANGED <<graph, index>>

Rows == {1, Cardinality(graph.commits)}

Next ==
    \/ /\ graph = NoGraph
       /\ \E g \in Graphs : Update(g, Cardinality(g.commits))
       /\ UNCHANGED steps
    \/ /\ graph # NoGraph
       /\ steps < MaxSteps
       /\ steps' = steps + 1
       /\ \/ \E g \in {graph} \cup {change[2] : change \in {c \in Changes : c[1] = graph}} :
                Update(g, Cardinality(g.commits))
          \/ \E rows \in Rows : Scroll(rows)
          \/ \E s \in ToSet(segments), target \in Positions : moveSegment(s.id, target)
          \/ rebalance

Spec == Init /\ [][Next]_vars

-----------------------------------------------------------------------------
(* Every commit has a place, and every drawn commit is one of the graph.   *)
TypeOK ==
    /\ DOMAIN index = graph.commits
    /\ DOMAIN nodes \subseteq graph.commits
    /\ UNION {s.hashes : s \in ToSet(segments)} = graph.commits
    /\ \A e \in ToSet(placed) : e.position \in Int

(* A commit is drawn above its parents, whatever its clock said            *)
(* (_computeYPositions).                                                   *)
ParentsBelow ==
    LET row == computeYPositions(graph)
    IN  \A h \in graph.commits : \A p \in ParentsIn(graph, h) : row[h] < row[p]

(* Two segments at one position never overlap, however they were dragged,  *)
(* pushed, restored or placed.                                             *)
NoOverlap ==
    \A s, t \in ToSet(segments) :
        s # t /\ s.position = t.position => ~segmentsOverlapY(s, t)

(* The chain of a merged branch whose ref is gone, from one of tips: of    *)
(* two of its commits that only follow each other, neither on a branch,    *)
(* both are in one segment, in whatever order their clocks make assignLanes *)
(* come to them.  The merge must be newer than all of them: a tie with it  *)
(* can put the merge last.                                                 *)
Children(p) == {h \in graph.commits : p \in ParentsIn(graph, h)}
ChainsTogether(tips) ==
    LET owned == DOMAIN Owners(graph).lane
        Merged(m) == UNION {Chain(graph, p, owned) : p \in ToSet(Tail(graph.parents[m])) \cap tips}
        merges == {c \in graph.commits : Len(graph.parents[c]) > 1} \ graph.stashes
    IN  \A m \in merges :
            (\A h \in Merged(m) : graph.time[m] > graph.time[h]) =>
                \A h, p \in Merged(m) :
                    FirstParent(graph, h) = p /\ Children(p) = {h} =>
                        SegmentOf(segments, h) = SegmentOf(segments, p)

(* It holds of the branches of which nothing but the merge came.           *)
MergedChainsTogether == ChainsTogether({h \in graph.commits : Cardinality(Children(h)) = 1})

(* "This prevents timestamp tie-breaking from fragmenting a chain"         *)
(* (laneStrategy.js:589).                                                  *)
ChainsNeverSplit == ChainsTogether(graph.commits)

(* "Hit-tests a graph-space point against lane body regions": where a      *)
(* commit is drawn, a click finds the lane it is in (laneStrategy.js:804). *)
CommitsHitTheirLane ==
    LET row == computeYPositions(graph)
    IN  \A h \in DOMAIN nodes : h \in findLaneBodyAt(segments, nodes[h], row[h])

HitWhereDrawn ==
    LET row == computeYPositions(graph')
    IN  \A h \in DOMAIN nodes' :
            segments' # segments \/ index'[h] = SegmentOf(segments', h).position
            => h \in findLaneBodyAt(segments', nodes'[h], row[h])

(* Whatever lays the lanes out, drags, pushes or rebalances them leaves    *)
(* every drawn commit where a click finds its lane; so does a scroll, save *)
(* for a commit whose lane moved since the index was built.                *)
DrawnHitTheirLane == [][HitWhereDrawn]_vars

(* Laying the same graph out again moves no lane: the places the reader    *)
(* dragged the lanes to are remembered.                                    *)
PositionsSurvive ==
    [][graph # NoGraph /\ Update(graph, Cardinality(graph.commits)) => segments' = segments]_vars
=============================================================================
