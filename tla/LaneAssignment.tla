--------------------------- MODULE LaneAssignment ---------------------------
(***************************************************************************)
(* The layout of the commit graph in lane mode, as pure operators over the *)
(* graph the strategy is given: which lane a commit is in, how far down it *)
(* is drawn, and the segments (connected stretches of a lane) with their   *)
(* labels.  A graph is a record:                                           *)
(*   commits   the commit hashes, positive numbers ordered like hashes     *)
(*   parents   a sequence of hashes per commit, some not in commits        *)
(*   time      the commit's timestamp                                      *)
(*   branches  a sequence of [name, hash], in the order of the Map; a name *)
(*             has the namespace, the label it is shown with, its last     *)
(*             path component and its rank among the names of a namespace  *)
(*   stashes   the commits that are stash entries                          *)
(*   label     the branch the server attributes a commit to, "" for none   *)
(*   merged    the branch name its message says it merges, "" for none     *)
(*   note      the start of its message, shown over a stash's own commits  *)
(***************************************************************************)
EXTENDS Integers, Sequences, FiniteSets, SequencesExt

Step == 2                                   \* LANE_VERTICAL_STEP
Pad == 1                                    \* half of it

NoCommit == 0

FirstParent(g, h) == IF g.parents[h] = <<>> THEN NoCommit ELSE g.parents[h][1]
ParentsIn(g, h) == ToSet(g.parents[h]) \cap g.commits
Linked(g, x, y) == x \in ParentsIn(g, y) \/ y \in ParentsIn(g, x)

(* What the history of a repository is: no commit is its own ancestor, the *)
(* commits have numbers from the oldest generation on.                     *)
IsHistory(g) ==
    /\ g.commits \subseteq Nat \ {NoCommit}
    /\ IsFiniteSet(g.commits)
    /\ \A h \in g.commits : g.parents[h] \in Seq(Nat \ {NoCommit}) /\ g.time[h] \in Int
    /\ g.branches \in Seq(ToSet(g.branches))
    /\ \E generation \in [g.commits -> 1 .. Cardinality(g.commits)] :
           \A h \in g.commits : \A p \in ParentsIn(g, h) : generation[p] < generation[h]

(* The elements of S in the order that Before says.                        *)
InOrder(S, Before(_, _)) ==
    [i \in 1 .. Cardinality(S) |-> CHOOSE s \in S : Cardinality({t \in S : Before(t, s)}) = i - 1]

-----------------------------------------------------------------------------
(* Lanes.                                                                  *)

NameLess(a, b) == \/ a.ns = "heads" /\ b.ns = "remotes"
                  \/ (a.ns = b.ns /\ a.rank < b.rank)
ByName(S) == InOrder(S, LAMBDA a, b : NameLess(a.name, b.name))

(* The main branch first, then the others by name.                         *)
prioritizeBranches(branches) ==
    LET all == ToSet(branches)
        Tail3 == <<"main", "master", "trunk">>
        Named(i) == {b \in all : b.name.tail = Tail3[i]}
        found == {i \in DOMAIN Tail3 : Named(i) # {}}
        main == IF found # {} THEN ByName(Named(Min(found)))[1] ELSE branches[1]
    IN  IF branches = <<>> THEN <<>> ELSE <<main>> \o ByName(all \ {main})

(* The first-parent chain from a commit to the first one in stop.          *)
Chain(g, start, stop) ==
    LET walk[h \in g.commits] ==
            IF h \in stop THEN {}
            ELSE {h} \cup IF FirstParent(g, h) \in g.commits THEN walk[FirstParent(g, h)] ELSE {}
    IN  IF start \in g.commits THEN walk[start] ELSE {}

(* The commits of S take a lane, unless they have one.                     *)
Given(lanes, S, lane) ==
    [h \in DOMAIN lanes \cup S |-> IF h \in DOMAIN lanes THEN lanes[h] ELSE lane]

(* Each branch, in order, owns the unowned part of its first-parent chain. *)
Claim(g, acc, branch) ==
    LET chain == Chain(g, branch.hash, DOMAIN acc.lane)
    IN  IF chain = {} THEN acc
        ELSE [lane |-> Given(acc.lane, chain, Len(acc.names)),
              names |-> Append(acc.names, branch.name.label)]
Owners(g) ==
    LET order == prioritizeBranches(g.branches)
        claimed[i \in 0 .. Len(order)] ==
            IF i = 0 THEN [lane |-> <<>>, names |-> <<>>] ELSE Claim(g, claimed[i - 1], order[i])
    IN  claimed[Len(order)]

StashesIn(g) == {s \in g.stashes \cap g.commits : g.parents[s] # <<>>}
StashInternals(g, s) == ToSet(Tail(g.parents[s])) \cap g.commits
(* A commit of a stash keeps off lane 0 and the lane of the stash: of the  *)
(* last one, when it is of several.                                        *)
AvoidLanes(g, own, h) ==
    LET of == {s \in StashesIn(g) : h \in StashInternals(g, s)}
        onto == FirstParent(g, Max(of))
    IN  IF of = {} THEN {}
        ELSE {0} \cup {own[p] : p \in {onto} \cap DOMAIN own}

(* active[i + 1] is the commit lane i expects next, NoCommit when free.    *)
findFreeLane(active, skip) ==
    LET free == {i \in 0 .. Len(active) - 1 : i \notin skip /\ active[i + 1] = NoCommit}
    IN  IF free = {} THEN Len(active) ELSE Min(free)
Expect(active, lane, h) ==
    SubSeq(active, 1, lane) \o <<h>> \o SubSeq(active, lane + 2, Len(active))

(* Mutant: the rest of the chain is left to find lanes of its own.         *)
ExpectMergeParentOnly(g, own, acc, p) ==
    IF p \notin g.commits \/ p \in DOMAIN own \/ p \in ToSet(acc.active) THEN acc
    ELSE LET lane == findFreeLane(acc.active, AvoidLanes(g, own, p))
         IN  [lane |-> acc.lane, active |-> Expect(acc.active, lane, p)]

(* A merge parent nobody owns or expects: its chain gets a lane at once.   *)
ExpectMergeParent(g, own, acc, p) ==
    IF p \notin g.commits \/ p \in DOMAIN own \/ p \in ToSet(acc.active) THEN acc
    ELSE LET lane == findFreeLane(acc.active, AvoidLanes(g, own, p))
             chain == Chain(g, p, DOMAIN own \cup DOMAIN acc.lane)
         IN  [lane |-> Given(acc.lane, chain, lane),
              active |-> Expect(acc.active, lane, p)]

PlaceCommit(g, own, acc, h) ==
    LET stashLane == h \in StashesIn(g) /\ FirstParent(g, h) \in DOMAIN own
        expecting == {i \in 0 .. Len(acc.active) - 1 :
                         acc.active[i + 1] = h /\ i \notin AvoidLanes(g, own, h)}
        lane == IF h \in DOMAIN acc.lane THEN acc.lane[h]
                ELSE IF stashLane THEN own[FirstParent(g, h)]
                ELSE IF expecting # {} THEN Min(expecting)
                ELSE findFreeLane(acc.active, AvoidLanes(g, own, h))
        fp == FirstParent(g, h)
        keeps == \/ h \in DOMAIN own /\ own[h] = lane
                 \/ fp \notin DOMAIN own
                 \/ own[fp] = lane
        converged == [i \in DOMAIN acc.active |->
                          IF i # lane + 1 /\ acc.active[i] = h THEN NoCommit ELSE acc.active[i]]
        placed == [lane |-> Given(acc.lane, {h}, lane),
                   active |-> Expect(converged, lane, IF keeps THEN fp ELSE NoCommit)]
        expected[i \in 1 .. Len(g.parents[h])] ==
            IF i = 1 THEN placed ELSE ExpectMergeParent(g, own, expected[i - 1], g.parents[h][i])
    IN  IF g.parents[h] = <<>> THEN placed ELSE expected[Len(g.parents[h])]

NewestFirst(g) ==
    InOrder(g.commits, LAMBDA a, b : \/ g.time[a] > g.time[b]
                                     \/ (g.time[a] = g.time[b] /\ a < b))

assignLanes(g) ==
    LET o == Owners(g)
        order == NewestFirst(g)
        active == [i \in 1 .. Len(o.names) |-> NoCommit]
        placed[i \in 0 .. Len(order)] ==
            IF i = 0 THEN [lane |-> o.lane, active |-> active]
            ELSE PlaceCommit(g, o.lane, placed[i - 1], order[i])
    IN  [lane |-> placed[Len(order)].lane, own |-> o.lane, owners |-> o.names]

-----------------------------------------------------------------------------
(* Rows: by time, but a commit always above its parents.                   *)

(* Mutant: the clocks are trusted.                                         *)
EffectiveTimeIsTime(g) == g.time

EffectiveTime(g) ==
    LET et[h \in g.commits] == Max({g.time[h]} \cup {et[p] + 1 : p \in ParentsIn(g, h)})
    IN  et

computeYPositions(g) ==
    LET et == EffectiveTime(g)
        ordered == InOrder(g.commits, LAMBDA a, b : et[a] > et[b] \/ (et[a] = et[b] /\ a < b))
    IN  [h \in g.commits |-> Step * (CHOOSE i \in DOMAIN ordered : ordered[i] = h)]

-----------------------------------------------------------------------------
(* Segments.                                                               *)

(* The commits of S that are connected to h by parent links within S: no   *)
(* set that holds h and with a commit of S those linked to it is without   *)
(* them.                                                                   *)
Component(g, S, h) ==
    LET closed == {T \in SUBSET S : h \in T /\ \A x \in T, y \in S : Linked(g, x, y) => y \in T}
    IN  {x \in S : \A T \in closed : x \in T}

(* The local branch, else the remote one, at the tip, else inside.         *)
inferBranchLabelFromRefs(g, tip, S) ==
    LET At(T) == ByName({b \in ToSet(g.branches) : b.hash \in T})
    IN  IF At({tip}) # <<>> THEN At({tip})[1].name.label
        ELSE IF At(S) # <<>> THEN At(S)[1].name.label ELSE ""

parseMergeBranchName(g, S) ==
    LET merges == {h \in g.commits \ S : /\ Len(g.parents[h]) > 1
                                         /\ ToSet(g.parents[h]) \cap S # {}
                                         /\ g.merged[h] # ""}
    IN  IF merges = {} THEN "" ELSE g.merged[Min(merges)]

shortenHash(h) == ToString(h)

(* The first label that is not empty.                                      *)
FirstOf(labels) == SelectSeq(labels, LAMBDA l : l # "")[1]

SegmentLabel(g, tip, S, y, owner) ==
    LET attributed == {h \in S : g.label[h] # ""}
        top == CHOOSE h \in attributed : \A x \in attributed : y[h] <= y[x]
    IN  FirstOf(<<IF attributed = {} THEN "" ELSE g.label[top],
                  owner,
                  inferBranchLabelFromRefs(g, tip, S),
                  parseMergeBranchName(g, S),
                  shortenHash(tip)>>)

(* What is shown over a lane that holds the commits of a stash.            *)
StashLaneLabel(g, a, lane) ==
    LET of == {h \in UNION {StashInternals(g, s) : s \in StashesIn(g)} :
                  a.lane[h] = lane /\ g.note[h] # ""}
    IN  IF of = {} THEN "" ELSE g.note[Min(of)]

Segment(g, a, y, S) ==
    LET lane == a.lane[CHOOSE h \in S : TRUE]
        ownsLane == \E h \in S : h \in DOMAIN a.own /\ a.own[h] = lane
        Ys(T) == {y[h] : h \in T}
        tip == CHOOSE h \in S : \A x \in S : y[h] <= y[x]
        links == {x \in g.commits : \E h \in S : Linked(g, x, h)}
        owner == IF ownsLane THEN a.owners[lane + 1] ELSE StashLaneLabel(g, a, lane)
    IN  [id |-> tip, hashes |-> S, lane |-> lane, isMain |-> lane = 0 /\ ownsLane,
         minY |-> Min(Ys(S)), maxY |-> Max(Ys(S)),
         extMinY |-> Min(Ys(S \cup links)), extMaxY |-> Max(Ys(S \cup links)),
         label |-> SegmentLabel(g, tip, S, y, owner), position |-> 0]

Segments(g, a, y) ==
    LET InLane(h) == {x \in g.commits : a.lane[x] = a.lane[h]}
    IN  {Segment(g, a, y, Component(g, InLane(h), h)) : h \in g.commits}

(* The segments from the top down.                                         *)
buildSegments(g) ==
    InOrder(Segments(g, assignLanes(g), computeYPositions(g)), LAMBDA s, t : s.minY < t.minY)
=============================================================================
