--------------------------- MODULE GraphController ---------------------------
(***************************************************************************)
(* The browser's graph controller (web/graph/graphController.js), the part *)
(* of web/gitvista/app.js that feeds it with the messages of the server    *)
(* and fetches the text of commits for it, and the server as far as the    *)
(* two of them see it.                                                     *)
(*                                                                         *)
(* JavaScript runs one callback to its end: an action is one callback, a   *)
(* user's event, a message, a timer or the continuation of a fetch, and    *)
(* the functions it calls are operators from one state of the controller   *)
(* to the next.  Left out: positions in x and in the force simulation (all *)
(* nodes of the force layout count as visible), decorators as targets of   *)
(* the pointer, colours and animation.  Lanes are the places of commits;   *)
(* what the layout makes of them is given by constants (see LaneStrategy). *)
(***************************************************************************)
EXTENDS CommitWindow

CONSTANTS Repos,           \* what the server's repository may be
          Heights,         \* heights of the canvas
          Tops,            \* where the user may scroll to
          Filters, Scopes, \* what the panels may set
          UserEvents,      \* the kinds of events the user makes
          ForceLimit,      \* FORCE_MODE_MAX_COMMITS
          BatchMax,        \* commits in one hydration batch
          ChunkMax,        \* hashes in one request (GRAPH_COMMITS_CHUNK)
          Attempts,        \* tries of one request
          ScanBudget,      \* entries the search scan looks at in one go
          BootstrapMax,    \* commits in one message of a bootstrap
          Permalink,       \* the commit in the page's link, or NoHash
          Places,          \* where a lane's header may be dragged to
          Layouts,         \* where the lanes of a set of commits may be
          Arrange(_, _),   \* the lanes of some commits laid out, given those of before
          NoCache, NoId, NoAnswer,
          MaxEvents, MaxChanges, MaxLosses, MaxFailures   \* bounds of the model

ASSUME ReposAssumption == Repos \subseteq Repository
(* loadObjects fails on a ref it cannot read, and git lets branches point  *)
(* at commits only: the tips of a loaded repository are among its commits. *)
ASSUME TipsAssumption == \A repo \in Repos : Range(repo.branches) \subseteq repo.commits
ASSUME NoIdAssumption == NoId \notin NodeId
ASSUME ControllerAssumption ==
    /\ {ForceLimit, ScanBudget, MaxEvents, MaxChanges, MaxLosses, MaxFailures} \subseteq Nat
    /\ {BatchMax, ChunkMax, Attempts, BootstrapMax} \subseteq Nat \ {0}
    /\ Heights \subseteq Nat /\ Tops \subseteq Int
    /\ Filters \subseteq FilterState /\ Scopes \subseteq Scope
    /\ Places \subseteq Int /\ NoLane \notin Int

VARIABLES ctl,        \* the controller's state
          requests,   \* calls of fetchGraphCommits that have not returned
          feed,       \* messages on the WebSocket, the oldest first
          sync,       \* "down", "boot" (bootstrap not complete), "live", "cut"
                      \* (the connection was lost inside a bootstrap)
          server,     \* the repository the server answers from
          permalink,  \* "unset", "armed", "done": applyInitialSelectionOnce
          unanswered, \* hashes asked for and not obtained (history)
          used        \* how much of each bound is spent

vars == <<ctl, requests, feed, sync, server, permalink, unanswered, used>>

----------------------------------------------------------------------------
(* The controller as it is created: lane layout, nothing known.            *)

(* The node that is dragged, or a commit of the dragged lane and the place *)
(* the pointer is at.                                                      *)
NoDrag == [on |-> NoId, lane |-> NoHash, at |-> NoLane, moved |-> FALSE]

NewController(height) ==
    [commits |-> <<>>, branches |-> <<>>, tags |-> <<>>, stashes |-> {}, head |-> NoHash,
     mode |-> "lane", lazy |-> TRUE, center |-> TRUE,
     filter |-> NoFilter, scope |-> NoScope, isolated |-> NoLane, search |-> FALSE,
     stashed |-> {}, lanes |-> <<>>,
     dimmedFor |-> NoHash, dimmedIn |-> <<>>,   \* history: HEAD and the lanes when nodes were dimmed
     selected |-> NoHash, sorted |-> NoCache, results |-> NoCache, resultIndex |-> 0,
     pending |-> {}, inflight |-> {}, flushTimer |-> FALSE,
     scan |-> <<>>, scanTimer |-> FALSE,
     index |-> <<>>, window |-> Query(<<>>, 0, height), top |-> 0, height |-> height,
     node |-> [id \in NodeId |-> Blank], active |-> <<>>, pool |-> <<>>,
     nodes |-> {}, branchNodes |-> <<>>, tagNodes |-> <<>>,
     tooltip |-> NoId, drag |-> NoDrag,
     destroyed |-> FALSE]

InUse(c) == (c.nodes \cup {c.tooltip, c.drag.on}) \ {NoId}
Drawn(c) == {c.node[id].hash : id \in c.nodes}
DrawnAs(c, h) == CHOOSE id \in c.nodes : c.node[id].hash = h

----------------------------------------------------------------------------
(* Hydration: the text of stubs is fetched in batches.                     *)

commitNeedsHydration(c, h) == DataOf(c.commits, h) # "full"
mergeCommitData(old, new) == IF "full" \in {old, new} THEN "full" ELSE new

scheduleHydrationFlush(c) == [c EXCEPT !.flushTimer = @ \/ c.pending # {}]

(* Mutant: what is asked for already is asked for again. *)
enqueueAgain(c, hashes) ==
    IF hashes = {} THEN c
    ELSE scheduleHydrationFlush([c EXCEPT !.pending = @ \cup
             {h \in hashes : commitNeedsHydration(c, h)}])

enqueueHydration(c, hashes) ==
    IF hashes = {} THEN c
    ELSE scheduleHydrationFlush([c EXCEPT !.pending = @ \cup
             {h \in hashes \ c.inflight : commitNeedsHydration(c, h)}])

WithParents(hashes) == hashes \cup UNION {ParentSet(h) : h \in hashes}   \* of nodes with data

KnownParents(c, hashes) == hashes \cup UNION {ParentSet(h) : h \in hashes \cap DOMAIN c.commits}

clearSearchHydrationScan(c) == [c EXCEPT !.scan = <<>>, !.scanTimer = FALSE]

queueSearchHydration(c) ==
    IF ~c.lazy \/ ~c.search THEN clearSearchHydrationScan(c)
    ELSE [c EXCEPT !.scan = c.index, !.scanTimer = TRUE]

pumpSearchHydration(c) ==
    LET looked == {c.scan[i] : i \in 1..Min({ScanBudget, Len(c.scan)})}
        rest   == SubSeq(c.scan, ScanBudget + 1, Len(c.scan))
    IN  [enqueueHydration(c, {h \in looked : commitNeedsHydration(c, h)})
         EXCEPT !.scan = rest, !.scanTimer = rest # <<>>]

collectVisibleForceHydrationHashes(c) == IF c.lazy THEN {} ELSE WithParents(Drawn(c))

----------------------------------------------------------------------------
(* Drawing *)

(* Mutant: dimming is left as it is. *)
applyNothing(c) == [c EXCEPT !.dimmedFor = c.head, !.dimmedIn = c.lanes]

applyDimmingFromPredicate(c) ==
    [c EXCEPT !.dimmedFor = c.head, !.dimmedIn = c.lanes,
              !.node = [id \in NodeId |->
                  IF id \in c.nodes
                  THEN [@[id] EXCEPT !.dimmed = ~Passes(c, c.node[id].hash, c.node[id].data)]
                  ELSE @[id]]]

hideTooltip(c) == [c EXCEPT !.tooltip = NoId]
releaseDrag(c) == [c EXCEPT !.drag = NoDrag]

(* reconcileBranchNodes: a decorator for each ref whose commit is drawn.   *)
reconcileBranchNodes(c) == Restrict(c.branches, {b \in DOMAIN c.branches : c.branches[b] \in Drawn(c)})
reconcileTagNodes(c) == Restrict(c.tags, {t \in DOMAIN c.tags : c.tags[t] \in Drawn(c)})

Labelled(c) == [c EXCEPT !.branchNodes = reconcileBranchNodes(c), !.tagNodes = reconcileTagNodes(c)]

reconcileInteractions(c) ==
    LET dragged == IF c.drag.on # NoId /\ c.drag.on \notin c.nodes THEN releaseDrag(c) ELSE c
    IN  IF c.tooltip # NoId /\ c.tooltip \notin c.nodes THEN hideTooltip(dragged) ELSE dragged

(* The commits of the window get their node objects; in a scroll nothing   *)
(* more happens when the set of objects stays the same.                    *)
Redraw(c, synced, scrolling) ==
    LET drawn == Labelled([synced EXCEPT !.nodes = Range(synced.active)])
    IN  IF scrolling /\ ActiveHashes(c) = Range(c.window.entries) THEN synced
        ELSE applyDimmingFromPredicate(IF scrolling THEN drawn ELSE reconcileInteractions(drawn))

rebuildVisibleGraph(c, scrolling) ==
    Redraw(c, synchronize(enqueueHydration(c, KnownParents(c, Range(c.window.entries))),
                          c.window.entries, c.commits, InUse(c)), scrolling)

rematerializeFromViewport(c) == rebuildVisibleGraph(c, TRUE)

(* The zoom handler, which runs whenever the transform is set.             *)
zoomed(c, top) ==
    LET moved == [c EXCEPT !.top = top]
    IN  IF ~c.lazy \/ WellInside(c.window, top, c.height) THEN moved
        ELSE rematerializeFromViewport(
                 [moved EXCEPT !.window = Query(c.index, top, c.height)])

(* Where the canvas goes to show a commit, a quarter below its upper edge, *)
(* or the selected or newest one; nowhere when nothing is drawn.           *)
CanCenterOn(c, h) == IF c.lazy THEN Indexed(c.index, h) ELSE h \in Drawn(c)

LatestTop(c) ==
    LET preferred == IF c.selected # NoHash THEN c.selected ELSE c.head
        newest    == NewestFirst(Drawn(c))
    IN  IF CanCenterOn(c, preferred) THEN {EntryY(c.index, preferred) - c.height \div 4}
        ELSE {EntryY(c.index, newest[i]) - c.height \div 2 : i \in DOMAIN newest \cap {1}}

TopFor(c, h) ==
    IF CanCenterOn(c, h) THEN {EntryY(c.index, h) - c.height \div 4} ELSE LatestTop(c)

translateViewTo(c, tops) == IF ~c.lazy \/ tops = {} THEN c ELSE zoomed(c, Min(tops))

centerOnLatestCommit(c) == translateViewTo(c, LatestTop(c))
centerOnCommit(c, h) == translateViewTo(c, TopFor(c, h))

CenterOnce(c) ==
    IF c.center /\ c.index # <<>> THEN centerOnLatestCommit([c EXCEPT !.center = FALSE]) ELSE c

updateGraphLazy(c) ==
    LET index == rebuild(DOMAIN c.commits)
    IN  CenterOnce(rebuildVisibleGraph(
            [c EXCEPT !.index = index, !.window = Query(index, c.top, c.height),
                      !.lanes = Arrange(c.lanes, DOMAIN c.commits),
                      !.stashed = StashCommits(c.stashes, DOMAIN c.commits)], FALSE))

(* reconcileCommitNodes: a node object for every known commit.             *)
reconcileCommitNodes(c) ==
    LET known == DOMAIN c.commits
        kept  == {id \in c.nodes : c.node[id].hash \in known}
        new   == NewestFirst(known \ Drawn(c))
        ids   == NewIds(c, InUse(c), Len(new))
        hash(id) == IF id \in kept THEN c.node[id].hash ELSE new[CHOOSE i \in DOMAIN ids : ids[i] = id]
    IN  [c EXCEPT !.nodes = kept \cup Range(ids),
                  !.stashed = StashCommits(c.stashes, known),
                  !.node = [id \in NodeId |->
                      IF id \in kept \cup Range(ids)
                      THEN [hash |-> hash(id), data |-> c.commits[hash(id)], dimmed |-> @[id].dimmed]
                      ELSE @[id]]]

HydrateVisible(c) == enqueueHydration(c, collectVisibleForceHydrationHashes(c))

updateGraphEager(c) ==
    HydrateVisible(applyDimmingFromPredicate(reconcileInteractions(Labelled(reconcileCommitNodes(c)))))

updateGraph(c) ==
    LET fresh == [c EXCEPT !.sorted = NoCache, !.results = NoCache]
    IN  IF c.mode = "lane" THEN updateGraphLazy([fresh EXCEPT !.lazy = TRUE])
        ELSE updateGraphEager(fresh)

switchLayout(c, mode) ==
    IF mode = c.mode \/ (mode = "force" /\ Cardinality(DOMAIN c.commits) >= ForceLimit) THEN c
    ELSE LET left == [c EXCEPT !.isolated = NoLane, !.mode = mode,
                               !.lanes = IF mode = "lane" THEN Arrange(<<>>, Drawn(c)) ELSE <<>>]
         IN  updateGraph(
                 IF mode = "lane" THEN queueSearchHydration([left EXCEPT !.lazy = TRUE, !.center = TRUE])
                 ELSE clearSearchHydrationScan(clear([left EXCEPT !.lazy = FALSE, !.nodes = {}])))

----------------------------------------------------------------------------
(* Selection *)

(* A node without a commit has no tooltip, and hides that of another.      *)
showTooltip(c, id) ==
    [(IF c.lazy /\ c.node[id].hash # NoHash THEN enqueueHydration(c, WithParents({c.node[id].hash})) ELSE c)
     EXCEPT !.tooltip = IF c.node[id].data = "none" THEN NoId ELSE id]

(* The place among the results is that of the selected commit.             *)
PointAtResult(c, h) ==
    IF c.results = NoCache THEN c
    ELSE [c EXCEPT !.resultIndex = IF h \in Range(c.results)
                                   THEN CHOOSE i \in DOMAIN c.results : c.results[i] = h ELSE 0]

SelectNode(c, h, id) ==
    PointAtResult(centerOnCommit(
        showTooltip([enqueueHydration(c, WithParents({h})) EXCEPT !.selected = h], id), h), h)

(* A commit outside the window is given a node object first.               *)
Materialized(c, h) ==
    IF h \in Drawn(c) THEN c ELSE forceMaterialize(c, h, c.commits, InUse(c))

ObjectOf(c, h) == IF h \in Drawn(c) THEN DrawnAs(c, h) ELSE NodeOf(c, h)

selectAndCenterCommit(c, h) ==
    LET able == c.lazy /\ Indexed(c.index, h) /\ h \in DOMAIN c.commits
        with == Materialized(c, h)
    IN  IF h \in Drawn(c) \/ able THEN SelectNode(with, h, ObjectOf(with, h)) ELSE c

(* sortedCommitCache: the commits as they are known when it is first used. *)
Sorted(c) ==
    IF c.sorted # NoCache THEN c
    ELSE [c EXCEPT !.sorted = Restrict(c.commits, IF c.lazy THEN Range(c.index) \cap DOMAIN c.commits
                                                  ELSE Drawn(c))]
SortedSeq(c) == NewestFirst(DOMAIN c.sorted)

(* The neighbour of the selected commit; HEAD or the newest commit when    *)
(* nothing in the list is selected.                                        *)
Neighbour(c, newer) ==
    LET all  == SortedSeq(c)
        next == {i \in DOMAIN all : \E j \in DOMAIN all :
                     all[j] = c.selected /\ i = IF newer THEN j - 1 ELSE j + 1}
    IN  IF c.selected \in Range(all) THEN {all[i] : i \in next}
        ELSE IF c.head \in Range(all) THEN {c.head}
        ELSE {all[i] : i \in DOMAIN all \cap {1}}

SelectIn(c, hashes) ==
    IF hashes = {} THEN c ELSE selectAndCenterCommit(c, CHOOSE h \in hashes : TRUE)

StepFromSelected(c, newer) == SelectIn(c, Neighbour(c, newer))
navigateCommits(c, newer) == StepFromSelected(Sorted(c), newer)

(* The results are filtered from the snapshot, not from the commits.       *)
Found(c) ==
    IF c.results # NoCache THEN c
    ELSE [c EXCEPT !.results = SelectSeq(SortedSeq(c), LAMBDA h :
                                   Matcher(h, IF c.lazy THEN c.sorted[h] ELSE c.commits[h])),
                   !.resultIndex = 0]

NextResult(c, forward) ==
    LET n == Len(c.results)
        here == {i \in DOMAIN c.results : c.results[i] = c.selected}
        from == IF c.resultIndex # 0 THEN c.resultIndex ELSE Min(here)
    IN  IF c.resultIndex = 0 /\ here = {} THEN 1
        ELSE IF forward THEN (from % n) + 1
        ELSE ((from + n - 2) % n) + 1

StepToResult(c, i) == selectAndCenterCommit([c EXCEPT !.resultIndex = i], c.results[i])
StepInResults(c, forward) == IF c.results = <<>> THEN c ELSE StepToResult(c, NextResult(c, forward))
navigateSearchResults(c, forward) == StepInResults(Found(Sorted(c)), forward)

----------------------------------------------------------------------------
(* What the server tells.                                                  *)

AddCommits(c, hashes, level) ==
    [c EXCEPT !.commits = [h \in hashes \cup DOMAIN @ |->
         IF h \notin hashes THEN @[h]
         ELSE IF h \notin DOMAIN @ THEN level ELSE mergeCommitData(@[h], level)]]

AddBranches(c, branches) ==
    [c EXCEPT !.branches = [b \in DOMAIN branches \cup DOMAIN @ |->
         IF b \in DOMAIN branches THEN branches[b] ELSE @[b]]]

setHeadHash(c, h) ==
    IF h = NoHash THEN [c EXCEPT !.head = h]
    ELSE enqueueHydration([c EXCEPT !.head = h], {h})

SyncHead(c, h) == IF h = NoHash THEN c ELSE setHeadHash(c, h)

LeaveForce(c) ==
    IF c.mode = "force" /\ Cardinality(DOMAIN c.commits) >= ForceLimit
    THEN switchLayout(c, "lane") ELSE c

(* applyDelta, on a chunk of a bootstrap, on its end, on a live delta.     *)
ApplyChunk(c, m) ==
    LeaveForce(SyncHead(AddBranches(AddCommits(c, Range(m.commits), m.level), m.branches), m.head))

ApplyComplete(c, m) ==
    updateGraph(LeaveForce([SyncHead(c, m.head) EXCEPT !.tags = m.tags, !.stashes = m.stashes]))

AfterDelta(c, g, head) ==
    updateGraph(LeaveForce([SyncHead([c EXCEPT !.commits = Restrict(@, g.commits), !.branches = g.branches], head)
                            EXCEPT !.tags = g.tags, !.stashes = g.stashes]))

ApplyLive(c, d) ==
    AfterDelta(AddCommits(c, d.addedCommits, "full"),
               applyDelta([commits |-> DOMAIN c.commits, branches |-> c.branches, head |-> c.head,
                           tags |-> c.tags, stashes |-> c.stashes], d), d.headHash)

resetGraphData(c) ==
    clear([c EXCEPT !.commits = <<>>, !.branches = <<>>, !.tags = <<>>, !.stashes = {},
                    !.head = NoHash, !.nodes = {}, !.branchNodes = <<>>, !.tagNodes = <<>>,
                    !.selected = NoHash, !.sorted = NoCache, !.results = NoCache,
                    !.resultIndex = 0])

resetData(c) == updateGraph(resetGraphData(c))

(* Mutant: the nodes that are drawn keep the stubs. *)
MergeIntoMap(c, hashes) ==
    LET asked == enqueueHydration(AddCommits(c, hashes, "full"), UNION {ParentSet(h) : h \in hashes})
    IN  IF hashes \subseteq DOMAIN c.commits THEN asked ELSE updateGraph(asked)

DimAgain(c) ==
    IF c.search \/ c.filter.focusBranch # NoBranch THEN applyDimmingFromPredicate(c) ELSE c

(* flushHydrationBatch when its answer is there: every commit is merged,   *)
(* the nodes that show it are given it, its parents are asked for.         *)
MergeHydrated(c, hashes) ==
    LET merged == [AddCommits(c, hashes, "full") EXCEPT
                     !.node = [id \in NodeId |->
                         IF id \in c.nodes /\ @[id].hash \in hashes
                         THEN [@[id] EXCEPT !.data = "full"] ELSE @[id]]]
        asked  == enqueueHydration(merged, UNION {ParentSet(h) : h \in hashes})
    IN  IF hashes = {} THEN c
        ELSE DimAgain(IF hashes \subseteq DOMAIN c.commits THEN asked ELSE updateGraph(asked))

(* Mutant: what was enqueued while the batch was out waits for ever. *)
EndBatchOnly(c, batch) == [c EXCEPT !.inflight = @ \ batch]

(* finally: what is still pending is scheduled. *)
EndBatch(c, batch) == scheduleHydrationFlush([c EXCEPT !.inflight = @ \ batch])

destroy(c) ==
    releaseDrag(clearSearchHydrationScan(
        clear([c EXCEPT !.flushTimer = FALSE, !.lazy = FALSE, !.lanes = <<>>,
                         !.destroyed = TRUE, !.tooltip = NoId])))

----------------------------------------------------------------------------
(* The bootstrap of a repository: its commits in batches, those of refs    *)
(* and those close to HEAD first and whole, the others as stubs when the   *)
(* repository is large; each batch with the branches that end in it.       *)

CONSTANT Nearby   \* commits inside initialBootstrapWindowDays of HEAD

Cut(seq, n) == [i \in 1..((Len(seq) + n - 1) \div n) |->
                   SubSeq(seq, n * (i - 1) + 1, Min({n * i, Len(seq)}))]

(* Mutant: no branches in a batch. *)
dropBranches(branches, sent) == <<>>

filterBranchesBySentHashes(branches, sent) ==
    Restrict(branches, {b \in DOMAIN branches : branches[b] \in sent})

planInitialCommitBatches(repo) ==
    LET newest == NewestFirst(repo.commits)
        target == IF repo.head \in repo.commits THEN repo.head ELSE Head(newest)
        prior(h) == \/ h \in Nearby \cup repo.stashes \cup {target}
                    \/ h \in Range(repo.branches) \cup Range(repo.tags)
        level == IF Cardinality(repo.commits) > ForceLimit THEN "stub" ELSE "full"
        chunk(commits, data) ==
            [type |-> "chunk", commits |-> commits, level |-> data, head |-> repo.head,
             branches |-> filterBranchesBySentHashes(repo.branches, Range(commits))]
        first == Cut(NewestFirst({h \in repo.commits : prior(h)}), BootstrapMax)
        rest  == Cut(NewestFirst({h \in repo.commits : ~prior(h)}), BootstrapMax)
    IN  [i \in DOMAIN first |-> chunk(first[i], "full")] \o [i \in DOMAIN rest |-> chunk(rest[i], level)]

buildBootstrapMessages(repo) ==
    planInitialCommitBatches(repo)
    \o <<[type |-> "complete", head |-> repo.head, tags |-> repo.tags, stashes |-> repo.stashes]>>

HeadMessage(repo) == [type |-> "head", head |-> repo.head]

sendInitialBootstrap(repo) ==
    <<[type |-> "repoSummary"]>> \o buildBootstrapMessages(repo) \o <<HeadMessage(repo)>>

sendUpdate(new, old) ==
    LET d == DiffRepositories(new, old)
    IN  (IF IsEmpty(d) THEN <<>> ELSE <<[type |-> "delta", delta |-> d]>>) \o <<HeadMessage(new)>>

----------------------------------------------------------------------------

TypeOK ==
    /\ DOMAIN ctl.commits \subseteq Commit /\ Range(ctl.commits) \subseteq Level
    /\ ctl.branches \in PartialFcn(Branch, Commit)
    /\ ctl.mode \in {"lane", "force"} /\ (ctl.mode = "force" => ~ctl.lazy)
    /\ ctl.filter \in FilterState /\ ctl.scope \in Scope
    /\ ctl.pending \cup ctl.inflight \subseteq Commit
    /\ ctl.node \in [NodeId -> NodeObject]
    /\ Range(ctl.active) \cup Range(ctl.pool) \cup ctl.nodes \subseteq NodeId
    /\ ctl.nodes \subseteq {id \in NodeId : ctl.node[id].hash # NoHash} \/ ctl.destroyed
    /\ sync \in {"down", "boot", "live", "cut"} /\ server \in Repos
    /\ unanswered \subseteq Commit

Init ==
    /\ \E h \in Heights : ctl = NewController(h)
    /\ requests = {} /\ unanswered = {}
    /\ feed = <<>> /\ sync = "down"
    /\ server \in Repos
    /\ permalink = "unset"
    /\ used = [events |-> 0, changes |-> 0, losses |-> 0, failures |-> 0]

(* Objects nobody refers to any more are collected.                        *)
Collected(c) ==
    LET live == Range(c.active) \cup Range(c.pool) \cup InUse(c)
    IN  [c EXCEPT !.node = [id \in NodeId |-> IF id \in live THEN @[id] ELSE Blank]]

Becomes(c) == ctl' = Collected(c)

Spend(what, bound) == used[what] < bound /\ used' = [used EXCEPT ![what] = @ + 1]

(* Messages *)

Offline == sync \in {"down", "cut"}
Booting == sync \in {"boot", "cut"}

Connect ==
    /\ Offline /\ ~ctl.destroyed
    /\ feed' = sendInitialBootstrap(server) /\ sync' = "boot"
    /\ UNCHANGED <<ctl, requests, server, permalink, unanswered, used>>

Disconnect ==
    /\ ~Offline /\ Spend("losses", MaxLosses)
    /\ feed' = <<>> /\ sync' = IF sync = "boot" THEN "cut" ELSE "down"
    /\ UNCHANGED <<ctl, requests, server, permalink, unanswered>>

ServerChanges(repo) ==
    /\ repo # server /\ Spend("changes", MaxChanges)
    /\ server' = repo
    /\ feed' = IF Offline THEN feed ELSE feed \o sendUpdate(repo, server)
    /\ UNCHANGED <<ctl, requests, sync, permalink, unanswered>>

(* applyInitialSelectionOnce arms a timer for the commit of the link.      *)
SelectInitially == permalink' = IF permalink = "unset" /\ Permalink # NoHash THEN "armed" ELSE permalink

Deliver(type) ==
    /\ feed # <<>> /\ Head(feed).type = type
    /\ feed' = Tail(feed)
    /\ UNCHANGED <<requests, server, unanswered, used>>

OnRepoMetadata == Deliver("repoSummary") /\ Becomes(resetData(ctl)) /\ UNCHANGED <<sync, permalink>>
OnBootstrapChunk == Deliver("chunk") /\ Becomes(ApplyChunk(ctl, Head(feed))) /\ UNCHANGED <<sync, permalink>>
OnBootstrapComplete ==
    Deliver("complete") /\ Becomes(ApplyComplete(ctl, Head(feed))) /\ sync' = "live" /\ SelectInitially
OnDelta == Deliver("delta") /\ Becomes(ApplyLive(ctl, Head(feed).delta)) /\ SelectInitially /\ UNCHANGED sync
OnHead == Deliver("head") /\ Becomes(setHeadHash(ctl, Head(feed).head)) /\ UNCHANGED <<sync, permalink>>

(* Timers and fetches *)

OnlyController == UNCHANGED <<requests, feed, sync, server, unanswered>>

PermalinkFires ==
    /\ permalink = "armed" /\ permalink' = "done"
    /\ Becomes(selectAndCenterCommit(ctl, Permalink))
    /\ OnlyController /\ UNCHANGED used

PumpSearch ==
    /\ ctl.scanTimer /\ Becomes(pumpSearchHydration(ctl))
    /\ OnlyController /\ UNCHANGED <<permalink, used>>

(* The next hashes of the query string; batches are sets, the order is     *)
(* fixed.                                                                  *)
Chunk(hashes) ==
    LET rest == NewestFirst(hashes)
    IN  Range(SubSeq(rest, 1, Min({ChunkMax, Len(rest)})))

(* Mutant: what the batch has no room for is dropped. *)
flushForgetsRest(batch) ==
    /\ ctl.flushTimer
    /\ ctl' = [ctl EXCEPT !.flushTimer = FALSE, !.pending = {}, !.inflight = @ \cup batch]
    /\ requests' = IF batch = {} THEN requests
                   ELSE requests \cup {[batch |-> batch, todo |-> batch \ Chunk(batch), asked |-> Chunk(batch),
                                        answer |-> NoAnswer, got |-> {}, tries |-> 1]}
    /\ UNCHANGED <<feed, sync, server, permalink, unanswered, used>>

flushHydrationBatch(batch) ==
    /\ ctl.flushTimer
    /\ ctl' = [ctl EXCEPT !.flushTimer = FALSE, !.pending = @ \ batch, !.inflight = @ \cup batch]
    /\ requests' = IF batch = {} THEN requests
                   ELSE requests \cup {[batch |-> batch, todo |-> batch \ Chunk(batch), asked |-> Chunk(batch),
                                        answer |-> NoAnswer, got |-> {}, tries |-> 1]}
    /\ UNCHANGED <<feed, sync, server, permalink, unanswered, used>>

handleGraphCommits(r) ==
    /\ r.answer = NoAnswer
    /\ requests' = (requests \ {r}) \cup {[r EXCEPT !.answer = r.asked \cap server.commits]}
    /\ UNCHANGED <<ctl, feed, sync, server, permalink, unanswered, used>>

(* A busy server is asked again, the last time the whole call fails.       *)
RequestRefused(r) ==
    /\ r.answer = NoAnswer /\ r.tries < Attempts
    /\ Spend("failures", MaxFailures)
    /\ requests' = (requests \ {r}) \cup {[r EXCEPT !.tries = @ + 1]}
    /\ UNCHANGED <<ctl, feed, sync, server, permalink, unanswered>>

RequestFails(r) ==
    /\ r.answer = NoAnswer
    /\ Spend("failures", MaxFailures)
    /\ requests' = requests \ {r}
    /\ unanswered' = unanswered \cup r.batch
    /\ ctl' = EndBatch(ctl, r.batch)
    /\ UNCHANGED <<feed, sync, server, permalink>>

NextChunk(r) ==
    /\ r.answer # NoAnswer /\ r.todo # {}
    /\ requests' = (requests \ {r}) \cup
           {[r EXCEPT !.got = @ \cup r.answer, !.answer = NoAnswer, !.tries = 1,
                      !.asked = Chunk(r.todo), !.todo = @ \ Chunk(r.todo)]}
    /\ UNCHANGED <<ctl, feed, sync, server, permalink, unanswered, used>>

BatchArrives(r) ==
    /\ r.answer # NoAnswer /\ r.todo = {}
    /\ requests' = requests \ {r}
    /\ LET got == r.got \cup r.answer
       IN  /\ unanswered' = (unanswered \cup r.batch) \ got
           /\ Becomes(EndBatch(MergeHydrated(ctl, got), r.batch))
    /\ UNCHANGED <<feed, sync, server, permalink, used>>

----------------------------------------------------------------------------
(* The user *)

User(kind) == /\ kind \in UserEvents /\ ~ctl.destroyed
              /\ Spend("events", MaxEvents)
              /\ OnlyController /\ UNCHANGED permalink

Scroll == User("scroll") /\ \E t \in Tops \ {ctl.top} : Becomes(zoomed(ctl, t))

resize ==
    /\ User("resize")
    /\ \E h \in Heights \ {ctl.height} :
         LET c == [ctl EXCEPT !.height = h]
         IN  Becomes(IF c.lazy
                     THEN rematerializeFromViewport([c EXCEPT !.window = Query(c.index, c.top, h)])
                     ELSE HydrateVisible(c))

SetSearchState ==
    /\ User("search")
    /\ Becomes(applyDimmingFromPredicate(queueSearchHydration(
           [ctl EXCEPT !.search = ~@, !.results = NoCache, !.resultIndex = 0])))

SetFilterState ==
    /\ User("filter")
    /\ \E f \in Filters \ {ctl.filter} :
         Becomes(applyDimmingFromPredicate([ctl EXCEPT !.filter = f, !.results = NoCache, !.resultIndex = 0]))

SetGraphSettings ==
    /\ User("scope")
    /\ \E s \in Scopes \ {ctl.scope} : Becomes(applyDimmingFromPredicate([ctl EXCEPT !.scope = s]))

ToggleLayout ==
    User("layout") /\ Becomes(switchLayout(ctl, IF ctl.mode = "lane" THEN "force" ELSE "lane"))

NavigateCommits == User("navigate") /\ \E newer \in BOOLEAN : Becomes(navigateCommits(ctl, newer))

NavigateSearchResults ==
    /\ User("results") /\ ctl.search
    /\ \E forward \in BOOLEAN : Becomes(navigateSearchResults(ctl, forward))

SelectCommit == User("select") /\ \E h \in Commit : Becomes(selectAndCenterCommit(ctl, h))
JumpToHead == User("head") /\ Becomes(centerOnCommit(ctl, ctl.head))
GetNavigationPosition == User("breadcrumb") /\ Becomes(Sorted(ctl))
RebuildVisibleGraph == User("rebuild") /\ Becomes(updateGraph(ctl))

ClearIsolation ==
    /\ User("isolate") /\ ctl.isolated # NoLane
    /\ Becomes(applyDimmingFromPredicate([ctl EXCEPT !.isolated = NoLane]))

(* The pointer goes down on a lane's header, a lane's body, a node, or on  *)
(* nothing.                                                                *)
PointerDownOnHeader ==
    /\ User("drag") /\ ctl.mode = "lane"
    /\ \E h \in DOMAIN ctl.lanes :
         Becomes([ctl EXCEPT !.drag = [on |-> NoId, lane |-> h, at |-> ctl.lanes[h], moved |-> TRUE]])

PointerDownOnBody ==
    /\ User("isolate") /\ ctl.mode = "lane"
    /\ \E l \in Range(ctl.lanes) :
         Becomes(applyDimmingFromPredicate(
             [ctl EXCEPT !.isolated = IF @ = l THEN NoLane ELSE l]))

PointerDownOnNode ==
    /\ User("click") /\ ctl.drag = NoDrag
    /\ \E id \in ctl.nodes : Becomes([ctl EXCEPT !.drag = [NoDrag EXCEPT !.on = id]])

PointerDownOnCanvas ==
    /\ User("isolate")
    /\ LET c == hideTooltip(ctl)
       IN  Becomes(IF c.isolated = NoLane THEN c
                   ELSE applyDimmingFromPredicate([c EXCEPT !.isolated = NoLane]))

(* Where the lanes may be when that of h goes to a place: the main lane    *)
(* stays at 0 and alone, what is in the way is pushed; nowhere else when   *)
(* there is no such lane any more.                                         *)
moveSegment(lanes, h, place) ==
    IF place = 0 \/ h \notin DOMAIN lanes THEN {lanes}
    ELSE IF lanes[h] \in {0, place} THEN {lanes}
    ELSE {moved \in Layouts : /\ DOMAIN moved = DOMAIN lanes /\ moved[h] = place
                              /\ \A k \in DOMAIN lanes : lanes[k] = 0 => moved[k] = 0}

DragLane ==
    /\ ctl.drag.lane # NoHash
    /\ \E place \in Places \ {ctl.drag.at} :
         \E lanes \in moveSegment(ctl.lanes, ctl.drag.lane, place) :
             Becomes([ctl EXCEPT !.drag.at = place, !.lanes = lanes])

DragNode ==
    /\ ctl.drag.on # NoId /\ ~ctl.drag.moved
    /\ Becomes(hideTooltip([ctl EXCEPT !.drag.moved = TRUE]))

handlePointerMove == User("drag") /\ (DragLane \/ DragNode)

(* The button that lays the lanes out from nothing.                        *)
Rebalance ==
    /\ User("drag") /\ ctl.mode = "lane"
    /\ Becomes([ctl EXCEPT !.lanes = Arrange(<<>>, DOMAIN ctl.lanes)])

(* A click shows the tooltip, a second one on the same node hides it.  The *)
(* object may have lost its commit since the button went down: then there  *)
(* is no tooltip and nothing is selected.                                  *)
EnqueueClicked(c, id) ==
    IF ~c.lazy THEN c
    ELSE IF c.node[id].hash = NoHash THEN scheduleHydrationFlush(c)
    ELSE enqueueHydration(c, WithParents({c.node[id].hash}))

handlePointerUp ==
    /\ User("click") /\ ctl.drag # NoDrag
    /\ LET id == ctl.drag.on
           c  == releaseDrag(ctl)
       IN  Becomes(IF ctl.drag.moved THEN c
                   ELSE IF c.tooltip = id THEN [hideTooltip(c) EXCEPT !.selected = NoHash]
                   ELSE [EnqueueClicked(showTooltip(c, id), id) EXCEPT !.selected = c.node[id].hash])

Dispose ==
    /\ "dispose" \in UserEvents /\ ~ctl.destroyed /\ Spend("events", MaxEvents)
    /\ feed' = <<>> /\ sync' = "down"
    /\ Becomes(destroy(ctl))
    /\ UNCHANGED <<requests, server, permalink, unanswered>>

----------------------------------------------------------------------------

Feed == Connect \/ OnRepoMetadata \/ OnBootstrapChunk \/ OnBootstrapComplete \/ OnDelta \/ OnHead

(* BatchMax of what is pending, or all of it when it is less. *)
Batches == {b \in SUBSET ctl.pending :
               Cardinality(b) = BatchMax \/ (Cardinality(b) < BatchMax /\ b = ctl.pending)}

Hydration == \/ PumpSearch
             \/ \E b \in Batches : flushHydrationBatch(b)
             \/ \E r \in requests : handleGraphCommits(r) \/ NextChunk(r) \/ BatchArrives(r)

Faults == \/ Disconnect
          \/ \E r \in requests : RequestRefused(r) \/ RequestFails(r)

Pointer == \/ PointerDownOnHeader \/ PointerDownOnBody \/ PointerDownOnNode \/ PointerDownOnCanvas
           \/ handlePointerMove \/ handlePointerUp

Events == \/ Scroll \/ resize \/ SetSearchState \/ SetFilterState \/ SetGraphSettings \/ ToggleLayout
          \/ NavigateCommits \/ NavigateSearchResults \/ SelectCommit \/ JumpToHead
          \/ GetNavigationPosition \/ RebuildVisibleGraph \/ ClearIsolation \/ Rebalance \/ Dispose

Next == \/ Feed \/ Hydration \/ Faults \/ PermalinkFires \/ Pointer \/ Events
        \/ \E repo \in Repos : ServerChanges(repo)

Spec == Init /\ [][Next]_vars

(* Messages are delivered, timers fire and the server answers in the end:  *)
(* weak fairness of Feed, Hydration and PermalinkFires, each with its      *)
(* ENABLED written out.                                                    *)
FeedReady == feed # <<>> \/ (Offline /\ ~ctl.destroyed)
HydrationReady == ctl.scanTimer \/ ctl.flushTimer \/ requests # {}

FairSpec == /\ Spec
            /\ []<>(~FeedReady) \/ []<><<Feed>>_vars
            /\ []<>(~HydrationReady) \/ []<><<Hydration>>_vars
            /\ []<>(permalink # "armed") \/ []<><<PermalinkFires>>_vars

----------------------------------------------------------------------------
(* What should be true of it.                                              *)

(* A stub on the screen is asked for, unless the server did not give it:   *)
(* scrolling, resets and late answers never make the controller forget to  *)
(* hydrate what it draws (enqueueHydration, flushHydrationBatch).          *)
NothingForgotten ==
    ctl.lazy => \A id \in ctl.nodes :
        ctl.node[id].data = "full" \/ ctl.node[id].hash \in ctl.pending \cup ctl.inflight \cup unanswered

(* Hashes wait in one place only: those out for an answer are exactly      *)
(* those of the calls that have not returned, no two calls ask for the     *)
(* same commit, and what waits has a timer or a call that will set one.    *)
InflightAccounted ==
    /\ ctl.inflight = UNION {r.batch : r \in requests}
    /\ \A r, q \in requests : r # q => r.batch \cap q.batch = {}
    /\ ctl.inflight \cap ctl.pending = {}
    /\ ctl.pending # {} => ctl.flushTimer \/ ctl.inflight # {} \/ ctl.destroyed

(* Node objects are recycled: an object in the pool is in use nowhere and  *)
(* carries nothing (destroy leaves the graph's nodes in the pool), two     *)
(* objects in use carry different commits, and every drawn object is in    *)
(* use (synchronize, forceMaterialize, clear).                             *)
PoolDisjoint ==
    /\ Range(ctl.pool) \cap Range(ctl.active) = {}
    /\ \A id, jd \in Range(ctl.active) : id # jd => ctl.node[id].hash # ctl.node[jd].hash
    /\ ctl.lazy => ctl.nodes \subseteq Range(ctl.active)
    /\ ~ctl.destroyed => \A id \in Range(ctl.pool) : ctl.node[id] = Blank /\ id \notin ctl.nodes

(* However the canvas is scrolled, resized and the graph is changed, each  *)
(* commit on the screen has a node object: the hysteresis of the window    *)
(* never leaves a visible row out.                                         *)
VisibleHasObject ==
    ctl.lazy => \A h \in Range(ctl.index) :
        EntryY(ctl.index, h) \in ctl.top..(ctl.top + ctl.height) => h \in ActiveHashes(ctl)

(* What is drawn is what is known, outside a bootstrap or what a lost      *)
(* connection left of one: nodes carry the data of their commits and       *)
(* decorators stand at the tips of their refs.                             *)
DrawnIsCurrent ==
    ~Booting /\ ~ctl.destroyed =>
        /\ \A id \in ctl.nodes : ctl.node[id].data = DataOf(ctl.commits, ctl.node[id].hash)
        /\ ctl.branchNodes = reconcileBranchNodes(ctl)
        /\ ctl.tagNodes = reconcileTagNodes(ctl)

(* A node is dimmed exactly if the search, the filters, the isolated lane  *)
(* and the scope of now reject it: outside a bootstrap, where the depth    *)
(* limit does not count from a HEAD that setHeadHash has moved, and where  *)
(* no lane is isolated or the lanes are where they were when the nodes     *)
(* were dimmed (applyDimmingFromPredicate and all who must call it).       *)
DimmedAsNow == \A id \in ctl.nodes :
    ctl.node[id].dimmed = ~Passes(ctl, ctl.node[id].hash, ctl.node[id].data)
DimmedForHead == ~Booting /\ ~ctl.destroyed /\ (ctl.scope.depthLimit = Unlimited \/ ctl.dimmedFor = ctl.head)
LanesStand == ctl.isolated = NoLane \/ ctl.dimmedIn = ctl.lanes

DimmingCurrent == DimmedForHead /\ LanesStand => DimmedAsNow

(* graphController.js:1362: "sets node.dimmed according to the active      *)
(* compound predicate", the isolated lane's part of it included: moving a  *)
(* lane does not leave nodes dimmed for where it was.                      *)
DimmingFollowsLanes == DimmedForHead => DimmedAsNow

(* When every message is delivered the browser has the server's branches   *)
(* and HEAD, and all its commits; batches of a bootstrap add up.           *)
GraphCurrent ==
    sync = "live" /\ feed = <<>> =>
        /\ ctl.branches = server.branches
        /\ ctl.head = server.head
        /\ server.commits \subseteq DOMAIN ctl.commits

(* Hydration comes to rest: in the end nothing is pending, out for an      *)
(* answer or left in the scan of a search, under the fairness of timers,   *)
(* messages and the server's answers.                                      *)
HydrationRests ==
    <>[](ctl.destroyed \/ (ctl.pending = {} /\ ctl.inflight = {} /\ ~ctl.scanTimer))

(* graphController.js:508: "Hydrate commit metadata in the background so   *)
(* global search/counts converge."  When hydration is at rest the list the *)
(* user steps through holds the commits that match.                        *)
SearchResultsConverge ==
    /\ ctl.search /\ ctl.lazy /\ ctl.results # NoCache /\ sync = "live" /\ feed = <<>>
    /\ ctl.pending = {} /\ ctl.inflight = {} /\ ~ctl.scanTimer /\ unanswered = {}
    => Range(ctl.results) = {h \in Range(ctl.index) : Matcher(h, ctl.commits[h])}

(* graphController.js:641: "The zoom handler will fire -> ViewportWindow   *)
(* re-queries -> rematerializes": the selected commit that is on the       *)
(* screen is drawn.                                                        *)
SelectedIsDrawn ==
    ctl.lazy /\ Indexed(ctl.index, ctl.selected)
    /\ EntryY(ctl.index, ctl.selected) \in ctl.top..(ctl.top + ctl.height)
    => ctl.selected \in Drawn(ctl)
=============================================================================
