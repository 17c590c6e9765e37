------------------------- MODULE GraphController_proof -------------------------
(***************************************************************************)
(* The browser's graph controller, for any repositories, filters, canvas   *)
(* and sizes of batches.  In turn: the bookkeeping of the hydration; what  *)
(* the browser knows once every message has been delivered; whose a node   *)
(* object is; what is drawn, dimmed and asked for; and that the rows on    *)
(* the screen have their objects.                                          *)
(*                                                                         *)
(* Most of the controller only draws.  Keeps(c, d) says what an operator   *)
(* that draws leaves alone, and the first part shows it of every one of    *)
(* them, from the functions that assign fields up to the user's commands.  *)
(***************************************************************************)
EXTENDS GraphController, TLAPS, FiniteSetTheorems, SequenceTheorems, WellFoundedInduction

(* The fields of a controller that the first two invariants speak of.      *)
Core == {"commits", "branches", "head", "pending", "inflight", "flushTimer", "destroyed"}

Whole(c) == Core \subseteq DOMAIN c

(* Hashes are added to what is pending only with a timer to send them, and *)
(* none that is out for an answer.                                         *)
KeepsHydration(c, d) ==
    /\ Whole(d)
    /\ d.inflight = c.inflight
    /\ d.pending \cap c.inflight \subseteq c.pending
    /\ c.flushTimer => d.flushTimer
    /\ d.pending \subseteq c.pending \/ d.flushTimer
    /\ c.destroyed => d.destroyed

Keeps(c, d) ==
    /\ KeepsHydration(c, d)
    /\ d.commits = c.commits /\ d.branches = c.branches /\ d.head = c.head

----------------------------------------------------------------------------
(* What draws keeps the rest.                                              *)

LEMMA KeepsChain ==
    ASSUME NEW c, NEW d, NEW e, Keeps(c, d), Keeps(d, e)
    PROVE  Keeps(c, e)
BY DEF Keeps, KeepsHydration

LEMMA HydrationChain ==
    ASSUME NEW c, NEW d, NEW e, KeepsHydration(c, d), KeepsHydration(d, e)
    PROVE  KeepsHydration(c, e)
BY DEF KeepsHydration

LEMMA KeepsItself ==
    ASSUME NEW c, Whole(c)
    PROVE  Keeps(c, c)
BY DEF Keeps, KeepsHydration

LEMMA KeepsWhole ==
    ASSUME NEW c, NEW d, Keeps(c, d)
    PROVE  Whole(d)
BY DEF Keeps, KeepsHydration

LEMMA EnqueueKeeps ==
    ASSUME NEW c, Whole(c)
    PROVE  /\ Keeps(c, scheduleHydrationFlush(c))
           /\ \A hashes : Keeps(c, enqueueHydration(c, hashes))
BY DEF Keeps, KeepsHydration, Whole, Core, scheduleHydrationFlush, enqueueHydration

LEMMA SearchKeeps ==
    ASSUME NEW c, Whole(c)
    PROVE  /\ Keeps(c, clearSearchHydrationScan(c)) /\ Keeps(c, queueSearchHydration(c))
           /\ Keeps(c, pumpSearchHydration(c))
<1>1. Keeps(c, clearSearchHydrationScan(c))
  BY DEF Keeps, KeepsHydration, Whole, Core, clearSearchHydrationScan
<1>2. Keeps(c, queueSearchHydration(c))
  <2>1. Keeps(c, [c EXCEPT !.scan = c.index, !.scanTimer = TRUE])
    BY DEF Keeps, KeepsHydration, Whole, Core
  <2> QED BY <1>1, <2>1 DEF queueSearchHydration
<1>3. Keeps(c, pumpSearchHydration(c))
  <2> DEFINE looked == {c.scan[i] : i \in 1..Min({ScanBudget, Len(c.scan)})}
             asked  == enqueueHydration(c, {h \in looked : commitNeedsHydration(c, h)})
             rest   == SubSeq(c.scan, ScanBudget + 1, Len(c.scan))
  <2>1. Keeps(c, asked)
    BY EnqueueKeeps
  <2>2. pumpSearchHydration(c) = [asked EXCEPT !.scan = rest, !.scanTimer = rest # <<>>]
    BY DEF pumpSearchHydration
  <2> HIDE DEF asked, rest
  <2>3. Keeps(c, [asked EXCEPT !.scan = rest, !.scanTimer = rest # <<>>])
    BY <2>1 DEF Keeps, KeepsHydration, Whole, Core
  <2> QED BY <2>2, <2>3
<1> QED BY <1>1, <1>2, <1>3

LEMMA LooksKeep ==
    ASSUME NEW c, Whole(c)
    PROVE  /\ Keeps(c, applyDimmingFromPredicate(c)) /\ Keeps(c, hideTooltip(c))
           /\ Keeps(c, releaseDrag(c)) /\ Keeps(c, Labelled(c)) /\ Keeps(c, reconcileInteractions(c))
           /\ Keeps(c, reconcileCommitNodes(c))
<1>1. Keeps(c, applyDimmingFromPredicate(c))
  BY DEF Keeps, KeepsHydration, Whole, Core, applyDimmingFromPredicate
<1>2. /\ Keeps(c, hideTooltip(c)) /\ Keeps(c, releaseDrag(c)) /\ Keeps(c, Labelled(c))
      /\ Keeps(c, reconcileInteractions(c))
  BY DEF Keeps, KeepsHydration, Whole, Core, hideTooltip, releaseDrag, Labelled, reconcileInteractions
<1>3. Keeps(c, reconcileCommitNodes(c))
  BY DEF Keeps, KeepsHydration, Whole, Core, reconcileCommitNodes
<1> QED BY <1>1, <1>2, <1>3

LEMMA MaterializerKeeps ==
    ASSUME NEW c, Whole(c)
    PROVE  /\ \A ids : Keeps(c, _evict(c, ids))
           /\ \A hashes, inUse : Keeps(c, _acquire(c, hashes, inUse))
           /\ \A ids, commits : Keeps(c, WithData(c, ids, commits))
<1>1. ASSUME NEW ids PROVE Keeps(c, _evict(c, ids))
  BY DEF Keeps, KeepsHydration, Whole, Core, _evict
<1>2. ASSUME NEW hashes, NEW inUse PROVE Keeps(c, _acquire(c, hashes, inUse))
  BY DEF Keeps, KeepsHydration, Whole, Core, _acquire
<1>3. ASSUME NEW ids, NEW commits PROVE Keeps(c, WithData(c, ids, commits))
  BY DEF Keeps, KeepsHydration, Whole, Core, WithData
<1> QED BY <1>1, <1>2, <1>3

LEMMA SynchronizeKeeps ==
    ASSUME NEW c, Whole(c), NEW commits, NEW inUse
    PROVE  /\ \A entries : Keeps(c, synchronize(c, entries, commits, inUse))
           /\ \A h : Keeps(c, forceMaterialize(c, h, commits, inUse))
           /\ Keeps(c, clear(c))
<1>1. ASSUME NEW entries PROVE Keeps(c, synchronize(c, entries, commits, inUse))
  BY MaterializerKeeps, KeepsChain, KeepsWhole DEF synchronize, WithAllData
<1>2. ASSUME NEW h PROVE Keeps(c, forceMaterialize(c, h, commits, inUse))
  BY MaterializerKeeps, KeepsChain, KeepsWhole, KeepsItself DEF forceMaterialize
<1>3. Keeps(c, clear(c))
  BY MaterializerKeeps DEF clear
<1> QED BY <1>1, <1>2, <1>3

LEMMA RedrawKeeps ==
    ASSUME NEW c, NEW synced, Keeps(c, synced), NEW scrolling
    PROVE  Keeps(c, Redraw(c, synced, scrolling))
<1> DEFINE active == [synced EXCEPT !.nodes = Range(synced.active)]
           drawn  == Labelled(active)
<1>1. Keeps(c, active)
  BY DEF Keeps, KeepsHydration, Whole, Core
<1> HIDE DEF active
<1>2. Keeps(c, drawn)
  BY <1>1, KeepsChain, KeepsWhole, LooksKeep
<1> HIDE DEF drawn
<1>3. /\ Keeps(c, applyDimmingFromPredicate(drawn))
      /\ Keeps(c, applyDimmingFromPredicate(reconcileInteractions(drawn)))
  BY <1>2, KeepsChain, KeepsWhole, LooksKeep
<1> QED BY <1>3 DEF Redraw, drawn, active

LEMMA RebuildKeeps ==
    ASSUME NEW c, Whole(c), NEW scrolling
    PROVE  Keeps(c, rebuildVisibleGraph(c, scrolling))
<1> DEFINE asked  == enqueueHydration(c, KnownParents(c, Range(c.window.entries)))
           synced == synchronize(asked, c.window.entries, c.commits, InUse(c))
<1>1. Keeps(c, asked)
  BY EnqueueKeeps
<1> HIDE DEF asked
<1>2. Keeps(c, synced)
  BY <1>1, KeepsChain, KeepsWhole, SynchronizeKeeps
<1> HIDE DEF synced
<1> QED BY <1>2, RedrawKeeps DEF rebuildVisibleGraph, synced, asked

LEMMA ZoomKeeps ==
    ASSUME NEW c, Whole(c)
    PROVE  /\ \A top : Keeps(c, zoomed(c, top))
           /\ \A tops : Keeps(c, translateViewTo(c, tops))
<1>1. ASSUME NEW top PROVE Keeps(c, zoomed(c, top))
  <2> DEFINE moved == [c EXCEPT !.top = top]
             asked == [moved EXCEPT !.window = Query(c.index, top, c.height)]
  <2>1. Keeps(c, moved) /\ Keeps(c, asked)
    BY DEF Keeps, KeepsHydration, Whole, Core
  <2> HIDE DEF asked
  <2>2. Keeps(c, rematerializeFromViewport(asked))
    BY <2>1, KeepsChain, KeepsWhole, RebuildKeeps DEF rematerializeFromViewport
  <2> QED BY <2>1, <2>2 DEF zoomed, asked
<1>2. ASSUME NEW tops PROVE Keeps(c, translateViewTo(c, tops))
  BY <1>1, KeepsItself DEF translateViewTo
<1> QED BY <1>1, <1>2

LEMMA CenterKeeps ==
    ASSUME NEW c, Whole(c)
    PROVE  /\ \A h : Keeps(c, centerOnCommit(c, h))
           /\ Keeps(c, CenterOnce(c))
<1>1. \A h : Keeps(c, centerOnCommit(c, h))
  BY ZoomKeeps DEF centerOnCommit
<1> DEFINE centred == [c EXCEPT !.center = FALSE]
<1>2. Keeps(c, centred)
  BY DEF Keeps, KeepsHydration, Whole, Core
<1> HIDE DEF centred
<1>3. Keeps(c, centerOnLatestCommit(centred))
  BY <1>2, KeepsChain, KeepsWhole, ZoomKeeps DEF centerOnLatestCommit
<1> QED BY <1>1, <1>3, KeepsItself DEF CenterOnce, centred

LEMMA UpdateKeeps ==
    ASSUME NEW c, Whole(c)
    PROVE  /\ Keeps(c, HydrateVisible(c))
           /\ Keeps(c, updateGraphLazy(c))
           /\ Keeps(c, updateGraphEager(c))
<1>1. Keeps(c, HydrateVisible(c))
  BY EnqueueKeeps DEF HydrateVisible
<1>2. Keeps(c, updateGraphLazy(c))
  <2> DEFINE index == rebuild(DOMAIN c.commits)
             known == [c EXCEPT !.index = index, !.window = Query(index, c.top, c.height),
                                !.lanes = Arrange(c.lanes, DOMAIN c.commits),
                                !.stashed = StashCommits(c.stashes, DOMAIN c.commits)]
  <2>1. Keeps(c, known)
    BY DEF Keeps, KeepsHydration, Whole, Core
  <2> HIDE DEF known
  <2>2. Keeps(c, rebuildVisibleGraph(known, FALSE))
    BY <2>1, KeepsChain, KeepsWhole, RebuildKeeps
  <2>3. Keeps(c, CenterOnce(rebuildVisibleGraph(known, FALSE)))
    BY <2>2, KeepsChain, KeepsWhole, CenterKeeps
  <2> QED BY <2>3 DEF updateGraphLazy, known
<1>3. Keeps(c, updateGraphEager(c))
  <2> DEFINE drawn == reconcileInteractions(Labelled(reconcileCommitNodes(c)))
             dimmed == applyDimmingFromPredicate(drawn)
  <2>1. Keeps(c, drawn)
    BY LooksKeep, KeepsChain, KeepsWhole
  <2> HIDE DEF drawn
  <2>2. Keeps(c, dimmed)
    BY <2>1, LooksKeep, KeepsChain, KeepsWhole
  <2> HIDE DEF dimmed
  <2>3. Keeps(c, HydrateVisible(dimmed))
    BY <2>2, EnqueueKeeps, KeepsChain, KeepsWhole DEF HydrateVisible
  <2> QED BY <2>3 DEF updateGraphEager, dimmed, drawn
<1> QED BY <1>1, <1>2, <1>3

LEMMA GraphKeeps ==
    ASSUME NEW c, Whole(c)
    PROVE  Keeps(c, updateGraph(c))
<1> DEFINE fresh == [c EXCEPT !.sorted = NoCache, !.results = NoCache]
           lazy  == [fresh EXCEPT !.lazy = TRUE]
<1>1. Keeps(c, fresh) /\ Keeps(c, lazy)
  BY DEF Keeps, KeepsHydration, Whole, Core
<1> HIDE DEF fresh, lazy
<1>2. Keeps(c, updateGraphLazy(lazy)) /\ Keeps(c, updateGraphEager(fresh))
  BY <1>1, UpdateKeeps, KeepsChain, KeepsWhole
<1> QED BY <1>2 DEF updateGraph, lazy, fresh

LEMMA LayoutKeeps ==
    ASSUME NEW c, Whole(c), NEW mode
    PROVE  Keeps(c, switchLayout(c, mode))
<1> DEFINE left  == [c EXCEPT !.isolated = NoLane, !.mode = mode,
                             !.lanes = IF mode = "lane" THEN Arrange(<<>>, Drawn(c)) ELSE <<>>]
           lane  == [left EXCEPT !.lazy = TRUE, !.center = TRUE]
           force == [left EXCEPT !.lazy = FALSE, !.nodes = {}]
<1>1. Keeps(c, lane) /\ Keeps(c, force)
  BY DEF Keeps, KeepsHydration, Whole, Core
<1> HIDE DEF lane, force
<1>2. Keeps(c, updateGraph(queueSearchHydration(lane)))
  BY <1>1, SearchKeeps, GraphKeeps, KeepsChain, KeepsWhole
<1>3. Keeps(c, clear(force))
  BY <1>1, SynchronizeKeeps, KeepsChain, KeepsWhole
<1>4. Keeps(c, updateGraph(clearSearchHydrationScan(clear(force))))
  BY <1>3, SearchKeeps, GraphKeeps, KeepsChain, KeepsWhole
<1> QED BY <1>2, <1>4, KeepsItself DEF switchLayout, left, lane, force

(* The commands that select, step and search.                              *)

LEMMA SelectKeeps ==
    ASSUME NEW c, Whole(c), NEW h
    PROVE  /\ \A id : Keeps(c, showTooltip(c, id))
           /\ Keeps(c, PointAtResult(c, h))
           /\ Keeps(c, Materialized(c, h))
<1>1. ASSUME NEW id PROVE Keeps(c, showTooltip(c, id))
  <2> DEFINE d == IF c.lazy /\ c.node[id].hash # NoHash
                  THEN enqueueHydration(c, WithParents({c.node[id].hash})) ELSE c
  <2>1. Keeps(c, d)
    BY EnqueueKeeps, KeepsItself
  <2> HIDE DEF d
  <2>2. Keeps(c, [d EXCEPT !.tooltip = IF c.node[id].data = "none" THEN NoId ELSE id])
    BY <2>1 DEF Keeps, KeepsHydration, Whole, Core
  <2> QED BY <2>2 DEF showTooltip, d
<1>2. Keeps(c, PointAtResult(c, h))
  BY DEF Keeps, KeepsHydration, Whole, Core, PointAtResult
<1>3. Keeps(c, Materialized(c, h))
  BY SynchronizeKeeps, KeepsItself DEF Materialized
<1> QED BY <1>1, <1>2, <1>3

LEMMA SelectNodeKeeps ==
    ASSUME NEW c, Whole(c), NEW h, NEW id
    PROVE  Keeps(c, SelectNode(c, h, id))
<1> DEFINE asked == enqueueHydration(c, WithParents({h}))
           chosen == [asked EXCEPT !.selected = h]
           shown == centerOnCommit(showTooltip(chosen, id), h)
<1>1. Keeps(c, asked)
  BY EnqueueKeeps
<1> HIDE DEF asked
<1>2. Keeps(c, chosen)
  BY <1>1 DEF Keeps, KeepsHydration, Whole, Core
<1> HIDE DEF chosen
<1>3. Keeps(c, shown)
  <2>1. Keeps(c, showTooltip(chosen, id))
    BY <1>2, SelectKeeps, KeepsChain, KeepsWhole
  <2> QED BY <2>1, CenterKeeps, KeepsChain, KeepsWhole
<1> HIDE DEF shown
<1>4. Keeps(c, PointAtResult(shown, h))
  BY <1>3, SelectKeeps, KeepsChain, KeepsWhole
<1> QED BY <1>4 DEF SelectNode, shown, chosen, asked

LEMMA SelectCommitKeeps ==
    ASSUME NEW c, Whole(c)
    PROVE  /\ \A h : Keeps(c, selectAndCenterCommit(c, h))
           /\ \A hashes : Keeps(c, SelectIn(c, hashes))
<1>1. ASSUME NEW h PROVE Keeps(c, selectAndCenterCommit(c, h))
  <2> DEFINE with == Materialized(c, h)
  <2>1. Keeps(c, with)
    BY SelectKeeps
  <2> HIDE DEF with
  <2>2. Keeps(c, SelectNode(with, h, ObjectOf(with, h)))
    BY <2>1, SelectNodeKeeps, KeepsChain, KeepsWhole
  <2> QED BY <2>2, KeepsItself DEF selectAndCenterCommit, with
<1> QED BY <1>1, KeepsItself DEF SelectIn

LEMMA NavigateKeeps ==
    ASSUME NEW c, Whole(c)
    PROVE  /\ Keeps(c, Sorted(c))
           /\ \A newer : Keeps(c, navigateCommits(c, newer))
           /\ \A forward : Keeps(c, navigateSearchResults(c, forward))
<1>1. ASSUME NEW d, Whole(d) PROVE Keeps(d, Sorted(d)) /\ Keeps(d, Found(d))
  BY <1>1 DEF Keeps, KeepsHydration, Whole, Core, Sorted, Found
<1>2. ASSUME NEW newer PROVE Keeps(c, navigateCommits(c, newer))
  BY <1>1, SelectCommitKeeps, KeepsChain, KeepsWhole DEF navigateCommits, StepFromSelected
<1>3. ASSUME NEW d, Whole(d), NEW i PROVE Keeps(d, StepToResult(d, i))
  <2> DEFINE at == [d EXCEPT !.resultIndex = i]
  <2>1. Keeps(d, at)
    BY <1>3 DEF Keeps, KeepsHydration, Whole, Core
  <2> HIDE DEF at
  <2>2. Keeps(d, selectAndCenterCommit(at, d.results[i]))
    BY <2>1, SelectCommitKeeps, KeepsChain, KeepsWhole
  <2> QED BY <2>2 DEF StepToResult, at
<1>4. ASSUME NEW forward PROVE Keeps(c, navigateSearchResults(c, forward))
  <2>1. Keeps(c, Found(Sorted(c)))
    BY <1>1, KeepsChain, KeepsWhole
  <2>2. \A d : Whole(d) => Keeps(d, StepInResults(d, forward))
    BY <1>3, KeepsItself DEF StepInResults
  <2> QED BY <2>1, <2>2, KeepsChain, KeepsWhole DEF navigateSearchResults
<1> QED BY <1>1, <1>2, <1>4

----------------------------------------------------------------------------
(* What changes the data: what it makes of commits, branches and head.     *)

LEMMA AddCommitsData ==
    ASSUME NEW c, Whole(c), NEW hashes, NEW level
    PROVE  LET d == AddCommits(c, hashes, level)
           IN  /\ KeepsHydration(c, d) /\ d.branches = c.branches /\ d.head = c.head
               /\ DOMAIN d.commits = hashes \cup DOMAIN c.commits
BY DEF KeepsHydration, Whole, Core, AddCommits

LEMMA HeadData ==
    ASSUME NEW c, Whole(c), NEW h
    PROVE  /\ LET d == setHeadHash(c, h)
              IN  /\ KeepsHydration(c, d) /\ d.head = h
                  /\ d.commits = c.commits /\ d.branches = c.branches
           /\ LET d == SyncHead(c, h)
              IN  /\ KeepsHydration(c, d)
                  /\ d.commits = c.commits /\ d.branches = c.branches
<1> DEFINE moved == [c EXCEPT !.head = h]
<1>1. /\ KeepsHydration(c, moved) /\ moved.head = h
      /\ moved.commits = c.commits /\ moved.branches = c.branches /\ Whole(moved)
  BY DEF KeepsHydration, Whole, Core
<1> HIDE DEF moved
<1>2. Keeps(moved, enqueueHydration(moved, {h}))
  BY <1>1, EnqueueKeeps
<1>3. LET d == setHeadHash(c, h)
      IN  /\ KeepsHydration(c, d) /\ d.head = h
          /\ d.commits = c.commits /\ d.branches = c.branches
  <2>1. CASE h = NoHash
    BY <2>1, <1>1 DEF setHeadHash, moved
  <2>2. CASE h # NoHash
    <3>1. setHeadHash(c, h) = enqueueHydration(moved, {h})
      BY <2>2 DEF setHeadHash, moved
    <3> QED BY <3>1, <1>1, <1>2, HydrationChain DEF Keeps
  <2> QED BY <2>1, <2>2
<1> QED BY <1>3, KeepsItself DEF SyncHead, Keeps

LEMMA LeaveForceKeeps ==
    ASSUME NEW c, Whole(c)
    PROVE  Keeps(c, LeaveForce(c))
BY LayoutKeeps, KeepsItself DEF LeaveForce

LEMMA ChunkData ==
    ASSUME NEW c, Whole(c), NEW m
    PROVE  LET d == ApplyChunk(c, m)
           IN  /\ KeepsHydration(c, d)
               /\ DOMAIN d.commits = Range(m.commits) \cup DOMAIN c.commits
               /\ d.branches = [b \in DOMAIN m.branches \cup DOMAIN c.branches |->
                                  IF b \in DOMAIN m.branches THEN m.branches[b] ELSE c.branches[b]]
<1> DEFINE both  == [b \in DOMAIN m.branches \cup DOMAIN c.branches |->
                        IF b \in DOMAIN m.branches THEN m.branches[b] ELSE c.branches[b]]
           added == AddCommits(c, Range(m.commits), m.level)
           named == AddBranches(added, m.branches)
           moved == SyncHead(named, m.head)
<1>1. /\ KeepsHydration(c, added) /\ added.branches = c.branches
      /\ DOMAIN added.commits = Range(m.commits) \cup DOMAIN c.commits
  BY AddCommitsData
<1> HIDE DEF added
<1>2. /\ KeepsHydration(c, named) /\ named.branches = both
      /\ named.commits = added.commits
  BY <1>1 DEF KeepsHydration, Whole, Core, AddBranches
<1> HIDE DEF named
<1>3. Whole(named)
  BY <1>2 DEF KeepsHydration
<1>4. /\ KeepsHydration(named, moved)
      /\ moved.commits = named.commits /\ moved.branches = named.branches
  BY <1>3, HeadData
<1> HIDE DEF moved
<1>5. Keeps(moved, LeaveForce(moved))
  BY <1>4, LeaveForceKeeps DEF KeepsHydration
<1>6. ApplyChunk(c, m) = LeaveForce(moved)
  BY DEF ApplyChunk, moved, named, added
<1> QED BY <1>1, <1>2, <1>4, <1>5, <1>6, HydrationChain DEF Keeps

LEMMA CompleteData ==
    ASSUME NEW c, Whole(c), NEW m
    PROVE  LET d == ApplyComplete(c, m)
           IN  /\ KeepsHydration(c, d)
               /\ d.commits = c.commits /\ d.branches = c.branches
<1> DEFINE moved == SyncHead(c, m.head)
           named == [moved EXCEPT !.tags = m.tags, !.stashes = m.stashes]
<1>1. /\ KeepsHydration(c, moved)
      /\ moved.commits = c.commits /\ moved.branches = c.branches
  BY HeadData
<1> HIDE DEF moved
<1>2. /\ KeepsHydration(c, named) /\ Whole(named)
      /\ named.commits = c.commits /\ named.branches = c.branches
  BY <1>1 DEF KeepsHydration, Whole, Core
<1> HIDE DEF named
<1>3. Keeps(named, updateGraph(LeaveForce(named)))
  BY <1>2, LeaveForceKeeps, GraphKeeps, KeepsChain, KeepsWhole
<1>4. ApplyComplete(c, m) = updateGraph(LeaveForce(named))
  BY DEF ApplyComplete, named, moved
<1> QED BY <1>2, <1>3, <1>4, HydrationChain DEF Keeps

LEMMA LiveData ==
    ASSUME NEW c, Whole(c), NEW delta
    PROVE  LET d == ApplyLive(c, delta)
               g == [commits |-> DOMAIN c.commits, branches |-> c.branches, head |-> c.head,
                     tags |-> c.tags, stashes |-> c.stashes]
           IN  /\ KeepsHydration(c, d)
               /\ DOMAIN d.commits = applyDelta(g, delta).commits
               /\ d.branches = applyDelta(g, delta).branches
<1> DEFINE g == applyDelta([commits |-> DOMAIN c.commits, branches |-> c.branches, head |-> c.head,
                            tags |-> c.tags, stashes |-> c.stashes], delta)
           added == AddCommits(c, delta.addedCommits, "full")
           left  == [added EXCEPT !.commits = Restrict(@, g.commits), !.branches = g.branches]
           moved == SyncHead(left, delta.headHash)
           named == [moved EXCEPT !.tags = g.tags, !.stashes = g.stashes]
<1>1. KeepsHydration(c, added)
  BY AddCommitsData
<1>2. ApplyLive(c, delta) = updateGraph(LeaveForce(named))
  BY DEF ApplyLive, AfterDelta
<1> HIDE DEF added, g
<1>3. /\ KeepsHydration(c, left) /\ Whole(left)
      /\ DOMAIN left.commits = g.commits /\ left.branches = g.branches
  BY <1>1 DEF KeepsHydration, Whole, Core, Restrict
<1> HIDE DEF left
<1>4. /\ KeepsHydration(left, moved)
      /\ moved.commits = left.commits /\ moved.branches = left.branches
  BY <1>3, HeadData
<1> HIDE DEF moved
<1>5. /\ KeepsHydration(left, named) /\ Whole(named)
      /\ named.commits = left.commits /\ named.branches = left.branches
  BY <1>4 DEF KeepsHydration, Whole, Core
<1> HIDE DEF named
<1>6. Keeps(named, updateGraph(LeaveForce(named)))
  BY <1>5, LeaveForceKeeps, GraphKeeps, KeepsChain, KeepsWhole
<1> QED BY <1>2, <1>3, <1>5, <1>6, HydrationChain DEF Keeps, g

LEMMA ResetData ==
    ASSUME NEW c, Whole(c)
    PROVE  LET d == resetData(c)
           IN  /\ KeepsHydration(c, d)
               /\ d.commits = <<>> /\ d.branches = <<>> /\ d.head = NoHash
<1> DEFINE fresh == [c EXCEPT !.commits = <<>>, !.branches = <<>>, !.tags = <<>>, !.stashes = {},
                              !.head = NoHash, !.nodes = {}, !.branchNodes = <<>>, !.tagNodes = <<>>,
                              !.selected = NoHash, !.sorted = NoCache, !.results = NoCache,
                              !.resultIndex = 0]
<1>1. /\ KeepsHydration(c, fresh) /\ Whole(fresh)
      /\ fresh.commits = <<>> /\ fresh.branches = <<>> /\ fresh.head = NoHash
  BY DEF KeepsHydration, Whole, Core
<1>2. resetData(c) = updateGraph(clear(fresh))
  BY DEF resetData, resetGraphData
<1> HIDE DEF fresh
<1>3. Keeps(fresh, updateGraph(clear(fresh)))
  BY <1>1, SynchronizeKeeps, GraphKeeps, KeepsChain, KeepsWhole
<1> QED BY <1>1, <1>2, <1>3, HydrationChain DEF Keeps

LEMMA HydratedData ==
    ASSUME NEW c, Whole(c), NEW hashes
    PROVE  LET d == MergeHydrated(c, hashes)
           IN  /\ KeepsHydration(c, d) /\ d.branches = c.branches /\ d.head = c.head
               /\ DOMAIN c.commits \subseteq DOMAIN d.commits
<1> DEFINE added  == AddCommits(c, hashes, "full")
           merged == [added EXCEPT !.node = [id \in NodeId |->
                         IF id \in c.nodes /\ @[id].hash \in hashes
                         THEN [@[id] EXCEPT !.data = "full"] ELSE @[id]]]
           asked  == enqueueHydration(merged, UNION {ParentSet(h) : h \in hashes})
           next   == IF hashes \subseteq DOMAIN c.commits THEN asked ELSE updateGraph(asked)
<1>1. /\ KeepsHydration(c, added) /\ added.branches = c.branches /\ added.head = c.head
      /\ DOMAIN c.commits \subseteq DOMAIN added.commits
  BY AddCommitsData
<1>2. MergeHydrated(c, hashes) = IF hashes = {} THEN c ELSE DimAgain(next)
  BY DEF MergeHydrated
<1> HIDE DEF added
<1>3. Keeps(added, merged)
  BY <1>1 DEF Keeps, KeepsHydration, Whole, Core
<1> HIDE DEF merged
<1>4. Keeps(added, asked)
  BY <1>3, EnqueueKeeps, KeepsChain, KeepsWhole
<1> HIDE DEF asked
<1>5. Keeps(added, next)
  BY <1>4, GraphKeeps, KeepsChain, KeepsWhole
<1> HIDE DEF next
<1>6. Keeps(added, DimAgain(next))
  BY <1>5, LooksKeep, KeepsItself, KeepsChain, KeepsWhole DEF DimAgain
<1>7. KeepsHydration(c, c)
  BY KeepsItself DEF Keeps
<1> QED BY <1>1, <1>2, <1>6, <1>7, HydrationChain DEF Keeps

LEMMA CollectedData ==
    ASSUME NEW c, Whole(c)
    PROVE  Keeps(c, Collected(c))
BY DEF Keeps, KeepsHydration, Whole, Core, Collected

LEMMA DestroyData ==
    ASSUME NEW c, Whole(c)
    PROVE  LET d == destroy(c)
           IN  /\ Whole(d) /\ d.inflight = c.inflight /\ d.pending = c.pending /\ d.destroyed
<1> DEFINE ended == [c EXCEPT !.flushTimer = FALSE, !.lazy = FALSE, !.lanes = <<>>,
                       !.destroyed = TRUE, !.tooltip = NoId]
<1>1. /\ Whole(ended) /\ ended.inflight = c.inflight /\ ended.pending = c.pending
      /\ ended.destroyed = TRUE
  BY DEF Whole, Core
<1> HIDE DEF ended
<1>2. LET d == _evict(ended, ended.active)
      IN  /\ Whole(d) /\ d.inflight = c.inflight /\ d.pending = c.pending /\ d.destroyed
  BY <1>1 DEF Whole, Core, _evict
<1> DEFINE d == _evict(ended, ended.active)
<1> HIDE DEF d
<1>3. destroy(c) = releaseDrag(clearSearchHydrationScan(d))
  BY DEF destroy, clear, d, ended
<1>4. /\ Whole(d) /\ d.inflight = c.inflight /\ d.pending = c.pending /\ d.destroyed
  BY <1>2 DEF d
<1> QED BY <1>3, <1>4 DEF Whole, Core, releaseDrag, clearSearchHydrationScan

----------------------------------------------------------------------------
(* The actions, by what they touch.                                        *)

LEMMA BecomesKeeps ==
    ASSUME NEW c, Keeps(ctl, c), Becomes(c)
    PROVE  Keeps(ctl, ctl')
BY CollectedData, KeepsChain, KeepsWhole DEF Becomes

LEMMA SetFieldsKeeps ==
    ASSUME NEW c, Whole(c)
    PROVE  /\ \A x, y, z : Keeps(c, [c EXCEPT !.search = x, !.results = y, !.resultIndex = z])
           /\ \A x, y, z : Keeps(c, [c EXCEPT !.filter = x, !.results = y, !.resultIndex = z])
           /\ \A x : Keeps(c, [c EXCEPT !.scope = x])
           /\ \A x : Keeps(c, [c EXCEPT !.isolated = x])
           /\ \A x : Keeps(c, [c EXCEPT !.drag = x])
           /\ \A x : Keeps(c, [c EXCEPT !.drag.moved = x])
           /\ \A x, y : Keeps(c, [c EXCEPT !.drag.at = x, !.lanes = y])
           /\ \A x : Keeps(c, [c EXCEPT !.lanes = x])
           /\ \A x : Keeps(c, [c EXCEPT !.selected = x])
           /\ \A x : Keeps(c, [c EXCEPT !.height = x])
           /\ \A x : Keeps(c, [c EXCEPT !.window = x])
BY DEF Keeps, KeepsHydration, Whole, Core

LEMMA UserKeeps ==
    ASSUME Whole(ctl), Events, ~Dispose
    PROVE  Keeps(ctl, ctl') /\ UNCHANGED <<requests, feed, sync, server>>
<1>1. CASE Scroll
  BY <1>1, ZoomKeeps, BecomesKeeps DEF Scroll, User, OnlyController
<1>2. CASE resize
  <2>1. PICK h \in Heights \ {ctl.height} :
           LET c == [ctl EXCEPT !.height = h]
           IN  Becomes(IF c.lazy
                       THEN rematerializeFromViewport([c EXCEPT !.window = Query(c.index, c.top, h)])
                       ELSE HydrateVisible(c))
    BY <1>2 DEF resize
  <2> DEFINE c == [ctl EXCEPT !.height = h]
             w == [c EXCEPT !.window = Query(c.index, c.top, h)]
  <2>2. Keeps(ctl, c)
    BY SetFieldsKeeps
  <2> HIDE DEF c
  <2>3. Keeps(ctl, w)
    BY <2>2, SetFieldsKeeps, KeepsChain, KeepsWhole
  <2> HIDE DEF w
  <2>4. Keeps(ctl, rematerializeFromViewport(w)) /\ Keeps(ctl, HydrateVisible(c))
    BY <2>2, <2>3, RebuildKeeps, UpdateKeeps, KeepsChain, KeepsWhole DEF rematerializeFromViewport
  <2>5. Becomes(rematerializeFromViewport(w)) \/ Becomes(HydrateVisible(c))
    BY <2>1 DEF c, w
  <2> QED BY <1>2, <2>4, <2>5, BecomesKeeps DEF resize, User, OnlyController
<1>3. CASE SetSearchState
  <2> DEFINE c == [ctl EXCEPT !.search = ~@, !.results = NoCache, !.resultIndex = 0]
  <2>1. Keeps(ctl, c)
    BY SetFieldsKeeps
  <2> HIDE DEF c
  <2>2. Keeps(ctl, applyDimmingFromPredicate(queueSearchHydration(c)))
    BY <2>1, SearchKeeps, LooksKeep, KeepsChain, KeepsWhole
  <2> QED BY <1>3, <2>2, BecomesKeeps DEF SetSearchState, User, OnlyController, c
<1>4. CASE SetFilterState
  <2>1. PICK f \in Filters \ {ctl.filter} :
           Becomes(applyDimmingFromPredicate([ctl EXCEPT !.filter = f, !.results = NoCache, !.resultIndex = 0]))
    BY <1>4 DEF SetFilterState
  <2> DEFINE c == [ctl EXCEPT !.filter = f, !.results = NoCache, !.resultIndex = 0]
  <2>2. Keeps(ctl, c)
    BY SetFieldsKeeps
  <2> HIDE DEF c
  <2>3. Keeps(ctl, applyDimmingFromPredicate(c))
    BY <2>2, LooksKeep, KeepsChain, KeepsWhole
  <2> QED BY <1>4, <2>1, <2>3, BecomesKeeps DEF SetFilterState, User, OnlyController, c
<1>5. CASE SetGraphSettings
  <2>1. PICK s \in Scopes \ {ctl.scope} : Becomes(applyDimmingFromPredicate([ctl EXCEPT !.scope = s]))
    BY <1>5 DEF SetGraphSettings
  <2> DEFINE c == [ctl EXCEPT !.scope = s]
  <2>2. Keeps(ctl, c)
    BY SetFieldsKeeps
  <2> HIDE DEF c
  <2>3. Keeps(ctl, applyDimmingFromPredicate(c))
    BY <2>2, LooksKeep, KeepsChain, KeepsWhole
  <2> QED BY <1>5, <2>1, <2>3, BecomesKeeps DEF SetGraphSettings, User, OnlyController, c
<1>6. CASE ToggleLayout
  BY <1>6, LayoutKeeps, BecomesKeeps DEF ToggleLayout, User, OnlyController
<1>7. CASE NavigateCommits
  BY <1>7, NavigateKeeps, BecomesKeeps DEF NavigateCommits, User, OnlyController
<1>8. CASE NavigateSearchResults
  BY <1>8, NavigateKeeps, BecomesKeeps DEF NavigateSearchResults, User, OnlyController
<1>9. CASE SelectCommit
  BY <1>9, SelectCommitKeeps, BecomesKeeps DEF SelectCommit, User, OnlyController
<1>10. CASE JumpToHead
  BY <1>10, CenterKeeps, BecomesKeeps DEF JumpToHead, User, OnlyController
<1>11. CASE GetNavigationPosition
  BY <1>11, NavigateKeeps, BecomesKeeps DEF GetNavigationPosition, User, OnlyController
<1>12. CASE RebuildVisibleGraph
  BY <1>12, GraphKeeps, BecomesKeeps DEF RebuildVisibleGraph, User, OnlyController
<1>13. CASE ClearIsolation
  <2> DEFINE c == [ctl EXCEPT !.isolated = NoLane]
  <2>1. Keeps(ctl, c)
    BY SetFieldsKeeps
  <2> HIDE DEF c
  <2>2. Keeps(ctl, applyDimmingFromPredicate(c))
    BY <2>1, LooksKeep, KeepsChain, KeepsWhole
  <2> QED BY <1>13, <2>2, BecomesKeeps DEF ClearIsolation, User, OnlyController, c
<1>14. CASE Rebalance
  BY <1>14, SetFieldsKeeps, BecomesKeeps DEF Rebalance, User, OnlyController
<1> QED
  BY <1>1, <1>2, <1>3, <1>4, <1>5, <1>6, <1>7, <1>8, <1>9, <1>10, <1>11, <1>12, <1>13, <1>14 DEF Events

LEMMA PointerKeeps ==
    ASSUME Whole(ctl), Pointer
    PROVE  Keeps(ctl, ctl') /\ UNCHANGED <<requests, feed, sync, server>>
<1>1. CASE PointerDownOnHeader
  BY <1>1, SetFieldsKeeps, BecomesKeeps DEF PointerDownOnHeader, User, OnlyController
<1>2. CASE PointerDownOnBody
  <2>1. PICK l : Becomes(applyDimmingFromPredicate(
                     [ctl EXCEPT !.isolated = IF @ = l THEN NoLane ELSE l]))
    BY <1>2 DEF PointerDownOnBody
  <2> DEFINE c == [ctl EXCEPT !.isolated = IF @ = l THEN NoLane ELSE l]
  <2>2. Keeps(ctl, c)
    BY SetFieldsKeeps
  <2> HIDE DEF c
  <2>3. Keeps(ctl, applyDimmingFromPredicate(c))
    BY <2>2, LooksKeep, KeepsChain, KeepsWhole
  <2> QED BY <1>2, <2>1, <2>3, BecomesKeeps DEF PointerDownOnBody, User, OnlyController, c
<1>3. CASE PointerDownOnNode
  BY <1>3, SetFieldsKeeps, BecomesKeeps DEF PointerDownOnNode, User, OnlyController
<1>4. CASE PointerDownOnCanvas
  <2> DEFINE c == hideTooltip(ctl)
             d == [c EXCEPT !.isolated = NoLane]
  <2>1. Keeps(ctl, c)
    BY LooksKeep
  <2> HIDE DEF c
  <2>2. Keeps(ctl, d)
    BY <2>1, SetFieldsKeeps, KeepsChain, KeepsWhole
  <2> HIDE DEF d
  <2>3. Keeps(ctl, applyDimmingFromPredicate(d))
    BY <2>2, LooksKeep, KeepsChain, KeepsWhole
  <2>4. Becomes(c) \/ Becomes(applyDimmingFromPredicate(d))
    BY <1>4 DEF PointerDownOnCanvas, c, d
  <2> QED BY <1>4, <2>1, <2>3, <2>4, BecomesKeeps DEF PointerDownOnCanvas, User, OnlyController
<1>5. CASE User("drag") /\ DragNode
  <2> DEFINE c == [ctl EXCEPT !.drag.moved = TRUE]
  <2>1. Keeps(ctl, c)
    BY SetFieldsKeeps
  <2> HIDE DEF c
  <2>2. Keeps(ctl, hideTooltip(c))
    BY <2>1, LooksKeep, KeepsChain, KeepsWhole
  <2> QED BY <1>5, <2>2, BecomesKeeps DEF DragNode, User, OnlyController, c
<1>7. CASE User("drag") /\ DragLane
  BY <1>7, SetFieldsKeeps, BecomesKeeps DEF DragLane, User, OnlyController
<1>6. CASE handlePointerUp
  <2> DEFINE id == ctl.drag.on
             c  == releaseDrag(ctl)
             d  == hideTooltip(c)
             s  == showTooltip(c, id)
             e  == EnqueueClicked(s, id)
  <2>1. Keeps(ctl, c)
    BY LooksKeep
  <2> HIDE DEF c
  <2>2. Keeps(ctl, d) /\ Keeps(ctl, s)
    BY <2>1, LooksKeep, SelectKeeps, KeepsChain, KeepsWhole
  <2> HIDE DEF d, s
  <2>5. Keeps(ctl, e)
    BY <2>2, EnqueueKeeps, KeepsChain, KeepsWhole DEF EnqueueClicked
  <2> HIDE DEF e
  <2>3. Keeps(ctl, [d EXCEPT !.selected = NoHash]) /\ Keeps(ctl, [e EXCEPT !.selected = c.node[id].hash])
    BY <2>2, <2>5, SetFieldsKeeps, KeepsChain, KeepsWhole
  <2>4. \/ Becomes(c) \/ Becomes([d EXCEPT !.selected = NoHash])
        \/ Becomes([e EXCEPT !.selected = c.node[id].hash])
    BY <1>6 DEF handlePointerUp, c, d, e, s
  <2> QED BY <1>6, <2>1, <2>3, <2>4, BecomesKeeps DEF handlePointerUp, User, OnlyController
<1> QED BY <1>1, <1>2, <1>3, <1>4, <1>5, <1>6, <1>7 DEF Pointer, handlePointerMove

LEMMA TimersKeep ==
    ASSUME Whole(ctl), PermalinkFires \/ PumpSearch
    PROVE  Keeps(ctl, ctl') /\ UNCHANGED <<requests, feed, sync, server>>
BY SelectCommitKeeps, SearchKeeps, BecomesKeeps DEF PermalinkFires, PumpSearch, OnlyController

----------------------------------------------------------------------------
(* The bookkeeping of the hydration.                                       *)

(* InflightAccounted is inductive once the controller and the calls have   *)
(* the fields it reads.                                                    *)
HydrationInv ==
    /\ Whole(ctl)
    /\ \A r \in requests : "batch" \in DOMAIN r
    /\ InflightAccounted

LEMMA KeepsAccounts ==
    ASSUME HydrationInv, KeepsHydration(ctl, ctl'), requests' = requests
    PROVE  HydrationInv'
BY DEF HydrationInv, InflightAccounted, KeepsHydration

(* Replacing a call by one for the same batch.                             *)
LEMMA SameBatch ==
    ASSUME HydrationInv, NEW r \in requests, NEW q, q.batch = r.batch,
           "batch" \in DOMAIN q,
           requests' = (requests \ {r}) \cup {q}, ctl' = ctl
    PROVE  HydrationInv'
<1>1. UNION {x.batch : x \in requests'} = UNION {x.batch : x \in requests}
  OBVIOUS
<1>2. ASSUME NEW x \in requests', NEW y \in requests', x # y
      PROVE  x.batch \cap y.batch = {}
  BY <1>2 DEF HydrationInv, InflightAccounted
<1> QED BY <1>1, <1>2 DEF HydrationInv, InflightAccounted

(* A call returns: its batch leaves inflight, what waited is scheduled.    *)
LEMMA CallEnds ==
    ASSUME HydrationInv, NEW r \in requests, NEW c, KeepsHydration(ctl, c),
           requests' = requests \ {r},
           ctl' = EndBatch(c, r.batch) \/ Becomes(EndBatch(c, r.batch))
    PROVE  HydrationInv'
<1> DEFINE freed == [c EXCEPT !.inflight = @ \ r.batch]
           d == EndBatch(c, r.batch)
<1>1. /\ Whole(freed) /\ freed.inflight = c.inflight \ r.batch /\ freed.pending = c.pending
      /\ freed.flushTimer = c.flushTimer
  BY DEF KeepsHydration, Whole, Core
<1>2. d = scheduleHydrationFlush(freed)
  BY DEF EndBatch
<1> HIDE DEF freed
<1>3. /\ Whole(d) /\ d.inflight = c.inflight \ r.batch /\ d.pending = c.pending
      /\ d.pending # {} => d.flushTimer
  BY <1>1, <1>2 DEF scheduleHydrationFlush, Whole, Core
<1> HIDE DEF d
<1>4. Keeps(d, ctl')
  BY <1>3, KeepsItself, CollectedData DEF Becomes, d
<1>5. /\ Whole(ctl') /\ ctl'.inflight = ctl.inflight \ r.batch
      /\ ctl'.pending \cap (ctl.inflight \ r.batch) \subseteq ctl.pending
      /\ ctl'.pending # {} => ctl'.flushTimer
  BY <1>3, <1>4 DEF Keeps, KeepsHydration
<1>6. UNION {x.batch : x \in requests \ {r}} = (UNION {x.batch : x \in requests}) \ r.batch
  BY DEF HydrationInv, InflightAccounted
<1> QED BY <1>5, <1>6 DEF HydrationInv, InflightAccounted

LEMMA BatchSent ==
    ASSUME HydrationInv, NEW batch \in Batches, flushHydrationBatch(batch)
    PROVE  HydrationInv'
<1> DEFINE call == [batch |-> batch, todo |-> batch \ Chunk(batch), asked |-> Chunk(batch),
                    answer |-> NoAnswer, got |-> {}, tries |-> 1]
<1>1. /\ Whole(ctl') /\ ctl'.pending = ctl.pending \ batch /\ ctl'.inflight = ctl.inflight \cup batch
  BY DEF flushHydrationBatch, HydrationInv, Whole, Core
<1>2. batch \subseteq ctl.pending /\ (batch = {} => ctl.pending = {})
  <2>1. Cardinality({}) = 0 /\ BatchMax # 0
    BY FS_EmptySet, ControllerAssumption
  <2> QED BY <2>1 DEF Batches
<1>3. /\ batch = {} => requests' = requests
      /\ batch # {} => requests' = requests \cup {call}
  BY DEF flushHydrationBatch
<1>4. /\ call.batch = batch
      /\ "batch" \in DOMAIN call
  OBVIOUS
<1> HIDE DEF call
<1>5. \A r \in requests : r.batch \cap batch = {}
  BY <1>2 DEF HydrationInv, InflightAccounted
<1>6. ctl'.inflight = UNION {r.batch : r \in requests'}
  BY <1>1, <1>3, <1>4 DEF HydrationInv, InflightAccounted
<1>7. \A r, q \in requests' : r # q => r.batch \cap q.batch = {}
  BY <1>3, <1>4, <1>5 DEF HydrationInv, InflightAccounted
<1>8. ctl'.inflight \cap ctl'.pending = {}
  BY <1>1 DEF HydrationInv, InflightAccounted
<1>9. ctl'.pending # {} => ctl'.inflight # {}
  BY <1>1, <1>2
<1> QED BY <1>1, <1>3, <1>4, <1>6, <1>7, <1>8, <1>9 DEF HydrationInv, InflightAccounted

LEMMA FeedKeepsHydration ==
    ASSUME Whole(ctl), Feed
    PROVE  KeepsHydration(ctl, ctl') /\ requests' = requests
<1>1. ASSUME NEW c, KeepsHydration(ctl, c), Becomes(c) PROVE KeepsHydration(ctl, ctl')
  BY <1>1, CollectedData, HydrationChain DEF Becomes, Keeps, KeepsHydration
<1>2. CASE Connect
  BY <1>2, KeepsItself DEF Connect, Keeps
<1>3. CASE OnRepoMetadata
  BY <1>1, <1>3, ResetData DEF OnRepoMetadata, Deliver
<1>4. CASE OnBootstrapChunk
  BY <1>1, <1>4, ChunkData DEF OnBootstrapChunk, Deliver
<1>5. CASE OnBootstrapComplete
  BY <1>1, <1>5, CompleteData DEF OnBootstrapComplete, Deliver
<1>6. CASE OnDelta
  BY <1>1, <1>6, LiveData DEF OnDelta, Deliver
<1>7. CASE OnHead
  BY <1>1, <1>7, HeadData DEF OnHead, Deliver
<1> QED BY <1>2, <1>3, <1>4, <1>5, <1>6, <1>7 DEF Feed

LEMMA HydrationInit == Init => HydrationInv
<1> SUFFICES ASSUME Init PROVE HydrationInv
  OBVIOUS
<1>1. PICK h \in Heights : ctl = NewController(h)
  BY DEF Init
<1>2. /\ Whole(ctl) /\ ctl.inflight = {} /\ ctl.pending = {}
  BY <1>1 DEF NewController, Whole, Core
<1> QED BY <1>2 DEF Init, HydrationInv, InflightAccounted

LEMMA HydrationStep == HydrationInv /\ [Next]_vars => HydrationInv'
<1> SUFFICES ASSUME HydrationInv, [Next]_vars PROVE HydrationInv'
  OBVIOUS
<1>1. Whole(ctl)
  BY DEF HydrationInv
<1>2. CASE Feed
  BY <1>1, <1>2, FeedKeepsHydration, KeepsAccounts
<1>3. CASE Hydration
  <2>1. CASE PumpSearch
    BY <1>1, <2>1, TimersKeep, KeepsAccounts DEF Keeps
  <2>2. CASE \E b \in Batches : flushHydrationBatch(b)
    BY <2>2, BatchSent
  <2>3. ASSUME NEW r \in requests, handleGraphCommits(r) \/ NextChunk(r) \/ BatchArrives(r)
        PROVE  HydrationInv'
    <3>1. "batch" \in DOMAIN r
      BY DEF HydrationInv
    <3>2. CASE handleGraphCommits(r)
      <4> DEFINE q == [r EXCEPT !.answer = r.asked \cap server.commits]
      <4>1. /\ q.batch = r.batch
            /\ "batch" \in DOMAIN q
        BY <3>1
      <4>2. requests' = (requests \ {r}) \cup {q} /\ ctl' = ctl
        BY <3>2 DEF handleGraphCommits
      <4> QED BY <4>1, <4>2, SameBatch
    <3>3. CASE NextChunk(r)
      <4> DEFINE q == [r EXCEPT !.got = @ \cup r.answer, !.answer = NoAnswer, !.tries = 1,
                                !.asked = Chunk(r.todo), !.todo = @ \ Chunk(r.todo)]
      <4>1. /\ q.batch = r.batch
            /\ "batch" \in DOMAIN q
        BY <3>1
      <4>2. requests' = (requests \ {r}) \cup {q} /\ ctl' = ctl
        BY <3>3 DEF NextChunk
      <4> QED BY <4>1, <4>2, SameBatch
    <3>4. CASE BatchArrives(r)
      BY <1>1, <3>4, HydratedData, CallEnds DEF BatchArrives
    <3> QED BY <2>3, <3>2, <3>3, <3>4
  <2> QED BY <1>3, <2>1, <2>2, <2>3 DEF Hydration
<1>4. CASE Faults
  <2>1. CASE Disconnect
    BY <1>1, <2>1, KeepsItself, KeepsAccounts DEF Disconnect, Keeps
  <2>2. ASSUME NEW r \in requests, RequestRefused(r)
        PROVE  HydrationInv'
    <3> DEFINE q == [r EXCEPT !.tries = @ + 1]
    <3>1. /\ q.batch = r.batch
          /\ "batch" \in DOMAIN q
      BY DEF HydrationInv
    <3>2. requests' = (requests \ {r}) \cup {q} /\ ctl' = ctl
      BY <2>2 DEF RequestRefused
    <3> QED BY <3>1, <3>2, SameBatch
  <2>3. ASSUME NEW r \in requests, RequestFails(r)
        PROVE  HydrationInv'
    BY <1>1, <2>3, KeepsItself, CallEnds DEF RequestFails, Keeps
  <2> QED BY <1>4, <2>1, <2>2, <2>3 DEF Faults
<1>5. CASE PermalinkFires
  BY <1>1, <1>5, TimersKeep, KeepsAccounts DEF Keeps
<1>6. CASE Pointer
  BY <1>1, <1>6, PointerKeeps, KeepsAccounts DEF Keeps
<1>7. CASE Events
  <2>1. CASE Dispose
    <3> DEFINE d == destroy(ctl)
    <3>1. Whole(d) /\ d.inflight = ctl.inflight /\ d.pending = ctl.pending /\ d.destroyed
      BY <1>1, DestroyData
    <3>2. ctl' = Collected(d) /\ requests' = requests
      BY <2>1 DEF Dispose, Becomes
    <3> HIDE DEF d
    <3>3. Keeps(d, ctl')
      BY <3>1, <3>2, CollectedData
    <3> QED BY <3>1, <3>2, <3>3 DEF HydrationInv, InflightAccounted, Keeps, KeepsHydration, Collected, Whole, Core
  <2>2. CASE ~Dispose
    BY <1>1, <1>7, <2>2, UserKeeps, KeepsAccounts DEF Keeps
  <2> QED BY <2>1, <2>2
<1>8. CASE \E repo \in Repos : ServerChanges(repo)
  BY <1>1, <1>8, KeepsItself, KeepsAccounts DEF ServerChanges, Keeps
<1>9. CASE UNCHANGED vars
  BY <1>1, <1>9, KeepsItself, KeepsAccounts DEF vars, Keeps
<1> QED BY <1>2, <1>3, <1>4, <1>5, <1>6, <1>7, <1>8, <1>9 DEF Next

(* Hydration never loses count: the hashes out for an answer are those of  *)
(* the calls that have not returned, no commit is asked for twice, and     *)
(* what waits has a timer or a call that will set one, whatever the user   *)
(* does and however many batches, resets and failures overlap              *)
(* (enqueueHydration, flushHydrationBatch and its finally).                *)
THEOREM HydrationAccounted == Spec => []InflightAccounted
<1>1. HydrationInv => InflightAccounted
  BY DEF HydrationInv
<1> QED BY <1>1, HydrationInit, HydrationStep, PTL DEF Spec

----------------------------------------------------------------------------
(* Sequences the server makes.                                             *)

IsSequence(s) == \E S : s \in Seq(S)

LEMMA JoinedSequence ==
    ASSUME NEW s, NEW t, IsSequence(s), IsSequence(t)
    PROVE  /\ IsSequence(s \o t) /\ Len(s \o t) = Len(s) + Len(t)
           /\ Len(s) \in Nat /\ Len(t) \in Nat
           /\ \A i \in 1 .. Len(s) + Len(t) : (s \o t)[i] = IF i <= Len(s) THEN s[i] ELSE t[i - Len(s)]
<1>1. PICK S : s \in Seq(S)
  BY DEF IsSequence
<1>2. PICK T : t \in Seq(T)
  BY DEF IsSequence
<1> DEFINE U == S \cup T
<1>3. s \in Seq(U) /\ t \in Seq(U)
  BY <1>1, <1>2
<1> HIDE DEF U
<1>4. s \o t \in Seq(U)
  BY <1>3, ConcatProperties
<1> QED BY <1>3, <1>4, ConcatProperties, LenProperties DEF IsSequence

LEMMA RestOfSequence ==
    ASSUME NEW s, IsSequence(s), s # <<>>
    PROVE  /\ IsSequence(Tail(s)) /\ Head(s) = s[1]
           /\ Len(s) \in Nat \ {0} /\ Len(Tail(s)) = Len(s) - 1
           /\ \A i \in 1 .. Len(s) - 1 : Tail(s)[i] = s[i + 1]
<1>1. PICK S : s \in Seq(S)
  BY DEF IsSequence
<1> QED BY <1>1, HeadTailProperties, EmptySeq DEF IsSequence

LEMMA SingleSequence ==
    ASSUME NEW m
    PROVE  IsSequence(<<m>>) /\ Len(<<m>>) = 1 /\ <<m>>[1] = m
<1>1. <<m>> \in Seq({m})
  OBVIOUS
<1> QED BY <1>1 DEF IsSequence

(* Induction over the naturals, from their least elements.                 *)
LEMMA Induction ==
    ASSUME NEW T \in SUBSET Nat, 0 \in T, \A n \in T : n + 1 \in T
    PROVE  \A n \in Nat : n \in T
<1> SUFFICES ASSUME Nat \ T # {} PROVE FALSE
  OBVIOUS
<1>1. IsWellFoundedOn(OpToRel(<, Nat), Nat)
  BY NatLessThanWellFounded
<1>2. PICK n \in Nat \ T : \A m \in Nat \ T : ~(<<m, n>> \in OpToRel(<, Nat))
  BY <1>1, WFMin, Zenon
<1>3. \A m \in Nat \ T : ~(m < n)
  BY <1>2 DEF OpToRel
<1>4. n # 0 /\ n - 1 \in Nat /\ n - 1 < n
  OBVIOUS
<1>5. n - 1 \in T
  BY <1>3, <1>4
<1>6. (n - 1) + 1 \in T
  BY <1>5
<1> QED BY <1>6

(* Among keeps the elements of a set, in their order and no more often     *)
(* than they come.                                                         *)
IsKept(f, seq, set, n) ==
    f = [k \in 0..n |-> IF k = 0 THEN <<>>
                        ELSE IF seq[k] \in set THEN Append(f[k - 1], seq[k]) ELSE f[k - 1]]

LEMMA KeptExists ==
    ASSUME NEW seq, NEW set
    PROVE  \A n \in Nat : \E f : IsKept(f, seq, set, n)
<1> DEFINE T == {n \in Nat : \E f : IsKept(f, seq, set, n)}
           Grown(s, k) == IF seq[k] \in set THEN Append(s, seq[k]) ELSE s
<1>1. 0 \in T
  <2> DEFINE f == [k \in 0..0 |-> <<>>]
  <2>1. f = [k \in 0..0 |-> IF k = 0 THEN <<>>
                            ELSE IF seq[k] \in set THEN Append(f[k - 1], seq[k]) ELSE f[k - 1]]
    OBVIOUS
  <2>2. IsKept(f, seq, set, 0)
    BY <2>1 DEF IsKept
  <2> QED BY <2>2
<1>2. ASSUME NEW n \in T PROVE n + 1 \in T
  <2>1. PICK f : IsKept(f, seq, set, n)
    BY <1>2
  <2>2. \A k \in 0..n : f[k] = IF k = 0 THEN <<>> ELSE Grown(f[k - 1], k)
    BY <2>1 DEF IsKept
  <2> HIDE DEF Grown
  <2> DEFINE h == [k \in 0 .. n + 1 |-> IF k = n + 1 THEN Grown(f[n], n + 1) ELSE f[k]]
             r == [k \in 0 .. n + 1 |-> IF k = 0 THEN <<>> ELSE Grown(h[k - 1], k)]
  <2>3. ASSUME NEW k \in 0 .. n + 1 PROVE h[k] = r[k]
    <3>1. CASE k = n + 1
      <4>1. h[n] = f[n] /\ (n + 1) - 1 = n /\ n + 1 # 0 /\ n + 1 \in 0 .. n + 1
        OBVIOUS
      <4> QED BY <3>1, <4>1
    <3>2. CASE k = 0
      <4>1. f[0] = <<>> /\ 0 # n + 1
        BY <2>2
      <4> QED BY <3>2, <4>1
    <3>3. CASE k # n + 1 /\ k # 0
      <4>1. k \in 0..n /\ k - 1 \in 0 .. n + 1 /\ k - 1 # n + 1
        BY <3>3
      <4>2. h[k - 1] = f[k - 1] /\ h[k] = f[k]
        BY <3>3, <4>1
      <4>3. f[k] = Grown(f[k - 1], k)
        BY <2>2, <3>3, <4>1
      <4> QED BY <3>3, <4>2, <4>3
    <3> QED BY <3>1, <3>2, <3>3
  <2>4. h = r
    BY <2>3
  <2>5. IsKept(h, seq, set, n + 1)
    <3> HIDE DEF h
    <3> QED BY <2>4 DEF IsKept, Grown
  <2> QED BY <2>5
<1>3. \A n \in T : n + 1 \in T
  BY <1>2
<1> HIDE DEF T
<1>4. \A n \in Nat : n \in T
  BY <1>1, <1>3, Induction DEF T
<1> QED BY <1>4 DEF T

LEMMA AppendedRange ==
    ASSUME NEW S, NEW s \in Seq(S), NEW e \in S
    PROVE  /\ Append(s, e) \in Seq(S)
           /\ Range(Append(s, e)) = Range(s) \cup {e}
           /\ IsInjective(s) /\ e \notin Range(s) => IsInjective(Append(s, e))
<1>1. /\ Append(s, e) \in Seq(S)
      /\ Len(s) \in Nat /\ DOMAIN s = 1..Len(s)
      /\ DOMAIN Append(s, e) = 1 .. Len(s) + 1
      /\ \A i \in 1..Len(s) : Append(s, e)[i] = s[i]
      /\ Append(s, e)[Len(s) + 1] = e
  BY AppendProperties, LenProperties
<1>2. Range(Append(s, e)) = Range(s) \cup {e}
  BY <1>1 DEF Range
<1>3. ASSUME IsInjective(s), e \notin Range(s),
             NEW i \in 1 .. Len(s) + 1, NEW j \in 1 .. Len(s) + 1, Append(s, e)[i] = Append(s, e)[j]
      PROVE  i = j
  <2>1. \A k \in 1..Len(s) : s[k] # e
    BY <1>1, <1>3 DEF Range
  <2>2. \A k \in 1 .. Len(s) + 1 : k \in 1..Len(s) \/ k = Len(s) + 1
    BY <1>1
  <2>3. CASE i \in 1..Len(s) /\ j \in 1..Len(s)
    BY <1>1, <1>3, <2>3 DEF IsInjective
  <2> QED BY <1>1, <1>3, <2>1, <2>2, <2>3
<1>4. IsInjective(s) /\ e \notin Range(s) => IsInjective(Append(s, e))
  BY <1>1, <1>3 DEF IsInjective
<1> QED BY <1>1, <1>2, <1>4

LEMMA AmongHolds ==
    ASSUME NEW S, NEW seq \in Seq(S), NEW set
    PROVE  /\ Among(seq, set) \in Seq(S)
           /\ Range(Among(seq, set)) = Range(seq) \cap set
           /\ IsInjective(seq) => IsInjective(Among(seq, set))
           /\ Range(seq) \subseteq set => Among(seq, set) = seq
<1> DEFINE n == Len(seq)
           kept == CHOOSE f : IsKept(f, seq, set, n)
<1>1. n \in Nat /\ seq \in [1..n -> S] /\ DOMAIN seq = 1..n
  BY LenProperties
<1>2. IsKept(kept, seq, set, n)
  BY <1>1, KeptExists
<1>3. Among(seq, set) = kept[n]
  BY DEF Among, IsKept
<1> HIDE DEF kept
<1>4. /\ kept[0] = <<>>
      /\ \A k \in 1..n : kept[k] = IF seq[k] \in set THEN Append(kept[k - 1], seq[k]) ELSE kept[k - 1]
  <2>1. kept = [k \in 0..n |-> IF k = 0 THEN <<>>
                               ELSE IF seq[k] \in set THEN Append(kept[k - 1], seq[k]) ELSE kept[k - 1]]
    BY <1>2 DEF IsKept
  <2> DEFINE Grown(k) == IF seq[k] \in set THEN Append(kept[k - 1], seq[k]) ELSE kept[k - 1]
  <2>2. kept = [k \in 0..n |-> IF k = 0 THEN <<>> ELSE Grown(k)]
    BY <2>1
  <2> HIDE DEF n, Grown
  <2>3. \A k \in 0..n : kept[k] = IF k = 0 THEN <<>> ELSE Grown(k)
    BY <2>2
  <2>4. 0 \in 0..n /\ \A k \in 1..n : k \in 0..n /\ k # 0
    BY <1>1
  <2> QED BY <2>3, <2>4 DEF Grown
<1> HIDE DEF n
<1> DEFINE Seen(k) == {seq[i] : i \in 1..k} \cap set
           Fine(k) == /\ kept[k] \in Seq(S) /\ Range(kept[k]) = Seen(k)
                      /\ IsInjective(seq) => IsInjective(kept[k])
                      /\ Range(seq) \subseteq set => Len(kept[k]) = k /\ \A i \in 1..k : kept[k][i] = seq[i]
           T == {k \in Nat : k <= n => Fine(k)}
<1>5. 0 \in T
  <2>1. <<>> \in Seq(S) /\ DOMAIN <<>> = {} /\ Len(<<>>) = 0
    BY EmptySeq, LenProperties
  <2>2. Range(<<>>) = {} /\ Seen(0) = {} /\ IsInjective(<<>>)
    BY <2>1 DEF Range, IsInjective
  <2>3. \A i \in 1..0 : FALSE
    OBVIOUS
  <2>4. Fine(0)
    BY <1>4, <2>1, <2>2, <2>3
  <2> QED BY <2>4
<1>6. ASSUME NEW k \in T PROVE k + 1 \in T
  <2> SUFFICES ASSUME k + 1 <= n PROVE Fine(k + 1)
    OBVIOUS
  <2> DEFINE e == seq[k + 1]
  <2>1. k + 1 \in 1..n /\ (k + 1) - 1 = k /\ k <= n /\ e \in S /\ e \in Range(seq)
    BY <1>1 DEF Range
  <2>2. Fine(k)
    BY <2>1
  <2>3. kept[k + 1] = IF e \in set THEN Append(kept[k], e) ELSE kept[k]
    BY <1>4, <2>1
  <2>4. {seq[i] : i \in 1 .. k + 1} = {seq[i] : i \in 1..k} \cup {e}
    <3>1. 1 .. k + 1 = 1..k \cup {k + 1}
      OBVIOUS
    <3> QED BY <3>1
  <2>5. IsInjective(seq) => e \notin Seen(k)
    BY <1>1, <2>1 DEF IsInjective
  <2>6. CASE e \in set
    <3>1. /\ Append(kept[k], e) \in Seq(S)
          /\ Range(Append(kept[k], e)) = Range(kept[k]) \cup {e}
          /\ IsInjective(kept[k]) /\ e \notin Range(kept[k]) => IsInjective(Append(kept[k], e))
      BY <2>1, <2>2, AppendedRange
    <3>2. Range(kept[k + 1]) = Seen(k + 1)
      BY <2>2, <2>3, <2>4, <2>6, <3>1
    <3>3. IsInjective(seq) => IsInjective(kept[k + 1])
      BY <2>2, <2>3, <2>5, <2>6, <3>1
    <3>4. ASSUME Range(seq) \subseteq set
          PROVE  Len(kept[k + 1]) = k + 1 /\ \A i \in 1 .. k + 1 : kept[k + 1][i] = seq[i]
      <4>1. Len(kept[k]) = k /\ \A i \in 1..k : kept[k][i] = seq[i]
        BY <2>2, <3>4
      <4>2. /\ Len(Append(kept[k], e)) = k + 1
            /\ \A i \in 1..k : Append(kept[k], e)[i] = kept[k][i]
            /\ Append(kept[k], e)[k + 1] = e
        BY <2>1, <2>2, <4>1, AppendProperties
      <4> QED BY <2>3, <2>6, <4>1, <4>2
    <3> QED BY <2>3, <2>6, <3>1, <3>2, <3>3, <3>4
  <2>7. CASE e \notin set
    BY <2>1, <2>2, <2>3, <2>4, <2>7
  <2> QED BY <2>6, <2>7
<1>7. (\A k \in T : k + 1 \in T) /\ T \in SUBSET Nat
  BY <1>6
<1> HIDE DEF T
<1>8. n \in T
  BY <1>1, <1>5, <1>7, Induction
<1>9. Fine(n)
  BY <1>1, <1>8 DEF T
<1>10. Seen(n) = Range(seq) \cap set
  BY <1>1 DEF Range
<1>11. ASSUME Range(seq) \subseteq set PROVE kept[n] = seq
  <2>1. /\ kept[n] \in Seq(S) /\ Len(kept[n]) = Len(seq)
        /\ \A i \in 1..Len(kept[n]) : kept[n][i] = seq[i]
    BY <1>9, <1>11 DEF n
  <2> QED BY <2>1, SeqEqual
<1> QED BY <1>3, <1>9, <1>10, <1>11

LEMMA NewestFirstHolds ==
    ASSUME NEW commits \in SUBSET Commit
    PROVE  /\ NewestFirst(commits) \in Seq(Commit)
           /\ Range(NewestFirst(commits)) = commits
           /\ IsInjective(NewestFirst(commits))
BY AmongHolds, NewestAssumption DEF NewestFirst

(* Whole numbers.                                                          *)
LEMMA DivFacts ==
    ASSUME NEW a \in Nat, NEW k \in Nat \ {0}
    PROVE  a \div k \in Nat /\ k * (a \div k) <= a /\ a < k * ((a \div k) + 1)
OBVIOUS

LEMMA TimesLess ==
    ASSUME NEW a \in Int, NEW b \in Int, NEW k \in Nat \ {0}, k * a < k * b
    PROVE  a < b
OBVIOUS

LEMMA MinOfTwo ==
    ASSUME NEW a \in Int, NEW b \in Int
    PROVE  Min({a, b}) = IF a <= b THEN a ELSE b
<1>1. \E x \in {a, b} : \A y \in {a, b} : x <= y
  OBVIOUS
<1> QED BY <1>1 DEF Min

(* Cut leaves nothing out.                                                 *)
LEMMA CutCovers ==
    ASSUME NEW S, NEW seq \in Seq(S), NEW k \in Nat \ {0}
    PROVE  \E n \in Nat : /\ DOMAIN Cut(seq, k) = 1..n
                          /\ UNION {Range(Cut(seq, k)[i]) : i \in 1..n} = Range(seq)
<1> DEFINE len == Len(seq)
           n == (len + k - 1) \div k
           upto(i) == Min({k * i, len})
           piece(i) == SubSeq(seq, k * (i - 1) + 1, upto(i))
<1>1. len \in Nat /\ DOMAIN seq = 1..len /\ len + k - 1 \in Nat
  BY LenProperties
<1>2. n \in Nat /\ len + k - 1 < k * (n + 1)
  BY <1>1, DivFacts
<1>3. DOMAIN Cut(seq, k) = 1..n /\ \A i \in 1..n : Cut(seq, k)[i] = piece(i)
  BY DEF Cut
<1> HIDE DEF n
<1>4. ASSUME NEW i \in 1..n
      PROVE  /\ k * (i - 1) \in Nat /\ k * i \in Nat /\ k * i = k * (i - 1) + k
             /\ upto(i) = IF k * i <= len THEN k * i ELSE len
  <2>1. i \in Nat \ {0}
    BY <1>2
  <2>2. k * (i - 1) \in Nat /\ k * i \in Nat /\ k * i = k * (i - 1) + k
    BY <2>1
  <2> QED BY <1>1, <2>2, MinOfTwo
<1> HIDE DEF upto
<1>5. ASSUME NEW i \in 1..n
      PROVE  Range(piece(i)) = {seq[j] : j \in k * (i - 1) + 1 .. upto(i)}
  <2> DEFINE lo == k * (i - 1) + 1
             hi == upto(i)
  <2>1. lo \in Nat \ {0} /\ hi \in Nat /\ hi <= len
    BY <1>1, <1>4
  <2> HIDE DEF lo, hi
  <2>2. \A j \in lo..hi : j \in 1..len /\ seq[j] \in S
    BY <1>1, <2>1
  <2>3. /\ SubSeq(seq, lo, hi) \in Seq(S)
        /\ Len(SubSeq(seq, lo, hi)) = IF lo <= hi THEN hi - lo + 1 ELSE 0
        /\ \A j \in 1 .. hi - lo + 1 : SubSeq(seq, lo, hi)[j] = seq[lo + j - 1]
    BY <2>1, <2>2, SubSeqProperties
  <2>4. DOMAIN SubSeq(seq, lo, hi) = 1 .. hi - lo + 1
    BY <2>1, <2>3, LenProperties
  <2>5. ASSUME NEW j \in lo..hi PROVE \E x \in 1 .. hi - lo + 1 : seq[j] = seq[lo + x - 1]
    <3>1. (j - lo) + 1 \in 1 .. hi - lo + 1 /\ lo + ((j - lo) + 1) - 1 = j
      BY <2>1
    <3> QED BY <3>1
  <2>6. ASSUME NEW x \in 1 .. hi - lo + 1 PROVE lo + x - 1 \in lo..hi
    BY <2>1
  <2>7. Range(SubSeq(seq, lo, hi)) = {seq[j] : j \in lo..hi}
    <3> DEFINE s == SubSeq(seq, lo, hi)
    <3>1. DOMAIN s = 1 .. hi - lo + 1 /\ \A x \in 1 .. hi - lo + 1 : s[x] = seq[lo + x - 1]
      BY <2>3, <2>4
    <3> HIDE DEF s
    <3>2. Range(s) = {seq[lo + x - 1] : x \in 1 .. hi - lo + 1}
      BY <3>1 DEF Range
    <3>3. \A y \in Range(s) : y \in {seq[j] : j \in lo..hi}
      BY <2>6, <3>2
    <3>4. \A y \in {seq[j] : j \in lo..hi} : y \in Range(s)
      BY <2>5, <3>2
    <3> QED BY <3>3, <3>4 DEF s
  <2> QED BY <2>7 DEF lo, hi
<1>6. ASSUME NEW j \in 1..len PROVE \E i \in 1..n : j \in k * (i - 1) + 1 .. upto(i)
  <2> DEFINE q == (j - 1) \div k
  <2>1. j - 1 \in Nat
    BY <1>1
  <2>2. q \in Nat /\ k * q <= j - 1 /\ j - 1 < k * (q + 1)
    BY <2>1, DivFacts
  <2> HIDE DEF q
  <2>3. k * (q + 1) = k * q + k /\ k * q \in Nat
    BY <2>2
  <2>4. k * (q + 1) < k * (n + 1)
    BY <1>1, <1>2, <2>2, <2>3
  <2>5. q + 1 < n + 1
    BY <1>2, <2>2, <2>4, TimesLess
  <2>6. q + 1 \in 1..n /\ (q + 1) - 1 = q
    BY <1>2, <2>2, <2>5
  <2>7. upto(q + 1) = IF k * (q + 1) <= len THEN k * (q + 1) ELSE len
    BY <1>4, <2>6
  <2>8. j \in k * q + 1 .. upto(q + 1)
    BY <1>1, <2>1, <2>2, <2>3, <2>7
  <2> QED BY <2>6, <2>8
<1>7. ASSUME NEW i \in 1..n, NEW j \in k * (i - 1) + 1 .. upto(i) PROVE j \in 1..len
  <2> DEFINE lo == k * (i - 1)
             hi == k * i
  <2>1. lo \in Nat /\ hi \in Nat /\ upto(i) = IF hi <= len THEN hi ELSE len
    BY <1>4
  <2>2. j \in lo + 1 .. upto(i)
    OBVIOUS
  <2> HIDE DEF lo, hi
  <2> QED BY <1>1, <2>1, <2>2
<1>8. UNION {Range(piece(i)) : i \in 1..n} = Range(seq)
  <2>1. Range(seq) = {seq[j] : j \in 1..len}
    BY <1>1 DEF Range
  <2>2. ASSUME NEW i \in 1..n, NEW x \in Range(piece(i)) PROVE x \in Range(seq)
    BY <1>5, <1>7, <2>1
  <2>3. ASSUME NEW x \in Range(seq) PROVE \E i \in 1..n : x \in Range(piece(i))
    <3>1. PICK j \in 1..len : x = seq[j]
      BY <2>1
    <3>2. PICK i \in 1..n : j \in k * (i - 1) + 1 .. upto(i)
      BY <1>6
    <3>3. x \in Range(piece(i))
      BY <1>5, <3>1, <3>2
    <3> QED BY <3>3
  <2> HIDE DEF piece
  <2> QED BY <2>2, <2>3
<1>9. {Range(Cut(seq, k)[i]) : i \in 1..n} = {Range(piece(i)) : i \in 1..n}
  BY <1>3
<1> QED BY <1>2, <1>3, <1>8, <1>9

----------------------------------------------------------------------------
(* What the browser will know when the messages on the way are delivered.  *)

Told(repo) == [commits |-> repo.commits, branches |-> repo.branches]

(* The commits and branches after one message.                             *)
Effect(m, g) ==
    CASE m.type = "repoSummary" -> [commits |-> {}, branches |-> <<>>]
      [] m.type = "chunk" ->
             [commits  |-> Range(m.commits) \cup g.commits,
              branches |-> [b \in DOMAIN m.branches \cup DOMAIN g.branches |->
                               IF b \in DOMAIN m.branches THEN m.branches[b] ELSE g.branches[b]]]
      [] m.type = "delta" ->
             [commits  |-> applyDelta(g, m.delta).commits,
              branches |-> applyDelta(g, m.delta).branches]
      [] OTHER -> g

Leads(v, msgs) == \A i \in 1..Len(msgs) : v[i] = Effect(msgs[i], v[i - 1])

(* The messages lead from the graph g to the graph h.                      *)
Tells(msgs, g, h) ==
    /\ IsSequence(msgs)
    /\ \E v : v[0] = g /\ Leads(v, msgs) /\ v[Len(msgs)] = h

LEMMA TellsOne ==
    ASSUME NEW m, NEW g
    PROVE  Tells(<<m>>, g, Effect(m, g))
<1> DEFINE v == [i \in 0..1 |-> IF i = 0 THEN g ELSE Effect(m, g)]
<1>1. v[0] = g /\ v[1] = Effect(m, g)
  OBVIOUS
<1> HIDE DEF v
<1>2. Leads(v, <<m>>)
  <2>1. \A i \in 1..1 : i = 1 /\ i - 1 = 0
    OBVIOUS
  <2> QED BY <1>1, <2>1, SingleSequence DEF Leads
<1> QED BY <1>1, <1>2, SingleSequence DEF Tells

LEMMA TellsJoin ==
    ASSUME NEW s, NEW t, NEW g, NEW h, NEW k, Tells(s, g, h), Tells(t, h, k)
    PROVE  Tells(s \o t, g, k)
<1>1. PICK v : v[0] = g /\ Leads(v, s) /\ v[Len(s)] = h
  BY DEF Tells
<1>2. PICK w : w[0] = h /\ Leads(w, t) /\ w[Len(t)] = k
  BY DEF Tells
<1> DEFINE n == Len(s)
           p == Len(t)
           x == [i \in 0 .. n + p |-> IF i <= n THEN v[i] ELSE w[i - n]]
<1>3. /\ IsSequence(s \o t) /\ Len(s \o t) = n + p /\ n \in Nat /\ p \in Nat
      /\ \A i \in 1 .. n + p : (s \o t)[i] = IF i <= n THEN s[i] ELSE t[i - n]
  BY JoinedSequence DEF Tells
<1>4. \A i \in 0 .. n + p : x[i] = IF i <= n THEN v[i] ELSE w[i - n]
  OBVIOUS
<1> HIDE DEF x
<1>5. x[0] = g /\ x[n + p] = k
  <2>1. x[0] = v[0]
    BY <1>3, <1>4
  <2>2. CASE p = 0
    BY <1>1, <1>2, <1>3, <1>4, <2>2
  <2>3. CASE p # 0
    <3>1. n + p \in 0 .. n + p /\ ~(n + p <= n) /\ (n + p) - n = p
      BY <1>3, <2>3
    <3> QED BY <1>1, <1>2, <1>4, <2>1, <3>1
  <2> QED BY <1>1, <2>1, <2>2, <2>3
<1>6. ASSUME NEW i \in 1 .. n + p PROVE x[i] = Effect((s \o t)[i], x[i - 1])
  <2>1. i \in 0 .. n + p /\ i - 1 \in 0 .. n + p
    BY <1>3
  <2>2. CASE i <= n
    <3>1. i \in 1..n /\ i - 1 <= n
      BY <1>3, <2>2
    <3> QED BY <1>1, <1>3, <1>4, <2>1, <2>2, <3>1 DEF Leads
  <2>3. CASE i = n + 1
    <3>1. 1 \in 1..p /\ i - n = 1 /\ i - 1 = n /\ ~(i <= n) /\ n <= n /\ 1 - 1 = 0
      BY <1>3, <2>3
    <3>2. w[1] = Effect(t[1], h)
      BY <1>2, <3>1 DEF Leads
    <3>3. x[i] = w[1] /\ x[i - 1] = h /\ (s \o t)[i] = t[1]
      BY <1>1, <1>3, <1>4, <2>1, <3>1
    <3> QED BY <3>2, <3>3
  <2>4. CASE i > n + 1
    <3>1. i - n \in 1..p /\ (i - n) - 1 = (i - 1) - n /\ ~(i <= n) /\ ~(i - 1 <= n)
      BY <1>3, <2>4
    <3>2. w[i - n] = Effect(t[i - n], w[(i - n) - 1])
      BY <1>2, <3>1 DEF Leads
    <3>3. x[i] = w[i - n] /\ x[i - 1] = w[(i - 1) - n] /\ (s \o t)[i] = t[i - n]
      BY <1>3, <1>4, <2>1, <3>1
    <3> QED BY <3>1, <3>2, <3>3
  <2> QED BY <1>3, <2>2, <2>3, <2>4
<1>7. Leads(x, s \o t)
  BY <1>3, <1>6 DEF Leads
<1> QED BY <1>3, <1>5, <1>7 DEF Tells

LEMMA TellsRest ==
    ASSUME NEW s, NEW g, NEW h, Tells(s, g, h), s # <<>>
    PROVE  Tells(Tail(s), Effect(Head(s), g), h)
<1>1. PICK v : v[0] = g /\ Leads(v, s) /\ v[Len(s)] = h
  BY DEF Tells
<1> DEFINE n == Len(s) - 1
           w == [i \in 0..n |-> v[i + 1]]
<1>2. /\ IsSequence(Tail(s)) /\ Head(s) = s[1] /\ Len(s) = n + 1 /\ n \in Nat /\ Len(Tail(s)) = n
      /\ \A i \in 1..n : Tail(s)[i] = s[i + 1]
  BY RestOfSequence DEF Tells
<1>3. \A i \in 0..n : w[i] = v[i + 1]
  OBVIOUS
<1> HIDE DEF w, n
<1>4. w[0] = Effect(Head(s), g) /\ w[n] = h
  <2>1. 1 \in 1 .. n + 1 /\ 1 - 1 = 0 /\ 0 \in 0..n /\ n \in 0..n /\ 0 + 1 = 1
    BY <1>2
  <2>2. v[1] = Effect(s[1], v[0])
    BY <1>1, <1>2, <2>1 DEF Leads
  <2> QED BY <1>1, <1>2, <1>3, <2>1, <2>2
<1>5. ASSUME NEW i \in 1..n PROVE w[i] = Effect(Tail(s)[i], w[i - 1])
  <2>1. /\ i + 1 \in 1 .. n + 1 /\ (i + 1) - 1 = i /\ i \in 0..n /\ i - 1 \in 0..n
        /\ (i - 1) + 1 = i
    BY <1>2
  <2>2. v[i + 1] = Effect(s[i + 1], v[i])
    BY <1>1, <1>2, <2>1 DEF Leads
  <2>3. w[i] = v[i + 1] /\ w[i - 1] = v[i] /\ Tail(s)[i] = s[i + 1]
    BY <1>2, <1>3, <2>1
  <2> QED BY <2>2, <2>3
<1>6. Leads(w, Tail(s))
  BY <1>2, <1>5 DEF Leads
<1> QED BY <1>2, <1>4, <1>6 DEF Tells

LEMMA TellsNothing ==
    ASSUME NEW g, NEW h, Tells(<<>>, g, h)
    PROVE  g = h
<1>1. Len(<<>>) = 0
  BY EmptySeq
<1> QED BY <1>1 DEF Tells

(* A repository as the assumptions describe it.                            *)
LEMMA RepoFacts ==
    ASSUME NEW repo \in Repos
    PROVE  /\ repo \in Repository /\ repo.commits \subseteq Commit
           /\ repo.branches = [b \in DOMAIN repo.branches |-> repo.branches[b]]
           /\ \A b \in DOMAIN repo.branches : repo.branches[b] \in repo.commits
<1>1. repo \in Repository
  BY ReposAssumption
<1>2. PICK D \in SUBSET Branch : repo.branches \in [D -> Commit]
  BY <1>1 DEF Repository, PartialFcn
<1> QED BY <1>1, <1>2, TipsAssumption DEF Repository, Range

(* A delta leads exactly from the old repository to the new one.           *)
LEMMA DeltaTells ==
    ASSUME NEW new \in Repos, NEW old \in Repos, NEW m,
           m.type = "delta", m.delta = DiffRepositories(new, old)
    PROVE  Effect(m, Told(old)) = Told(new)
<1> DEFINE d == DiffRepositories(new, old)
           h == applyDelta(Told(old), d)
<1>1. Effect(m, Told(old)) = [commits |-> h.commits, branches |-> h.branches]
  BY DEF Effect
<1>2. h.commits = new.commits
  BY RepoFacts DEF applyDelta, DiffRepositories, Told
<1>3. h.branches = new.branches
  <2>1. /\ DOMAIN d.addedBranches = DOMAIN new.branches \ DOMAIN old.branches
        /\ DOMAIN d.amendedBranches = {b \in DOMAIN new.branches \cap DOMAIN old.branches :
                                          new.branches[b] # old.branches[b]}
        /\ d.deletedBranches = DOMAIN old.branches \ DOMAIN new.branches
        /\ \A b \in DOMAIN d.addedBranches : d.addedBranches[b] = new.branches[b]
        /\ \A b \in DOMAIN d.amendedBranches : d.amendedBranches[b] = new.branches[b]
    BY DEF DiffRepositories
  <2> HIDE DEF d
  <2> DEFINE names == (DOMAIN old.branches \cup (DOMAIN d.addedBranches \cup DOMAIN d.amendedBranches))
                          \ d.deletedBranches
             tip(b) == IF b \in DOMAIN d.amendedBranches THEN d.amendedBranches[b]
                       ELSE IF b \in DOMAIN d.addedBranches THEN d.addedBranches[b]
                       ELSE old.branches[b]
  <2>2. h.branches = [b \in names |-> tip(b)]
    BY DEF applyDelta, Told
  <2>3. names = DOMAIN new.branches
    BY <2>1
  <2>4. \A b \in DOMAIN new.branches : tip(b) = new.branches[b]
    BY <2>1
  <2> HIDE DEF names, tip
  <2>5. h.branches = [b \in DOMAIN new.branches |-> new.branches[b]]
    BY <2>2, <2>3, <2>4
  <2> QED BY <2>5, RepoFacts
<1> HIDE DEF h
<1> QED BY <1>1, <1>2, <1>3 DEF Told

LEMMA UpdateTells ==
    ASSUME NEW new \in Repos, NEW old \in Repos
    PROVE  /\ Tells(sendUpdate(new, old), Told(old), Told(new))
           /\ \E s : IsSequence(s) /\ sendUpdate(new, old) = s \o <<HeadMessage(new)>>
<1> DEFINE d == DiffRepositories(new, old)
           m == [type |-> "delta", delta |-> d]
           first == IF IsEmpty(d) THEN <<>> ELSE <<m>>
<1>1. sendUpdate(new, old) = first \o <<HeadMessage(new)>>
  BY DEF sendUpdate
<1>2. Tells(<<HeadMessage(new)>>, Told(new), Told(new))
  <2>1. Effect(HeadMessage(new), Told(new)) = Told(new)
    BY DEF Effect, HeadMessage
  <2> QED BY <2>1, TellsOne
<1>3. Tells(first, Told(old), Told(new))
  <2>1. CASE IsEmpty(d)
    <3>1. new.commits = old.commits
      BY <2>1 DEF IsEmpty, DiffRepositories
    <3>2. /\ DOMAIN new.branches = DOMAIN old.branches
          /\ \A b \in DOMAIN new.branches : new.branches[b] = old.branches[b]
      <4>1. /\ DOMAIN d.addedBranches = DOMAIN new.branches \ DOMAIN old.branches
            /\ DOMAIN d.amendedBranches = {b \in DOMAIN new.branches \cap DOMAIN old.branches :
                                              new.branches[b] # old.branches[b]}
            /\ d.deletedBranches = DOMAIN old.branches \ DOMAIN new.branches
        BY DEF DiffRepositories
      <4> HIDE DEF d
      <4> QED BY <2>1, <4>1 DEF IsEmpty
    <3>3. new.branches = old.branches
      <4>1. /\ new.branches = [b \in DOMAIN new.branches |-> new.branches[b]]
            /\ old.branches = [b \in DOMAIN old.branches |-> old.branches[b]]
        BY RepoFacts
      <4> QED BY <3>2, <4>1
    <3> DEFINE v == [i \in 0..0 |-> Told(old)]
    <3>4. v[0] = Told(old)
      OBVIOUS
    <3> HIDE DEF v
    <3>5. IsSequence(<<>>) /\ Len(<<>>) = 0 /\ 1..0 = {}
      BY EmptySeq DEF IsSequence
    <3>6. Tells(<<>>, Told(old), Told(old))
      BY <3>4, <3>5 DEF Tells, Leads
    <3> QED BY <2>1, <3>1, <3>3, <3>6 DEF Told
  <2>2. CASE ~IsEmpty(d)
    <3>1. m.type = "delta" /\ m.delta = d
      OBVIOUS
    <3> HIDE DEF m
    <3> QED BY <2>2, <3>1, DeltaTells, TellsOne
  <2> QED BY <2>1, <2>2
<1> HIDE DEF first, d
<1>4. Tells(first \o <<HeadMessage(new)>>, Told(old), Told(new))
  BY <1>2, <1>3, TellsJoin
<1>5. IsSequence(first)
  BY <1>3 DEF Tells
<1> QED BY <1>1, <1>4, <1>5

(* The batches of a bootstrap add up.                                      *)

LEMMA BatchesTell ==
    ASSUME NEW repo \in Repos, NEW msgs, IsSequence(msgs),
           \A i \in 1..Len(msgs) :
               /\ msgs[i].type = "chunk"
               /\ msgs[i].branches = filterBranchesBySentHashes(repo.branches, Range(msgs[i].commits)),
           UNION {Range(msgs[i].commits) : i \in 1..Len(msgs)} = repo.commits
    PROVE  Tells(msgs, [commits |-> {}, branches |-> <<>>], Told(repo))
<1> DEFINE n == Len(msgs)
           Sent(i) == UNION {Range(msgs[j].commits) : j \in 1..i}
           With(S) == [b \in {a \in DOMAIN repo.branches : repo.branches[a] \in S} |-> repo.branches[b]]
           v == [i \in 0..n |-> [commits |-> Sent(i), branches |-> With(Sent(i))]]
<1>1. n \in Nat
  BY LenProperties DEF IsSequence
<1>2. \A i \in 0..n : v[i].commits = Sent(i) /\ v[i].branches = With(Sent(i))
  OBVIOUS
<1>3. \A i \in 0..n : v[i] = [commits |-> Sent(i), branches |-> With(Sent(i))]
  OBVIOUS
<1> HIDE DEF v
<1>4. v[0] = [commits |-> {}, branches |-> <<>>]
  <2>1. Sent(0) = {}
    OBVIOUS
  <2> HIDE DEF Sent
  <2>2. With({}) = <<>>
    <3>1. {a \in DOMAIN repo.branches : repo.branches[a] \in {}} = {}
      OBVIOUS
    <3>2. [b \in {} |-> repo.branches[b]] = <<>>
      OBVIOUS
    <3> QED BY <3>1, <3>2
  <2> HIDE DEF With
  <2>3. 0 \in 0..n
    BY <1>1
  <2> QED BY <1>3, <2>1, <2>2, <2>3
<1>5. ASSUME NEW i \in 1..n PROVE v[i] = Effect(msgs[i], v[i - 1])
  <2> DEFINE new == Range(msgs[i].commits)
             old == Sent(i - 1)
             m == msgs[i]
             both == [b \in DOMAIN m.branches \cup DOMAIN With(old) |->
                         IF b \in DOMAIN m.branches THEN m.branches[b] ELSE With(old)[b]]
  <2>1. i \in 0..n /\ i - 1 \in 0..n
    BY <1>1
  <2>2. Sent(i) = new \cup old
    <3>1. 1..i = 1 .. i - 1 \cup {i}
      BY <1>1
    <3> QED BY <3>1
  <2>3. m.type = "chunk" /\ m.branches = With(new)
    BY DEF filterBranchesBySentHashes, Restrict
  <2>4. v[i - 1].commits = old /\ v[i - 1].branches = With(old)
    BY <1>2, <2>1
  <2>5. v[i] = [commits |-> new \cup old, branches |-> With(new \cup old)]
    BY <1>3, <2>1, <2>2
  <2> HIDE DEF m, old, new
  <2>6. Effect(m, v[i - 1]) = [commits |-> new \cup old, branches |-> both]
    BY <2>3, <2>4 DEF Effect, new, m
  <2>7. both = With(new \cup old)
    BY <2>3
  <2> QED BY <2>5, <2>6, <2>7 DEF m
<1>6. v[n] = Told(repo)
  <2>1. n \in 0..n /\ Sent(n) = repo.commits
    BY <1>1
  <2> HIDE DEF Sent
  <2>2. {a \in DOMAIN repo.branches : repo.branches[a] \in repo.commits} = DOMAIN repo.branches
    BY RepoFacts
  <2>3. With(repo.commits) = repo.branches
    BY <2>2, RepoFacts
  <2> HIDE DEF With
  <2> QED BY <1>3, <2>1, <2>3 DEF Told
<1>7. Leads(v, msgs)
  BY <1>5 DEF Leads
<1> QED BY <1>4, <1>6, <1>7 DEF Tells

LEMMA PlanCovers ==
    ASSUME NEW repo \in Repos
    PROVE  LET msgs == planInitialCommitBatches(repo)
           IN  /\ IsSequence(msgs)
               /\ \A i \in 1..Len(msgs) :
                      /\ msgs[i].type = "chunk"
                      /\ msgs[i].branches = filterBranchesBySentHashes(repo.branches, Range(msgs[i].commits))
               /\ UNION {Range(msgs[i].commits) : i \in 1..Len(msgs)} = repo.commits
<1> DEFINE newest == NewestFirst(repo.commits)
           target == IF repo.head \in repo.commits THEN repo.head ELSE Head(newest)
           prior(h) == \/ h \in Nearby \cup repo.stashes \cup {target}
                       \/ h \in Range(repo.branches) \cup Range(repo.tags)
           level == IF Cardinality(repo.commits) > ForceLimit THEN "stub" ELSE "full"
           chunk(commits, data) ==
               [type |-> "chunk", commits |-> commits, level |-> data, head |-> repo.head,
                branches |-> filterBranchesBySentHashes(repo.branches, Range(commits))]
           P == {h \in repo.commits : prior(h)}
           Q == {h \in repo.commits : ~prior(h)}
           first == Cut(NewestFirst(P), BootstrapMax)
           rest  == Cut(NewestFirst(Q), BootstrapMax)
           F == [i \in DOMAIN first |-> chunk(first[i], "full")]
           R == [i \in DOMAIN rest |-> chunk(rest[i], level)]
<1>1. planInitialCommitBatches(repo) = F \o R
  BY DEF planInitialCommitBatches
<1>2. repo.commits \subseteq Commit /\ P \cup Q = repo.commits /\ P \in SUBSET Commit /\ Q \in SUBSET Commit
  BY RepoFacts
<1> HIDE DEF P, Q, level
<1>3. BootstrapMax \in Nat \ {0}
  BY ControllerAssumption
<1>4. PICK n \in Nat : DOMAIN first = 1..n /\ UNION {Range(first[i]) : i \in 1..n} = P
  <2>1. NewestFirst(P) \in Seq(Commit) /\ Range(NewestFirst(P)) = P
    BY <1>2, NewestFirstHolds
  <2> QED BY <1>3, <2>1, CutCovers
<1>5. PICK k \in Nat : DOMAIN rest = 1..k /\ UNION {Range(rest[i]) : i \in 1..k} = Q
  <2>1. NewestFirst(Q) \in Seq(Commit) /\ Range(NewestFirst(Q)) = Q
    BY <1>2, NewestFirstHolds
  <2> QED BY <1>3, <2>1, CutCovers
<1> HIDE DEF first, rest
<1>6. \A commits, data :
          /\ chunk(commits, data).type = "chunk" /\ chunk(commits, data).commits = commits
          /\ chunk(commits, data).branches = filterBranchesBySentHashes(repo.branches, Range(commits))
  OBVIOUS
<1> HIDE DEF chunk
<1>7. /\ IsSequence(F) /\ Len(F) = n /\ \A i \in 1..n : F[i] = chunk(first[i], "full")
      /\ IsSequence(R) /\ Len(R) = k /\ \A i \in 1..k : R[i] = chunk(rest[i], level)
  <2>1. F \in Seq({chunk(first[i], "full") : i \in 1..n}) /\ Len(F) = n
    BY <1>4
  <2>2. R \in Seq({chunk(rest[i], level) : i \in 1..k}) /\ Len(R) = k
    BY <1>5
  <2> QED BY <1>4, <1>5, <2>1, <2>2 DEF IsSequence
<1> HIDE DEF F, R
<1> DEFINE all == F \o R
<1>8. /\ IsSequence(all) /\ Len(all) = n + k
      /\ \A i \in 1 .. n + k : all[i] = IF i <= n THEN F[i] ELSE R[i - n]
  BY <1>7, JoinedSequence
<1> HIDE DEF all
<1>9. ASSUME NEW i \in 1 .. n + k
      PROVE  \/ i \in 1..n /\ all[i] = chunk(first[i], "full")
             \/ i - n \in 1..k /\ all[i] = chunk(rest[i - n], level)
  BY <1>7, <1>8
<1>10. \A i \in 1 .. n + k :
          /\ all[i].type = "chunk"
          /\ all[i].branches = filterBranchesBySentHashes(repo.branches, Range(all[i].commits))
  BY <1>6, <1>9
<1>11. \A i \in 1 .. n + k : Range(all[i].commits) \subseteq repo.commits
  <2> SUFFICES ASSUME NEW i \in 1 .. n + k PROVE Range(all[i].commits) \subseteq repo.commits
    OBVIOUS
  <2>1. CASE i \in 1..n /\ all[i] = chunk(first[i], "full")
    BY <1>2, <1>4, <1>6, <2>1
  <2>2. CASE i - n \in 1..k /\ all[i] = chunk(rest[i - n], level)
    BY <1>2, <1>5, <1>6, <2>2
  <2> QED BY <1>9, <2>1, <2>2
<1>12. ASSUME NEW h \in repo.commits PROVE \E i \in 1 .. n + k : h \in Range(all[i].commits)
  <2>1. CASE h \in P
    <3>1. PICK i \in 1..n : h \in Range(first[i])
      BY <1>4, <2>1
    <3>2. i \in 1 .. n + k /\ i <= n
      BY <1>4, <1>5
    <3>3. all[i].commits = first[i]
      BY <1>6, <1>7, <1>8, <3>2
    <3> QED BY <3>1, <3>2, <3>3
  <2>2. CASE h \in Q
    <3>1. PICK i \in 1..k : h \in Range(rest[i])
      BY <1>5, <2>2
    <3>2. n + i \in 1 .. n + k /\ ~(n + i <= n) /\ (n + i) - n = i
      BY <1>4, <1>5
    <3>3. all[n + i].commits = rest[i]
      BY <1>6, <1>7, <1>8, <3>2
    <3> QED BY <3>1, <3>2, <3>3
  <2> QED BY <1>2, <2>1, <2>2
<1>13. UNION {Range(all[i].commits) : i \in 1 .. n + k} = repo.commits
  BY <1>11, <1>12
<1> QED BY <1>1, <1>8, <1>10, <1>13 DEF all

LEMMA BootstrapTells ==
    ASSUME NEW repo \in Repos, NEW g
    PROVE  /\ Tells(sendInitialBootstrap(repo), g, Told(repo))
           /\ \E s : IsSequence(s) /\ sendInitialBootstrap(repo) = s \o <<HeadMessage(repo)>>
<1> DEFINE start == <<[type |-> "repoSummary"]>>
           none  == [commits |-> {}, branches |-> <<>>]
           done  == [type |-> "complete", head |-> repo.head, tags |-> repo.tags, stashes |-> repo.stashes]
           plan  == planInitialCommitBatches(repo)
           boot  == plan \o <<done>>
           s     == start \o boot
<1>1. sendInitialBootstrap(repo) = s \o <<HeadMessage(repo)>>
  BY DEF sendInitialBootstrap, buildBootstrapMessages
<1>2. Tells(start, g, none)
  <2> DEFINE m == [type |-> "repoSummary"]
  <2>1. Effect(m, g) = none
    BY DEF Effect
  <2> HIDE DEF m, none
  <2>2. Tells(<<m>>, g, none)
    BY <2>1, TellsOne
  <2> QED BY <2>2 DEF m
<1>3. Tells(plan, none, Told(repo))
  BY PlanCovers, BatchesTell
<1>4. Tells(<<done>>, Told(repo), Told(repo))
  <2>1. Effect(done, Told(repo)) = Told(repo)
    BY DEF Effect
  <2> QED BY <2>1, TellsOne
<1>5. Tells(<<HeadMessage(repo)>>, Told(repo), Told(repo))
  <2>1. Effect(HeadMessage(repo), Told(repo)) = Told(repo)
    BY DEF Effect, HeadMessage
  <2> QED BY <2>1, TellsOne
<1> HIDE DEF start, none, done, plan
<1>6. Tells(boot, none, Told(repo))
  BY <1>3, <1>4, TellsJoin
<1> HIDE DEF boot
<1>7. Tells(s, g, Told(repo))
  BY <1>2, <1>6, TellsJoin
<1>8. IsSequence(s)
  BY <1>7 DEF Tells
<1> HIDE DEF s
<1>9. Tells(s \o <<HeadMessage(repo)>>, g, Told(repo))
  BY <1>5, <1>7, TellsJoin
<1> QED BY <1>1, <1>8, <1>9

----------------------------------------------------------------------------
(* The controller and the messages on the way to it.                       *)

Shows(c, g) == g.commits \subseteq DOMAIN c.commits /\ c.branches = g.branches

(* While there is a connection, what the controller shows and the messages *)
(* on the way lead to the server's repository, and the last one of them    *)
(* says where its HEAD is.                                                 *)
FeedInv ==
    /\ Whole(ctl) /\ server \in Repos
    /\ Offline => feed = <<>>
    /\ ~Offline =>
         /\ \E g : Shows(ctl, g) /\ Tells(feed, g, Told(server))
         /\ feed = <<>> => ctl.head = server.head
         /\ feed # <<>> => feed[Len(feed)] = HeadMessage(server)

LEMMA StillShown ==
    ASSUME FeedInv, Whole(ctl'), DOMAIN ctl.commits \subseteq DOMAIN ctl'.commits,
           ctl'.branches = ctl.branches, ctl'.head = ctl.head, UNCHANGED <<feed, sync, server>>
    PROVE  FeedInv'
<1>1. ASSUME NEW g, Shows(ctl, g) PROVE Shows(ctl', g)
  BY <1>1 DEF Shows
<1>2. CASE Offline
  BY <1>2 DEF FeedInv, Offline
<1>3. CASE ~Offline
  <2>1. PICK g : Shows(ctl, g) /\ Tells(feed, g, Told(server))
    BY <1>3 DEF FeedInv
  <2>2. Shows(ctl', g) /\ Tells(feed', g, Told(server'))
    BY <1>1, <2>1
  <2> QED BY <1>3, <2>2 DEF FeedInv, Offline
<1> QED BY <1>2, <1>3

LEMMA KeepsShown ==
    ASSUME FeedInv, Keeps(ctl, ctl'), UNCHANGED <<feed, sync, server>>
    PROVE  FeedInv'
BY StillShown DEF Keeps, KeepsHydration

LEMMA SequenceEnds ==
    ASSUME NEW s, NEW m, IsSequence(s)
    PROVE  s \o <<m>> # <<>> /\ (s \o <<m>>)[Len(s \o <<m>>)] = m
<1>1. /\ Len(s \o <<m>>) = Len(s) + 1 /\ Len(s) \in Nat
      /\ \A i \in 1 .. Len(s) + 1 : (s \o <<m>>)[i] = IF i <= Len(s) THEN s[i] ELSE <<m>>[i - Len(s)]
  BY JoinedSequence, SingleSequence
<1>2. Len(s) + 1 \in 1 .. Len(s) + 1 /\ ~(Len(s) + 1 <= Len(s)) /\ (Len(s) + 1) - Len(s) = 1
  BY <1>1
<1>3. s \o <<m>> # <<>>
  BY <1>1, EmptySeq
<1> QED BY <1>1, <1>2, <1>3, SingleSequence

(* One message delivered, to a controller that takes its effect.           *)
LEMMA MessageShown ==
    ASSUME FeedInv, feed # <<>>, NEW c, KeepsHydration(ctl, c), Becomes(c),
           \A g : Shows(ctl, g) => Shows(c, Effect(Head(feed), g)),
           Head(feed).type = "head" => c.head = Head(feed).head,
           feed' = Tail(feed), server' = server, ~Offline'
    PROVE  FeedInv'
<1>1. ~Offline
  BY DEF FeedInv
<1>2. PICK g : Shows(ctl, g) /\ Tells(feed, g, Told(server))
  BY <1>1 DEF FeedInv
<1>3. Whole(ctl') /\ ctl'.commits = c.commits /\ ctl'.branches = c.branches /\ ctl'.head = c.head
  BY CollectedData DEF Becomes, Keeps, KeepsHydration
<1>4. Tells(feed', Effect(Head(feed), g), Told(server'))
  BY <1>2, TellsRest
<1>5. Shows(ctl', Effect(Head(feed), g))
  BY <1>2, <1>3 DEF Shows
<1>6. /\ Head(feed) = feed[1] /\ Len(feed) \in Nat \ {0} /\ Len(feed') = Len(feed) - 1
      /\ \A i \in 1 .. Len(feed) - 1 : feed'[i] = feed[i + 1]
      /\ IsSequence(feed')
  BY <1>2, RestOfSequence DEF Tells
<1>7. feed' = <<>> => ctl'.head = server'.head
  <2> SUFFICES ASSUME feed' = <<>> PROVE c.head = server.head
    BY <1>3
  <2>1. Len(feed) = 1
    BY <1>6, EmptySeq
  <2>2. Head(feed) = HeadMessage(server)
    BY <1>1, <1>6, <2>1 DEF FeedInv
  <2> QED BY <2>2 DEF HeadMessage
<1>8. feed' # <<>> => feed'[Len(feed')] = HeadMessage(server')
  <2> SUFFICES ASSUME feed' # <<>> PROVE feed'[Len(feed')] = HeadMessage(server)
    OBVIOUS
  <2>1. Len(feed') \in Nat \ {0}
    BY <1>6, RestOfSequence
  <2>2. Len(feed') \in 1 .. Len(feed) - 1 /\ Len(feed') + 1 = Len(feed)
    BY <1>6, <2>1
  <2>3. feed'[Len(feed')] = feed[Len(feed)]
    BY <1>6, <2>2
  <2> QED BY <1>1, <2>3 DEF FeedInv
<1>9. server' \in Repos
  BY DEF FeedInv
<1> QED BY <1>3, <1>4, <1>5, <1>7, <1>8, <1>9 DEF FeedInv

LEMMA FeedShown ==
    ASSUME FeedInv, Feed
    PROVE  FeedInv'
<1>1. Whole(ctl)
  BY DEF FeedInv
<1>2. CASE Connect
  <2> DEFINE g == [commits |-> {}, branches |-> ctl.branches]
  <2>1. Shows(ctl', g)
    BY <1>2 DEF Shows, Connect
  <2> HIDE DEF g
  <2>2. Tells(feed', g, Told(server))
    BY <1>2, BootstrapTells DEF Connect, FeedInv
  <2>3. PICK s : IsSequence(s) /\ feed' = s \o <<HeadMessage(server)>>
    BY <1>2, BootstrapTells DEF Connect, FeedInv
  <2>4. feed' # <<>> /\ feed'[Len(feed')] = HeadMessage(server)
    BY <2>3, SequenceEnds
  <2>5. ctl' = ctl /\ server' = server /\ sync' = "boot"
    BY <1>2 DEF Connect
  <2> QED BY <1>1, <2>1, <2>2, <2>4, <2>5 DEF FeedInv, Offline
<1>3. ASSUME feed # <<>> PROVE ~Offline
  BY <1>3 DEF FeedInv
<1>4. CASE OnRepoMetadata
  <2> DEFINE c == resetData(ctl)
  <2>1. /\ KeepsHydration(ctl, c) /\ c.commits = <<>> /\ c.branches = <<>>
    BY <1>1, ResetData
  <2>2. /\ feed # <<>> /\ Head(feed).type = "repoSummary" /\ feed' = Tail(feed)
        /\ server' = server /\ sync' = sync /\ Becomes(c)
    BY <1>4 DEF OnRepoMetadata, Deliver
  <2> HIDE DEF c
  <2>3. \A g : Shows(c, Effect(Head(feed), g))
    BY <2>1, <2>2 DEF Shows, Effect
  <2> QED BY <1>3, <2>1, <2>2, <2>3, MessageShown DEF Offline
<1>5. CASE OnBootstrapChunk
  <2> DEFINE m == Head(feed)
             c == ApplyChunk(ctl, m)
  <2>1. /\ KeepsHydration(ctl, c)
        /\ DOMAIN c.commits = Range(m.commits) \cup DOMAIN ctl.commits
        /\ c.branches = [b \in DOMAIN m.branches \cup DOMAIN ctl.branches |->
                            IF b \in DOMAIN m.branches THEN m.branches[b] ELSE ctl.branches[b]]
    BY <1>1, ChunkData
  <2>2. /\ feed # <<>> /\ m.type = "chunk" /\ feed' = Tail(feed)
        /\ server' = server /\ sync' = sync /\ Becomes(c)
    BY <1>5 DEF OnBootstrapChunk, Deliver
  <2> HIDE DEF c
  <2>3. ASSUME NEW g, Shows(ctl, g) PROVE Shows(c, Effect(m, g))
    <3>1. Effect(m, g) = [commits  |-> Range(m.commits) \cup g.commits,
                          branches |-> [b \in DOMAIN m.branches \cup DOMAIN g.branches |->
                               IF b \in DOMAIN m.branches THEN m.branches[b] ELSE g.branches[b]]]
      BY <2>2 DEF Effect
    <3> HIDE DEF m
    <3> QED BY <2>1, <2>3, <3>1 DEF Shows
  <2> QED BY <1>3, <2>1, <2>2, <2>3, MessageShown DEF Offline
<1>6. CASE OnBootstrapComplete
  <2> DEFINE m == Head(feed)
             c == ApplyComplete(ctl, m)
  <2>1. KeepsHydration(ctl, c) /\ c.commits = ctl.commits /\ c.branches = ctl.branches
    BY <1>1, CompleteData
  <2>2. /\ feed # <<>> /\ m.type = "complete" /\ feed' = Tail(feed)
        /\ server' = server /\ sync' = "live" /\ Becomes(c)
    BY <1>6 DEF OnBootstrapComplete, Deliver
  <2> HIDE DEF c
  <2>3. \A g : Shows(ctl, g) => Shows(c, Effect(m, g))
    BY <2>1, <2>2 DEF Shows, Effect
  <2> QED BY <2>1, <2>2, <2>3, MessageShown DEF Offline
<1>7. CASE OnDelta
  <2> DEFINE m == Head(feed)
             d == m.delta
             c == ApplyLive(ctl, d)
             old == [commits |-> DOMAIN ctl.commits, branches |-> ctl.branches, head |-> ctl.head,
                     tags |-> ctl.tags, stashes |-> ctl.stashes]
  <2>1. /\ KeepsHydration(ctl, c) /\ DOMAIN c.commits = applyDelta(old, d).commits
        /\ c.branches = applyDelta(old, d).branches
    BY <1>1, LiveData
  <2>2. /\ feed # <<>> /\ m.type = "delta" /\ feed' = Tail(feed)
        /\ server' = server /\ sync' = sync /\ Becomes(c)
    BY <1>7 DEF OnDelta, Deliver
  <2> HIDE DEF c
  <2>3. ASSUME NEW g, Shows(ctl, g) PROVE Shows(c, Effect(m, g))
    <3>1. Effect(m, g) = [commits |-> applyDelta(g, d).commits, branches |-> applyDelta(g, d).branches]
      BY <2>2 DEF Effect
    <3>2. g.commits \subseteq old.commits /\ g.branches = old.branches
      BY <2>3 DEF Shows
    <3> HIDE DEF d, old
    <3>3. applyDelta(g, d).commits \subseteq applyDelta(old, d).commits
      BY <3>2 DEF applyDelta
    <3>4. applyDelta(g, d).branches = applyDelta(old, d).branches
      BY <3>2 DEF applyDelta
    <3> QED BY <2>1, <3>1, <3>3, <3>4 DEF Shows
  <2> QED BY <1>3, <2>1, <2>2, <2>3, MessageShown DEF Offline
<1>8. CASE OnHead
  <2> DEFINE m == Head(feed)
             c == setHeadHash(ctl, m.head)
  <2>1. KeepsHydration(ctl, c) /\ c.commits = ctl.commits /\ c.branches = ctl.branches /\ c.head = m.head
    BY <1>1, HeadData
  <2>2. /\ feed # <<>> /\ m.type = "head" /\ feed' = Tail(feed)
        /\ server' = server /\ sync' = sync /\ Becomes(c)
    BY <1>8 DEF OnHead, Deliver
  <2> HIDE DEF c
  <2>3. \A g : Shows(ctl, g) => Shows(c, Effect(m, g))
    BY <2>1, <2>2 DEF Shows, Effect
  <2> QED BY <1>3, <2>1, <2>2, <2>3, MessageShown DEF Offline
<1> QED BY <1>2, <1>4, <1>5, <1>6, <1>7, <1>8 DEF Feed

LEMMA UpdateShown ==
    ASSUME FeedInv, NEW repo \in Repos, ServerChanges(repo)
    PROVE  FeedInv'
<1>1. ctl' = ctl /\ sync' = sync /\ server' = repo /\ Whole(ctl) /\ server \in Repos
  BY DEF ServerChanges, FeedInv
<1>2. CASE Offline
  BY <1>1, <1>2 DEF ServerChanges, FeedInv, Offline
<1>3. CASE ~Offline
  <2> DEFINE u == sendUpdate(repo, server)
  <2>1. feed' = feed \o u
    BY <1>3 DEF ServerChanges
  <2>2. PICK g : Shows(ctl, g) /\ Tells(feed, g, Told(server))
    BY <1>3 DEF FeedInv
  <2>3. /\ Tells(u, Told(server), Told(repo))
        /\ \E s : IsSequence(s) /\ u = s \o <<HeadMessage(repo)>>
    BY <1>1, UpdateTells
  <2> HIDE DEF u
  <2>4. Tells(feed', g, Told(repo))
    BY <2>1, <2>2, <2>3, TellsJoin
  <2>5. feed' # <<>> /\ feed'[Len(feed')] = HeadMessage(repo)
    <3>1. u # <<>> /\ u[Len(u)] = HeadMessage(repo) /\ IsSequence(u) /\ IsSequence(feed)
      BY <2>2, <2>3, SequenceEnds DEF Tells
    <3>2. Len(u) \in Nat \ {0}
      BY <3>1, RestOfSequence
    <3>3. /\ Len(feed') = Len(feed) + Len(u) /\ Len(feed) \in Nat
          /\ \A i \in 1 .. Len(feed) + Len(u) :
                feed'[i] = IF i <= Len(feed) THEN feed[i] ELSE u[i - Len(feed)]
      BY <2>1, <3>1, JoinedSequence
    <3>4. /\ Len(feed) + Len(u) \in 1 .. Len(feed) + Len(u) /\ ~(Len(feed) + Len(u) <= Len(feed))
          /\ (Len(feed) + Len(u)) - Len(feed) = Len(u)
      BY <3>2, <3>3
    <3>5. feed' # <<>>
      BY <3>2, <3>3, EmptySeq
    <3> QED BY <3>1, <3>3, <3>4, <3>5
  <2> QED BY <1>1, <1>3, <2>2, <2>4, <2>5 DEF FeedInv, Offline
<1> QED BY <1>2, <1>3

LEMMA FeedInit == Init => FeedInv
<1> SUFFICES ASSUME Init PROVE FeedInv
  OBVIOUS
<1>1. PICK h \in Heights : ctl = NewController(h)
  BY DEF Init
<1>2. Whole(ctl)
  BY <1>1 DEF NewController, Whole, Core
<1> QED BY <1>2 DEF Init, FeedInv, Offline

LEMMA FeedStep == FeedInv /\ [Next]_vars => FeedInv'
<1> SUFFICES ASSUME FeedInv, [Next]_vars PROVE FeedInv'
  OBVIOUS
<1>1. Whole(ctl)
  BY DEF FeedInv
<1>2. CASE Feed
  BY <1>2, FeedShown
<1>3. ASSUME ctl' = ctl, UNCHANGED <<feed, sync, server>> PROVE FeedInv'
  BY <1>1, <1>3, KeepsItself, KeepsShown
<1>4. ASSUME NEW c, NEW batch, KeepsHydration(ctl, c), DOMAIN ctl.commits \subseteq DOMAIN c.commits,
             c.branches = ctl.branches, c.head = ctl.head,
             ctl' = EndBatch(c, batch) \/ Becomes(EndBatch(c, batch)), UNCHANGED <<feed, sync, server>>
      PROVE  FeedInv'
  <2> DEFINE freed == [c EXCEPT !.inflight = @ \ batch]
             d == EndBatch(c, batch)
  <2>1. /\ Whole(freed) /\ freed.commits = c.commits /\ freed.branches = c.branches
        /\ freed.head = c.head
    BY <1>4 DEF KeepsHydration, Whole, Core
  <2>2. d = scheduleHydrationFlush(freed)
    BY DEF EndBatch
  <2> HIDE DEF freed
  <2>3. Keeps(freed, d)
    BY <2>1, <2>2, EnqueueKeeps
  <2> HIDE DEF d
  <2>4. Keeps(freed, ctl')
    <3>1. Keeps(d, Collected(d))
      BY <2>3, CollectedData, KeepsWhole
    <3>2. ctl' = d \/ ctl' = Collected(d)
      BY <1>4 DEF Becomes, d
    <3> QED BY <2>3, <3>1, <3>2, KeepsChain
  <2> QED BY <1>4, <2>1, <2>4, StillShown DEF Keeps, KeepsHydration
<1>5. CASE Hydration
  <2>1. CASE PumpSearch
    BY <1>1, <2>1, TimersKeep, KeepsShown
  <2>2. ASSUME NEW b \in Batches, flushHydrationBatch(b) PROVE FeedInv'
    <3>1. /\ Whole(ctl') /\ ctl'.commits = ctl.commits /\ ctl'.branches = ctl.branches
          /\ ctl'.head = ctl.head /\ UNCHANGED <<feed, sync, server>>
      BY <1>1, <2>2 DEF flushHydrationBatch, Whole, Core
    <3> QED BY <3>1, StillShown
  <2>3. ASSUME NEW r \in requests, handleGraphCommits(r) \/ NextChunk(r) PROVE FeedInv'
    BY <1>3, <2>3 DEF handleGraphCommits, NextChunk
  <2>4. ASSUME NEW r \in requests, BatchArrives(r) PROVE FeedInv'
    <3> DEFINE got == r.got \cup r.answer
               c   == MergeHydrated(ctl, got)
    <3>1. /\ KeepsHydration(ctl, c) /\ c.branches = ctl.branches /\ c.head = ctl.head
          /\ DOMAIN ctl.commits \subseteq DOMAIN c.commits
      BY <1>1, HydratedData
    <3>2. Becomes(EndBatch(c, r.batch)) /\ UNCHANGED <<feed, sync, server>>
      BY <2>4 DEF BatchArrives
    <3> HIDE DEF c
    <3> QED BY <1>4, <3>1, <3>2
  <2> QED BY <1>5, <2>1, <2>2, <2>3, <2>4 DEF Hydration
<1>6. CASE Faults
  <2>1. CASE Disconnect
    BY <1>1, <2>1 DEF Disconnect, FeedInv, Offline
  <2>2. ASSUME NEW r \in requests, RequestRefused(r) PROVE FeedInv'
    BY <1>3, <2>2 DEF RequestRefused
  <2>3. ASSUME NEW r \in requests, RequestFails(r) PROVE FeedInv'
    <3>1. KeepsHydration(ctl, ctl)
      BY <1>1, KeepsItself DEF Keeps
    <3>2. ctl' = EndBatch(ctl, r.batch) /\ UNCHANGED <<feed, sync, server>>
      BY <2>3 DEF RequestFails
    <3> QED BY <1>4, <3>1, <3>2
  <2> QED BY <1>6, <2>1, <2>2, <2>3 DEF Faults
<1>7. CASE PermalinkFires
  BY <1>1, <1>7, TimersKeep, KeepsShown
<1>8. CASE Pointer
  BY <1>1, <1>8, PointerKeeps, KeepsShown
<1>9. CASE Events
  <2>1. CASE Dispose
    <3> DEFINE d == destroy(ctl)
    <3>1. Whole(d) /\ ctl' = Collected(d)
      BY <1>1, <2>1, DestroyData DEF Dispose, Becomes
    <3>2. feed' = <<>> /\ sync' = "down" /\ server' = server
      BY <2>1 DEF Dispose
    <3> HIDE DEF d
    <3>3. Whole(ctl')
      BY <3>1, CollectedData, KeepsWhole
    <3> QED BY <3>2, <3>3 DEF FeedInv, Offline
  <2>2. CASE ~Dispose
    BY <1>1, <1>9, <2>2, UserKeeps, KeepsShown
  <2> QED BY <2>1, <2>2
<1>10. CASE \E repo \in Repos : ServerChanges(repo)
  BY <1>10, UpdateShown
<1>11. CASE UNCHANGED vars
  BY <1>3, <1>11 DEF vars
<1> QED BY <1>2, <1>5, <1>6, <1>7, <1>8, <1>9, <1>10, <1>11 DEF Next

(* Whatever the user does, however the bootstrap is cut into batches and   *)
(* whatever updates and hydrated commits overtake it, when the browser is  *)
(* live and every message has been delivered it has the server's branches  *)
(* and HEAD, and all its commits (buildBootstrapMessages, applyDelta,      *)
(* setHeadHash).                                                           *)
THEOREM GraphCaughtUp == Spec => []GraphCurrent
<1>1. FeedInv => GraphCurrent
  <2> SUFFICES ASSUME FeedInv, sync = "live", feed = <<>>
               PROVE  /\ ctl.branches = server.branches /\ ctl.head = server.head
                      /\ server.commits \subseteq DOMAIN ctl.commits
    BY DEF GraphCurrent
  <2>1. PICK g : Shows(ctl, g) /\ Tells(feed, g, Told(server))
    BY DEF FeedInv, Offline
  <2>2. g = Told(server)
    BY <2>1, TellsNothing
  <2> QED BY <2>1, <2>2 DEF FeedInv, Shows, Told, Offline
<1> QED BY <1>1, FeedInit, FeedStep, PTL DEF Spec
----------------------------------------------------------------------------
(* The pool of node objects: which object is whose.                        *)

LEMMA PartOf ==
    ASSUME NEW S, NEW s \in Seq(S), NEW m \in Nat \ {0}, NEW n \in Int, n <= Len(s)
    PROVE  /\ SubSeq(s, m, n) \in Seq(S)
           /\ DOMAIN SubSeq(s, m, n) = 1 .. n - m + 1
           /\ \A i \in 1 .. n - m + 1 : SubSeq(s, m, n)[i] = s[m + i - 1] /\ m + i - 1 \in m..n
           /\ Range(SubSeq(s, m, n)) \subseteq Range(s)
           /\ IsInjective(s) => IsInjective(SubSeq(s, m, n))
<1> DEFINE t == SubSeq(s, m, n)
<1>1. Len(s) \in Nat /\ DOMAIN s = 1..Len(s) /\ \A i \in m..n : i \in 1..Len(s) /\ s[i] \in S
  BY LenProperties
<1>2. /\ t \in Seq(S) /\ Len(t) = IF m <= n THEN n - m + 1 ELSE 0
      /\ \A i \in 1 .. n - m + 1 : t[i] = s[m + i - 1]
  BY <1>1, SubSeqProperties
<1>3. DOMAIN t = 1 .. n - m + 1
  <2>1. DOMAIN t = 1..Len(t)
    BY <1>2, LenProperties
  <2>2. m <= n \/ (1..0 = {} /\ 1 .. n - m + 1 = {})
    OBVIOUS
  <2> QED BY <1>2, <2>1, <2>2
<1>4. \A i \in 1 .. n - m + 1 : m + i - 1 \in m..n
  OBVIOUS
<1> HIDE DEF t
<1>5. Range(t) \subseteq Range(s)
  BY <1>1, <1>2, <1>3, <1>4 DEF Range
<1>6. ASSUME IsInjective(s), NEW i \in DOMAIN t, NEW j \in DOMAIN t, t[i] = t[j]
      PROVE  i = j
  <2>1. m + i - 1 = m + j - 1
    BY <1>1, <1>2, <1>3, <1>4, <1>6 DEF IsInjective
  <2> QED BY <1>3, <2>1
<1>7. IsInjective(s) => IsInjective(t)
  BY <1>6 DEF IsInjective
<1> QED BY <1>2, <1>3, <1>4, <1>5, <1>7 DEF t

LEMMA JoinedRange ==
    ASSUME NEW S, NEW s \in Seq(S), NEW t \in Seq(S)
    PROVE  /\ s \o t \in Seq(S) /\ Range(s \o t) = Range(s) \cup Range(t)
           /\ IsInjective(s) /\ IsInjective(t) /\ Range(s) \cap Range(t) = {} => IsInjective(s \o t)
<1> DEFINE r == s \o t
           m == Len(s)
           n == Len(t)
<1>1. /\ r \in Seq(S) /\ m \in Nat /\ n \in Nat
      /\ DOMAIN s = 1..m /\ DOMAIN t = 1..n /\ DOMAIN r = 1 .. m + n
      /\ \A i \in 1 .. m + n : r[i] = IF i <= m THEN s[i] ELSE t[i - m]
  BY ConcatProperties, LenProperties
<1> HIDE DEF r, m, n
<1>2. /\ \A i \in 1..m : i \in 1 .. m + n /\ r[i] = s[i]
      /\ \A j \in 1..n : m + j \in 1 .. m + n /\ r[m + j] = t[j]
  <2>1. ASSUME NEW j \in 1..n PROVE m + j \in 1 .. m + n /\ ~(m + j <= m) /\ (m + j) - m = j
    BY <1>1
  <2>2. ASSUME NEW i \in 1..m PROVE i \in 1 .. m + n /\ i <= m
    BY <1>1
  <2>3. \A j \in 1..n : r[m + j] = t[j]
    BY <1>1, <2>1
  <2> QED BY <1>1, <2>1, <2>2, <2>3
<1>3. \A i \in 1 .. m + n : i \in 1..m \/ \E j \in 1..n : i = m + j
  <2>1. ASSUME NEW i \in 1 .. m + n, i \notin 1..m PROVE i - m \in 1..n /\ i = m + (i - m)
    BY <1>1, <2>1
  <2> QED BY <2>1
<1>4. Range(r) = Range(s) \cup Range(t)
  <2>1. Range(r) \subseteq Range(s) \cup Range(t)
    <3> SUFFICES ASSUME NEW i \in 1 .. m + n PROVE r[i] \in Range(s) \cup Range(t)
      BY <1>1 DEF Range
    <3>1. CASE i \in 1..m
      BY <1>1, <1>2, <3>1 DEF Range
    <3>2. CASE i \notin 1..m
      <4>1. PICK j \in 1..n : i = m + j
        BY <1>3, <3>2
      <4> QED BY <1>1, <1>2, <4>1 DEF Range
    <3> QED BY <3>1, <3>2
  <2>2. Range(s) \subseteq Range(r)
    BY <1>1, <1>2 DEF Range
  <2>3. Range(t) \subseteq Range(r)
    <3> SUFFICES ASSUME NEW j \in 1..n PROVE t[j] \in Range(r)
      BY <1>1 DEF Range
    <3>1. m + j \in DOMAIN r /\ r[m + j] = t[j]
      BY <1>1, <1>2
    <3> QED BY <3>1 DEF Range
  <2> QED BY <2>1, <2>2, <2>3
<1>5. ASSUME IsInjective(s), IsInjective(t), Range(s) \cap Range(t) = {},
             NEW i \in 1 .. m + n, NEW j \in 1 .. m + n, r[i] = r[j]
      PROVE  i = j
  <2>1. \A k \in 1..m, l \in 1..n : s[k] # t[l]
    BY <1>1, <1>5 DEF Range
  <2>2. CASE i \in 1..m /\ j \in 1..m
    BY <1>1, <1>2, <1>5, <2>2 DEF IsInjective
  <2>3. CASE i \notin 1..m /\ j \notin 1..m
    <3>1. PICK k \in 1..n : i = m + k
      BY <1>3, <2>3
    <3>2. PICK l \in 1..n : j = m + l
      BY <1>3, <2>3
    <3>3. t[k] = t[l]
      BY <1>2, <1>5, <3>1, <3>2
    <3> QED BY <1>1, <1>5, <3>1, <3>2, <3>3 DEF IsInjective
  <2>4. CASE i \in 1..m /\ j \notin 1..m
    BY <1>2, <1>3, <1>5, <2>1, <2>4
  <2>5. CASE i \notin 1..m /\ j \in 1..m
    BY <1>2, <1>3, <1>5, <2>1, <2>5
  <2> QED BY <2>2, <2>3, <2>4, <2>5
<1>6. IsInjective(s) /\ IsInjective(t) /\ Range(s) \cap Range(t) = {} => IsInjective(r)
  BY <1>1, <1>5 DEF IsInjective
<1> QED BY <1>1, <1>4, <1>6 DEF r

(* The last k of a sequence, backwards.                                    *)
LEMMA BackwardsHolds ==
    ASSUME NEW S, NEW s \in Seq(S), NEW k \in 0..Len(s), IsInjective(s)
    PROVE  LET t == [i \in 1..k |-> s[Len(s) + 1 - i]]
               u == SubSeq(s, 1, Len(s) - k)
           IN  /\ t \in Seq(S) /\ IsInjective(t) /\ Range(t) \subseteq Range(s) /\ Len(t) = k
               /\ u \in Seq(S) /\ IsInjective(u) /\ Range(u) \subseteq Range(s)
               /\ Range(t) \cap Range(u) = {}
<1> DEFINE n == Len(s)
           t == [i \in 1..k |-> s[n + 1 - i]]
           u == SubSeq(s, 1, n - k)
<1>1. n \in Nat /\ DOMAIN s = 1..n /\ \A i \in 1..n : s[i] \in S
  BY LenProperties
<1> HIDE DEF n
<1>2. k \in Nat /\ \A i \in 1..k : n + 1 - i \in 1..n /\ n + 1 - i > n - k
  BY <1>1 DEF n
<1>3. DOMAIN t = 1..k /\ \A i \in 1..k : t[i] = s[n + 1 - i] /\ t[i] \in S
  BY <1>1, <1>2
<1>4. t \in Seq(S) /\ Len(t) = k
  <2>1. t \in [1..k -> S]
    BY <1>1, <1>2
  <2>2. t \in Seq(S)
    BY <1>2, <2>1, SeqDef
  <2> QED BY <1>2, <2>2, <1>3, LenProperties
<1>5. /\ u \in Seq(S) /\ DOMAIN u = 1 .. n - k
      /\ \A i \in 1 .. n - k : u[i] = s[i] /\ i \in 1..n
      /\ Range(u) \subseteq Range(s) /\ IsInjective(u)
  <2>1. 1 \in Nat \ {0} /\ n - k \in Int /\ n - k <= Len(s) /\ (n - k) - 1 + 1 = n - k
    BY <1>1, <1>2 DEF n
  <2>2. \A i \in 1 .. n - k : 1 + i - 1 = i /\ i \in 1..n
    BY <1>1, <1>2
  <2> QED BY <2>1, <2>2, PartOf
<1> HIDE DEF t, u
<1>6. Range(t) \subseteq Range(s)
  BY <1>1, <1>2, <1>3 DEF Range
<1>7. IsInjective(t)
  <2> SUFFICES ASSUME NEW i \in 1..k, NEW j \in 1..k, t[i] = t[j] PROVE i = j
    BY <1>3 DEF IsInjective
  <2>1. n + 1 - i = n + 1 - j
    BY <1>1, <1>2, <1>3 DEF IsInjective
  <2> QED BY <1>1, <2>1
<1>8. Range(t) \cap Range(u) = {}
  <2> SUFFICES ASSUME NEW i \in 1..k, NEW j \in 1 .. n - k, t[i] = u[j] PROVE FALSE
    BY <1>3, <1>5 DEF Range
  <2>1. n + 1 - i = j
    BY <1>1, <1>2, <1>3, <1>5 DEF IsInjective
  <2> QED BY <1>1, <1>2, <2>1
<1> QED BY <1>4, <1>5, <1>6, <1>7, <1>8 DEF n, t, u
LEMMA LeastOf ==
    ASSUME NEW T \in SUBSET Nat, T # {}
    PROVE  Min(T) \in T
<1>1. IsWellFoundedOn(OpToRel(<, Nat), Nat)
  BY NatLessThanWellFounded
<1>2. PICK n \in T : \A m \in T : ~(<<m, n>> \in OpToRel(<, Nat))
  BY <1>1, WFMin, Zenon
<1>3. n \in Nat /\ \A m \in T : m \in Nat /\ ~(m < n)
  BY <1>2 DEF OpToRel
<1>4. \A m \in T : n <= m
  BY <1>3
<1> QED BY <1>2, <1>4 DEF Min

(* The window is a part of the index.                                      *)
IsSearch(f, yMin, len, n) ==
    f = [k \in 0..n |-> IF k = 0 THEN [lo |-> 1, hi |-> len + 1] ELSE Halved(f[k - 1], yMin)]

LEMMA SearchExists ==
    ASSUME NEW yMin, NEW len \in Nat
    PROVE  \A n \in Nat : \E f : IsSearch(f, yMin, len, n)
<1> DEFINE T == {n \in Nat : \E f : IsSearch(f, yMin, len, n)}
           all == [lo |-> 1, hi |-> len + 1]
<1>1. 0 \in T
  <2> DEFINE f == [k \in 0..0 |-> all]
  <2>1. f = [k \in 0..0 |-> IF k = 0 THEN all ELSE Halved(f[k - 1], yMin)]
    OBVIOUS
  <2>2. IsSearch(f, yMin, len, 0)
    BY <2>1 DEF IsSearch
  <2> QED BY <2>2
<1>2. ASSUME NEW n \in T PROVE n + 1 \in T
  <2>1. PICK f : IsSearch(f, yMin, len, n)
    BY <1>2
  <2>2. \A k \in 0..n : f[k] = IF k = 0 THEN all ELSE Halved(f[k - 1], yMin)
    BY <2>1 DEF IsSearch
  <2> HIDE DEF all
  <2> DEFINE h == [k \in 0 .. n + 1 |-> IF k = n + 1 THEN Halved(f[n], yMin) ELSE f[k]]
             r == [k \in 0 .. n + 1 |-> IF k = 0 THEN all ELSE Halved(h[k - 1], yMin)]
  <2>3. ASSUME NEW k \in 0 .. n + 1 PROVE h[k] = r[k]
    <3>1. CASE k = n + 1
      <4>1. h[n] = f[n] /\ (n + 1) - 1 = n /\ n + 1 # 0 /\ n + 1 \in 0 .. n + 1
        OBVIOUS
      <4> QED BY <3>1, <4>1
    <3>2. CASE k = 0
      <4>1. f[0] = all /\ 0 # n + 1
        BY <2>2
      <4> QED BY <3>2, <4>1
    <3>3. CASE k # n + 1 /\ k # 0
      <4>1. k \in 0..n /\ k - 1 \in 0 .. n + 1 /\ k - 1 # n + 1
        BY <3>3
      <4>2. h[k - 1] = f[k - 1] /\ h[k] = f[k]
        BY <3>3, <4>1
      <4>3. f[k] = Halved(f[k - 1], yMin)
        BY <2>2, <3>3, <4>1
      <4> QED BY <3>3, <4>2, <4>3
    <3> QED BY <3>1, <3>2, <3>3
  <2>4. h = r
    BY <2>3
  <2>5. IsSearch(h, yMin, len, n + 1)
    <3> HIDE DEF h
    <3> QED BY <2>4 DEF IsSearch, all
  <2> QED BY <2>5
<1>3. \A n \in T : n + 1 \in T
  BY <1>2
<1> HIDE DEF T
<1>4. \A n \in Nat : n \in T
  BY <1>1, <1>3, Induction DEF T
<1> QED BY <1>4 DEF T

Spans(range, len) ==
    range = [lo |-> range.lo, hi |-> range.hi]
    /\ range.lo \in 1 .. len + 1 /\ range.hi \in 1 .. len + 1 /\ range.lo <= range.hi

LEMMA HalvedSpans ==
    ASSUME NEW len \in Nat, NEW range, Spans(range, len), NEW yMin
    PROVE  Spans(Halved(range, yMin), len)
<1> DEFINE lo  == range.lo
           hi  == range.hi
           mid == (lo + hi) \div 2
           low == Step * (mid - 1) < yMin
<1>1. range = [lo |-> lo, hi |-> hi] /\ lo \in 1 .. len + 1 /\ hi \in 1 .. len + 1 /\ lo <= hi
  BY DEF Spans
<1>2. Halved(range, yMin) = IF lo >= hi THEN range
                            ELSE IF low THEN [range EXCEPT !.lo = mid + 1] ELSE [range EXCEPT !.hi = mid]
  BY DEF Halved
<1>3. CASE lo >= hi
  BY <1>2, <1>3
<1>4. CASE ~(lo >= hi)
  <2>1. mid \in Nat /\ lo <= mid /\ mid < hi
    <3>1. lo \in Nat /\ hi \in Nat /\ lo < hi
      BY <1>1, <1>4
    <3> QED BY <3>1
  <2> HIDE DEF lo, hi, mid, low
  <2>2. /\ [range EXCEPT !.lo = mid + 1] = [lo |-> mid + 1, hi |-> hi]
        /\ [range EXCEPT !.hi = mid] = [lo |-> lo, hi |-> mid]
    BY <1>1
  <2>3. mid + 1 \in 1 .. len + 1 /\ mid \in 1 .. len + 1 /\ mid + 1 <= hi
    BY <1>1, <2>1
  <2>4. Spans([lo |-> mid + 1, hi |-> hi], len) /\ Spans([lo |-> lo, hi |-> mid], len)
    BY <1>1, <2>1, <2>3 DEF Spans
  <2> QED BY <1>2, <1>4, <2>2, <2>4
<1> QED BY <1>3, <1>4

LEMMA SearchHolds ==
    ASSUME NEW index, Len(index) \in Nat, NEW yMin
    PROVE  FirstAtLeast(index, yMin) \in 1 .. Len(index) + 1
<1> DEFINE n == Len(index)
           search == CHOOSE f : IsSearch(f, yMin, n, n)
           all == [lo |-> 1, hi |-> n + 1]
<1>1. IsSearch(search, yMin, n, n)
  BY SearchExists
<1>2. FirstAtLeast(index, yMin) = search[n].lo
  BY DEF FirstAtLeast, IsSearch
<1> HIDE DEF search
<1>3. \A k \in 0..n : search[k] = IF k = 0 THEN all ELSE Halved(search[k - 1], yMin)
  <2>1. search = [k \in 0..n |-> IF k = 0 THEN all ELSE Halved(search[k - 1], yMin)]
    BY <1>1 DEF IsSearch
  <2> DEFINE Pass(k) == Halved(search[k - 1], yMin)
  <2>2. search = [k \in 0..n |-> IF k = 0 THEN all ELSE Pass(k)]
    BY <2>1
  <2> HIDE DEF n, all, Pass
  <2>3. \A k \in 0..n : search[k] = IF k = 0 THEN all ELSE Pass(k)
    BY <2>2
  <2> QED BY <2>3 DEF Pass
<1> DEFINE T == {k \in Nat : k <= n => Spans(search[k], n)}
<1>4. 0 \in T
  <2>1. search[0] = all
    BY <1>3
  <2>2. Spans(all, n)
    BY DEF Spans
  <2> QED BY <2>1, <2>2
<1>5. ASSUME NEW k \in T PROVE k + 1 \in T
  <2> SUFFICES ASSUME k + 1 <= n PROVE Spans(search[k + 1], n)
    OBVIOUS
  <2>1. k \in Nat /\ k + 1 \in 0..n /\ k + 1 # 0 /\ (k + 1) - 1 = k /\ k <= n
    OBVIOUS
  <2>2. search[k + 1] = Halved(search[k], yMin) /\ Spans(search[k], n)
    BY <1>3, <2>1
  <2> QED BY <2>2, HalvedSpans
<1>6. (\A k \in T : k + 1 \in T) /\ T \in SUBSET Nat
  BY <1>5
<1> HIDE DEF T
<1>7. n \in T
  BY <1>4, <1>6, Induction
<1>8. Spans(search[n], n)
  BY <1>7 DEF T
<1> QED BY <1>2, <1>8 DEF Spans

LEMMA QueryHolds ==
    ASSUME NEW index \in Seq(Commit), IsInjective(index), NEW top, NEW height
    PROVE  /\ Query(index, top, height).entries \in Seq(Commit)
           /\ IsInjective(Query(index, top, height).entries)
<1> DEFINE yMin  == top - BufferFactor * height
           yMax  == top + height + BufferFactor * height
           first == FirstAtLeast(index, yMin)
           below == {i \in first..Len(index) : Step * (i - 1) > yMax}
           last  == IF below = {} THEN Len(index) ELSE Min(below) - 1
<1>1. Query(index, top, height).entries = SubSeq(index, first, last)
  BY DEF Query, queryYRange
<1>2. Len(index) \in Nat
  BY LenProperties
<1>3. first \in 1 .. Len(index) + 1
  BY <1>2, SearchHolds
<1>4. last \in Int /\ last <= Len(index)
  <2>1. CASE below = {}
    BY <1>2, <2>1
  <2>2. CASE below # {}
    <3>1. below \in SUBSET Nat
      BY <1>2, <1>3
    <3>2. Min(below) \in below
      BY <2>2, <3>1, LeastOf
    <3>3. Min(below) \in first..Len(index)
      BY <3>2
    <3> QED BY <1>2, <1>3, <2>2, <3>3
  <2> QED BY <2>1, <2>2
<1>5. first \in Nat \ {0}
  BY <1>2, <1>3
<1> HIDE DEF first, last
<1> QED BY <1>1, <1>4, <1>5, PartOf

LEMMA RebuildHolds ==
    ASSUME NEW known
    PROVE  rebuild(known) \in Seq(Commit) /\ IsInjective(rebuild(known))
BY AmongHolds, NewestAssumption DEF rebuild, NewestFirst
(* The materializer's part of the controller: objects in use and in the    *)
(* pool, each once and not in both, one commit per object in use.          *)
Parts == {"node", "active", "pool", "nodes", "window", "index", "mode", "lazy", "destroyed"}
Fields == {"hash", "data", "dimmed"}

Pooled(m) ==
    /\ Parts \subseteq DOMAIN m
    /\ DOMAIN m.node = NodeId /\ \A id \in NodeId : Fields \subseteq DOMAIN m.node[id]
    /\ m.active \in Seq(NodeId) /\ IsInjective(m.active)
    /\ m.pool \in Seq(NodeId) /\ IsInjective(m.pool)
    /\ Range(m.pool) \cap Range(m.active) = {}
    /\ \A id, jd \in Range(m.active) : id # jd => m.node[id].hash # m.node[jd].hash
    /\ ~m.destroyed => \A id \in Range(m.pool) : m.node[id] = Blank

SameRest(c, d) ==
    /\ Parts \subseteq DOMAIN d
    /\ d.nodes = c.nodes /\ d.window = c.window /\ d.index = c.index
    /\ d.mode = c.mode /\ d.lazy = c.lazy /\ d.destroyed = c.destroyed

LEMMA RangeOf ==
    ASSUME NEW S, NEW s \in Seq(S)
    PROVE  Range(s) \subseteq S
BY LenProperties DEF Range

LEMMA EvictedHolds ==
    ASSUME NEW m, Pooled(m), NEW ids \in Seq(NodeId), IsInjective(ids), Range(ids) \subseteq Range(m.active)
    PROVE  /\ Pooled(_evict(m, ids)) /\ SameRest(m, _evict(m, ids))
           /\ Range(_evict(m, ids).active) = Range(m.active) \ Range(ids)
           /\ \A id \in NodeId \ Range(ids) : _evict(m, ids).node[id] = m.node[id]
           /\ Range(ids) = {} => /\ _evict(m, ids).active = m.active
                                 /\ Range(_evict(m, ids).pool) = Range(m.pool)
<1> DEFINE e     == _evict(m, ids)
           nodes == [id \in NodeId |-> IF id \in Range(ids) THEN Blank ELSE m.node[id]]
           left  == Among(m.active, NodeId \ Range(ids))
           room  == PoolCapacity - Len(m.pool)
           kept  == IF Len(ids) < room THEN Len(ids) ELSE room
           more  == SubSeq(ids, 1, kept)
           pool  == m.pool \o more
<1>1. /\ Parts \subseteq DOMAIN m /\ e = [m EXCEPT !.node = nodes, !.active = left, !.pool = pool]
      /\ m.active \in Seq(NodeId) /\ IsInjective(m.active) /\ m.pool \in Seq(NodeId) /\ IsInjective(m.pool)
      /\ Range(m.pool) \cap Range(m.active) = {}
  BY DEF Pooled, _evict
<1>2. /\ left \in Seq(NodeId) /\ IsInjective(left) /\ Range(left) = Range(m.active) \ Range(ids)
      /\ Range(ids) = {} => left = m.active
  BY <1>1, AmongHolds, RangeOf
<1>3. kept \in Int /\ kept <= Len(ids)
  BY <1>1, WindowAssumption, LenProperties
<1> HIDE DEF kept
<1>4. more \in Seq(NodeId) /\ IsInjective(more) /\ Range(more) \subseteq Range(ids)
  <2>1. 1 \in Nat \ {0}
    OBVIOUS
  <2> QED BY <1>3, <2>1, PartOf
<1> HIDE DEF more, left, nodes
<1>5. pool \in Seq(NodeId) /\ IsInjective(pool) /\ Range(pool) = Range(m.pool) \cup Range(more)
  BY <1>1, <1>4, JoinedRange
<1> HIDE DEF pool
<1>6. /\ e.node = nodes /\ e.active = left /\ e.pool = pool /\ SameRest(m, e)
  BY <1>1 DEF SameRest, Parts
<1> HIDE DEF e
<1>7. DOMAIN nodes = NodeId /\ \A id \in NodeId : nodes[id] = IF id \in Range(ids) THEN Blank ELSE m.node[id]
  BY DEF nodes
<1>8. Fields \subseteq DOMAIN Blank
  BY DEF Fields, Blank
<1>9. \A id \in NodeId : Fields \subseteq DOMAIN nodes[id]
  BY <1>7, <1>8 DEF Pooled
<1>10. \A id, jd \in Range(left) : id # jd => nodes[id].hash # nodes[jd].hash
  <2> SUFFICES ASSUME NEW id \in Range(left), NEW jd \in Range(left), id # jd
               PROVE  nodes[id].hash # nodes[jd].hash
    OBVIOUS
  <2>1. /\ id \in Range(m.active) /\ id \notin Range(ids) /\ jd \in Range(m.active) /\ jd \notin Range(ids)
        /\ id \in NodeId /\ jd \in NodeId
    BY <1>1, <1>2, RangeOf
  <2>2. nodes[id] = m.node[id] /\ nodes[jd] = m.node[jd]
    BY <1>7, <2>1
  <2> QED BY <2>1, <2>2 DEF Pooled
<1>11. ASSUME ~m.destroyed, NEW id \in Range(pool) PROVE nodes[id] = Blank
  <2>1. id \in NodeId /\ (id \in Range(m.pool) \/ id \in Range(ids))
    BY <1>4, <1>5, RangeOf
  <2> QED BY <1>7, <1>11, <2>1 DEF Pooled
<1>12. Range(pool) \cap Range(left) = {}
  BY <1>1, <1>2, <1>4, <1>5
<1>13. Pooled(e)
  <2>1. e.destroyed = m.destroyed /\ Parts \subseteq DOMAIN e
    BY <1>6 DEF SameRest
  <2> QED BY <1>2, <1>5, <1>6, <1>7, <1>9, <1>10, <1>11, <1>12, <2>1 DEF Pooled
<1>14. Range(ids) = {} => Range(pool) = Range(m.pool)
  BY <1>4, <1>5
<1> QED BY <1>2, <1>6, <1>7, <1>13, <1>14 DEF e

LEMMA NewIdsHolds ==
    ASSUME NEW m, NEW inUse, NEW n \in Nat
    PROVE  /\ NewIds(m, inUse, n) \in Seq(NodeId) /\ IsInjective(NewIds(m, inUse, n))
           /\ Range(NewIds(m, inUse, n)) \cap (Range(m.active) \cup Range(m.pool) \cup inUse) = {}
           /\ Len(NewIds(m, inUse, n)) <= n
<1> DEFINE all  == [i \in NodeId |-> i]
           free == FreeIds(m, inUse)
           k    == Min({n, Len(free)})
<1>1. all \in Seq(NodeId) /\ IsInjective(all)
  <2>1. Objects \in Nat /\ NodeId = 1..Objects
    BY WindowAssumption DEF NodeId
  <2>2. all \in [1..Objects -> NodeId]
    BY <2>1
  <2> QED BY <2>1, <2>2, SeqDef DEF IsInjective
<1> HIDE DEF all
<1>2. free = Among(all, NodeId \ (Range(m.active) \cup Range(m.pool) \cup inUse))
  BY DEF FreeIds, all
<1>3. /\ free \in Seq(NodeId) /\ IsInjective(free)
      /\ Range(free) \cap (Range(m.active) \cup Range(m.pool) \cup inUse) = {}
  BY <1>1, <1>2, AmongHolds
<1> HIDE DEF free
<1>4. k \in Nat /\ k <= n /\ k <= Len(free)
  <2>1. Len(free) \in Nat
    BY <1>3, LenProperties
  <2> DEFINE len == Len(free)
  <2> HIDE DEF len
  <2>2. len \in Nat /\ k = Min({n, len})
    BY <2>1 DEF len
  <2>3. k = IF n <= len THEN n ELSE len
    BY <2>2, MinOfTwo
  <2> QED BY <2>2, <2>3 DEF len
<1> HIDE DEF k
<1>5. NewIds(m, inUse, n) = SubSeq(free, 1, k)
  BY DEF NewIds, free, k
<1>6. /\ SubSeq(free, 1, k) \in Seq(NodeId) /\ IsInjective(SubSeq(free, 1, k))
      /\ Range(SubSeq(free, 1, k)) \subseteq Range(free) /\ DOMAIN SubSeq(free, 1, k) = 1 .. k - 1 + 1
  BY <1>3, <1>4, PartOf
<1>7. Len(SubSeq(free, 1, k)) = k
  BY <1>4, <1>6, LenProperties
<1> QED BY <1>3, <1>4, <1>5, <1>6, <1>7
LEMMA AcquiredHolds ==
    ASSUME NEW m, Pooled(m), NEW hashes \in Seq(Commit), IsInjective(hashes), NEW inUse,
           Range(hashes) \cap ActiveHashes(m) = {}
    PROVE  LET a == _acquire(m, hashes, inUse)
           IN  /\ Pooled(a) /\ SameRest(m, a)
               /\ Range(m.active) \subseteq Range(a.active) /\ Range(a.pool) \subseteq Range(m.pool)
               /\ \A id \in Range(m.active) : a.node[id] = m.node[id]
               /\ \A id \in Range(a.active) \ Range(m.active) : a.node[id].hash \in Range(hashes)
               /\ Range(hashes) = {} => a.active = m.active /\ a.pool = m.pool
<1> DEFINE len   == Len(hashes)
           size  == Len(m.pool)
           k     == Min({len, size})
           taken == [i \in 1..k |-> m.pool[Len(m.pool) + 1 - i]]
           left  == SubSeq(m.pool, 1, Len(m.pool) - k)
           fresh == NewIds(m, inUse, Len(hashes) - k)
           ids   == taken \o fresh
           hash(id) == hashes[CHOOSE i \in DOMAIN ids : ids[i] = id]
           nodes == [id \in NodeId |-> IF id \in Range(ids) THEN [Blank EXCEPT !.hash = hash(id)] ELSE m.node[id]]
           active == m.active \o ids
           a     == _acquire(m, hashes, inUse)
<1>1. /\ Parts \subseteq DOMAIN m /\ a = [m EXCEPT !.pool = left, !.active = active, !.node = nodes]
      /\ m.active \in Seq(NodeId) /\ IsInjective(m.active) /\ m.pool \in Seq(NodeId) /\ IsInjective(m.pool)
      /\ Range(m.pool) \cap Range(m.active) = {}
  BY DEF Pooled, _acquire
<1>2. len \in Nat /\ size \in Nat /\ DOMAIN hashes = 1..len
  BY <1>1, LenProperties
<1>3. k \in 0..Len(m.pool) /\ Len(hashes) - k \in Nat
  <2> HIDE DEF len, size
  <2>1. k = IF len <= size THEN len ELSE size
    BY <1>2, MinOfTwo
  <2>2. k \in 0..size /\ len - k \in Nat
    BY <1>2, <2>1
  <2> QED BY <2>2 DEF len, size
<1> HIDE DEF k
<1>4. /\ taken \in Seq(NodeId) /\ IsInjective(taken) /\ Range(taken) \subseteq Range(m.pool) /\ Len(taken) = k
      /\ left \in Seq(NodeId) /\ IsInjective(left) /\ Range(left) \subseteq Range(m.pool)
      /\ Range(taken) \cap Range(left) = {}
  BY <1>1, <1>3, BackwardsHolds
<1>5. /\ fresh \in Seq(NodeId) /\ IsInjective(fresh) /\ Len(fresh) <= Len(hashes) - k
      /\ Range(fresh) \cap (Range(m.active) \cup Range(m.pool) \cup inUse) = {}
  BY <1>3, NewIdsHolds
<1> HIDE DEF taken, left, fresh
<1>6. ids \in Seq(NodeId) /\ Range(ids) = Range(taken) \cup Range(fresh) /\ IsInjective(ids)
  BY <1>4, <1>5, JoinedRange
<1>7. DOMAIN ids \subseteq DOMAIN hashes
  <2>1. /\ Len(ids) = Len(taken) + Len(fresh) /\ DOMAIN ids = 1..Len(ids)
        /\ Len(taken) \in Nat /\ Len(fresh) \in Nat
    <3>1. Len(ids) = Len(taken) + Len(fresh)
      BY <1>4, <1>5, ConcatProperties DEF ids
    <3> QED BY <1>4, <1>5, <1>6, <3>1, LenProperties
  <2>2. Len(ids) \in Nat /\ Len(ids) <= len
    BY <1>2, <1>3, <1>4, <1>5, <2>1
  <2> QED BY <1>2, <2>1, <2>2
<1> HIDE DEF ids
<1>8. \A id \in Range(ids) : \E i \in DOMAIN hashes : i \in DOMAIN ids /\ ids[i] = id /\ hash(id) = hashes[i]
  BY <1>7 DEF Range
<1> HIDE DEF hash
<1>9. active \in Seq(NodeId) /\ Range(active) = Range(m.active) \cup Range(ids) /\ IsInjective(active)
  <2>1. Range(m.active) \cap Range(ids) = {}
    BY <1>1, <1>4, <1>5, <1>6
  <2> QED BY <1>1, <1>6, <2>1, JoinedRange
<1>10. Range(left) \cap Range(active) = {} /\ Range(left) \cap Range(ids) = {} /\ Range(ids) \cap Range(m.active) = {}
  BY <1>1, <1>4, <1>5, <1>6, <1>9
<1> HIDE DEF active, nodes
<1>11. a.node = nodes /\ a.active = active /\ a.pool = left /\ SameRest(m, a)
  BY <1>1 DEF SameRest, Parts
<1> HIDE DEF a
<1>12. /\ DOMAIN nodes = NodeId
       /\ \A id \in NodeId : nodes[id] = IF id \in Range(ids) THEN [Blank EXCEPT !.hash = hash(id)] ELSE m.node[id]
  BY DEF nodes
<1>13. \A h : Fields \subseteq DOMAIN [Blank EXCEPT !.hash = h] /\ [Blank EXCEPT !.hash = h].hash = h
  BY DEF Fields, Blank
<1>14. \A id \in NodeId : Fields \subseteq DOMAIN nodes[id]
  BY <1>12, <1>13 DEF Pooled
<1>15. \A id \in Range(ids) : id \in NodeId /\ nodes[id].hash = hash(id)
  BY <1>6, <1>12, <1>13, RangeOf
<1>16. \A id \in NodeId \ Range(ids) : nodes[id] = m.node[id]
  BY <1>12
<1>17. \A id \in Range(m.active) : nodes[id] = m.node[id]
  BY <1>1, <1>10, <1>16, RangeOf
<1>18. \A id \in Range(ids) : nodes[id].hash \in Range(hashes)
  BY <1>8, <1>15 DEF Range
<1>19. \A id, jd \in Range(active) : id # jd => nodes[id].hash # nodes[jd].hash
  <2>1. ASSUME NEW id \in Range(ids), NEW jd \in Range(ids), id # jd PROVE nodes[id].hash # nodes[jd].hash
    <3>1. PICK i \in DOMAIN hashes : ids[i] = id /\ hash(id) = hashes[i]
      BY <1>8
    <3>2. PICK j \in DOMAIN hashes : ids[j] = jd /\ hash(jd) = hashes[j]
      BY <1>8
    <3> QED BY <1>15, <2>1, <3>1, <3>2 DEF IsInjective
  <2>2. ASSUME NEW id \in Range(m.active), NEW jd \in Range(ids) PROVE nodes[id].hash # nodes[jd].hash
    <3>1. nodes[id].hash \in ActiveHashes(m)
      BY <1>17 DEF ActiveHashes
    <3> QED BY <1>18, <3>1
  <2>3. ASSUME NEW id \in Range(m.active), NEW jd \in Range(m.active), id # jd
        PROVE  nodes[id].hash # nodes[jd].hash
    BY <1>17, <2>3 DEF Pooled
  <2> QED BY <1>9, <2>1, <2>2, <2>3
<1>20. ASSUME ~m.destroyed, NEW id \in Range(left) PROVE nodes[id] = Blank
  <2>1. id \in NodeId /\ id \in Range(m.pool) /\ id \notin Range(ids)
    BY <1>4, <1>10, RangeOf
  <2> QED BY <1>16, <1>20, <2>1 DEF Pooled
<1>21. Pooled(a)
  <2>1. a.destroyed = m.destroyed /\ Parts \subseteq DOMAIN a
    BY <1>11 DEF SameRest
  <2> QED BY <1>4, <1>9, <1>10, <1>11, <1>12, <1>14, <1>19, <1>20, <2>1 DEF Pooled
<1>22. ASSUME Range(hashes) = {} PROVE active = m.active /\ left = m.pool
  <2>1. DOMAIN hashes = {}
    BY <1>22 DEF Range
  <2>2. ids = <<>>
    <3>1. Len(ids) \in Nat /\ DOMAIN ids = 1..Len(ids)
      BY <1>6, LenProperties
    <3>2. Len(ids) = 0
      <4> SUFFICES ASSUME Len(ids) # 0 PROVE FALSE
        OBVIOUS
      <4>1. 1 \in DOMAIN ids
        BY <3>1
      <4> QED BY <1>7, <2>1, <4>1
    <3> QED BY <1>6, <3>2, EmptySeq
  <2>3. active = m.active
    BY <1>1, <2>2, ConcatEmptySeq DEF active
  <2>4. len = 0
    <3> SUFFICES ASSUME len # 0 PROVE FALSE
      OBVIOUS
    <3>1. 1 \in DOMAIN hashes
      BY <1>2
    <3> QED BY <2>1, <3>1
  <2>5. k = 0
    BY <1>3, <2>4
  <2>6. Len(m.pool) - k = Len(m.pool)
    BY <1>2, <2>5
  <2>7. left = m.pool
    BY <1>1, <2>6, SubSeqFull DEF left
  <2> QED BY <2>3, <2>7
<1> QED BY <1>4, <1>9, <1>11, <1>17, <1>18, <1>21, <1>22 DEF a
(* What paints objects leaves them with their commits.                     *)
Painted(c, d) ==
    /\ SameRest(c, d) /\ d.active = c.active /\ d.pool = c.pool
    /\ DOMAIN d.node = NodeId
    /\ \A id \in NodeId : Fields \subseteq DOMAIN d.node[id] /\ d.node[id].hash = c.node[id].hash
    /\ ~c.destroyed => \A id \in Range(c.pool) : d.node[id] = c.node[id]

DrawsOwned(c) ==
    /\ c.nodes \subseteq NodeId
    /\ c.lazy => c.nodes \subseteq Range(c.active)
    /\ ~c.destroyed => c.nodes \cap Range(c.pool) = {}

Windowed(c) ==
    /\ c.index \in Seq(Commit) /\ IsInjective(c.index)
    /\ c.window.entries \in Seq(Commit) /\ IsInjective(c.window.entries)
    /\ c.mode # "lane" => ~c.lazy

Sound(c) == Pooled(c) /\ DrawsOwned(c) /\ Windowed(c)

LEMMA PaintedPooled ==
    ASSUME NEW c, NEW d, Pooled(c), Painted(c, d)
    PROVE  /\ Pooled(d) /\ (DrawsOwned(c) => DrawsOwned(d)) /\ (Windowed(c) => Windowed(d))
           /\ ActiveHashes(d) = ActiveHashes(c)
<1>1. /\ c.active \in Seq(NodeId) /\ IsInjective(c.active) /\ c.pool \in Seq(NodeId) /\ IsInjective(c.pool)
      /\ Range(c.pool) \cap Range(c.active) = {}
      /\ \A id, jd \in Range(c.active) : id # jd => c.node[id].hash # c.node[jd].hash
      /\ ~c.destroyed => \A id \in Range(c.pool) : c.node[id] = Blank
  BY DEF Pooled
<1>2. /\ Parts \subseteq DOMAIN d /\ d.nodes = c.nodes /\ d.window = c.window /\ d.index = c.index
      /\ d.mode = c.mode /\ d.lazy = c.lazy /\ d.destroyed = c.destroyed
      /\ d.active = c.active /\ d.pool = c.pool
      /\ DOMAIN d.node = NodeId
      /\ \A id \in NodeId : Fields \subseteq DOMAIN d.node[id] /\ d.node[id].hash = c.node[id].hash
      /\ ~c.destroyed => \A id \in Range(c.pool) : d.node[id] = c.node[id]
  BY DEF Painted, SameRest
<1>3. Range(c.active) \subseteq NodeId
  BY <1>1, RangeOf
<1>4. \A id \in Range(c.active) : d.node[id].hash = c.node[id].hash
  BY <1>2, <1>3
<1>5. Pooled(d)
  BY <1>1, <1>2, <1>4 DEF Pooled
<1>6. (DrawsOwned(c) => DrawsOwned(d)) /\ (Windowed(c) => Windowed(d))
  BY <1>2 DEF DrawsOwned, Windowed
<1>7. ActiveHashes(d) = ActiveHashes(c)
  BY <1>2, <1>4 DEF ActiveHashes
<1> QED BY <1>5, <1>6, <1>7

LEMMA WithDataPaints ==
    ASSUME NEW m, Pooled(m), NEW ids, ids \cap Range(m.pool) = {}, NEW commits
    PROVE  Painted(m, WithData(m, ids, commits))
<1> DEFINE d == WithData(m, ids, commits)
           nodes == [id \in NodeId |->
                       IF id \in ids THEN [m.node[id] EXCEPT !.data = DataOf(commits, m.node[id].hash)]
                       ELSE m.node[id]]
<1>1. Parts \subseteq DOMAIN m /\ \A id \in NodeId : Fields \subseteq DOMAIN m.node[id]
  BY DEF Pooled
<1>2. d = [m EXCEPT !.node = nodes]
  BY DEF WithData
<1>3. \A id \in NodeId : \A x : LET n == [m.node[id] EXCEPT !.data = x]
                                IN  Fields \subseteq DOMAIN n /\ n.hash = m.node[id].hash
  BY <1>1 DEF Fields
<1>4. DOMAIN nodes = NodeId /\ \A id \in NodeId : id \notin ids => nodes[id] = m.node[id]
  OBVIOUS
<1>5. \A id \in NodeId : Fields \subseteq DOMAIN nodes[id] /\ nodes[id].hash = m.node[id].hash
  BY <1>1, <1>3
<1>6. \A id \in Range(m.pool) : nodes[id] = m.node[id]
  BY <1>4, RangeOf DEF Pooled
<1> HIDE DEF nodes
<1>7. /\ Parts \subseteq DOMAIN d /\ d.node = nodes /\ d.active = m.active /\ d.pool = m.pool
      /\ d.nodes = m.nodes /\ d.window = m.window /\ d.index = m.index
      /\ d.mode = m.mode /\ d.lazy = m.lazy /\ d.destroyed = m.destroyed
  BY <1>1, <1>2 DEF Parts
<1> HIDE DEF d
<1>8. Painted(m, d)
  BY <1>4, <1>5, <1>6, <1>7 DEF Painted, SameRest
<1> QED BY <1>8 DEF d

LEMMA DimmingPaints ==
    ASSUME NEW c, Pooled(c), DrawsOwned(c)
    PROVE  Painted(c, applyDimmingFromPredicate(c))
<1> DEFINE d == applyDimmingFromPredicate(c)
           nodes == [id \in NodeId |->
                       IF id \in c.nodes
                       THEN [c.node[id] EXCEPT !.dimmed = ~Passes(c, c.node[id].hash, c.node[id].data)]
                       ELSE c.node[id]]
<1>1. Parts \subseteq DOMAIN c /\ \A id \in NodeId : Fields \subseteq DOMAIN c.node[id]
  BY DEF Pooled
<1>2. d = [c EXCEPT !.dimmedFor = c.head, !.dimmedIn = c.lanes, !.node = nodes]
  BY DEF applyDimmingFromPredicate
<1>3. \A id \in NodeId : \A x : LET n == [c.node[id] EXCEPT !.dimmed = x]
                                IN  Fields \subseteq DOMAIN n /\ n.hash = c.node[id].hash
  BY <1>1 DEF Fields
<1>4. DOMAIN nodes = NodeId /\ \A id \in NodeId : id \notin c.nodes => nodes[id] = c.node[id]
  OBVIOUS
<1>5. \A id \in NodeId : Fields \subseteq DOMAIN nodes[id] /\ nodes[id].hash = c.node[id].hash
  BY <1>1, <1>3
<1>6. ~c.destroyed => \A id \in Range(c.pool) : nodes[id] = c.node[id]
  BY <1>4, RangeOf DEF Pooled, DrawsOwned
<1> HIDE DEF nodes
<1>7. /\ Parts \subseteq DOMAIN d /\ d.node = nodes /\ d.active = c.active /\ d.pool = c.pool
      /\ d.nodes = c.nodes /\ d.window = c.window /\ d.index = c.index
      /\ d.mode = c.mode /\ d.lazy = c.lazy /\ d.destroyed = c.destroyed
  BY <1>1, <1>2 DEF Parts
<1> HIDE DEF d
<1>8. Painted(c, d)
  BY <1>4, <1>5, <1>6, <1>7 DEF Painted, SameRest
<1> QED BY <1>8 DEF d

(* What does not touch the objects.                                        *)
SameObjects(c, d) ==
    SameRest(c, d) /\ d.active = c.active /\ d.pool = c.pool /\ d.node = c.node

LEMMA SameObjectsPaint ==
    ASSUME NEW c, NEW d, Pooled(c), SameObjects(c, d)
    PROVE  Painted(c, d)
BY DEF SameObjects, Painted, Pooled

LEMMA SameSound ==
    ASSUME NEW c, NEW d, SameObjects(c, d)
    PROVE  /\ Pooled(c) => Pooled(d)
           /\ Sound(c) => Sound(d)
           /\ ActiveHashes(d) = ActiveHashes(c)
<1>1. /\ Parts \subseteq DOMAIN d /\ d.nodes = c.nodes /\ d.window = c.window /\ d.index = c.index
      /\ d.mode = c.mode /\ d.lazy = c.lazy /\ d.destroyed = c.destroyed
      /\ d.active = c.active /\ d.pool = c.pool
      /\ d.node = c.node
  BY DEF SameObjects, SameRest
<1>2. Pooled(c) => Pooled(d)
  BY <1>1 DEF Pooled
<1>3. (DrawsOwned(c) => DrawsOwned(d)) /\ (Windowed(c) => Windowed(d))
  BY <1>1 DEF DrawsOwned, Windowed
<1>4. ActiveHashes(d) = ActiveHashes(c)
  BY <1>1 DEF ActiveHashes
<1> QED BY <1>2, <1>3, <1>4 DEF Sound

LEMMA PaintedSound ==
    ASSUME NEW c, NEW d, Sound(c), Painted(c, d)
    PROVE  Sound(d)
BY PaintedPooled DEF Sound

LEMMA SynchronizedHolds ==
    ASSUME NEW m, Pooled(m), NEW entries \in Seq(Commit), IsInjective(entries), NEW commits, NEW inUse
    PROVE  LET s == synchronize(m, entries, commits, inUse)
           IN  /\ Pooled(s) /\ SameRest(m, s)
               /\ ActiveHashes(m) = Range(entries) => s.active = m.active /\ Range(s.pool) = Range(m.pool)
<1> DEFINE gone == Among(m.active, {id \in NodeId : m.node[id].hash \notin Range(entries)})
           new  == Among(entries, Commit \ ActiveHashes(m))
           e == _evict(m, gone)
           a == _acquire(e, new, inUse)
           s == WithAllData(a, commits)
<1>1. m.active \in Seq(NodeId) /\ IsInjective(m.active)
  BY DEF Pooled
<1>2. /\ gone \in Seq(NodeId) /\ IsInjective(gone)
      /\ Range(gone) = Range(m.active) \cap {id \in NodeId : m.node[id].hash \notin Range(entries)}
  BY <1>1, AmongHolds
<1>3. /\ new \in Seq(Commit) /\ IsInjective(new)
      /\ Range(new) = Range(entries) \cap (Commit \ ActiveHashes(m))
  BY AmongHolds
<1>4. synchronize(m, entries, commits, inUse) = s
  BY DEF synchronize
<1> HIDE DEF gone, new
<1>5. /\ Pooled(e) /\ SameRest(m, e)
      /\ Range(e.active) = Range(m.active) \ Range(gone)
      /\ \A id \in NodeId \ Range(gone) : e.node[id] = m.node[id]
      /\ Range(gone) = {} => e.active = m.active /\ Range(e.pool) = Range(m.pool)
  BY <1>2, EvictedHolds
<1> HIDE DEF e
<1>6. ActiveHashes(e) \subseteq ActiveHashes(m)
  BY <1>1, <1>5, RangeOf DEF ActiveHashes
<1>7. /\ Pooled(a) /\ SameRest(e, a)
      /\ Range(new) = {} => a.active = e.active /\ a.pool = e.pool
  BY <1>3, <1>5, <1>6, AcquiredHolds
<1> HIDE DEF a
<1>8. Painted(a, s)
  BY <1>7, WithDataPaints DEF WithAllData, Pooled
<1>9. Pooled(s) /\ SameRest(m, s)
  BY <1>5, <1>7, <1>8, PaintedPooled DEF Painted, SameRest
<1>10. ASSUME ActiveHashes(m) = Range(entries) PROVE s.active = m.active /\ Range(s.pool) = Range(m.pool)
  <2>1. Range(gone) = {}
    BY <1>2, <1>10 DEF ActiveHashes
  <2>2. Range(new) = {}
    BY <1>3, <1>10
  <2> QED BY <1>5, <1>7, <1>8, <2>1, <2>2 DEF Painted
<1> HIDE DEF s
<1> QED BY <1>4, <1>9, <1>10

LEMMA ForcedHolds ==
    ASSUME NEW m, Sound(m), NEW h \in Commit, NEW commits, NEW inUse
    PROVE  Sound(forceMaterialize(m, h, commits, inUse))
<1> DEFINE next == IF h \in ActiveHashes(m) THEN m ELSE _acquire(m, <<h>>, inUse)
           ids == {id \in Range(next.active) : next.node[id].hash = h}
<1>1. /\ Pooled(next) /\ SameRest(m, next)
      /\ Range(m.active) \subseteq Range(next.active) /\ Range(next.pool) \subseteq Range(m.pool)
  <2>1. CASE h \in ActiveHashes(m)
    BY <2>1 DEF Sound, Pooled, SameRest
  <2>2. CASE h \notin ActiveHashes(m)
    <3>1. <<h>> \in Seq(Commit) /\ DOMAIN <<h>> = 1..1 /\ <<h>>[1] = h
      OBVIOUS
    <3>2. IsInjective(<<h>>) /\ Range(<<h>>) = {h}
      BY <3>1 DEF IsInjective, Range
    <3>3. Range(<<h>>) \cap ActiveHashes(m) = {}
      BY <2>2, <3>2
    <3> QED BY <2>2, <3>1, <3>2, <3>3, AcquiredHolds DEF Sound
  <2> QED BY <2>1, <2>2
<1>2. forceMaterialize(m, h, commits, inUse) = WithData(next, ids, commits)
  BY DEF forceMaterialize
<1> HIDE DEF next
<1>3. DrawsOwned(next) /\ Windowed(next)
  BY <1>1 DEF Sound, DrawsOwned, Windowed, SameRest
<1>4. Painted(next, WithData(next, ids, commits))
  BY <1>1, WithDataPaints DEF Pooled
<1> QED BY <1>1, <1>2, <1>3, <1>4, PaintedSound DEF Sound

LEMMA ClearedHolds ==
    ASSUME NEW m, Pooled(m), Windowed(m), m.destroyed \/ m.nodes = {}, ~m.lazy \/ m.nodes = {}, m.nodes \subseteq NodeId
    PROVE  Sound(clear(m))
<1>1. m.active \in Seq(NodeId) /\ IsInjective(m.active)
  BY DEF Pooled
<1>2. Pooled(clear(m)) /\ SameRest(m, clear(m))
  BY <1>1, EvictedHolds DEF clear
<1> QED BY <1>2 DEF Sound, DrawsOwned, Windowed, SameRest
(* The controller's operators, from those that touch no object to the      *)
(* user's commands.                                                        *)
Made(c) == Parts \subseteq DOMAIN c

LEMMA SameChain ==
    ASSUME NEW c, NEW d, NEW e, SameObjects(c, d), SameObjects(d, e)
    PROVE  SameObjects(c, e)
BY DEF SameObjects, SameRest

LEMMA SameItself ==
    ASSUME NEW c, Made(c)
    PROVE  SameObjects(c, c)
BY DEF SameObjects, SameRest, Made

LEMMA SameMade ==
    ASSUME NEW c, NEW d, SameObjects(c, d)
    PROVE  Made(d)
BY DEF SameObjects, SameRest, Made

LEMMA SoundMade ==
    ASSUME NEW c, Pooled(c)
    PROVE  Made(c)
BY DEF Pooled, Made

LEMMA EnqueueSame ==
    ASSUME NEW c, Made(c)
    PROVE  /\ SameObjects(c, scheduleHydrationFlush(c))
           /\ \A hashes : SameObjects(c, enqueueHydration(c, hashes))
           /\ SameObjects(c, HydrateVisible(c))
<1>1. /\ SameObjects(c, scheduleHydrationFlush(c))
      /\ \A hashes : SameObjects(c, enqueueHydration(c, hashes))
  BY DEF SameObjects, SameRest, Made, Parts, scheduleHydrationFlush, enqueueHydration
<1> QED BY <1>1 DEF HydrateVisible

LEMMA SearchSame ==
    ASSUME NEW c, Made(c)
    PROVE  /\ SameObjects(c, clearSearchHydrationScan(c)) /\ SameObjects(c, queueSearchHydration(c))
           /\ SameObjects(c, pumpSearchHydration(c))
<1>1. SameObjects(c, clearSearchHydrationScan(c))
  BY DEF SameObjects, SameRest, Made, Parts, clearSearchHydrationScan
<1>2. SameObjects(c, queueSearchHydration(c))
  <2>1. SameObjects(c, [c EXCEPT !.scan = c.index, !.scanTimer = TRUE])
    BY DEF SameObjects, SameRest, Made, Parts
  <2> QED BY <1>1, <2>1 DEF queueSearchHydration
<1>3. SameObjects(c, pumpSearchHydration(c))
  <2> DEFINE looked == {c.scan[i] : i \in 1..Min({ScanBudget, Len(c.scan)})}
             asked  == enqueueHydration(c, {h \in looked : commitNeedsHydration(c, h)})
             rest   == SubSeq(c.scan, ScanBudget + 1, Len(c.scan))
  <2>1. SameObjects(c, asked)
    BY EnqueueSame
  <2>2. pumpSearchHydration(c) = [asked EXCEPT !.scan = rest, !.scanTimer = rest # <<>>]
    BY DEF pumpSearchHydration
  <2> HIDE DEF asked, rest
  <2>3. SameObjects(asked, [asked EXCEPT !.scan = rest, !.scanTimer = rest # <<>>])
    BY <2>1 DEF SameObjects, SameRest, Parts
  <2> QED BY <2>1, <2>2, <2>3, SameChain
<1> QED BY <1>1, <1>2, <1>3

LEMMA LooksSame ==
    ASSUME NEW c, Made(c)
    PROVE  /\ SameObjects(c, hideTooltip(c)) /\ SameObjects(c, releaseDrag(c))
           /\ SameObjects(c, Labelled(c)) /\ SameObjects(c, reconcileInteractions(c))
           /\ SameObjects(c, Sorted(c)) /\ SameObjects(c, Found(c))
           /\ \A h : SameObjects(c, PointAtResult(c, h))
           /\ \A id : SameObjects(c, showTooltip(c, id))
<1>1. /\ SameObjects(c, hideTooltip(c)) /\ SameObjects(c, releaseDrag(c))
      /\ SameObjects(c, Labelled(c)) /\ SameObjects(c, reconcileInteractions(c))
  BY DEF SameObjects, SameRest, Made, Parts, hideTooltip, releaseDrag, Labelled, reconcileInteractions
<1>2. SameObjects(c, Sorted(c)) /\ SameObjects(c, Found(c))
  BY DEF SameObjects, SameRest, Made, Parts, Sorted, Found
<1>3. \A h : SameObjects(c, PointAtResult(c, h))
  BY DEF SameObjects, SameRest, Made, Parts, PointAtResult
<1>4. ASSUME NEW id PROVE SameObjects(c, showTooltip(c, id))
  <2> DEFINE d == IF c.lazy /\ c.node[id].hash # NoHash
                  THEN enqueueHydration(c, WithParents({c.node[id].hash})) ELSE c
  <2>1. SameObjects(c, d)
    BY EnqueueSame, SameItself
  <2> HIDE DEF d
  <2>2. SameObjects(d, [d EXCEPT !.tooltip = IF c.node[id].data = "none" THEN NoId ELSE id])
    BY <2>1 DEF SameObjects, SameRest, Parts
  <2> QED BY <2>1, <2>2, SameChain DEF showTooltip, d
<1> QED BY <1>1, <1>2, <1>3, <1>4

LEMMA RedrawSound ==
    ASSUME NEW c, Windowed(c), NEW synced, Pooled(synced), SameRest(c, synced),
           NEW scrolling, scrolling => Sound(c),
           ActiveHashes(c) = Range(c.window.entries) =>
               synced.active = c.active /\ Range(synced.pool) = Range(c.pool)
    PROVE  Sound(Redraw(c, synced, scrolling))
<1> DEFINE owned == [synced EXCEPT !.nodes = Range(synced.active)]
           drawn == Labelled(owned)
<1>1. Windowed(synced)
  BY DEF Windowed, SameRest
<1>2. CASE scrolling /\ ActiveHashes(c) = Range(c.window.entries)
  <2>1. DrawsOwned(synced)
    BY <1>2 DEF Sound, DrawsOwned, SameRest
  <2> QED BY <1>1, <1>2, <2>1 DEF Sound, Redraw
<1>3. CASE ~(scrolling /\ ActiveHashes(c) = Range(c.window.entries))
  <2>1. Sound(owned)
    <3>1. /\ Parts \subseteq DOMAIN synced /\ synced.active \in Seq(NodeId)
          /\ Range(synced.pool) \cap Range(synced.active) = {}
      BY DEF Pooled
    <3>2. /\ Parts \subseteq DOMAIN owned /\ owned.nodes = Range(synced.active)
          /\ owned.active = synced.active /\ owned.pool = synced.pool /\ owned.node = synced.node
          /\ owned.window = synced.window /\ owned.index = synced.index
          /\ owned.mode = synced.mode /\ owned.lazy = synced.lazy /\ owned.destroyed = synced.destroyed
      BY <3>1 DEF Parts
    <3> HIDE DEF owned
    <3>3. Pooled(owned)
      BY <3>2 DEF Pooled
    <3>4. DrawsOwned(owned)
      BY <3>1, <3>2, RangeOf DEF DrawsOwned
    <3>5. Windowed(owned)
      BY <1>1, <3>2 DEF Windowed
    <3> QED BY <3>3, <3>4, <3>5 DEF Sound
  <2> HIDE DEF owned
  <2>2. Sound(drawn)
    BY <2>1, LooksSame, SameSound, SoundMade DEF Sound
  <2> HIDE DEF drawn
  <2>3. Sound(reconcileInteractions(drawn))
    BY <2>2, LooksSame, SameSound, SoundMade DEF Sound
  <2>4. /\ Sound(applyDimmingFromPredicate(drawn))
        /\ Sound(applyDimmingFromPredicate(reconcileInteractions(drawn)))
    BY <2>2, <2>3, DimmingPaints, PaintedSound DEF Sound
  <2> QED BY <1>3, <2>4 DEF Redraw, drawn, owned
<1> QED BY <1>2, <1>3

LEMMA VisibleSound ==
    ASSUME NEW c, Pooled(c), Windowed(c), NEW scrolling, scrolling => Sound(c)
    PROVE  Sound(rebuildVisibleGraph(c, scrolling))
<1> DEFINE asked  == enqueueHydration(c, KnownParents(c, Range(c.window.entries)))
           synced == synchronize(asked, c.window.entries, c.commits, InUse(c))
<1>1. SameObjects(c, asked)
  BY EnqueueSame, SoundMade
<1>2. Pooled(asked) /\ ActiveHashes(asked) = ActiveHashes(c)
  BY <1>1, SameSound
<1> HIDE DEF asked
<1>3. /\ Pooled(synced) /\ SameRest(asked, synced)
      /\ ActiveHashes(asked) = Range(c.window.entries) =>
             synced.active = asked.active /\ Range(synced.pool) = Range(asked.pool)
  BY <1>2, SynchronizedHolds DEF Windowed
<1> HIDE DEF synced
<1>4. /\ SameRest(c, synced)
      /\ ActiveHashes(c) = Range(c.window.entries) =>
             synced.active = c.active /\ Range(synced.pool) = Range(c.pool)
  BY <1>1, <1>2, <1>3 DEF SameObjects, SameRest
<1> QED BY <1>3, <1>4, RedrawSound DEF rebuildVisibleGraph, synced, asked

LEMMA FramedSound ==
    ASSUME NEW c, Pooled(c), Windowed(c), NEW index \in Seq(Commit), IsInjective(index), NEW top, NEW height
    PROVE  /\ LET d == [c EXCEPT !.window = Query(index, top, height)]
              IN  Pooled(d) /\ Windowed(d) /\ (DrawsOwned(c) => DrawsOwned(d))
           /\ \A lanes, stashed : LET e == [c EXCEPT !.index = index, !.window = Query(index, top, height),
                                                      !.lanes = lanes, !.stashed = stashed]
                                   IN  Pooled(e) /\ Windowed(e)
<1> DEFINE w == Query(index, top, height)
           d == [c EXCEPT !.window = w]
<1>1. w.entries \in Seq(Commit) /\ IsInjective(w.entries)
  BY QueryHolds
<1> HIDE DEF w
<1>2. Made(c)
  BY SoundMade
<1>3. /\ Made(d) /\ d.nodes = c.nodes /\ d.window = w /\ d.index = c.index
      /\ d.mode = c.mode /\ d.lazy = c.lazy /\ d.destroyed = c.destroyed
      /\ d.active = c.active /\ d.pool = c.pool /\ d.node = c.node
  BY <1>2 DEF Made, Parts
<1>4. Pooled(d) /\ Windowed(d) /\ (DrawsOwned(c) => DrawsOwned(d))
  <2> HIDE DEF d
  <2> QED BY <1>1, <1>3 DEF Made, Pooled, DrawsOwned, Windowed
<1>5. ASSUME NEW lanes, NEW stashed
      PROVE  LET e == [c EXCEPT !.index = index, !.window = w, !.lanes = lanes, !.stashed = stashed]
             IN  Pooled(e) /\ Windowed(e)
  <2> DEFINE e == [c EXCEPT !.index = index, !.window = w, !.lanes = lanes, !.stashed = stashed]
  <2>1. /\ Made(e) /\ e.nodes = c.nodes /\ e.window = w /\ e.index = index
        /\ e.mode = c.mode /\ e.lazy = c.lazy /\ e.destroyed = c.destroyed
        /\ e.active = c.active /\ e.pool = c.pool /\ e.node = c.node
    BY <1>2 DEF Made, Parts
  <2> HIDE DEF e
  <2>2. Pooled(e) /\ Windowed(e)
    BY <1>1, <2>1 DEF Made, Pooled, Windowed
  <2> QED BY <2>2 DEF e
<1> QED BY <1>4, <1>5 DEF w

LEMMA ZoomSound ==
    ASSUME NEW c, Sound(c)
    PROVE  /\ \A top : Sound(zoomed(c, top))
           /\ \A tops : Sound(translateViewTo(c, tops))
<1>1. ASSUME NEW top PROVE Sound(zoomed(c, top))
  <2> DEFINE moved  == [c EXCEPT !.top = top]
             framed == [moved EXCEPT !.window = Query(c.index, top, c.height)]
  <2>1. SameObjects(c, moved)
    BY SoundMade DEF Sound, SameObjects, SameRest, Made, Parts
  <2>2. Sound(moved)
    BY <2>1, SameSound
  <2> HIDE DEF moved
  <2>3. Sound(framed)
    BY <2>2, FramedSound DEF Sound, Windowed
  <2> HIDE DEF framed
  <2>4. Sound(rematerializeFromViewport(framed))
    BY <2>3, VisibleSound DEF rematerializeFromViewport, Sound
  <2> QED BY <2>2, <2>4 DEF zoomed, moved, framed
<1>2. ASSUME NEW tops PROVE Sound(translateViewTo(c, tops))
  BY <1>1 DEF translateViewTo
<1> QED BY <1>1, <1>2

LEMMA CenterSound ==
    ASSUME NEW c, Sound(c)
    PROVE  /\ \A h : Sound(centerOnCommit(c, h))
           /\ Sound(CenterOnce(c))
<1>1. \A h : Sound(centerOnCommit(c, h))
  BY ZoomSound DEF centerOnCommit
<1> DEFINE centred == [c EXCEPT !.center = FALSE]
<1>2. SameObjects(c, centred)
  BY SoundMade DEF Sound, SameObjects, SameRest, Made, Parts
<1> HIDE DEF centred
<1>3. Sound(centerOnLatestCommit(centred))
  BY <1>2, SameSound, ZoomSound DEF centerOnLatestCommit
<1> QED BY <1>1, <1>3 DEF CenterOnce, centred
LEMMA LazySound ==
    ASSUME NEW c, Pooled(c), Windowed(c)
    PROVE  Sound(updateGraphLazy(c))
<1> DEFINE index == rebuild(DOMAIN c.commits)
           known == [c EXCEPT !.index = index, !.window = Query(index, c.top, c.height),
                              !.lanes = Arrange(c.lanes, DOMAIN c.commits),
                              !.stashed = StashCommits(c.stashes, DOMAIN c.commits)]
<1>1. index \in Seq(Commit) /\ IsInjective(index)
  BY RebuildHolds
<1> HIDE DEF index
<1>2. Pooled(known) /\ Windowed(known)
  BY <1>1, FramedSound
<1> HIDE DEF known
<1>3. Sound(rebuildVisibleGraph(known, FALSE))
  BY <1>2, VisibleSound
<1> QED BY <1>3, CenterSound DEF updateGraphLazy, known, index

(* The force layout gives every known commit an object of its own.         *)
LEMMA ReconcileSound ==
    ASSUME NEW c, Sound(c), ~c.lazy
    PROVE  Sound(reconcileCommitNodes(c))
<1> DEFINE known == DOMAIN c.commits
           kept  == {id \in c.nodes : c.node[id].hash \in known}
           new   == NewestFirst(known \ Drawn(c))
           ids   == NewIds(c, InUse(c), Len(new))
           hash(id) == IF id \in kept THEN c.node[id].hash ELSE new[CHOOSE i \in DOMAIN ids : ids[i] = id]
           both  == kept \cup Range(ids)
           nodes == [id \in NodeId |->
                       IF id \in both
                       THEN [hash |-> hash(id), data |-> c.commits[hash(id)], dimmed |-> c.node[id].dimmed]
                       ELSE c.node[id]]
           d     == reconcileCommitNodes(c)
<1>1. Made(c) /\ d = [c EXCEPT !.nodes = both, !.stashed = StashCommits(c.stashes, known), !.node = nodes]
  BY SoundMade DEF Sound, reconcileCommitNodes
<1>2. new \in Seq(Commit)
  BY AmongHolds, NewestAssumption DEF NewestFirst
<1>3. Len(new) \in Nat
  BY <1>2, LenProperties
<1>4. ids \in Seq(NodeId) /\ Range(ids) \cap (Range(c.active) \cup Range(c.pool)) = {}
  BY <1>3, NewIdsHolds
<1> HIDE DEF ids, new
<1>5. kept \subseteq c.nodes /\ c.nodes \subseteq NodeId /\ (~c.destroyed => c.nodes \cap Range(c.pool) = {})
  BY DEF Sound, DrawsOwned
<1>6. both \subseteq NodeId /\ (~c.destroyed => both \cap Range(c.pool) = {})
  BY <1>4, <1>5, RangeOf
<1>7. \A id \in kept : hash(id) = c.node[id].hash
  OBVIOUS
<1> HIDE DEF hash
<1>8. /\ DOMAIN nodes = NodeId
      /\ \A id \in NodeId \ both : nodes[id] = c.node[id]
      /\ \A id \in NodeId \cap both : Fields \subseteq DOMAIN nodes[id] /\ nodes[id].hash = hash(id)
  BY DEF Fields
<1> HIDE DEF both, nodes
<1>9. /\ Made(d) /\ d.nodes = both /\ d.window = c.window /\ d.index = c.index
      /\ d.mode = c.mode /\ d.lazy = c.lazy /\ d.destroyed = c.destroyed
      /\ d.active = c.active /\ d.pool = c.pool /\ d.node = nodes
  BY <1>1 DEF Made, Parts
<1> HIDE DEF d
<1>10. /\ c.active \in Seq(NodeId) /\ IsInjective(c.active) /\ c.pool \in Seq(NodeId) /\ IsInjective(c.pool)
       /\ Range(c.pool) \cap Range(c.active) = {}
       /\ \A id \in NodeId : Fields \subseteq DOMAIN c.node[id]
       /\ \A id, jd \in Range(c.active) : id # jd => c.node[id].hash # c.node[jd].hash
       /\ ~c.destroyed => \A id \in Range(c.pool) : c.node[id] = Blank
  BY DEF Sound, Pooled
<1>11. \A id \in NodeId : Fields \subseteq DOMAIN nodes[id]
  BY <1>8, <1>10
<1>12. \A id \in Range(c.active) : nodes[id].hash = c.node[id].hash
  <2> SUFFICES ASSUME NEW id \in Range(c.active) PROVE nodes[id].hash = c.node[id].hash
    OBVIOUS
  <2>1. id \in NodeId /\ id \notin Range(ids)
    BY <1>4, <1>10, RangeOf
  <2>2. id \in both => id \in kept
    BY <2>1 DEF both
  <2> QED BY <1>7, <1>8, <2>1, <2>2
<1>13. ~c.destroyed => \A id \in Range(c.pool) : nodes[id] = Blank
  <2> SUFFICES ASSUME ~c.destroyed, NEW id \in Range(c.pool) PROVE nodes[id] = Blank
    OBVIOUS
  <2>1. id \in NodeId \ both
    BY <1>6, <1>10, RangeOf
  <2> QED BY <1>8, <1>10, <2>1
<1>14. Pooled(d)
  BY <1>8, <1>9, <1>10, <1>11, <1>12, <1>13 DEF Pooled, Made
<1>15. DrawsOwned(d) /\ Windowed(d)
  BY <1>6, <1>9 DEF Sound, DrawsOwned, Windowed
<1> QED BY <1>14, <1>15 DEF Sound, d

LEMMA EagerSound ==
    ASSUME NEW c, Sound(c), ~c.lazy
    PROVE  Sound(updateGraphEager(c))
<1> DEFINE given  == reconcileCommitNodes(c)
           drawn  == reconcileInteractions(Labelled(given))
           dimmed == applyDimmingFromPredicate(drawn)
<1>1. Sound(given)
  BY ReconcileSound
<1> HIDE DEF given
<1>2. Sound(Labelled(given))
  BY <1>1, LooksSame, SameSound, SoundMade DEF Sound
<1>3. Sound(drawn)
  BY <1>2, LooksSame, SameSound, SoundMade DEF Sound
<1> HIDE DEF drawn
<1>4. Sound(dimmed)
  BY <1>3, DimmingPaints, PaintedSound DEF Sound
<1> HIDE DEF dimmed
<1>5. Sound(HydrateVisible(dimmed))
  BY <1>4, EnqueueSame, SameSound, SoundMade DEF Sound
<1> QED BY <1>5 DEF updateGraphEager, dimmed, drawn, given

LEMMA UpdateSound ==
    ASSUME NEW c, Pooled(c), Windowed(c), c.mode # "lane" => DrawsOwned(c)
    PROVE  Sound(updateGraph(c))
<1> DEFINE fresh == [c EXCEPT !.sorted = NoCache, !.results = NoCache]
           lazy  == [fresh EXCEPT !.lazy = TRUE]
<1>1. SameObjects(c, fresh)
  BY SoundMade DEF SameObjects, SameRest, Made, Parts
<1> HIDE DEF fresh
<1>2. Pooled(fresh) /\ Windowed(fresh) /\ (DrawsOwned(c) => DrawsOwned(fresh)) /\ fresh.mode = c.mode
  BY <1>1, SameObjectsPaint, PaintedPooled DEF SameObjects, SameRest
<1>3. CASE c.mode = "lane"
  <2>1. /\ Made(lazy) /\ lazy.nodes = fresh.nodes /\ lazy.window = fresh.window /\ lazy.index = fresh.index
        /\ lazy.mode = fresh.mode /\ lazy.destroyed = fresh.destroyed
        /\ lazy.active = fresh.active /\ lazy.pool = fresh.pool /\ lazy.node = fresh.node
    BY <1>2, SoundMade DEF Made, Parts
  <2> HIDE DEF lazy
  <2>2. Pooled(lazy) /\ Windowed(lazy)
    BY <1>2, <1>3, <2>1 DEF Pooled, Windowed, Made
  <2>3. Sound(updateGraphLazy(lazy))
    BY <2>2, LazySound
  <2> QED BY <1>3, <2>3 DEF updateGraph, fresh, lazy
<1>4. CASE c.mode # "lane"
  <2>1. Sound(fresh) /\ ~fresh.lazy
    BY <1>2, <1>4 DEF Sound, Windowed
  <2> QED BY <1>4, <2>1, EagerSound DEF updateGraph, fresh
<1> QED BY <1>3, <1>4

LEMMA GraphSound ==
    ASSUME NEW c, Sound(c)
    PROVE  Sound(updateGraph(c))
BY UpdateSound DEF Sound

LEMMA LayoutSound ==
    ASSUME NEW c, Sound(c), NEW mode \in {"lane", "force"}
    PROVE  Sound(switchLayout(c, mode))
<1> DEFINE left  == [c EXCEPT !.isolated = NoLane, !.mode = mode,
                             !.lanes = IF mode = "lane" THEN Arrange(<<>>, Drawn(c)) ELSE <<>>]
           lane  == [left EXCEPT !.lazy = TRUE, !.center = TRUE]
           force == [left EXCEPT !.lazy = FALSE, !.nodes = {}]
<1>1. /\ Made(left) /\ left.nodes = c.nodes /\ left.window = c.window /\ left.index = c.index
      /\ left.mode = mode /\ left.lazy = c.lazy /\ left.destroyed = c.destroyed
      /\ left.active = c.active /\ left.pool = c.pool /\ left.node = c.node
  BY SoundMade DEF Sound, Made, Parts
<1> HIDE DEF left
<1>2. /\ Made(lane) /\ lane.nodes = c.nodes /\ lane.window = c.window /\ lane.index = c.index
      /\ lane.mode = mode /\ lane.destroyed = c.destroyed
      /\ lane.active = c.active /\ lane.pool = c.pool /\ lane.node = c.node
  BY <1>1 DEF Made, Parts
<1>3. /\ Made(force) /\ force.nodes = {} /\ force.window = c.window /\ force.index = c.index
      /\ force.mode = mode /\ ~force.lazy /\ force.destroyed = c.destroyed
      /\ force.active = c.active /\ force.pool = c.pool /\ force.node = c.node
  BY <1>1 DEF Made, Parts
<1> HIDE DEF lane, force
<1>4. CASE mode = "lane"
  <2> DEFINE queued == queueSearchHydration(lane)
  <2>1. Pooled(lane) /\ Windowed(lane)
    BY <1>2, <1>4 DEF Sound, Pooled, Windowed, Made
  <2>2. SameObjects(lane, queued)
    BY <1>2, SearchSame
  <2> HIDE DEF queued
  <2>3. Pooled(queued) /\ Windowed(queued) /\ queued.mode = "lane"
    BY <1>2, <1>4, <2>1, <2>2, SameObjectsPaint, PaintedPooled DEF SameObjects, SameRest
  <2>4. Sound(updateGraph(queued))
    BY <2>3, UpdateSound
  <2> QED BY <1>4, <2>4 DEF switchLayout, left, lane, queued
<1>5. CASE mode = "force"
  <2>1. Pooled(force) /\ Windowed(force)
    BY <1>3 DEF Sound, Pooled, Windowed, Made
  <2>2. Sound(clear(force))
    BY <1>3, <2>1, ClearedHolds
  <2>3. Sound(clearSearchHydrationScan(clear(force)))
    BY <2>2, SearchSame, SameSound, SoundMade DEF Sound
  <2>4. Sound(updateGraph(clearSearchHydrationScan(clear(force))))
    BY <2>3, GraphSound
  <2> QED BY <1>5, <2>4 DEF switchLayout, left, force
<1> QED BY <1>4, <1>5

(* The commands that select, step and search.                              *)

LEMMA SelectNodeSound ==
    ASSUME NEW c, Sound(c), NEW h, NEW id
    PROVE  Sound(SelectNode(c, h, id))
<1> DEFINE asked  == enqueueHydration(c, WithParents({h}))
           chosen == [asked EXCEPT !.selected = h]
           tipped == showTooltip(chosen, id)
           shown  == centerOnCommit(tipped, h)
<1>1. SameObjects(c, asked)
  BY EnqueueSame, SoundMade DEF Sound
<1> HIDE DEF asked
<1>2. SameObjects(asked, chosen)
  BY <1>1, SameMade DEF SameObjects, SameRest, Made, Parts
<1> HIDE DEF chosen
<1>3. SameObjects(chosen, tipped)
  BY <1>2, SameMade, LooksSame
<1> HIDE DEF tipped
<1>4. Sound(tipped)
  BY <1>1, <1>2, <1>3, SameSound
<1>5. Sound(shown)
  BY <1>4, CenterSound
<1> HIDE DEF shown
<1>6. Sound(PointAtResult(shown, h))
  BY <1>5, LooksSame, SameSound, SoundMade DEF Sound
<1> QED BY <1>6 DEF SelectNode, shown, tipped, chosen, asked

LEMMA SelectCommitSound ==
    ASSUME NEW c, Sound(c)
    PROVE  /\ \A h : Sound(selectAndCenterCommit(c, h))
           /\ \A hashes : Sound(SelectIn(c, hashes))
<1>1. ASSUME NEW h PROVE Sound(selectAndCenterCommit(c, h))
  <2> DEFINE able == c.lazy /\ Indexed(c.index, h) /\ h \in DOMAIN c.commits
             with == Materialized(c, h)
  <2>1. ASSUME h \in Drawn(c) \/ able PROVE Sound(with)
    <3>1. CASE h \in Drawn(c)
      BY <3>1 DEF Materialized
    <3>2. CASE h \notin Drawn(c)
      <4>1. h \in Commit
        BY <2>1, <3>2, RangeOf DEF Indexed, Sound, Windowed
      <4> QED BY <3>2, <4>1, ForcedHolds DEF Materialized
    <3> QED BY <3>1, <3>2
  <2> HIDE DEF with
  <2>2. CASE h \in Drawn(c) \/ able
    <3>1. Sound(SelectNode(with, h, ObjectOf(with, h)))
      BY <2>1, <2>2, SelectNodeSound
    <3> QED BY <2>2, <3>1 DEF selectAndCenterCommit, with
  <2>3. CASE ~(h \in Drawn(c) \/ able)
    BY <2>3 DEF selectAndCenterCommit
  <2> QED BY <2>2, <2>3
<1> QED BY <1>1 DEF SelectIn

LEMMA NavigateSound ==
    ASSUME NEW c, Sound(c)
    PROVE  /\ Sound(Sorted(c))
           /\ \A newer : Sound(navigateCommits(c, newer))
           /\ \A forward : Sound(navigateSearchResults(c, forward))
<1>1. ASSUME NEW d, Sound(d) PROVE Sound(Sorted(d)) /\ Sound(Found(d))
  BY <1>1, LooksSame, SameSound, SoundMade DEF Sound
<1>2. ASSUME NEW newer PROVE Sound(navigateCommits(c, newer))
  BY <1>1, SelectCommitSound DEF navigateCommits, StepFromSelected
<1>3. ASSUME NEW d, Sound(d), NEW i PROVE Sound(StepToResult(d, i))
  <2> DEFINE at == [d EXCEPT !.resultIndex = i]
  <2>1. SameObjects(d, at)
    BY <1>3, SoundMade DEF Sound, SameObjects, SameRest, Made, Parts
  <2> HIDE DEF at
  <2>2. Sound(selectAndCenterCommit(at, d.results[i]))
    BY <1>3, <2>1, SameSound, SelectCommitSound
  <2> QED BY <2>2 DEF StepToResult, at
<1>4. ASSUME NEW forward PROVE Sound(navigateSearchResults(c, forward))
  <2>1. Sound(Found(Sorted(c)))
    BY <1>1
  <2>2. \A d : Sound(d) => Sound(StepInResults(d, forward))
    BY <1>3 DEF StepInResults
  <2> QED BY <2>1, <2>2 DEF navigateSearchResults
<1> QED BY <1>1, <1>2, <1>4

(* The messages and the answers.                                           *)

LEMMA SetFieldsSame ==
    ASSUME NEW c, Made(c)
    PROVE  /\ \A x, y, z : SameObjects(c, [c EXCEPT !.search = x, !.results = y, !.resultIndex = z])
           /\ \A x, y, z : SameObjects(c, [c EXCEPT !.filter = x, !.results = y, !.resultIndex = z])
           /\ \A x : SameObjects(c, [c EXCEPT !.scope = x])
           /\ \A x : SameObjects(c, [c EXCEPT !.isolated = x])
           /\ \A x : SameObjects(c, [c EXCEPT !.drag = x])
           /\ \A x : SameObjects(c, [c EXCEPT !.drag.moved = x])
           /\ \A x, y : SameObjects(c, [c EXCEPT !.drag.at = x, !.lanes = y])
           /\ \A x : SameObjects(c, [c EXCEPT !.lanes = x])
           /\ \A x : SameObjects(c, [c EXCEPT !.selected = x])
           /\ \A x : SameObjects(c, [c EXCEPT !.height = x])
           /\ \A x : SameObjects(c, [c EXCEPT !.head = x])
           /\ \A x : SameObjects(c, [c EXCEPT !.inflight = x])
           /\ \A x, y : SameObjects(c, [c EXCEPT !.tags = x, !.stashes = y])
           /\ \A x, y : SameObjects(c, [c EXCEPT !.commits = x, !.branches = y])
           /\ \A x, y, z : SameObjects(c, [c EXCEPT !.flushTimer = x, !.pending = y, !.inflight = z])
BY DEF SameObjects, SameRest, Made, Parts

LEMMA DataSame ==
    ASSUME NEW c, Made(c)
    PROVE  /\ \A hashes, level : SameObjects(c, AddCommits(c, hashes, level))
           /\ \A branches : SameObjects(c, AddBranches(c, branches))
           /\ \A h : SameObjects(c, setHeadHash(c, h)) /\ SameObjects(c, SyncHead(c, h))
           /\ \A batch : SameObjects(c, EndBatch(c, batch))
<1>1. /\ \A hashes, level : SameObjects(c, AddCommits(c, hashes, level))
      /\ \A branches : SameObjects(c, AddBranches(c, branches))
  BY DEF SameObjects, SameRest, Made, Parts, AddCommits, AddBranches
<1>2. ASSUME NEW h PROVE SameObjects(c, setHeadHash(c, h))
  <2> DEFINE moved == [c EXCEPT !.head = h]
  <2>1. SameObjects(c, moved)
    BY SetFieldsSame
  <2> HIDE DEF moved
  <2>2. SameObjects(c, enqueueHydration(moved, {h}))
    BY <2>1, SameMade, EnqueueSame, SameChain
  <2> QED BY <2>1, <2>2 DEF setHeadHash, moved
<1>3. ASSUME NEW batch PROVE SameObjects(c, EndBatch(c, batch))
  <2> DEFINE freed == [c EXCEPT !.inflight = @ \ batch]
  <2>1. SameObjects(c, freed)
    BY SetFieldsSame
  <2> HIDE DEF freed
  <2>2. SameObjects(c, scheduleHydrationFlush(freed))
    BY <2>1, SameMade, EnqueueSame, SameChain
  <2> QED BY <2>2 DEF EndBatch, freed
<1> QED BY <1>1, <1>2, <1>3, SameItself DEF SyncHead

LEMMA LeaveForceSound ==
    ASSUME NEW c, Sound(c)
    PROVE  Sound(LeaveForce(c))
BY LayoutSound DEF LeaveForce

LEMMA ChunkSound ==
    ASSUME NEW c, Sound(c), NEW m
    PROVE  Sound(ApplyChunk(c, m))
<1> DEFINE added == AddCommits(c, Range(m.commits), m.level)
           named == AddBranches(added, m.branches)
           moved == SyncHead(named, m.head)
<1>1. SameObjects(c, added)
  BY DataSame, SoundMade DEF Sound
<1> HIDE DEF added
<1>2. SameObjects(added, named)
  BY <1>1, DataSame, SameMade
<1> HIDE DEF named
<1>3. SameObjects(named, moved)
  BY <1>2, DataSame, SameMade
<1> HIDE DEF moved
<1>4. Sound(moved)
  BY <1>1, <1>2, <1>3, SameSound
<1> QED BY <1>4, LeaveForceSound DEF ApplyChunk, moved, named, added

LEMMA CompleteSound ==
    ASSUME NEW c, Sound(c), NEW m
    PROVE  Sound(ApplyComplete(c, m))
<1> DEFINE moved == SyncHead(c, m.head)
           named == [moved EXCEPT !.tags = m.tags, !.stashes = m.stashes]
<1>1. SameObjects(c, moved)
  BY DataSame, SoundMade DEF Sound
<1> HIDE DEF moved
<1>2. SameObjects(moved, named)
  BY <1>1, SetFieldsSame, SameMade
<1> HIDE DEF named
<1>3. Sound(updateGraph(LeaveForce(named)))
  BY <1>1, <1>2, SameSound, LeaveForceSound, GraphSound
<1> QED BY <1>3 DEF ApplyComplete, named, moved

LEMMA LiveSound ==
    ASSUME NEW c, Sound(c), NEW delta
    PROVE  Sound(ApplyLive(c, delta))
<1> DEFINE g == applyDelta([commits |-> DOMAIN c.commits, branches |-> c.branches, head |-> c.head,
                            tags |-> c.tags, stashes |-> c.stashes], delta)
           added == AddCommits(c, delta.addedCommits, "full")
           left  == [added EXCEPT !.commits = Restrict(@, g.commits), !.branches = g.branches]
           moved == SyncHead(left, delta.headHash)
           named == [moved EXCEPT !.tags = g.tags, !.stashes = g.stashes]
<1>1. SameObjects(c, added)
  BY DataSame, SoundMade DEF Sound
<1>2. ApplyLive(c, delta) = updateGraph(LeaveForce(named))
  BY DEF ApplyLive, AfterDelta
<1> HIDE DEF added, g
<1>3. SameObjects(added, left)
  BY <1>1, SetFieldsSame, SameMade
<1> HIDE DEF left
<1>4. SameObjects(left, moved)
  BY <1>3, DataSame, SameMade
<1> HIDE DEF moved
<1>5. SameObjects(moved, named)
  BY <1>4, SetFieldsSame, SameMade
<1> HIDE DEF named
<1>6. Sound(updateGraph(LeaveForce(named)))
  BY <1>1, <1>3, <1>4, <1>5, SameSound, LeaveForceSound, GraphSound
<1> QED BY <1>2, <1>6

LEMMA ResetSound ==
    ASSUME NEW c, Sound(c)
    PROVE  Sound(resetData(c))
<1> DEFINE fresh == [c EXCEPT !.commits = <<>>, !.branches = <<>>, !.tags = <<>>, !.stashes = {},
                              !.head = NoHash, !.nodes = {}, !.branchNodes = <<>>, !.tagNodes = <<>>,
                              !.selected = NoHash, !.sorted = NoCache, !.results = NoCache,
                              !.resultIndex = 0]
<1>1. /\ Made(fresh) /\ fresh.nodes = {} /\ fresh.window = c.window /\ fresh.index = c.index
      /\ fresh.mode = c.mode /\ fresh.lazy = c.lazy /\ fresh.destroyed = c.destroyed
      /\ fresh.active = c.active /\ fresh.pool = c.pool /\ fresh.node = c.node
  BY SoundMade DEF Sound, Made, Parts
<1>2. resetData(c) = updateGraph(clear(fresh))
  BY DEF resetData, resetGraphData
<1> HIDE DEF fresh
<1>3. Pooled(fresh) /\ Windowed(fresh)
  BY <1>1 DEF Sound, Pooled, Windowed, Made
<1>4. Sound(clear(fresh))
  BY <1>1, <1>3, ClearedHolds
<1> QED BY <1>2, <1>4, GraphSound

Merged(c, hashes) ==
    [AddCommits(c, hashes, "full") EXCEPT
       !.node = [id \in NodeId |-> IF id \in c.nodes /\ @[id].hash \in hashes
                                   THEN [@[id] EXCEPT !.data = "full"] ELSE @[id]]]

LEMMA MergedSound ==
    ASSUME NEW c, Sound(c), NEW hashes
    PROVE  Sound(Merged(c, hashes))
<1> DEFINE added  == AddCommits(c, hashes, "full")
           nodes  == [id \in NodeId |->
                         IF id \in c.nodes /\ added.node[id].hash \in hashes
                         THEN [added.node[id] EXCEPT !.data = "full"] ELSE added.node[id]]
           merged == [added EXCEPT !.node = nodes]
<1>1. Merged(c, hashes) = merged
  BY DEF Merged
<1>2. SameObjects(c, added)
  BY DataSame, SoundMade DEF Sound
<1> HIDE DEF added
<1>3. Sound(added) /\ added.nodes = c.nodes
  BY <1>2, SameSound DEF SameObjects, SameRest
<1>4. Parts \subseteq DOMAIN added /\ \A id \in NodeId : Fields \subseteq DOMAIN added.node[id]
  BY <1>3 DEF Sound, Pooled
<1>5. \A id \in NodeId : \A x : LET n == [added.node[id] EXCEPT !.data = x]
                                IN  Fields \subseteq DOMAIN n /\ n.hash = added.node[id].hash
  BY <1>4 DEF Fields
<1>6. DOMAIN nodes = NodeId /\ \A id \in NodeId : id \notin c.nodes => nodes[id] = added.node[id]
  OBVIOUS
<1>7. \A id \in NodeId : Fields \subseteq DOMAIN nodes[id] /\ nodes[id].hash = added.node[id].hash
  BY <1>4, <1>5
<1>8. ~added.destroyed => \A id \in Range(added.pool) : nodes[id] = added.node[id]
  BY <1>3, <1>6, RangeOf DEF Sound, Pooled, DrawsOwned
<1> HIDE DEF nodes
<1>9. /\ Parts \subseteq DOMAIN merged /\ merged.node = nodes
      /\ merged.active = added.active /\ merged.pool = added.pool
      /\ merged.nodes = added.nodes /\ merged.window = added.window /\ merged.index = added.index
      /\ merged.mode = added.mode /\ merged.lazy = added.lazy /\ merged.destroyed = added.destroyed
  BY <1>4 DEF Parts
<1> HIDE DEF merged
<1>10. Painted(added, merged)
  BY <1>6, <1>7, <1>8, <1>9 DEF Painted, SameRest
<1> QED BY <1>1, <1>3, <1>10, PaintedSound

LEMMA HydratedSound ==
    ASSUME NEW c, Sound(c), NEW hashes
    PROVE  Sound(MergeHydrated(c, hashes))
<1> DEFINE asked == enqueueHydration(Merged(c, hashes), UNION {ParentSet(h) : h \in hashes})
           next  == IF hashes \subseteq DOMAIN c.commits THEN asked ELSE updateGraph(asked)
<1>1. MergeHydrated(c, hashes) = IF hashes = {} THEN c ELSE DimAgain(next)
  BY DEF MergeHydrated, Merged
<1>2. Sound(asked)
  BY MergedSound, EnqueueSame, SameSound, SoundMade DEF Sound
<1> HIDE DEF asked
<1>3. Sound(next)
  BY <1>2, GraphSound
<1> HIDE DEF next
<1>4. Sound(DimAgain(next))
  BY <1>3, DimmingPaints, PaintedSound DEF DimAgain, Sound
<1> QED BY <1>1, <1>4

LEMMA CollectedSound ==
    ASSUME NEW c, Sound(c)
    PROVE  Sound(Collected(c))
<1> DEFINE live  == Range(c.active) \cup Range(c.pool) \cup InUse(c)
           nodes == [id \in NodeId |-> IF id \in live THEN c.node[id] ELSE Blank]
           d     == Collected(c)
<1>1. Made(c) /\ d = [c EXCEPT !.node = nodes]
  BY SoundMade DEF Sound, Collected
<1>2. DOMAIN nodes = NodeId /\ \A id \in NodeId : nodes[id] \in {c.node[id], Blank}
  OBVIOUS
<1>3. Range(c.active) \subseteq NodeId /\ Range(c.pool) \subseteq NodeId
  BY RangeOf DEF Sound, Pooled
<1>4. \A id \in Range(c.active) \cup Range(c.pool) : nodes[id] = c.node[id]
  BY <1>3
<1>5. Fields \subseteq DOMAIN Blank
  BY DEF Fields, Blank
<1>6. \A id \in NodeId : Fields \subseteq DOMAIN nodes[id]
  BY <1>2, <1>5 DEF Sound, Pooled
<1> HIDE DEF nodes
<1>7. /\ Made(d) /\ d.nodes = c.nodes /\ d.window = c.window /\ d.index = c.index
      /\ d.mode = c.mode /\ d.lazy = c.lazy /\ d.destroyed = c.destroyed
      /\ d.active = c.active /\ d.pool = c.pool /\ d.node = nodes
  BY <1>1 DEF Made, Parts
<1> HIDE DEF d
<1>8. Pooled(d)
  BY <1>2, <1>4, <1>6, <1>7 DEF Sound, Pooled, Made
<1>9. DrawsOwned(d) /\ Windowed(d)
  BY <1>7 DEF Sound, DrawsOwned, Windowed
<1> QED BY <1>8, <1>9 DEF Sound, d

LEMMA DestroySound ==
    ASSUME NEW c, Sound(c)
    PROVE  Sound(destroy(c))
<1> DEFINE ended == [c EXCEPT !.flushTimer = FALSE, !.lazy = FALSE, !.lanes = <<>>,
                       !.destroyed = TRUE, !.tooltip = NoId]
<1>1. /\ Made(ended) /\ ended.nodes = c.nodes /\ ended.window = c.window /\ ended.index = c.index
      /\ ended.mode = c.mode /\ ~ended.lazy /\ ended.destroyed
      /\ ended.active = c.active /\ ended.pool = c.pool /\ ended.node = c.node
  BY SoundMade DEF Sound, Made, Parts
<1> HIDE DEF ended
<1>2. Pooled(ended) /\ Windowed(ended) /\ ended.nodes \subseteq NodeId
  BY <1>1 DEF Sound, Pooled, Windowed, Made, DrawsOwned
<1>3. Sound(clear(ended))
  BY <1>1, <1>2, ClearedHolds
<1>4. Sound(releaseDrag(clearSearchHydrationScan(clear(ended))))
  BY <1>3, SearchSame, LooksSame, SameSound, SoundMade DEF Sound
<1> QED BY <1>4 DEF destroy, ended

LEMMA BecomesSound ==
    ASSUME NEW c, Sound(c), Becomes(c)
    PROVE  Sound(ctl')
BY CollectedSound DEF Becomes

LEMMA FeedSound ==
    ASSUME Sound(ctl), Feed
    PROVE  Sound(ctl')
<1>1. CASE Connect
  BY <1>1 DEF Connect
<1>2. CASE OnRepoMetadata
  BY <1>2, ResetSound, BecomesSound DEF OnRepoMetadata
<1>3. CASE OnBootstrapChunk
  BY <1>3, ChunkSound, BecomesSound DEF OnBootstrapChunk
<1>4. CASE OnBootstrapComplete
  BY <1>4, CompleteSound, BecomesSound DEF OnBootstrapComplete
<1>5. CASE OnDelta
  BY <1>5, LiveSound, BecomesSound DEF OnDelta
<1>6. CASE OnHead
  BY <1>6, DataSame, SameSound, SoundMade, BecomesSound DEF OnHead, Sound
<1> QED BY <1>1, <1>2, <1>3, <1>4, <1>5, <1>6 DEF Feed

LEMMA HydrationSound ==
    ASSUME Sound(ctl), Hydration
    PROVE  Sound(ctl')
<1>1. CASE PumpSearch
  BY <1>1, SearchSame, SameSound, SoundMade, BecomesSound DEF PumpSearch, Sound
<1>2. ASSUME NEW batch, flushHydrationBatch(batch) PROVE Sound(ctl')
  <2>1. ctl' = [ctl EXCEPT !.flushTimer = FALSE, !.pending = @ \ batch, !.inflight = @ \cup batch]
    BY <1>2 DEF flushHydrationBatch
  <2>2. SameObjects(ctl, ctl')
    BY <2>1, SetFieldsSame, SoundMade DEF Sound
  <2> QED BY <2>2, SameSound
<1>3. ASSUME NEW r, handleGraphCommits(r) \/ NextChunk(r) PROVE Sound(ctl')
  BY <1>3 DEF handleGraphCommits, NextChunk
<1>4. ASSUME NEW r, BatchArrives(r) PROVE Sound(ctl')
  <2> DEFINE merged == MergeHydrated(ctl, r.got \cup r.answer)
  <2>1. Sound(merged)
    BY HydratedSound
  <2>2. Becomes(EndBatch(merged, r.batch))
    BY <1>4 DEF BatchArrives
  <2> HIDE DEF merged
  <2>3. Sound(EndBatch(merged, r.batch))
    BY <2>1, DataSame, SameSound, SoundMade DEF Sound
  <2> QED BY <2>2, <2>3, BecomesSound
<1> QED BY <1>1, <1>2, <1>3, <1>4 DEF Hydration

LEMMA PointerSound ==
    ASSUME Sound(ctl), Pointer
    PROVE  Sound(ctl')
<1>1. Made(ctl)
  BY SoundMade DEF Sound
<1>2. ASSUME NEW c, SameObjects(ctl, c) PROVE Made(c) /\ Sound(c) /\ Sound(applyDimmingFromPredicate(c))
  BY <1>2, SameMade, SameSound, DimmingPaints, PaintedSound DEF Sound
<1>3. CASE PointerDownOnHeader
  BY <1>1, <1>2, <1>3, SetFieldsSame, BecomesSound DEF PointerDownOnHeader
<1>4. CASE PointerDownOnBody
  <2>1. PICK l : Becomes(applyDimmingFromPredicate(
                     [ctl EXCEPT !.isolated = IF @ = l THEN NoLane ELSE l]))
    BY <1>4 DEF PointerDownOnBody
  <2> QED BY <1>1, <1>2, <2>1, SetFieldsSame, BecomesSound
<1>5. CASE PointerDownOnNode
  BY <1>1, <1>2, <1>5, SetFieldsSame, BecomesSound DEF PointerDownOnNode
<1>6. CASE PointerDownOnCanvas
  <2> DEFINE c == hideTooltip(ctl)
             d == [c EXCEPT !.isolated = NoLane]
  <2>1. SameObjects(ctl, c)
    BY <1>1, LooksSame
  <2>2. Becomes(c) \/ Becomes(applyDimmingFromPredicate(d))
    BY <1>6 DEF PointerDownOnCanvas
  <2> HIDE DEF c
  <2>3. SameObjects(ctl, d)
    BY <1>2, <2>1, SetFieldsSame, SameChain
  <2> HIDE DEF d
  <2> QED BY <1>2, <2>1, <2>2, <2>3, BecomesSound
<1>7. CASE DragNode
  <2> DEFINE c == [ctl EXCEPT !.drag.moved = TRUE]
  <2>1. SameObjects(ctl, c)
    BY <1>1, SetFieldsSame
  <2>2. Becomes(hideTooltip(c))
    BY <1>7 DEF DragNode
  <2> HIDE DEF c
  <2>3. SameObjects(ctl, hideTooltip(c))
    BY <1>2, <2>1, LooksSame, SameChain
  <2> QED BY <1>2, <2>2, <2>3, BecomesSound
<1>8. CASE handlePointerUp
  <2> DEFINE id == ctl.drag.on
             c  == releaseDrag(ctl)
             d  == hideTooltip(c)
             s  == showTooltip(c, id)
             e  == EnqueueClicked(s, id)
  <2>1. \/ Becomes(c) \/ Becomes([d EXCEPT !.selected = NoHash])
        \/ Becomes([e EXCEPT !.selected = c.node[id].hash])
    BY <1>8 DEF handlePointerUp
  <2>2. SameObjects(ctl, c)
    BY <1>1, LooksSame
  <2> HIDE DEF c
  <2>5. SameObjects(ctl, d) /\ SameObjects(ctl, s)
    BY <1>2, <2>2, LooksSame, SameChain
  <2> HIDE DEF d, s
  <2>3. SameObjects(ctl, d) /\ SameObjects(ctl, e)
    BY <1>2, <2>5, EnqueueSame, SameChain DEF EnqueueClicked
  <2> HIDE DEF e
  <2>4. SameObjects(ctl, [d EXCEPT !.selected = NoHash]) /\ SameObjects(ctl, [e EXCEPT !.selected = c.node[id].hash])
    BY <1>2, <2>3, SetFieldsSame, SameChain
  <2> QED BY <1>2, <2>1, <2>2, <2>4, BecomesSound
<1>9. CASE DragLane
  BY <1>1, <1>2, <1>9, SetFieldsSame, BecomesSound DEF DragLane
<1> QED BY <1>3, <1>4, <1>5, <1>6, <1>7, <1>8, <1>9 DEF Pointer, handlePointerMove

LEMMA EventsSound ==
    ASSUME Sound(ctl), Events
    PROVE  Sound(ctl')
<1>1. Made(ctl)
  BY SoundMade DEF Sound
<1>2. ASSUME NEW c, SameObjects(ctl, c) PROVE Made(c) /\ Sound(c) /\ Sound(applyDimmingFromPredicate(c))
  BY <1>2, SameMade, SameSound, DimmingPaints, PaintedSound DEF Sound
<1>3. CASE Scroll
  BY <1>3, ZoomSound, BecomesSound DEF Scroll
<1>4. CASE resize
  <2>1. PICK h \in Heights \ {ctl.height} :
           LET c == [ctl EXCEPT !.height = h]
           IN  Becomes(IF c.lazy
                       THEN rematerializeFromViewport([c EXCEPT !.window = Query(c.index, c.top, h)])
                       ELSE HydrateVisible(c))
    BY <1>4 DEF resize
  <2> DEFINE c == [ctl EXCEPT !.height = h]
             w == [c EXCEPT !.window = Query(c.index, c.top, h)]
  <2>2. Becomes(rematerializeFromViewport(w)) \/ Becomes(HydrateVisible(c))
    BY <2>1
  <2>3. SameObjects(ctl, c)
    BY <1>1, SetFieldsSame
  <2> HIDE DEF c
  <2>4. Sound(w)
    BY <1>2, <2>3, FramedSound DEF Sound, Windowed
  <2> HIDE DEF w
  <2>5. Sound(rematerializeFromViewport(w))
    BY <2>4, VisibleSound DEF rematerializeFromViewport, Sound
  <2>6. Sound(HydrateVisible(c))
    BY <1>2, <2>3, EnqueueSame, SameSound
  <2> QED BY <2>2, <2>5, <2>6, BecomesSound
<1>5. CASE SetSearchState
  <2> DEFINE c == [ctl EXCEPT !.search = ~@, !.results = NoCache, !.resultIndex = 0]
  <2>1. Becomes(applyDimmingFromPredicate(queueSearchHydration(c)))
    BY <1>5 DEF SetSearchState
  <2>2. SameObjects(ctl, c)
    BY <1>1, SetFieldsSame
  <2> HIDE DEF c
  <2>3. SameObjects(ctl, queueSearchHydration(c))
    BY <1>2, <2>2, SearchSame, SameChain
  <2> QED BY <1>2, <2>1, <2>3, BecomesSound
<1>6. CASE SetFilterState
  BY <1>1, <1>2, <1>6, SetFieldsSame, BecomesSound DEF SetFilterState
<1>7. CASE SetGraphSettings
  BY <1>1, <1>2, <1>7, SetFieldsSame, BecomesSound DEF SetGraphSettings
<1>8. CASE ToggleLayout
  BY <1>8, LayoutSound, BecomesSound DEF ToggleLayout
<1>9. CASE NavigateCommits
  BY <1>9, NavigateSound, BecomesSound DEF NavigateCommits
<1>10. CASE NavigateSearchResults
  BY <1>10, NavigateSound, BecomesSound DEF NavigateSearchResults
<1>11. CASE SelectCommit
  BY <1>11, SelectCommitSound, BecomesSound DEF SelectCommit
<1>12. CASE JumpToHead
  BY <1>12, CenterSound, BecomesSound DEF JumpToHead
<1>13. CASE GetNavigationPosition
  BY <1>13, NavigateSound, BecomesSound DEF GetNavigationPosition
<1>14. CASE RebuildVisibleGraph
  BY <1>14, GraphSound, BecomesSound DEF RebuildVisibleGraph
<1>15. CASE ClearIsolation
  BY <1>1, <1>2, <1>15, SetFieldsSame, BecomesSound DEF ClearIsolation
<1>16. CASE Dispose
  BY <1>16, DestroySound, BecomesSound DEF Dispose
<1>17. CASE Rebalance
  BY <1>1, <1>2, <1>17, SetFieldsSame, BecomesSound DEF Rebalance
<1> QED
  BY <1>3, <1>4, <1>5, <1>6, <1>7, <1>8, <1>9, <1>10, <1>11, <1>12, <1>13, <1>14, <1>15, <1>16, <1>17
     DEF Events

(* PoolDisjoint is inductive together with the window's entries being      *)
(* commits, each once (Sound).                                             *)
LEMMA SoundInit == Init => Sound(ctl)
<1> SUFFICES ASSUME Init PROVE Sound(ctl)
  OBVIOUS
<1>1. PICK h \in Heights : ctl = NewController(h)
  BY DEF Init
<1> DEFINE none == <<>>
           blank == [id \in NodeId |-> Blank]
           view == Query(none, 0, h)
<1>2. /\ \A S : none \in Seq(S)
      /\ IsInjective(none) /\ Range(none) = {}
  BY DEF IsInjective, Range
<1>3. view.entries \in Seq(Commit) /\ IsInjective(view.entries)
  BY <1>2, QueryHolds
<1>4. DOMAIN blank = NodeId /\ \A id \in NodeId : Fields \subseteq DOMAIN blank[id]
  BY DEF Fields, Blank
<1> HIDE DEF none, view, blank
<1>5. /\ Parts \subseteq DOMAIN ctl /\ ctl.nodes = {} /\ ctl.window = view /\ ctl.index = none
      /\ ctl.mode = "lane" /\ ctl.active = none /\ ctl.pool = none /\ ctl.node = blank
  BY <1>1 DEF NewController, Parts, none, view, blank
<1>6. Pooled(ctl)
  BY <1>2, <1>4, <1>5 DEF Pooled
<1>7. DrawsOwned(ctl) /\ Windowed(ctl)
  BY <1>2, <1>3, <1>5 DEF DrawsOwned, Windowed
<1> QED BY <1>6, <1>7 DEF Sound

LEMMA SoundStep == Sound(ctl) /\ [Next]_vars => Sound(ctl)'
<1> SUFFICES ASSUME Sound(ctl), [Next]_vars PROVE Sound(ctl')
  BY DEF Sound
<1>1. CASE Feed
  BY <1>1, FeedSound
<1>2. CASE Hydration
  BY <1>2, HydrationSound
<1>3. CASE Faults
  <2>1. CASE Disconnect
    BY <2>1 DEF Disconnect
  <2>2. ASSUME NEW r, RequestRefused(r) PROVE Sound(ctl')
    BY <2>2 DEF RequestRefused
  <2>3. ASSUME NEW r, RequestFails(r) PROVE Sound(ctl')
    BY <2>3, DataSame, SameSound, SoundMade DEF RequestFails, Sound
  <2> QED BY <1>3, <2>1, <2>2, <2>3 DEF Faults
<1>4. CASE PermalinkFires
  BY <1>4, SelectCommitSound, BecomesSound DEF PermalinkFires
<1>5. CASE Pointer
  BY <1>5, PointerSound
<1>6. CASE Events
  BY <1>6, EventsSound
<1>7. CASE \E repo \in Repos : ServerChanges(repo)
  BY <1>7 DEF ServerChanges
<1>8. CASE UNCHANGED vars
  BY <1>8 DEF vars
<1> QED BY <1>1, <1>2, <1>3, <1>4, <1>5, <1>6, <1>7, <1>8 DEF Next

LEMMA SoundDisjoint == Sound(ctl) => PoolDisjoint
BY DEF Sound, Pooled, DrawsOwned, PoolDisjoint

(* No node object is shared: whatever is scrolled, selected, reset, laid   *)
(* out anew or disposed of, and whichever answers arrive in between, an    *)
(* object in the pool is in use nowhere and blank, two objects in use      *)
(* carry different commits, and what is drawn is in use (synchronize,      *)
(* forceMaterialize, clear, _evict, _acquire).                             *)
THEOREM ObjectsOwned == Spec => []PoolDisjoint
BY SoundInit, SoundStep, SoundDisjoint, PTL DEF Spec

----------------------------------------------------------------------------
(* What is drawn is what is known, and is asked for: whatever draws leaves *)
(* the nodes, the decorators and the dimming as the maps say they should   *)
(* be, and the stubs among the nodes in a batch, or waiting for one.       *)

Look == {"commits", "branches", "tags", "branchNodes", "tagNodes", "filter", "scope", "isolated",
         "search", "stashed", "dimmedFor", "dimmedIn", "head", "pending", "inflight"}

Furnished(c) == Parts \cup Look \subseteq DOMAIN c

(* What the predicate closed over when it was last applied.                *)
Judge(c) == [commits |-> c.commits, branches |-> c.branches, search |-> c.search, filter |-> c.filter,
             scope |-> c.scope, isolated |-> c.isolated, stashed |-> c.stashed,
             head |-> c.dimmedFor, lanes |-> c.dimmedIn]

DataCurrent(c) == \A id \in c.nodes : c.node[id].data = DataOf(c.commits, c.node[id].hash)
RefsCurrent(c) == c.branchNodes = reconcileBranchNodes(c) /\ c.tagNodes = reconcileTagNodes(c)
DimmedCurrent(c) ==
    \A id \in c.nodes : c.node[id].dimmed = ~Passes(Judge(c), c.node[id].hash, c.node[id].data)

Current(c) == DataCurrent(c) /\ RefsCurrent(c) /\ DimmedCurrent(c)

(* The lazy layout has asked for the stubs it shows, but for those the     *)
(* server did not answer.                                                  *)
Asked(c, silent) ==
    c.lazy => \A id \in c.nodes :
        c.node[id].data = "full" \/ c.node[id].hash \in c.pending \cup c.inflight \cup silent

Settles(c, d) ==
    Furnished(d) /\ (Current(c) => Current(d)) /\ \A silent : Asked(c, silent) => Asked(d, silent)

RestLook(c, d) ==
    /\ Furnished(d) /\ d.nodes = c.nodes /\ d.lazy = c.lazy
    /\ d.commits = c.commits /\ d.branches = c.branches /\ d.tags = c.tags
    /\ d.branchNodes = c.branchNodes /\ d.tagNodes = c.tagNodes
    /\ d.filter = c.filter /\ d.scope = c.scope /\ d.isolated = c.isolated /\ d.search = c.search
    /\ d.stashed = c.stashed /\ d.dimmedFor = c.dimmedFor /\ d.dimmedIn = c.dimmedIn
    /\ c.pending \subseteq d.pending /\ d.inflight = c.inflight

SameLook(c, d) == RestLook(c, d) /\ d.node = c.node

LEMMA SettlesChain ==
    ASSUME NEW c, NEW d, NEW e, Settles(c, d), Settles(d, e)
    PROVE  Settles(c, e)
BY DEF Settles

LEMMA SettlesItself ==
    ASSUME NEW c, Furnished(c)
    PROVE  Settles(c, c) /\ SameLook(c, c)
BY DEF Settles, SameLook, RestLook

LEMMA LookChain ==
    ASSUME NEW c, NEW d, NEW e
    PROVE  /\ RestLook(c, d) /\ RestLook(d, e) => RestLook(c, e)
           /\ SameLook(c, d) /\ SameLook(d, e) => SameLook(c, e)
           /\ RestLook(c, d) => Furnished(d)
           /\ SameLook(c, d) => Furnished(d) /\ RestLook(c, d)
BY DEF SameLook, RestLook

(* Objects that show the same commits, under the same maps.                *)
LEMMA LooksAlike ==
    ASSUME NEW c, NEW d, RestLook(c, d),
           \A id \in c.nodes : d.node[id].hash = c.node[id].hash /\ d.node[id].data = c.node[id].data
    PROVE  /\ Drawn(d) = Drawn(c)
           /\ DataCurrent(c) => DataCurrent(d)
           /\ RefsCurrent(c) => RefsCurrent(d)
           /\ \A silent : Asked(c, silent) => Asked(d, silent)
           /\ (\A id \in c.nodes : d.node[id].dimmed = c.node[id].dimmed) => Settles(c, d)
<1>1. /\ Furnished(d) /\ d.nodes = c.nodes /\ d.lazy = c.lazy
      /\ d.commits = c.commits /\ d.branches = c.branches /\ d.tags = c.tags
      /\ d.branchNodes = c.branchNodes /\ d.tagNodes = c.tagNodes
      /\ c.pending \subseteq d.pending /\ d.inflight = c.inflight
  BY DEF RestLook
<1>2. Drawn(d) = Drawn(c)
  BY <1>1 DEF Drawn
<1>3. DataCurrent(c) => DataCurrent(d)
  BY <1>1 DEF DataCurrent
<1>4. RefsCurrent(c) => RefsCurrent(d)
  BY <1>1, <1>2 DEF RefsCurrent, reconcileBranchNodes, reconcileTagNodes
<1>5. \A silent : Asked(c, silent) => Asked(d, silent)
  BY <1>1 DEF Asked
<1>6. Judge(d) = Judge(c)
  BY DEF Judge, RestLook
<1>7. ASSUME \A id \in c.nodes : d.node[id].dimmed = c.node[id].dimmed, DimmedCurrent(c)
      PROVE  DimmedCurrent(d)
  BY <1>1, <1>6, <1>7 DEF DimmedCurrent
<1> QED BY <1>1, <1>2, <1>3, <1>4, <1>5, <1>7 DEF Settles, Current

LEMMA SameLookSettles ==
    ASSUME NEW c, NEW d, SameLook(c, d)
    PROVE  Settles(c, d) /\ Drawn(d) = Drawn(c)
BY LooksAlike DEF SameLook

LEMMA EnqueueLook ==
    ASSUME NEW c, Furnished(c)
    PROVE  /\ SameLook(c, scheduleHydrationFlush(c))
           /\ \A hashes : /\ SameLook(c, enqueueHydration(c, hashes))
                          /\ LET d == enqueueHydration(c, hashes)
                             IN  \A h \in hashes : commitNeedsHydration(c, h) => h \in d.pending \cup d.inflight
           /\ SameLook(c, HydrateVisible(c))
<1>1. /\ SameLook(c, scheduleHydrationFlush(c))
      /\ \A hashes : SameLook(c, enqueueHydration(c, hashes))
  BY DEF SameLook, RestLook, Furnished, Parts, Look, scheduleHydrationFlush, enqueueHydration
<1>2. ASSUME NEW hashes, NEW h \in hashes, commitNeedsHydration(c, h)
      PROVE  LET d == enqueueHydration(c, hashes) IN h \in d.pending \cup d.inflight
  BY <1>2 DEF Furnished, Parts, Look, scheduleHydrationFlush, enqueueHydration
<1> QED BY <1>1, <1>2 DEF HydrateVisible

LEMMA SearchLook ==
    ASSUME NEW c, Furnished(c)
    PROVE  /\ SameLook(c, clearSearchHydrationScan(c)) /\ SameLook(c, queueSearchHydration(c))
           /\ SameLook(c, pumpSearchHydration(c))
<1>1. /\ SameLook(c, clearSearchHydrationScan(c))
      /\ SameLook(c, [c EXCEPT !.scan = c.index, !.scanTimer = TRUE])
  BY DEF SameLook, RestLook, Furnished, Parts, Look, clearSearchHydrationScan
<1>2. SameLook(c, pumpSearchHydration(c))
  <2> DEFINE looked == {c.scan[i] : i \in 1..Min({ScanBudget, Len(c.scan)})}
             asked  == enqueueHydration(c, {h \in looked : commitNeedsHydration(c, h)})
             rest   == SubSeq(c.scan, ScanBudget + 1, Len(c.scan))
  <2>1. SameLook(c, asked)
    BY EnqueueLook
  <2>2. pumpSearchHydration(c) = [asked EXCEPT !.scan = rest, !.scanTimer = rest # <<>>]
    BY DEF pumpSearchHydration
  <2> HIDE DEF asked, rest
  <2>3. SameLook(asked, [asked EXCEPT !.scan = rest, !.scanTimer = rest # <<>>])
    BY <2>1 DEF SameLook, RestLook, Furnished, Parts, Look
  <2> QED BY <2>1, <2>2, <2>3, LookChain
<1> QED BY <1>1, <1>2 DEF queueSearchHydration

LEMMA FieldsLook ==
    ASSUME NEW c, Furnished(c)
    PROVE  /\ \A x : SameLook(c, [c EXCEPT !.top = x]) /\ SameLook(c, [c EXCEPT !.center = x])
           /\ \A x : SameLook(c, [c EXCEPT !.selected = x]) /\ SameLook(c, [c EXCEPT !.resultIndex = x])
           /\ \A x : SameLook(c, [c EXCEPT !.window = x]) /\ SameLook(c, [c EXCEPT !.height = x])
           /\ \A x : SameLook(c, [c EXCEPT !.drag = x]) /\ SameLook(c, [c EXCEPT !.drag.moved = x])
           /\ \A x, y : SameLook(c, [c EXCEPT !.drag.at = x, !.lanes = y]) /\ SameLook(c, [c EXCEPT !.lanes = x])
           /\ \A x : SameLook(c, [c EXCEPT !.tooltip = x]) /\ SameLook(c, [c EXCEPT !.head = x])
           /\ \A x, y : SameLook(c, [c EXCEPT !.sorted = x, !.results = y])
BY DEF SameLook, RestLook, Furnished, Parts, Look

LEMMA LooksLook ==
    ASSUME NEW c, Furnished(c)
    PROVE  /\ SameLook(c, hideTooltip(c)) /\ SameLook(c, releaseDrag(c))
           /\ SameLook(c, reconcileInteractions(c))
           /\ SameLook(c, Sorted(c)) /\ SameLook(c, Found(c))
           /\ \A h : SameLook(c, PointAtResult(c, h))
           /\ \A id : SameLook(c, showTooltip(c, id)) /\ SameLook(c, EnqueueClicked(c, id))
<1>1. /\ SameLook(c, hideTooltip(c)) /\ SameLook(c, releaseDrag(c))
      /\ SameLook(c, reconcileInteractions(c))
  BY DEF SameLook, RestLook, Furnished, Parts, Look, hideTooltip, releaseDrag, reconcileInteractions
<1>2. SameLook(c, Sorted(c)) /\ SameLook(c, Found(c))
  BY DEF SameLook, RestLook, Furnished, Parts, Look, Sorted, Found
<1>3. \A h : SameLook(c, PointAtResult(c, h))
  BY DEF SameLook, RestLook, Furnished, Parts, Look, PointAtResult
<1>4. ASSUME NEW id PROVE SameLook(c, showTooltip(c, id))
  <2> DEFINE d == IF c.lazy /\ c.node[id].hash # NoHash
                  THEN enqueueHydration(c, WithParents({c.node[id].hash})) ELSE c
  <2>1. SameLook(c, d)
    BY EnqueueLook, SettlesItself
  <2> HIDE DEF d
  <2>2. SameLook(d, [d EXCEPT !.tooltip = IF c.node[id].data = "none" THEN NoId ELSE id])
    BY <2>1, LookChain, FieldsLook
  <2> QED BY <2>1, <2>2, LookChain DEF showTooltip, d
<1>5. ASSUME NEW id PROVE SameLook(c, EnqueueClicked(c, id))
  BY EnqueueLook, SettlesItself DEF EnqueueClicked
<1> QED BY <1>1, <1>2, <1>3, <1>4, <1>5

(* The predicate reads nothing else of the controller, and the level of a  *)
(* commit only for a search.                                               *)
LEMMA PassesJudge ==
    ASSUME NEW c, NEW d, d.dimmedFor = c.head, d.dimmedIn = c.lanes,
           DOMAIN d.commits = DOMAIN c.commits, d.branches = c.branches,
           d.search = c.search, d.filter = c.filter, d.scope = c.scope, d.isolated = c.isolated,
           d.stashed = c.stashed
    PROVE  \A h, level : Passes(Judge(d), h, level) = Passes(c, h, level)
<1>1. /\ Judge(d).head = c.head /\ DOMAIN (Judge(d).commits) = DOMAIN c.commits /\ Judge(d).branches = c.branches
      /\ Judge(d).search = c.search /\ Judge(d).filter = c.filter /\ Judge(d).scope = c.scope
      /\ Judge(d).isolated = c.isolated /\ Judge(d).stashed = c.stashed /\ Judge(d).lanes = c.lanes
  BY DEF Judge
<1> QED BY <1>1 DEF Passes, DepthStart

LEMMA PassesAlike ==
    ASSUME NEW c, NEW d, d.dimmedFor = c.dimmedFor, d.dimmedIn = c.dimmedIn,
           DOMAIN d.commits = DOMAIN c.commits, d.branches = c.branches,
           d.search = c.search, d.filter = c.filter, d.scope = c.scope, d.isolated = c.isolated,
           d.stashed = c.stashed
    PROVE  /\ \A h, level : Passes(Judge(d), h, level) = Passes(Judge(c), h, level)
           /\ ~c.search => \A h, level, other : Passes(Judge(d), h, level) = Passes(Judge(c), h, other)
<1>1. /\ Judge(d).head = Judge(c).head /\ DOMAIN (Judge(d).commits) = DOMAIN (Judge(c).commits)
      /\ Judge(d).branches = Judge(c).branches
      /\ Judge(d).search = Judge(c).search /\ Judge(d).filter = Judge(c).filter /\ Judge(d).scope = Judge(c).scope
      /\ Judge(d).isolated = Judge(c).isolated /\ Judge(d).stashed = Judge(c).stashed
      /\ Judge(d).lanes = Judge(c).lanes
      /\ Judge(c).search = c.search
  BY DEF Judge
<1>2. \A h, level : Passes(Judge(d), h, level) = Passes(Judge(c), h, level)
  BY <1>1 DEF Passes, DepthStart
<1>3. ASSUME ~c.search, NEW h, NEW level, NEW other
      PROVE  Passes(Judge(d), h, level) = Passes(Judge(c), h, other)
  BY <1>1, <1>3 DEF Passes, DepthStart
<1> QED BY <1>2, <1>3

(* Dimming again renews the dimming and leaves the rest.                   *)
LEMMA DimmingLook ==
    ASSUME NEW c, Pooled(c), c.nodes \subseteq NodeId, Furnished(c)
    PROVE  LET d == applyDimmingFromPredicate(c)
           IN  /\ Furnished(d) /\ d.nodes = c.nodes /\ DimmedCurrent(d)
               /\ DataCurrent(c) => DataCurrent(d)
               /\ RefsCurrent(c) => RefsCurrent(d)
               /\ \A silent : Asked(c, silent) => Asked(d, silent)
               /\ \A id \in c.nodes : d.node[id].hash = c.node[id].hash /\ d.node[id].data = c.node[id].data
<1> DEFINE nodes == [id \in NodeId |->
                       IF id \in c.nodes
                       THEN [c.node[id] EXCEPT !.dimmed = ~Passes(c, c.node[id].hash, c.node[id].data)]
                       ELSE c.node[id]]
           marked == [c EXCEPT !.dimmedFor = c.head]
           d == applyDimmingFromPredicate(c)
<1>1. \A id \in NodeId : Fields \subseteq DOMAIN c.node[id]
  BY DEF Pooled
<1>2. d = [c EXCEPT !.dimmedFor = c.head, !.dimmedIn = c.lanes, !.node = nodes]
  BY DEF applyDimmingFromPredicate
<1>3. \A id \in NodeId : \A x : LET n == [c.node[id] EXCEPT !.dimmed = x]
                                IN  n.hash = c.node[id].hash /\ n.data = c.node[id].data /\ n.dimmed = x
  BY <1>1 DEF Fields
<1>4. \A id \in c.nodes :
         /\ nodes[id].hash = c.node[id].hash /\ nodes[id].data = c.node[id].data
         /\ nodes[id].dimmed = ~Passes(c, c.node[id].hash, c.node[id].data)
  BY <1>3
<1> HIDE DEF nodes
<1>5. /\ Furnished(d) /\ d.nodes = c.nodes /\ d.node = nodes /\ d.lazy = c.lazy
      /\ d.commits = c.commits /\ d.branches = c.branches /\ d.tags = c.tags
      /\ d.branchNodes = c.branchNodes /\ d.tagNodes = c.tagNodes
      /\ d.filter = c.filter /\ d.scope = c.scope /\ d.isolated = c.isolated /\ d.search = c.search
      /\ d.stashed = c.stashed /\ d.dimmedFor = c.head /\ d.dimmedIn = c.lanes
      /\ d.pending = c.pending /\ d.inflight = c.inflight
  BY <1>2 DEF Furnished, Parts, Look
<1> HIDE DEF d
<1>6. Drawn(d) = Drawn(c)
  BY <1>4, <1>5 DEF Drawn
<1>7. DataCurrent(c) => DataCurrent(d)
  BY <1>4, <1>5 DEF DataCurrent
<1>8. RefsCurrent(c) => RefsCurrent(d)
  BY <1>5, <1>6 DEF RefsCurrent, reconcileBranchNodes, reconcileTagNodes
<1>9. \A silent : Asked(c, silent) => Asked(d, silent)
  BY <1>4, <1>5 DEF Asked
<1>10. DimmedCurrent(d)
  <2>1. \A h, level : Passes(Judge(d), h, level) = Passes(c, h, level)
    BY <1>5, PassesJudge
  <2> SUFFICES ASSUME NEW id \in c.nodes
               PROVE  d.node[id].dimmed = ~Passes(Judge(d), d.node[id].hash, d.node[id].data)
    BY <1>5 DEF DimmedCurrent
  <2>2. d.node[id].hash = c.node[id].hash /\ d.node[id].data = c.node[id].data
    BY <1>4, <1>5
  <2>3. d.node[id].dimmed = ~Passes(c, c.node[id].hash, c.node[id].data)
    BY <1>4, <1>5
  <2> QED BY <2>1, <2>2, <2>3
<1> QED BY <1>4, <1>5, <1>7, <1>8, <1>9, <1>10 DEF d

LEMMA DimmingSettles ==
    ASSUME NEW c, Sound(c), Furnished(c), DataCurrent(c), RefsCurrent(c)
    PROVE  Current(applyDimmingFromPredicate(c))
BY DimmingLook DEF Current, Sound, DrawsOwned

LEMMA SyncedLook ==
    ASSUME NEW m, Pooled(m), Furnished(m), NEW entries \in Seq(Commit), IsInjective(entries),
           NEW commits, NEW inUse
    PROVE  LET s == synchronize(m, entries, commits, inUse)
           IN  /\ RestLook(m, s)
               /\ s.pending = m.pending
               /\ \A id \in Range(s.active) : /\ s.node[id].hash \in Range(entries)
                                              /\ s.node[id].data = DataOf(commits, s.node[id].hash)
               /\ ActiveHashes(m) = Range(entries) =>
                      \A id \in Range(m.active) : /\ id \in Range(s.active)
                                                  /\ s.node[id].hash = m.node[id].hash
                                                  /\ s.node[id].dimmed = m.node[id].dimmed
<1> DEFINE gone == Among(m.active, {id \in NodeId : m.node[id].hash \notin Range(entries)})
           new  == Among(entries, Commit \ ActiveHashes(m))
           e == _evict(m, gone)
           a == _acquire(e, new, inUse)
           s == WithAllData(a, commits)
<1>1. m.active \in Seq(NodeId) /\ IsInjective(m.active) /\ Range(m.active) \subseteq NodeId
  BY RangeOf DEF Pooled
<1>2. /\ gone \in Seq(NodeId) /\ IsInjective(gone)
      /\ Range(gone) = Range(m.active) \cap {id \in NodeId : m.node[id].hash \notin Range(entries)}
  BY <1>1, AmongHolds
<1>3. /\ new \in Seq(Commit) /\ IsInjective(new)
      /\ Range(new) = Range(entries) \cap (Commit \ ActiveHashes(m))
  BY AmongHolds
<1>4. synchronize(m, entries, commits, inUse) = s
  BY DEF synchronize
<1> HIDE DEF gone, new
<1>5. RestLook(m, e) /\ e.pending = m.pending
  BY DEF RestLook, Furnished, Parts, Look, _evict
<1>6. /\ Pooled(e) /\ Range(e.active) = Range(m.active) \ Range(gone)
      /\ \A id \in NodeId \ Range(gone) : e.node[id] = m.node[id]
      /\ Range(gone) = {} => e.active = m.active
  BY <1>1, <1>2, EvictedHolds
<1> HIDE DEF e
<1>7. \A id \in Range(e.active) : e.node[id] = m.node[id] /\ e.node[id].hash \in Range(entries)
  BY <1>1, <1>2, <1>6
<1>8. ActiveHashes(e) \subseteq ActiveHashes(m)
  BY <1>6, <1>7 DEF ActiveHashes
<1>9. RestLook(e, a) /\ a.pending = e.pending
  BY <1>5 DEF RestLook, Furnished, Parts, Look, _acquire
<1>10. /\ Pooled(a)
       /\ \A id \in Range(e.active) : a.node[id] = e.node[id]
       /\ \A id \in Range(a.active) \ Range(e.active) : a.node[id].hash \in Range(new)
       /\ Range(new) = {} => a.active = e.active
  BY <1>3, <1>6, <1>8, AcquiredHolds
<1> HIDE DEF a
<1>11. \A id \in Range(a.active) : a.node[id].hash \in Range(entries)
  BY <1>3, <1>7, <1>10
<1>12. RestLook(a, s) /\ s.pending = a.pending /\ s.active = a.active
  BY <1>9 DEF RestLook, Furnished, Parts, Look, WithAllData, WithData
<1>13. \A id \in Range(a.active) : /\ s.node[id].hash = a.node[id].hash
                                   /\ s.node[id].data = DataOf(commits, a.node[id].hash)
                                   /\ s.node[id].dimmed = a.node[id].dimmed
  <2>1. Parts \subseteq DOMAIN a /\ \A id \in NodeId : Fields \subseteq DOMAIN a.node[id]
    BY <1>10 DEF Pooled
  <2>2. Range(a.active) \subseteq NodeId
    BY <1>10, RangeOf DEF Pooled
  <2>3. \A id \in NodeId : \A x : LET n == [a.node[id] EXCEPT !.data = x]
                                  IN  n.hash = a.node[id].hash /\ n.data = x /\ n.dimmed = a.node[id].dimmed
    BY <2>1 DEF Fields
  <2>4. \A id \in Range(a.active) :
           s.node[id] = [a.node[id] EXCEPT !.data = DataOf(commits, a.node[id].hash)]
    BY <2>1, <2>2 DEF WithAllData, WithData, Parts
  <2> SUFFICES ASSUME NEW id \in Range(a.active)
               PROVE  /\ s.node[id].hash = a.node[id].hash
                      /\ s.node[id].data = DataOf(commits, a.node[id].hash)
                      /\ s.node[id].dimmed = a.node[id].dimmed
    OBVIOUS
  <2> DEFINE x == DataOf(commits, a.node[id].hash)
             n == [a.node[id] EXCEPT !.data = x]
  <2>5. s.node[id] = n
    BY <2>4
  <2> HIDE DEF s
  <2>6. n.hash = a.node[id].hash /\ n.data = x /\ n.dimmed = a.node[id].dimmed
    BY <2>2, <2>3
  <2> HIDE DEF n
  <2> QED BY <2>5, <2>6
<1> HIDE DEF s
<1>14. RestLook(m, s) /\ s.pending = m.pending
  BY <1>5, <1>9, <1>12, LookChain
<1>15. ASSUME ActiveHashes(m) = Range(entries), NEW id \in Range(m.active)
       PROVE  id \in Range(s.active) /\ s.node[id].hash = m.node[id].hash /\ s.node[id].dimmed = m.node[id].dimmed
  <2>1. Range(gone) = {} /\ Range(new) = {}
    BY <1>2, <1>3, <1>15 DEF ActiveHashes
  <2> QED BY <1>6, <1>7, <1>10, <1>12, <1>13, <1>15, <2>1
<1> QED BY <1>4, <1>11, <1>12, <1>13, <1>14, <1>15

LEMMA LabelledLook ==
    ASSUME NEW c, Furnished(c)
    PROVE  LET d == Labelled(c)
           IN  /\ Furnished(d) /\ RefsCurrent(d) /\ d.nodes = c.nodes
               /\ DataCurrent(c) => DataCurrent(d)
               /\ \A silent : Asked(c, silent) => Asked(d, silent)
<1> DEFINE d == Labelled(c)
<1>1. /\ Furnished(d) /\ d.nodes = c.nodes /\ d.node = c.node /\ d.lazy = c.lazy
      /\ d.commits = c.commits /\ d.branches = c.branches /\ d.tags = c.tags
      /\ d.branchNodes = reconcileBranchNodes(c) /\ d.tagNodes = reconcileTagNodes(c)
      /\ d.pending = c.pending /\ d.inflight = c.inflight
  BY DEF Labelled, Furnished, Parts, Look
<1> HIDE DEF d
<1>2. Drawn(d) = Drawn(c)
  BY <1>1 DEF Drawn
<1>3. RefsCurrent(d)
  BY <1>1, <1>2 DEF RefsCurrent, reconcileBranchNodes, reconcileTagNodes
<1>4. DataCurrent(c) => DataCurrent(d)
  BY <1>1 DEF DataCurrent
<1>5. \A silent : Asked(c, silent) => Asked(d, silent)
  BY <1>1 DEF Asked
<1> QED BY <1>1, <1>3, <1>4, <1>5 DEF d

LEMMA VisibleLook ==
    ASSUME NEW c, Pooled(c), Windowed(c), Furnished(c), NEW scrolling, scrolling => Sound(c) /\ c.lazy
    PROVE  LET d == rebuildVisibleGraph(c, scrolling)
           IN  /\ Furnished(d) /\ \A silent : Asked(d, silent)
               /\ Current(c) \/ ~scrolling => Current(d)
<1> DEFINE entries == c.window.entries
           asked  == enqueueHydration(c, KnownParents(c, Range(entries)))
           synced == synchronize(asked, entries, c.commits, InUse(c))
           owned  == [synced EXCEPT !.nodes = Range(synced.active)]
           drawn  == Labelled(owned)
           quiet  == reconcileInteractions(drawn)
           still  == scrolling /\ ActiveHashes(c) = Range(entries)
<1>1. Made(c) /\ entries \in Seq(Commit) /\ IsInjective(entries)
  BY SoundMade DEF Windowed
<1> HIDE DEF entries
<1>2. SameObjects(c, asked) /\ SameLook(c, asked)
  BY <1>1, EnqueueSame, EnqueueLook
<1>3. \A h \in Range(entries) : DataOf(c.commits, h) = "full" \/ h \in asked.pending \cup asked.inflight
  BY EnqueueLook DEF KnownParents, commitNeedsHydration
<1> HIDE DEF asked
<1>4. Pooled(asked) /\ ActiveHashes(asked) = ActiveHashes(c) /\ Furnished(asked)
  BY <1>2, SameSound, LookChain
<1>5. Pooled(synced) /\ SameRest(asked, synced)
  BY <1>1, <1>4, SynchronizedHolds
<1>6. /\ RestLook(asked, synced) /\ synced.pending = asked.pending
      /\ \A id \in Range(synced.active) : /\ synced.node[id].hash \in Range(entries)
                                          /\ synced.node[id].data = DataOf(c.commits, synced.node[id].hash)
      /\ ActiveHashes(asked) = Range(entries) =>
             \A id \in Range(asked.active) : /\ id \in Range(synced.active)
                                             /\ synced.node[id].hash = asked.node[id].hash
                                             /\ synced.node[id].dimmed = asked.node[id].dimmed
  BY <1>1, <1>4, SyncedLook
<1> HIDE DEF synced
<1>7. /\ Furnished(synced) /\ synced.commits = c.commits /\ synced.nodes = c.nodes /\ synced.lazy = c.lazy
      /\ synced.pending \cup synced.inflight = asked.pending \cup asked.inflight
  BY <1>2, <1>6 DEF SameLook, RestLook
<1>8. \A id \in Range(synced.active) :
         \/ synced.node[id].data = "full"
         \/ synced.node[id].hash \in synced.pending \cup synced.inflight
  BY <1>3, <1>6, <1>7
<1>9. rebuildVisibleGraph(c, scrolling) =
         IF still THEN synced ELSE applyDimmingFromPredicate(IF scrolling THEN drawn ELSE quiet)
  BY DEF rebuildVisibleGraph, Redraw, asked, synced, entries
<1>10. CASE still
  <2>1. \A id \in c.nodes : /\ id \in Range(synced.active)
                            /\ synced.node[id].hash = c.node[id].hash
                            /\ synced.node[id].dimmed = c.node[id].dimmed
    BY <1>2, <1>4, <1>6, <1>10 DEF Sound, DrawsOwned, SameObjects
  <2>2. \A silent : Asked(synced, silent)
    BY <1>7, <1>8, <2>1 DEF Asked
  <2>3. ASSUME Current(c) PROVE Current(synced)
    <3>1. \A id \in c.nodes : synced.node[id].data = c.node[id].data
      BY <1>6, <2>1, <2>3 DEF Current, DataCurrent
    <3>2. RestLook(c, synced)
      BY <1>2, <1>6, LookChain
    <3> QED BY <2>1, <2>3, <3>1, <3>2, LooksAlike DEF Settles
  <2> QED BY <1>7, <1>9, <1>10, <2>2, <2>3
<1>11. CASE ~still
  <2>1. /\ Furnished(owned) /\ owned.nodes = Range(synced.active) /\ owned.commits = synced.commits
        /\ owned.node = synced.node /\ owned.pending = synced.pending /\ owned.inflight = synced.inflight
    BY <1>7 DEF Furnished, Parts, Look
  <2>2. Pooled(owned)
    <3>1. /\ owned.active = synced.active /\ owned.pool = synced.pool /\ owned.destroyed = synced.destroyed
          /\ Parts \subseteq DOMAIN owned
      BY <1>7 DEF Furnished, Parts
    <3> HIDE DEF owned
    <3> QED BY <1>5, <2>1, <3>1 DEF Pooled
  <2>3. owned.nodes \subseteq NodeId
    BY <1>5, <2>1, RangeOf DEF Pooled
  <2> HIDE DEF owned
  <2>4. DataCurrent(owned) /\ \A silent : Asked(owned, silent)
    BY <1>6, <1>7, <1>8, <2>1 DEF DataCurrent, Asked
  <2>5. /\ Furnished(drawn) /\ RefsCurrent(drawn) /\ DataCurrent(drawn) /\ drawn.nodes \subseteq NodeId
        /\ \A silent : Asked(drawn, silent)
    BY <2>1, <2>3, <2>4, LabelledLook
  <2>6. Pooled(drawn)
    BY <2>2, LooksSame, SameSound, SoundMade
  <2> HIDE DEF drawn
  <2>7. SameLook(drawn, quiet) /\ SameObjects(drawn, quiet)
    BY <2>5, <2>6, LooksLook, LooksSame, SoundMade
  <2> HIDE DEF quiet
  <2>8. /\ Furnished(quiet) /\ RefsCurrent(quiet) /\ DataCurrent(quiet) /\ quiet.nodes \subseteq NodeId
        /\ \A silent : Asked(quiet, silent)
    BY <2>5, <2>7, LooksAlike, LookChain DEF SameLook, RestLook
  <2>9. Pooled(quiet)
    BY <2>6, <2>7, SameSound
  <2>10. \A q : q \in {drawn, quiet} =>
           LET d == applyDimmingFromPredicate(q)
           IN  Furnished(d) /\ Current(d) /\ \A silent : Asked(d, silent)
    BY <2>5, <2>6, <2>8, <2>9, DimmingLook DEF Current
  <2> QED BY <1>9, <1>11, <2>10
<1> QED BY <1>10, <1>11

LEMMA ZoomLook ==
    ASSUME NEW c, Sound(c), Furnished(c)
    PROVE  /\ \A top : Settles(c, zoomed(c, top))
           /\ \A tops : Settles(c, translateViewTo(c, tops))
           /\ \A h : Settles(c, centerOnCommit(c, h))
           /\ Settles(c, CenterOnce(c))
<1>1. ASSUME NEW d, Sound(d), Furnished(d), NEW top PROVE Settles(d, zoomed(d, top))
  <2> DEFINE moved  == [d EXCEPT !.top = top]
             framed == [moved EXCEPT !.window = Query(d.index, top, d.height)]
  <2>1. SameLook(d, moved) /\ SameObjects(d, moved)
    <3>1. SameObjects(d, moved)
      BY <1>1, SoundMade DEF Sound, SameObjects, SameRest, Made, Parts
    <3> QED BY <1>1, <3>1, FieldsLook
  <2> HIDE DEF moved
  <2>2. Sound(moved) /\ Furnished(moved)
    BY <1>1, <2>1, SameSound, LookChain
  <2>3. Sound(framed)
    BY <1>1, <2>2, FramedSound DEF Sound, Windowed
  <2>4. SameLook(moved, framed)
    BY <2>2, FieldsLook
  <2> HIDE DEF framed
  <2>5. SameLook(d, framed) /\ Settles(d, framed) /\ Settles(d, moved) /\ Furnished(framed)
    BY <2>1, <2>4, LookChain, SameLookSettles
  <2>6. ASSUME d.lazy PROVE Settles(framed, rematerializeFromViewport(framed))
    <3>1. framed.lazy
      BY <2>5, <2>6 DEF SameLook, RestLook
    <3> QED BY <2>3, <2>5, <3>1, VisibleLook DEF rematerializeFromViewport, Sound, Settles
  <2>7. moved.lazy = d.lazy
    BY <2>1 DEF SameObjects, SameRest
  <2> QED BY <2>5, <2>6, <2>7, SettlesChain DEF zoomed, moved, framed
<1>2. ASSUME NEW d, Sound(d), Furnished(d), NEW tops PROVE Settles(d, translateViewTo(d, tops))
  BY <1>1, <1>2, SettlesItself DEF translateViewTo
<1>3. \A h : Settles(c, centerOnCommit(c, h))
  BY <1>2 DEF centerOnCommit
<1>4. Settles(c, CenterOnce(c))
  <2> DEFINE centred == [c EXCEPT !.center = FALSE]
  <2>1. SameObjects(c, centred)
    BY SoundMade DEF Sound, SameObjects, SameRest, Made, Parts
  <2>2. SameLook(c, centred)
    BY FieldsLook
  <2> HIDE DEF centred
  <2>3. Sound(centred) /\ Furnished(centred) /\ Settles(c, centred)
    BY <2>1, <2>2, SameSound, LookChain, SameLookSettles
  <2>4. Settles(centred, centerOnLatestCommit(centred))
    BY <1>2, <2>3 DEF centerOnLatestCommit
  <2> QED BY <2>3, <2>4, SettlesChain, SettlesItself DEF CenterOnce, centred
<1> QED BY <1>1, <1>2, <1>3, <1>4

LEMMA LazyLook ==
    ASSUME NEW c, Pooled(c), Windowed(c), Furnished(c)
    PROVE  LET d == updateGraphLazy(c)
           IN  Furnished(d) /\ Current(d) /\ \A silent : Asked(d, silent)
<1> DEFINE index == rebuild(DOMAIN c.commits)
           known == [c EXCEPT !.index = index, !.window = Query(index, c.top, c.height),
                              !.lanes = Arrange(c.lanes, DOMAIN c.commits),
                              !.stashed = StashCommits(c.stashes, DOMAIN c.commits)]
           seen == rebuildVisibleGraph(known, FALSE)
<1>1. index \in Seq(Commit) /\ IsInjective(index)
  BY RebuildHolds
<1>2. Furnished(known)
  BY DEF Furnished, Parts, Look
<1> HIDE DEF index
<1>3. Pooled(known) /\ Windowed(known)
  BY <1>1, FramedSound
<1> HIDE DEF known
<1>4. Furnished(seen) /\ Current(seen) /\ \A silent : Asked(seen, silent)
  BY <1>2, <1>3, VisibleLook
<1>5. Sound(seen)
  BY <1>3, VisibleSound
<1> HIDE DEF seen
<1>6. Settles(seen, CenterOnce(seen))
  BY <1>4, <1>5, ZoomLook
<1>7. updateGraphLazy(c) = CenterOnce(seen)
  BY DEF updateGraphLazy, seen, known, index
<1> QED BY <1>4, <1>6, <1>7 DEF Settles

(* The force layout shows every known commit as it is known.               *)
LEMMA ReconcileLook ==
    ASSUME NEW c, Sound(c), Furnished(c)
    PROVE  LET d == reconcileCommitNodes(c)
           IN  Furnished(d) /\ DataCurrent(d)
<1> DEFINE known == DOMAIN c.commits
           kept  == {id \in c.nodes : c.node[id].hash \in known}
           new   == NewestFirst(known \ Drawn(c))
           ids   == NewIds(c, InUse(c), Len(new))
           hash(id) == IF id \in kept THEN c.node[id].hash ELSE new[CHOOSE i \in DOMAIN ids : ids[i] = id]
           both  == kept \cup Range(ids)
           nodes == [id \in NodeId |->
                       IF id \in both
                       THEN [hash |-> hash(id), data |-> c.commits[hash(id)], dimmed |-> c.node[id].dimmed]
                       ELSE c.node[id]]
           d     == reconcileCommitNodes(c)
<1>1. d = [c EXCEPT !.nodes = both, !.stashed = StashCommits(c.stashes, known), !.node = nodes]
  BY DEF reconcileCommitNodes
<1>2. new \in Seq(Commit) /\ Range(new) \subseteq known
  BY NewestFirstHolds, AmongHolds, NewestAssumption DEF NewestFirst
<1>3. Len(new) \in Nat /\ DOMAIN new = 1..Len(new)
  BY <1>2, LenProperties
<1>4. ids \in Seq(NodeId) /\ Len(ids) <= Len(new)
  BY <1>3, NewIdsHolds
<1> HIDE DEF ids, new
<1>5. \A id \in both : hash(id) \in known
  <2>1. ASSUME NEW id \in Range(ids) PROVE new[CHOOSE i \in DOMAIN ids : ids[i] = id] \in known
    <3> DEFINE i == CHOOSE i \in DOMAIN ids : ids[i] = id
    <3>1. i \in DOMAIN ids
      BY <2>1 DEF Range
    <3>2. DOMAIN ids = 1..Len(ids) /\ Len(ids) \in Nat
      BY <1>4, LenProperties
    <3> HIDE DEF i
    <3>3. i \in DOMAIN new
      BY <1>3, <1>4, <3>1, <3>2
    <3>4. new[i] \in known
      BY <1>2, <3>3 DEF Range
    <3> QED BY <3>4 DEF i
  <2> QED BY <2>1
<1>6. both \subseteq NodeId
  BY <1>4, RangeOf DEF Sound, DrawsOwned
<1> HIDE DEF hash
<1>7. \A id \in both : nodes[id].hash = hash(id) /\ nodes[id].data = c.commits[hash(id)]
  BY <1>6
<1> HIDE DEF both, nodes
<1>8. /\ Furnished(d) /\ d.nodes = both /\ d.node = nodes /\ d.commits = c.commits
  BY <1>1 DEF Furnished, Parts, Look
<1> HIDE DEF d
<1>9. DataCurrent(d)
  BY <1>5, <1>7, <1>8 DEF DataCurrent, DataOf
<1> QED BY <1>8, <1>9 DEF d

LEMMA EagerLook ==
    ASSUME NEW c, Sound(c), ~c.lazy, Furnished(c)
    PROVE  LET d == updateGraphEager(c)
           IN  Furnished(d) /\ Current(d) /\ \A silent : Asked(d, silent)
<1> DEFINE given  == reconcileCommitNodes(c)
           named  == Labelled(given)
           drawn  == reconcileInteractions(named)
           dimmed == applyDimmingFromPredicate(drawn)
<1>1. Sound(given) /\ Furnished(given) /\ DataCurrent(given)
  BY ReconcileSound, ReconcileLook
<1> HIDE DEF given
<1>2. Sound(named) /\ Furnished(named) /\ DataCurrent(named) /\ RefsCurrent(named)
  BY <1>1, LooksSame, SameSound, SoundMade, LabelledLook DEF Sound
<1> HIDE DEF named
<1>3. SameLook(named, drawn) /\ SameObjects(named, drawn)
  BY <1>2, LooksLook, LooksSame, SoundMade DEF Sound
<1> HIDE DEF drawn
<1>4. Sound(drawn) /\ Furnished(drawn) /\ DataCurrent(drawn) /\ RefsCurrent(drawn)
  BY <1>2, <1>3, SameSound, LookChain, LooksAlike DEF SameLook
<1>5. Current(dimmed) /\ Furnished(dimmed)
  BY <1>4, DimmingSettles, DimmingLook DEF Sound, DrawsOwned
<1> HIDE DEF dimmed
<1>6. Current(HydrateVisible(dimmed)) /\ Furnished(HydrateVisible(dimmed))
  BY <1>5, EnqueueLook, SameLookSettles DEF Settles
<1>7. updateGraphEager(c) = HydrateVisible(dimmed)
  BY DEF updateGraphEager, dimmed, drawn, named, given
<1>8. ~updateGraphEager(c).lazy
  <2>1. given.lazy = c.lazy /\ "lazy" \in DOMAIN given
    BY DEF given, reconcileCommitNodes, Furnished, Parts
  <2>2. named.lazy = given.lazy
    BY <2>1 DEF named, Labelled
  <2>3. drawn.lazy = named.lazy
    BY <1>3 DEF SameObjects, SameRest
  <2>4. dimmed.lazy = drawn.lazy
    BY <1>4 DEF dimmed, applyDimmingFromPredicate, Furnished, Parts
  <2>5. HydrateVisible(dimmed).lazy = dimmed.lazy
    BY <1>5, EnqueueLook DEF SameLook, RestLook
  <2> QED BY <1>7, <2>1, <2>2, <2>3, <2>4, <2>5
<1> QED BY <1>6, <1>7, <1>8 DEF Asked

LEMMA UpdateLook ==
    ASSUME NEW c, Pooled(c), Windowed(c), c.mode # "lane" => DrawsOwned(c), Furnished(c)
    PROVE  LET d == updateGraph(c)
           IN  Furnished(d) /\ Current(d) /\ \A silent : Asked(d, silent)
<1> DEFINE fresh == [c EXCEPT !.sorted = NoCache, !.results = NoCache]
           lazy  == [fresh EXCEPT !.lazy = TRUE]
<1>1. SameObjects(c, fresh)
  BY SoundMade DEF SameObjects, SameRest, Made, Parts
<1>2. Furnished(fresh)
  BY DEF Furnished
<1> HIDE DEF fresh
<1>3. Pooled(fresh) /\ Windowed(fresh) /\ (DrawsOwned(c) => DrawsOwned(fresh)) /\ fresh.mode = c.mode
  BY <1>1, SameObjectsPaint, PaintedPooled DEF SameObjects, SameRest
<1>4. CASE c.mode = "lane"
  <2>1. /\ Made(lazy) /\ lazy.nodes = fresh.nodes /\ lazy.window = fresh.window /\ lazy.index = fresh.index
        /\ lazy.mode = fresh.mode /\ lazy.destroyed = fresh.destroyed
        /\ lazy.active = fresh.active /\ lazy.pool = fresh.pool /\ lazy.node = fresh.node
    BY <1>3, SoundMade DEF Made, Parts
  <2>2. Furnished(lazy)
    BY <1>2 DEF Furnished
  <2> HIDE DEF lazy
  <2>3. Pooled(lazy) /\ Windowed(lazy)
    BY <1>3, <1>4, <2>1 DEF Pooled, Windowed, Made
  <2> QED BY <1>4, <2>2, <2>3, LazyLook DEF updateGraph, fresh, lazy
<1>5. CASE c.mode # "lane"
  <2>1. Sound(fresh) /\ ~fresh.lazy
    BY <1>3, <1>5 DEF Sound, Windowed
  <2> QED BY <1>2, <1>5, <2>1, EagerLook DEF updateGraph, fresh
<1> QED BY <1>4, <1>5

LEMMA GraphLook ==
    ASSUME NEW c, Sound(c), Furnished(c)
    PROVE  LET d == updateGraph(c)
           IN  Furnished(d) /\ Current(d) /\ (\A silent : Asked(d, silent)) /\ Settles(c, d)
BY UpdateLook DEF Sound, Settles

LEMMA LayoutLook ==
    ASSUME NEW c, Sound(c), NEW mode \in {"lane", "force"}, Furnished(c)
    PROVE  Settles(c, switchLayout(c, mode))
<1> DEFINE left  == [c EXCEPT !.isolated = NoLane, !.mode = mode,
                             !.lanes = IF mode = "lane" THEN Arrange(<<>>, Drawn(c)) ELSE <<>>]
           lane  == [left EXCEPT !.lazy = TRUE, !.center = TRUE]
           force == [left EXCEPT !.lazy = FALSE, !.nodes = {}]
           still == mode = c.mode \/ (mode = "force" /\ Cardinality(DOMAIN c.commits) >= ForceLimit)
<1>1. /\ Made(left) /\ left.nodes = c.nodes /\ left.window = c.window /\ left.index = c.index
      /\ left.mode = mode /\ left.lazy = c.lazy /\ left.destroyed = c.destroyed
      /\ left.active = c.active /\ left.pool = c.pool /\ left.node = c.node
  BY SoundMade DEF Sound, Made, Parts
<1>2. Furnished(lane) /\ Furnished(force)
  BY DEF Furnished
<1> HIDE DEF left
<1>3. /\ Made(lane) /\ lane.nodes = c.nodes /\ lane.window = c.window /\ lane.index = c.index
      /\ lane.mode = mode /\ lane.destroyed = c.destroyed
      /\ lane.active = c.active /\ lane.pool = c.pool /\ lane.node = c.node
  BY <1>1 DEF Made, Parts
<1>4. /\ Made(force) /\ force.nodes = {} /\ force.window = c.window /\ force.index = c.index
      /\ force.mode = mode /\ ~force.lazy /\ force.destroyed = c.destroyed
      /\ force.active = c.active /\ force.pool = c.pool /\ force.node = c.node
  BY <1>1 DEF Made, Parts
<1> HIDE DEF lane, force
<1>5. CASE still
  BY <1>5, SettlesItself DEF switchLayout
<1>6. CASE ~still /\ mode = "lane"
  <2> DEFINE queued == queueSearchHydration(lane)
  <2>1. Pooled(lane) /\ Windowed(lane)
    BY <1>3, <1>6 DEF Sound, Pooled, Windowed, Made
  <2>2. SameObjects(lane, queued) /\ Furnished(queued)
    BY <1>2, <1>3, SearchSame, SearchLook, LookChain
  <2> HIDE DEF queued
  <2>3. Pooled(queued) /\ Windowed(queued) /\ queued.mode = "lane"
    BY <1>3, <1>6, <2>1, <2>2, SameObjectsPaint, PaintedPooled DEF SameObjects, SameRest
  <2>4. switchLayout(c, mode) = updateGraph(queued)
    BY <1>6 DEF switchLayout, left, lane, queued
  <2> QED BY <2>2, <2>3, <2>4, UpdateLook DEF Settles
<1>7. CASE ~still /\ mode = "force"
  <2> DEFINE emptied == clear(force)
             ready   == clearSearchHydrationScan(emptied)
  <2>1. Pooled(force) /\ Windowed(force)
    BY <1>4 DEF Sound, Pooled, Windowed, Made
  <2>2. Sound(emptied)
    BY <1>4, <2>1, ClearedHolds
  <2>3. Furnished(emptied)
    BY <1>2 DEF clear, _evict, Furnished
  <2> HIDE DEF emptied
  <2>4. Sound(ready) /\ Furnished(ready)
    BY <2>2, <2>3, SearchSame, SameSound, SoundMade, SearchLook, LookChain DEF Sound
  <2> HIDE DEF ready
  <2>5. switchLayout(c, mode) = updateGraph(ready)
    BY <1>7 DEF switchLayout, left, force, ready, emptied
  <2> QED BY <2>4, <2>5, GraphLook DEF Settles
<1> QED BY <1>5, <1>6, <1>7

(* An object for a commit outside the window is none of those drawn.       *)
LEMMA ForcedLook ==
    ASSUME NEW m, Sound(m), Furnished(m), m.lazy, NEW h \in Commit, h \notin Drawn(m), NEW commits, NEW inUse
    PROVE  Settles(m, forceMaterialize(m, h, commits, inUse))
<1> DEFINE next == IF h \in ActiveHashes(m) THEN m ELSE _acquire(m, <<h>>, inUse)
           ids == {id \in Range(next.active) : next.node[id].hash = h}
           d   == WithData(next, ids, commits)
<1>1. /\ Pooled(next) /\ RestLook(m, next)
      /\ \A id \in Range(m.active) : next.node[id] = m.node[id]
  <2>1. CASE h \in ActiveHashes(m)
    BY <2>1, SettlesItself DEF Sound, SameLook
  <2>2. CASE h \notin ActiveHashes(m)
    <3> DEFINE one == <<h>>
               a   == _acquire(m, one, inUse)
    <3>1. one \in Seq(Commit) /\ DOMAIN one = 1..1 /\ one[1] = h
      OBVIOUS
    <3>2. RestLook(m, a)
      BY DEF RestLook, Furnished, Parts, Look, _acquire
    <3>3. next = a
      BY <2>2
    <3> HIDE DEF one
    <3>4. IsInjective(one) /\ Range(one) = {h}
      BY <3>1 DEF IsInjective, Range
    <3>5. Pooled(m) /\ Range(one) \cap ActiveHashes(m) = {}
      BY <2>2, <3>4 DEF Sound
    <3>6. Pooled(a) /\ \A id \in Range(m.active) : a.node[id] = m.node[id]
      BY <3>1, <3>4, <3>5, AcquiredHolds
    <3> HIDE DEF a
    <3> QED BY <3>2, <3>3, <3>6
  <2> QED BY <2>1, <2>2
<1>2. forceMaterialize(m, h, commits, inUse) = d
  BY DEF forceMaterialize
<1> HIDE DEF next
<1>3. m.nodes \subseteq Range(m.active) /\ m.nodes \subseteq NodeId
  BY DEF Sound, DrawsOwned
<1>4. \A id \in m.nodes : id \notin ids /\ next.node[id] = m.node[id]
  BY <1>1, <1>3 DEF Drawn
<1>5. RestLook(next, d)
  BY <1>1 DEF RestLook, Furnished, Parts, Look, WithData
<1>6. \A id \in NodeId : id \notin ids => d.node[id] = next.node[id]
  BY <1>1 DEF Pooled, WithData, Parts
<1> HIDE DEF d, ids
<1>7. RestLook(m, d) /\ \A id \in m.nodes : d.node[id] = m.node[id]
  BY <1>1, <1>3, <1>4, <1>5, <1>6, LookChain
<1> QED BY <1>2, <1>7, LooksAlike

(* The commands that select, step and search.                              *)

LEMMA SelectNodeLook ==
    ASSUME NEW c, Sound(c), Furnished(c), NEW h, NEW id
    PROVE  Settles(c, SelectNode(c, h, id))
<1> DEFINE asked  == enqueueHydration(c, WithParents({h}))
           chosen == [asked EXCEPT !.selected = h]
           tipped == showTooltip(chosen, id)
           shown  == centerOnCommit(tipped, h)
<1>1. SameObjects(c, asked) /\ SameLook(c, asked)
  BY EnqueueSame, EnqueueLook, SoundMade DEF Sound
<1> HIDE DEF asked
<1>2. SameObjects(asked, chosen) /\ SameLook(asked, chosen)
  <2>1. SameObjects(asked, chosen)
    BY <1>1, SameMade DEF SameObjects, SameRest, Made, Parts
  <2> QED BY <1>1, <2>1, FieldsLook, LookChain
<1> HIDE DEF chosen
<1>3. SameObjects(chosen, tipped) /\ SameLook(chosen, tipped)
  BY <1>2, SameMade, LooksSame, LooksLook, LookChain
<1> HIDE DEF tipped
<1>4. Sound(tipped) /\ Furnished(tipped) /\ Settles(c, tipped)
  BY <1>1, <1>2, <1>3, SameSound, LookChain, SameLookSettles
<1>5. Sound(shown) /\ Settles(tipped, shown)
  BY <1>4, CenterSound, ZoomLook
<1> HIDE DEF shown
<1>6. Settles(shown, PointAtResult(shown, h))
  BY <1>5, LooksLook, SameLookSettles DEF Settles
<1> QED BY <1>4, <1>5, <1>6, SettlesChain DEF SelectNode, shown, tipped, chosen, asked

LEMMA SelectCommitLook ==
    ASSUME NEW c, Sound(c), Furnished(c)
    PROVE  /\ \A h : Settles(c, selectAndCenterCommit(c, h))
           /\ \A hashes : Settles(c, SelectIn(c, hashes))
<1>1. ASSUME NEW h PROVE Settles(c, selectAndCenterCommit(c, h))
  <2> DEFINE able == c.lazy /\ Indexed(c.index, h) /\ h \in DOMAIN c.commits
             with == Materialized(c, h)
  <2>1. ASSUME h \in Drawn(c) \/ able PROVE Sound(with) /\ Settles(c, with)
    <3>1. CASE h \in Drawn(c)
      BY <3>1, SettlesItself DEF Materialized
    <3>2. CASE h \notin Drawn(c)
      <4>1. h \in Commit
        BY <2>1, <3>2, RangeOf DEF Indexed, Sound, Windowed
      <4> QED BY <2>1, <3>2, <4>1, ForcedHolds, ForcedLook DEF Materialized
    <3> QED BY <3>1, <3>2
  <2> HIDE DEF with
  <2>2. CASE h \in Drawn(c) \/ able
    <3>1. Settles(with, SelectNode(with, h, ObjectOf(with, h)))
      BY <2>1, <2>2, SelectNodeLook DEF Settles
    <3> QED BY <2>1, <2>2, <3>1, SettlesChain DEF selectAndCenterCommit, with
  <2>3. CASE ~(h \in Drawn(c) \/ able)
    BY <2>3, SettlesItself DEF selectAndCenterCommit
  <2> QED BY <2>2, <2>3
<1> QED BY <1>1, SettlesItself DEF SelectIn

LEMMA NavigateLook ==
    ASSUME NEW c, Sound(c), Furnished(c)
    PROVE  /\ Settles(c, Sorted(c))
           /\ \A newer : Settles(c, navigateCommits(c, newer))
           /\ \A forward : Settles(c, navigateSearchResults(c, forward))
<1>1. ASSUME NEW d, Sound(d), Furnished(d)
      PROVE  /\ Sound(Sorted(d)) /\ Settles(d, Sorted(d)) /\ Furnished(Sorted(d))
             /\ Sound(Found(d)) /\ Settles(d, Found(d)) /\ Furnished(Found(d))
  BY <1>1, LooksSame, SameSound, SoundMade, LooksLook, LookChain, SameLookSettles DEF Sound
<1>2. ASSUME NEW newer PROVE Settles(c, navigateCommits(c, newer))
  BY <1>1, SelectCommitLook, SettlesChain DEF navigateCommits, StepFromSelected
<1>3. ASSUME NEW d, Sound(d), Furnished(d), NEW i PROVE Settles(d, StepToResult(d, i))
  <2> DEFINE at == [d EXCEPT !.resultIndex = i]
  <2>1. SameObjects(d, at)
    BY <1>3, SoundMade DEF Sound, SameObjects, SameRest, Made, Parts
  <2>2. SameLook(d, at)
    BY <1>3, FieldsLook
  <2> HIDE DEF at
  <2>3. Settles(at, selectAndCenterCommit(at, d.results[i]))
    BY <1>3, <2>1, <2>2, SameSound, LookChain, SelectCommitLook
  <2> QED BY <2>2, <2>3, SameLookSettles, SettlesChain DEF StepToResult, at
<1>4. ASSUME NEW forward PROVE Settles(c, navigateSearchResults(c, forward))
  <2> DEFINE sorted == Sorted(c)
             found  == Found(sorted)
  <2>1. Sound(sorted) /\ Settles(c, sorted) /\ Furnished(sorted)
    BY <1>1
  <2> HIDE DEF sorted
  <2>2. Sound(found) /\ Settles(c, found) /\ Furnished(found)
    BY <1>1, <2>1, SettlesChain
  <2>3. \A d : Sound(d) /\ Furnished(d) => Settles(d, StepInResults(d, forward))
    BY <1>3, SettlesItself DEF StepInResults
  <2> HIDE DEF found
  <2> QED BY <2>2, <2>3, SettlesChain DEF navigateSearchResults, found, sorted
<1> QED BY <1>1, <1>2, <1>4

(* What the server tells, and the answers to what was asked for.           *)

Renewed(c) == Furnished(c) /\ Current(c) /\ \A silent : Asked(c, silent)

LEMMA HeadLook ==
    ASSUME NEW c, Furnished(c)
    PROVE  \A h : SameLook(c, setHeadHash(c, h)) /\ SameLook(c, SyncHead(c, h))
<1>1. ASSUME NEW h PROVE SameLook(c, setHeadHash(c, h))
  <2> DEFINE moved == [c EXCEPT !.head = h]
  <2>1. SameLook(c, moved)
    BY FieldsLook
  <2> HIDE DEF moved
  <2>2. SameLook(moved, enqueueHydration(moved, {h}))
    BY <2>1, LookChain, EnqueueLook
  <2> QED BY <2>1, <2>2, LookChain DEF setHeadHash, moved
<1> QED BY <1>1, SettlesItself DEF SyncHead

LEMMA LeaveForceLook ==
    ASSUME NEW c, Sound(c), Furnished(c)
    PROVE  Settles(c, LeaveForce(c))
BY LayoutLook, SettlesItself DEF LeaveForce

LEMMA ChunkLook ==
    ASSUME NEW c, Sound(c), Furnished(c), NEW m
    PROVE  LET d == ApplyChunk(c, m)
           IN  Furnished(d) /\ \A silent : Asked(c, silent) => Asked(d, silent)
<1> DEFINE added == AddCommits(c, Range(m.commits), m.level)
           named == AddBranches(added, m.branches)
           moved == SyncHead(named, m.head)
<1>1. /\ Furnished(added) /\ added.nodes = c.nodes /\ added.node = c.node /\ added.lazy = c.lazy
      /\ added.pending = c.pending /\ added.inflight = c.inflight
  BY DEF AddCommits, Furnished, Parts, Look
<1>2. SameObjects(c, added)
  BY DataSame, SoundMade DEF Sound
<1> HIDE DEF added
<1>3. /\ Furnished(named) /\ named.nodes = c.nodes /\ named.node = c.node /\ named.lazy = c.lazy
      /\ named.pending = c.pending /\ named.inflight = c.inflight
  BY <1>1 DEF AddBranches, Furnished, Parts, Look
<1>4. SameObjects(added, named)
  BY <1>2, DataSame, SameMade
<1> HIDE DEF named
<1>5. SameObjects(named, moved) /\ SameLook(named, moved)
  BY <1>3, <1>4, DataSame, SameMade, HeadLook
<1> HIDE DEF moved
<1>6. Sound(moved) /\ Furnished(moved)
  BY <1>2, <1>4, <1>5, SameSound, LookChain
<1>7. Settles(named, moved) /\ Settles(moved, LeaveForce(moved))
  BY <1>5, <1>6, SameLookSettles, LeaveForceLook
<1>8. \A silent : Asked(c, silent) => Asked(named, silent)
  BY <1>3 DEF Asked
<1> QED BY <1>7, <1>8 DEF Settles, ApplyChunk, moved, named, added

LEMMA CompleteLook ==
    ASSUME NEW c, Sound(c), Furnished(c), NEW m
    PROVE  Renewed(ApplyComplete(c, m))
<1> DEFINE moved == SyncHead(c, m.head)
           named == [moved EXCEPT !.tags = m.tags, !.stashes = m.stashes]
           left  == LeaveForce(named)
<1>1. SameObjects(c, moved) /\ Furnished(moved)
  BY DataSame, SoundMade, HeadLook, LookChain DEF Sound
<1> HIDE DEF moved
<1>2. SameObjects(moved, named) /\ Furnished(named)
  <2>1. SameObjects(moved, named)
    BY <1>1, SetFieldsSame, SameMade
  <2> QED BY <1>1, <2>1 DEF Furnished
<1> HIDE DEF named
<1>3. Sound(named)
  BY <1>1, <1>2, SameSound
<1>4. Sound(left) /\ Furnished(left)
  BY <1>2, <1>3, LeaveForceSound, LeaveForceLook DEF Settles
<1> HIDE DEF left
<1>5. Renewed(updateGraph(left))
  BY <1>4, GraphLook DEF Renewed
<1> QED BY <1>5 DEF ApplyComplete, left, named, moved

LEMMA LiveLook ==
    ASSUME NEW c, Sound(c), Furnished(c), NEW delta
    PROVE  Renewed(ApplyLive(c, delta))
<1> DEFINE g == applyDelta([commits |-> DOMAIN c.commits, branches |-> c.branches, head |-> c.head,
                            tags |-> c.tags, stashes |-> c.stashes], delta)
           added  == AddCommits(c, delta.addedCommits, "full")
           shrunk == [added EXCEPT !.commits = Restrict(@, g.commits), !.branches = g.branches]
           moved  == SyncHead(shrunk, delta.headHash)
           named  == [moved EXCEPT !.tags = g.tags, !.stashes = g.stashes]
           left   == LeaveForce(named)
<1>1. SameObjects(c, added) /\ Furnished(added)
  BY DataSame, SoundMade DEF Sound, AddCommits, Furnished
<1>2. ApplyLive(c, delta) = updateGraph(left)
  BY DEF ApplyLive, AfterDelta
<1> HIDE DEF added, g, left
<1>3. SameObjects(added, shrunk) /\ Furnished(shrunk)
  <2>1. SameObjects(added, shrunk)
    BY <1>1, SetFieldsSame, SameMade
  <2> QED BY <1>1, <2>1 DEF Furnished
<1> HIDE DEF shrunk
<1>4. SameObjects(shrunk, moved) /\ Furnished(moved)
  BY <1>3, DataSame, SameMade, HeadLook, LookChain
<1> HIDE DEF moved
<1>5. SameObjects(moved, named) /\ Furnished(named)
  <2>1. SameObjects(moved, named)
    BY <1>4, SetFieldsSame, SameMade
  <2> QED BY <1>4, <2>1 DEF Furnished
<1> HIDE DEF named
<1>6. Sound(named)
  BY <1>1, <1>3, <1>4, <1>5, SameSound
<1>7. Sound(left) /\ Furnished(left)
  BY <1>5, <1>6, LeaveForceSound, LeaveForceLook DEF Settles, left
<1> QED BY <1>2, <1>7, GraphLook DEF Renewed

LEMMA ResetLook ==
    ASSUME NEW c, Sound(c), Furnished(c)
    PROVE  Renewed(resetData(c))
<1> DEFINE fresh == [c EXCEPT !.commits = <<>>, !.branches = <<>>, !.tags = <<>>, !.stashes = {},
                              !.head = NoHash, !.nodes = {}, !.branchNodes = <<>>, !.tagNodes = <<>>,
                              !.selected = NoHash, !.sorted = NoCache, !.results = NoCache,
                              !.resultIndex = 0]
<1>1. /\ Made(fresh) /\ fresh.nodes = {} /\ fresh.window = c.window /\ fresh.index = c.index
      /\ fresh.mode = c.mode /\ fresh.lazy = c.lazy /\ fresh.destroyed = c.destroyed
      /\ fresh.active = c.active /\ fresh.pool = c.pool /\ fresh.node = c.node
  BY SoundMade DEF Sound, Made, Parts
<1>2. resetData(c) = updateGraph(clear(fresh))
  BY DEF resetData, resetGraphData
<1>3. Furnished(fresh)
  BY DEF Furnished
<1> HIDE DEF fresh
<1>4. Pooled(fresh) /\ Windowed(fresh)
  BY <1>1 DEF Sound, Pooled, Windowed, Made
<1>5. Sound(clear(fresh)) /\ Furnished(clear(fresh))
  BY <1>1, <1>3, <1>4, ClearedHolds DEF clear, _evict, Furnished
<1> QED BY <1>2, <1>5, GraphLook DEF Renewed

(* Nothing of what is drawn, or of what it is drawn from, is touched.      *)
LEMMA CurrentAlike ==
    ASSUME NEW c, NEW d, d.nodes = c.nodes, d.node = c.node,
           d.commits = c.commits, d.branches = c.branches, d.tags = c.tags,
           d.branchNodes = c.branchNodes, d.tagNodes = c.tagNodes,
           d.filter = c.filter, d.scope = c.scope, d.isolated = c.isolated,
           d.search = c.search, d.stashed = c.stashed, d.dimmedFor = c.dimmedFor, d.dimmedIn = c.dimmedIn
    PROVE  Current(c) => Current(d)
<1>1. Judge(d) = Judge(c) /\ Drawn(d) = Drawn(c)
  BY DEF Judge, Drawn
<1>2. DataCurrent(c) => DataCurrent(d)
  BY DEF DataCurrent
<1>3. RefsCurrent(c) => RefsCurrent(d)
  BY <1>1 DEF RefsCurrent, reconcileBranchNodes, reconcileTagNodes
<1>4. DimmedCurrent(c) => DimmedCurrent(d)
  BY <1>1 DEF DimmedCurrent
<1> QED BY <1>2, <1>3, <1>4 DEF Current

(* A call that ends: what it asked for is obtained, or the server did not  *)
(* answer it.                                                              *)
LEMMA EndLook ==
    ASSUME NEW c, Furnished(c), NEW batch
    PROVE  LET d == EndBatch(c, batch)
           IN  /\ Furnished(d) /\ (Current(c) => Current(d))
               /\ \A silent : Asked(c, silent) => Asked(d, silent \cup batch)
               /\ d.nodes = c.nodes /\ d.node = c.node
<1> DEFINE freed == [c EXCEPT !.inflight = @ \ batch]
           d == EndBatch(c, batch)
<1>1. /\ Furnished(freed) /\ freed.nodes = c.nodes /\ freed.node = c.node /\ freed.lazy = c.lazy
      /\ freed.commits = c.commits /\ freed.branches = c.branches /\ freed.tags = c.tags
      /\ freed.branchNodes = c.branchNodes /\ freed.tagNodes = c.tagNodes
      /\ freed.filter = c.filter /\ freed.scope = c.scope /\ freed.isolated = c.isolated
      /\ freed.search = c.search /\ freed.stashed = c.stashed /\ freed.dimmedFor = c.dimmedFor /\ freed.dimmedIn = c.dimmedIn
      /\ freed.pending = c.pending /\ freed.inflight = c.inflight \ batch
  BY DEF Furnished, Parts, Look
<1>2. d = scheduleHydrationFlush(freed)
  BY DEF EndBatch
<1> HIDE DEF freed
<1>3. SameLook(freed, d) /\ Settles(freed, d)
  BY <1>1, <1>2, EnqueueLook, SameLookSettles
<1> HIDE DEF d
<1>4. Current(c) => Current(freed)
  BY <1>1, CurrentAlike
<1>5. \A silent : Asked(c, silent) => Asked(freed, silent \cup batch)
  BY <1>1 DEF Asked
<1>6. d.nodes = c.nodes /\ d.node = c.node
  BY <1>1, <1>3 DEF SameLook, RestLook
<1> QED BY <1>3, <1>4, <1>5, <1>6 DEF Settles, d

LEMMA MergedLook ==
    ASSUME NEW c, Sound(c), Furnished(c), NEW hashes
    PROVE  LET d == Merged(c, hashes)
           IN  /\ Furnished(d) /\ d.nodes = c.nodes /\ d.branches = c.branches
               /\ \A id \in c.nodes :
                     /\ d.node[id].hash = c.node[id].hash /\ d.node[id].dimmed = c.node[id].dimmed
                     /\ d.node[id].data = IF c.node[id].hash \in hashes THEN "full" ELSE c.node[id].data
               /\ \A h : DataOf(d.commits, h) = IF h \in hashes THEN "full" ELSE DataOf(c.commits, h)
               /\ DataCurrent(c) => DataCurrent(d)
               /\ RefsCurrent(c) => RefsCurrent(d)
               /\ hashes \subseteq DOMAIN c.commits /\ ~c.search /\ DimmedCurrent(c) => DimmedCurrent(d)
               /\ \A silent : Asked(c, silent) => Asked(d, silent)
<1> DEFINE added == AddCommits(c, hashes, "full")
           nodes == [id \in NodeId |->
                        IF id \in c.nodes /\ c.node[id].hash \in hashes
                        THEN [c.node[id] EXCEPT !.data = "full"] ELSE c.node[id]]
           d     == Merged(c, hashes)
<1>1. added.node = c.node /\ DOMAIN added = DOMAIN c
  BY DEF AddCommits, Furnished, Parts, Look
<1>2. d = [added EXCEPT !.node = nodes]
  BY <1>1 DEF Merged
<1>3. c.nodes \subseteq NodeId /\ \A id \in NodeId : Fields \subseteq DOMAIN c.node[id]
  BY DEF Sound, Pooled, DrawsOwned
<1>4. \A id \in NodeId : LET n == [c.node[id] EXCEPT !.data = "full"]
                         IN  n.hash = c.node[id].hash /\ n.data = "full" /\ n.dimmed = c.node[id].dimmed
  BY <1>3 DEF Fields
<1>5. \A id \in c.nodes :
         /\ nodes[id].hash = c.node[id].hash /\ nodes[id].dimmed = c.node[id].dimmed
         /\ nodes[id].data = IF c.node[id].hash \in hashes THEN "full" ELSE c.node[id].data
  BY <1>3, <1>4
<1>6. /\ added.nodes = c.nodes /\ added.lazy = c.lazy
      /\ added.branches = c.branches /\ added.tags = c.tags
      /\ added.branchNodes = c.branchNodes /\ added.tagNodes = c.tagNodes
      /\ added.filter = c.filter /\ added.scope = c.scope /\ added.isolated = c.isolated
      /\ added.search = c.search /\ added.stashed = c.stashed /\ added.dimmedFor = c.dimmedFor /\ added.dimmedIn = c.dimmedIn
      /\ added.pending = c.pending /\ added.inflight = c.inflight
      /\ DOMAIN added.commits = hashes \cup DOMAIN c.commits
  BY DEF AddCommits, Furnished, Parts, Look
<1>7. \A h : DataOf(added.commits, h) = IF h \in hashes THEN "full" ELSE DataOf(c.commits, h)
  <2>1. added.commits = [h \in hashes \cup DOMAIN c.commits |->
            IF h \notin hashes THEN c.commits[h]
            ELSE IF h \notin DOMAIN c.commits THEN "full" ELSE mergeCommitData(c.commits[h], "full")]
    BY DEF AddCommits, Furnished, Look
  <2>2. \A level : mergeCommitData(level, "full") = "full"
    BY DEF mergeCommitData
  <2> HIDE DEF added
  <2> QED BY <2>1, <2>2 DEF DataOf
<1> HIDE DEF added, nodes
<1>8. /\ Furnished(d) /\ d.nodes = c.nodes /\ d.node = nodes /\ d.lazy = c.lazy
      /\ d.commits = added.commits /\ d.branches = c.branches /\ d.tags = c.tags
      /\ d.branchNodes = c.branchNodes /\ d.tagNodes = c.tagNodes
      /\ d.filter = c.filter /\ d.scope = c.scope /\ d.isolated = c.isolated
      /\ d.search = c.search /\ d.stashed = c.stashed /\ d.dimmedFor = c.dimmedFor /\ d.dimmedIn = c.dimmedIn
      /\ d.pending = c.pending /\ d.inflight = c.inflight
  BY <1>1, <1>2, <1>6 DEF Furnished, Parts, Look
<1> HIDE DEF d
<1>9. \A h : DataOf(d.commits, h) = IF h \in hashes THEN "full" ELSE DataOf(c.commits, h)
  BY <1>7, <1>8
<1>10. DataCurrent(c) => DataCurrent(d)
  BY <1>5, <1>8, <1>9 DEF DataCurrent
<1>11. RefsCurrent(c) => RefsCurrent(d)
  <2>1. Drawn(d) = Drawn(c)
    BY <1>5, <1>8 DEF Drawn
  <2> QED BY <1>8, <2>1 DEF RefsCurrent, reconcileBranchNodes, reconcileTagNodes
<1>12. \A silent : Asked(c, silent) => Asked(d, silent)
  BY <1>5, <1>8 DEF Asked
<1>13. ASSUME hashes \subseteq DOMAIN c.commits, ~c.search, DimmedCurrent(c) PROVE DimmedCurrent(d)
  <2>1. DOMAIN d.commits = DOMAIN c.commits
    BY <1>6, <1>8, <1>13
  <2>2. \A h, level, other : Passes(Judge(d), h, level) = Passes(Judge(c), h, other)
    BY <1>8, <1>13, <2>1, PassesAlike
  <2> SUFFICES ASSUME NEW id \in c.nodes
               PROVE  d.node[id].dimmed = ~Passes(Judge(d), d.node[id].hash, d.node[id].data)
    BY <1>8 DEF DimmedCurrent
  <2>3. c.node[id].dimmed = ~Passes(Judge(c), c.node[id].hash, c.node[id].data)
    BY <1>13 DEF DimmedCurrent
  <2>4. Passes(Judge(d), c.node[id].hash, d.node[id].data) = Passes(Judge(c), c.node[id].hash, c.node[id].data)
    BY <2>2
  <2> QED BY <1>5, <1>8, <2>3, <2>4
<1> QED BY <1>5, <1>8, <1>9, <1>10, <1>11, <1>12, <1>13 DEF d

(* Every drawn commit of a batch is shown whole.                           *)
ShownWhole(c, hashes) == \A id \in c.nodes : c.node[id].hash \in hashes => c.node[id].data = "full"

LEMMA HydratedLook ==
    ASSUME NEW c, Sound(c), Furnished(c), Whole(c), NEW hashes
    PROVE  LET d == MergeHydrated(c, hashes)
           IN  Settles(c, d) /\ ShownWhole(d, hashes)
<1> DEFINE merged == Merged(c, hashes)
           asked  == enqueueHydration(merged, UNION {ParentSet(h) : h \in hashes})
           next   == IF hashes \subseteq DOMAIN c.commits THEN asked ELSE updateGraph(asked)
<1>1. MergeHydrated(c, hashes) = IF hashes = {} THEN c ELSE DimAgain(next)
  BY DEF MergeHydrated, Merged
<1>2. Sound(merged)
  BY MergedSound
<1>3. /\ Furnished(merged) /\ merged.nodes = c.nodes
      /\ \A id \in c.nodes :
            /\ merged.node[id].hash = c.node[id].hash
            /\ merged.node[id].data = IF c.node[id].hash \in hashes THEN "full" ELSE c.node[id].data
      /\ \A h : DataOf(merged.commits, h) = IF h \in hashes THEN "full" ELSE DataOf(c.commits, h)
      /\ DataCurrent(c) => DataCurrent(merged)
      /\ RefsCurrent(c) => RefsCurrent(merged)
      /\ hashes \subseteq DOMAIN c.commits /\ ~c.search /\ DimmedCurrent(c) => DimmedCurrent(merged)
      /\ \A silent : Asked(c, silent) => Asked(merged, silent)
  BY MergedLook
<1>4. Whole(merged) /\ merged.search = c.search
  BY DEF Merged, AddCommits, Whole, Core, Furnished, Look
<1> HIDE DEF merged
<1>5. SameLook(merged, asked) /\ Sound(asked) /\ Furnished(asked)
  <2>1. SameLook(merged, asked)
    BY <1>3, EnqueueLook
  <2>2. SameObjects(merged, asked)
    BY <1>2, EnqueueSame, SoundMade DEF Sound
  <2> QED BY <1>2, <2>1, <2>2, SameSound, LookChain
<1>6. Whole(asked) /\ asked.commits = merged.commits
  BY <1>4, EnqueueKeeps DEF Keeps, KeepsHydration
<1> HIDE DEF asked
<1>7. Settles(merged, asked) /\ ShownWhole(asked, hashes) /\ asked.search = c.search
  <2>1. asked.nodes = c.nodes /\ asked.node = merged.node /\ asked.search = merged.search
    BY <1>3, <1>5 DEF SameLook, RestLook
  <2> QED BY <1>3, <1>4, <1>5, <2>1, SameLookSettles DEF ShownWhole
<1>8. CASE hashes \subseteq DOMAIN c.commits
  <2>1. \A silent : Asked(c, silent) => Asked(asked, silent)
    BY <1>3, <1>7 DEF Settles
  <2>2. (DataCurrent(c) => DataCurrent(asked)) /\ (RefsCurrent(c) => RefsCurrent(asked))
    BY <1>3, <1>5, LooksAlike DEF SameLook
  <2>3. ~c.search /\ Current(c) => Current(asked)
    BY <1>3, <1>7, <1>8 DEF Settles, Current
  <2>4. /\ Furnished(DimAgain(asked)) /\ ShownWhole(DimAgain(asked), hashes)
        /\ \A silent : Asked(asked, silent) => Asked(DimAgain(asked), silent)
    BY <1>5, <1>7, DimmingLook DEF DimAgain, Sound, DrawsOwned, ShownWhole
  <2>5. ASSUME Current(c) PROVE Current(DimAgain(asked))
    BY <1>5, <1>7, <2>2, <2>3, <2>5, DimmingSettles DEF DimAgain, Current
  <2> QED BY <1>1, <1>8, <2>1, <2>4, <2>5, SettlesItself DEF Settles, ShownWhole
<1>9. CASE ~(hashes \subseteq DOMAIN c.commits)
  <2> DEFINE seen == updateGraph(asked)
  <2>1. Furnished(seen) /\ Current(seen) /\ (\A silent : Asked(seen, silent)) /\ Sound(seen)
    BY <1>5, GraphLook, GraphSound
  <2>2. seen.commits = merged.commits
    BY <1>6, GraphKeeps DEF Keeps
  <2> HIDE DEF seen
  <2>3. ShownWhole(seen, hashes)
    BY <1>3, <2>1, <2>2 DEF ShownWhole, Current, DataCurrent
  <2>4. /\ Furnished(DimAgain(seen)) /\ ShownWhole(DimAgain(seen), hashes)
        /\ \A silent : Asked(DimAgain(seen), silent)
    BY <2>1, <2>3, DimmingLook DEF DimAgain, Sound, DrawsOwned, ShownWhole
  <2>5. Current(DimAgain(seen))
    BY <2>1, DimmingSettles DEF DimAgain, Current
  <2> QED BY <1>1, <1>9, <2>4, <2>5, SettlesItself DEF Settles, seen, ShownWhole
<1> QED BY <1>8, <1>9

----------------------------------------------------------------------------
(* The actions.                                                            *)

LEMMA CollectedLook ==
    ASSUME NEW c, Sound(c), Furnished(c)
    PROVE  Settles(c, Collected(c))
<1> DEFINE live  == Range(c.active) \cup Range(c.pool) \cup InUse(c)
           nodes == [id \in NodeId |-> IF id \in live THEN c.node[id] ELSE Blank]
           d     == Collected(c)
<1>1. d = [c EXCEPT !.node = nodes]
  BY DEF Collected
<1>2. c.nodes \subseteq NodeId
  BY DEF Sound, DrawsOwned
<1>3. c.nodes \subseteq live
  BY <1>2, NoIdAssumption DEF InUse
<1>4. \A id \in c.nodes : nodes[id] = c.node[id]
  BY <1>2, <1>3
<1> HIDE DEF nodes
<1>5. RestLook(c, d) /\ d.node = nodes
  BY <1>1 DEF RestLook, Furnished, Parts, Look
<1> HIDE DEF d
<1> QED BY <1>4, <1>5, LooksAlike DEF d

LEMMA BecomesLook ==
    ASSUME NEW c, Sound(c), Furnished(c), Becomes(c)
    PROVE  Settles(c, ctl')
BY CollectedLook DEF Becomes

LEMMA DestroyLook ==
    ASSUME NEW c, Sound(c), Furnished(c)
    PROVE  LET d == destroy(c)
           IN  Furnished(d) /\ \A silent : Asked(d, silent)
<1> DEFINE ended   == [c EXCEPT !.flushTimer = FALSE, !.lazy = FALSE, !.lanes = <<>>,
                       !.destroyed = TRUE, !.tooltip = NoId]
           emptied == clear(ended)
           stopped == clearSearchHydrationScan(emptied)
<1>1. Furnished(emptied) /\ ~emptied.lazy
  BY DEF clear, _evict, Furnished, Parts
<1> HIDE DEF emptied
<1>2. Furnished(stopped) /\ ~stopped.lazy
  BY <1>1, SearchLook, LookChain DEF SameLook, RestLook
<1> HIDE DEF stopped
<1>3. Furnished(releaseDrag(stopped)) /\ ~releaseDrag(stopped).lazy
  BY <1>2, LooksLook, LookChain DEF SameLook, RestLook
<1> QED BY <1>3 DEF destroy, stopped, emptied, Asked

(* The panels change what the predicate judges by, and the nodes with it.  *)
SameMaps(c, d) ==
    /\ SameObjects(c, d) /\ Furnished(d)
    /\ d.commits = c.commits /\ d.branches = c.branches /\ d.tags = c.tags
    /\ d.branchNodes = c.branchNodes /\ d.tagNodes = c.tagNodes
    /\ c.pending \subseteq d.pending /\ d.inflight = c.inflight

LEMMA PanelsLook ==
    ASSUME NEW c, Sound(c), NEW d, SameMaps(c, d)
    PROVE  Settles(c, applyDimmingFromPredicate(d)) /\ Sound(applyDimmingFromPredicate(d))
<1>1. /\ Sound(d) /\ Furnished(d) /\ d.nodes = c.nodes /\ d.node = c.node /\ d.lazy = c.lazy
  BY SameSound DEF SameMaps, SameObjects, SameRest
<1>2. Drawn(d) = Drawn(c)
  BY <1>1 DEF Drawn
<1>3. (DataCurrent(c) => DataCurrent(d)) /\ \A silent : Asked(c, silent) => Asked(d, silent)
  BY <1>1 DEF DataCurrent, Asked, SameMaps
<1>4. RefsCurrent(c) => RefsCurrent(d)
  BY <1>2 DEF RefsCurrent, reconcileBranchNodes, reconcileTagNodes, SameMaps
<1>5. d.nodes \subseteq NodeId /\ Pooled(d)
  BY <1>1 DEF Sound, DrawsOwned
<1>6. Sound(applyDimmingFromPredicate(d))
  <2>1. Painted(d, applyDimmingFromPredicate(d))
    BY <1>1, DimmingPaints DEF Sound
  <2> QED BY <1>1, <2>1, PaintedSound
<1> QED BY <1>1, <1>3, <1>4, <1>5, <1>6, DimmingLook DEF Settles, Current

LEMMA SameMapsHold ==
    ASSUME NEW c, Sound(c), Furnished(c)
    PROVE  /\ \A x, y, z : SameMaps(c, [c EXCEPT !.search = x, !.results = y, !.resultIndex = z])
           /\ \A x, y, z : SameMaps(c, [c EXCEPT !.filter = x, !.results = y, !.resultIndex = z])
           /\ \A x : SameMaps(c, [c EXCEPT !.scope = x])
           /\ \A x : SameMaps(c, [c EXCEPT !.isolated = x])
           /\ \A d, e : SameMaps(c, d) /\ SameObjects(d, e) /\ SameLook(d, e) => SameMaps(c, e)
<1>1. Made(c)
  BY SoundMade DEF Sound
<1>2. /\ \A x, y, z : SameMaps(c, [c EXCEPT !.search = x, !.results = y, !.resultIndex = z])
      /\ \A x, y, z : SameMaps(c, [c EXCEPT !.filter = x, !.results = y, !.resultIndex = z])
  BY <1>1, SetFieldsSame DEF SameMaps, Furnished, Parts, Look
<1>3. /\ \A x : SameMaps(c, [c EXCEPT !.scope = x])
      /\ \A x : SameMaps(c, [c EXCEPT !.isolated = x])
  BY <1>1, SetFieldsSame DEF SameMaps, Furnished, Parts, Look
<1>4. ASSUME NEW d, NEW e, SameMaps(c, d), SameObjects(d, e), SameLook(d, e) PROVE SameMaps(c, e)
  <2>1. SameObjects(c, e)
    BY <1>4, SameChain DEF SameMaps
  <2> QED BY <1>4, <2>1 DEF SameMaps, SameLook, RestLook
<1> QED BY <1>2, <1>3, <1>4

(* An edit of the view that leaves what is drawn.                          *)
LEMMA EditLook ==
    ASSUME NEW c, Sound(c), NEW d, SameObjects(c, d), SameLook(c, d), Becomes(d)
    PROVE  Settles(c, ctl')
<1>1. Sound(d) /\ Furnished(d) /\ Settles(c, d)
  BY SameSound, LookChain, SameLookSettles
<1> QED BY <1>1, BecomesLook, SettlesChain

LEMMA JudgedLook ==
    ASSUME NEW c, Sound(c), NEW d, SameMaps(c, d), Becomes(applyDimmingFromPredicate(d))
    PROVE  Settles(c, ctl')
<1> DEFINE dimmed == applyDimmingFromPredicate(d)
<1>1. Settles(c, dimmed) /\ Sound(dimmed)
  BY PanelsLook
<1> HIDE DEF dimmed
<1>2. Settles(dimmed, ctl')
  BY <1>1, BecomesLook DEF Settles, dimmed
<1> QED BY <1>1, <1>2, SettlesChain

LEMMA PointerLook ==
    ASSUME Sound(ctl), Furnished(ctl), Pointer
    PROVE  Settles(ctl, ctl')
<1>1. Made(ctl)
  BY SoundMade DEF Sound
<1>2. CASE PointerDownOnHeader
  BY <1>1, <1>2, SetFieldsSame, FieldsLook, EditLook DEF PointerDownOnHeader
<1>3. CASE PointerDownOnBody
  <2>1. PICK l : Becomes(applyDimmingFromPredicate(
                     [ctl EXCEPT !.isolated = IF @ = l THEN NoLane ELSE l]))
    BY <1>3 DEF PointerDownOnBody
  <2> QED BY <2>1, SameMapsHold, JudgedLook
<1>4. CASE PointerDownOnNode
  BY <1>1, <1>4, SetFieldsSame, FieldsLook, EditLook DEF PointerDownOnNode
<1>5. CASE PointerDownOnCanvas
  <2> DEFINE c == hideTooltip(ctl)
             d == [c EXCEPT !.isolated = NoLane]
  <2>1. SameObjects(ctl, c) /\ SameLook(ctl, c)
    BY <1>1, LooksSame, LooksLook
  <2>2. Becomes(c) \/ Becomes(applyDimmingFromPredicate(d))
    BY <1>5 DEF PointerDownOnCanvas
  <2> HIDE DEF c
  <2>3. Sound(c) /\ Furnished(c) /\ Settles(ctl, c)
    BY <2>1, SameSound, LookChain, SameLookSettles
  <2>4. SameMaps(c, d)
    BY <2>3, SameMapsHold
  <2> HIDE DEF d
  <2> QED BY <2>1, <2>2, <2>3, <2>4, EditLook, JudgedLook, SettlesChain
<1>6. CASE DragNode
  <2> DEFINE c == [ctl EXCEPT !.drag.moved = TRUE]
  <2>1. SameObjects(ctl, c) /\ SameLook(ctl, c)
    BY <1>1, SetFieldsSame, FieldsLook
  <2>2. Becomes(hideTooltip(c))
    BY <1>6 DEF DragNode
  <2> HIDE DEF c
  <2>3. SameObjects(c, hideTooltip(c)) /\ SameLook(c, hideTooltip(c))
    BY <2>1, SameMade, LooksSame, LooksLook, LookChain
  <2>4. SameObjects(ctl, hideTooltip(c)) /\ SameLook(ctl, hideTooltip(c))
    BY <2>1, <2>3, SameChain, LookChain
  <2> QED BY <2>2, <2>4, EditLook
<1>7. CASE handlePointerUp
  <2> DEFINE id == ctl.drag.on
             c  == releaseDrag(ctl)
             d  == hideTooltip(c)
             s  == showTooltip(c, id)
             e  == EnqueueClicked(s, id)
             f  == [d EXCEPT !.selected = NoHash]
             g  == [e EXCEPT !.selected = c.node[id].hash]
  <2>1. Becomes(c) \/ Becomes(f) \/ Becomes(g)
    BY <1>7 DEF handlePointerUp
  <2>2. SameObjects(ctl, c) /\ SameLook(ctl, c)
    BY <1>1, LooksSame, LooksLook
  <2> HIDE DEF c
  <2>8. SameObjects(c, d) /\ SameLook(c, d) /\ SameObjects(c, s) /\ SameLook(c, s)
    BY <2>2, SameMade, LooksSame, LooksLook, LookChain
  <2> HIDE DEF d, s
  <2>9. SameObjects(s, e)
    BY <2>8, SameMade, SameItself, EnqueueSame DEF EnqueueClicked
  <2>10. SameLook(s, e)
    BY <2>8, LooksLook, LookChain
  <2> HIDE DEF e
  <2>3. SameObjects(c, d) /\ SameLook(c, d) /\ SameObjects(c, e) /\ SameLook(c, e)
    BY <2>8, <2>9, <2>10, SameChain, LookChain
  <2>4. SameObjects(d, f) /\ SameObjects(e, g)
    BY <2>3, SameMade, SetFieldsSame
  <2>5. SameLook(d, f) /\ SameLook(e, g)
    <3>1. Furnished(d) /\ Furnished(e)
      BY <2>3, LookChain
    <3> QED BY <3>1, FieldsLook
  <2> HIDE DEF f, g
  <2>6. SameObjects(ctl, f) /\ SameObjects(ctl, g)
    BY <2>2, <2>3, <2>4, SameChain
  <2>7. SameLook(ctl, f) /\ SameLook(ctl, g)
    BY <2>2, <2>3, <2>5, LookChain
  <2> QED BY <2>1, <2>2, <2>6, <2>7, EditLook
<1>8. CASE DragLane
  BY <1>1, <1>8, SetFieldsSame, FieldsLook, EditLook DEF DragLane
<1> QED BY <1>2, <1>3, <1>4, <1>5, <1>6, <1>7, <1>8 DEF Pointer, handlePointerMove

LEMMA ResizeLook ==
    ASSUME Sound(ctl), Furnished(ctl), resize
    PROVE  Settles(ctl, ctl')
<1>1. PICK h \in Heights \ {ctl.height} :
         LET c == [ctl EXCEPT !.height = h]
         IN  Becomes(IF c.lazy
                     THEN rematerializeFromViewport([c EXCEPT !.window = Query(c.index, c.top, h)])
                     ELSE HydrateVisible(c))
  BY DEF resize
<1> DEFINE c == [ctl EXCEPT !.height = h]
           w == [c EXCEPT !.window = Query(c.index, c.top, h)]
<1>2. (c.lazy /\ Becomes(rematerializeFromViewport(w))) \/ Becomes(HydrateVisible(c))
  BY <1>1
<1>3. SameObjects(ctl, c) /\ SameLook(ctl, c)
  BY SetFieldsSame, SoundMade, FieldsLook DEF Sound
<1> HIDE DEF c
<1>4. Sound(c) /\ Furnished(c) /\ Settles(ctl, c)
  BY <1>3, SameSound, LookChain, SameLookSettles
<1>5. Sound(w) /\ SameLook(c, w)
  BY <1>4, FramedSound, FieldsLook DEF Sound, Windowed
<1> HIDE DEF w
<1>6. Furnished(w) /\ Settles(c, w) /\ w.lazy = c.lazy
  BY <1>5, SameLookSettles, LookChain DEF SameLook, RestLook
<1>7. CASE c.lazy /\ Becomes(rematerializeFromViewport(w))
  <2> DEFINE seen == rematerializeFromViewport(w)
  <2>1. Settles(w, seen)
    BY <1>5, <1>6, <1>7, VisibleLook DEF rematerializeFromViewport, Sound, Settles
  <2>2. Sound(seen)
    BY <1>5, VisibleSound DEF rematerializeFromViewport, Sound
  <2> HIDE DEF seen
  <2>3. Settles(seen, ctl')
    BY <1>7, <2>1, <2>2, BecomesLook DEF Settles, seen
  <2>4. Settles(ctl, seen)
    BY <1>4, <1>6, <2>1, SettlesChain
  <2> QED BY <2>3, <2>4, SettlesChain
<1>8. CASE Becomes(HydrateVisible(c))
  <2>1. SameObjects(c, HydrateVisible(c)) /\ SameLook(c, HydrateVisible(c))
    BY <1>4, EnqueueSame, EnqueueLook, SoundMade DEF Sound
  <2> QED BY <1>4, <1>8, <2>1, EditLook, SettlesChain
<1> QED BY <1>2, <1>7, <1>8

LEMMA EventsLook ==
    ASSUME Sound(ctl), Furnished(ctl), Events, ~Dispose
    PROVE  Settles(ctl, ctl')
<1>1. ASSUME NEW c, Sound(c), Settles(ctl, c), Becomes(c) PROVE Settles(ctl, ctl')
  <2>1. Settles(c, ctl')
    BY <1>1, BecomesLook DEF Settles
  <2> QED BY <1>1, <2>1, SettlesChain
<1>2. CASE Scroll
  BY <1>1, <1>2, ZoomSound, ZoomLook DEF Scroll
<1>3. CASE resize
  BY <1>3, ResizeLook
<1>4. CASE SetSearchState
  <2> DEFINE c == [ctl EXCEPT !.search = ~@, !.results = NoCache, !.resultIndex = 0]
             d == queueSearchHydration(c)
  <2>1. Becomes(applyDimmingFromPredicate(d))
    BY <1>4 DEF SetSearchState
  <2>2. SameMaps(ctl, c)
    BY SameMapsHold
  <2> HIDE DEF c
  <2>3. SameObjects(c, d) /\ SameLook(c, d)
    BY <2>2, SameMade, SearchSame, SearchLook, SoundMade DEF SameMaps, Sound
  <2> HIDE DEF d
  <2>4. SameMaps(ctl, d)
    BY <2>2, <2>3, SameMapsHold
  <2> QED BY <2>1, <2>4, JudgedLook
<1>5. CASE SetFilterState
  BY <1>5, SameMapsHold, JudgedLook DEF SetFilterState
<1>6. CASE SetGraphSettings
  BY <1>6, SameMapsHold, JudgedLook DEF SetGraphSettings
<1>7. CASE ToggleLayout
  BY <1>1, <1>7, LayoutSound, LayoutLook DEF ToggleLayout
<1>8. CASE NavigateCommits
  BY <1>1, <1>8, NavigateSound, NavigateLook DEF NavigateCommits
<1>9. CASE NavigateSearchResults
  BY <1>1, <1>9, NavigateSound, NavigateLook DEF NavigateSearchResults
<1>10. CASE SelectCommit
  BY <1>1, <1>10, SelectCommitSound, SelectCommitLook DEF SelectCommit
<1>11. CASE JumpToHead
  BY <1>1, <1>11, CenterSound, ZoomLook DEF JumpToHead
<1>12. CASE GetNavigationPosition
  BY <1>1, <1>12, NavigateSound, NavigateLook DEF GetNavigationPosition
<1>13. CASE RebuildVisibleGraph
  BY <1>1, <1>13, GraphSound, GraphLook DEF RebuildVisibleGraph
<1>14. CASE ClearIsolation
  BY <1>14, SameMapsHold, JudgedLook DEF ClearIsolation
<1>15. CASE Rebalance
  BY <1>15, SoundMade, SetFieldsSame, FieldsLook, EditLook DEF Rebalance, Sound
<1> QED
  BY <1>2, <1>3, <1>4, <1>5, <1>6, <1>7, <1>8, <1>9, <1>10, <1>11, <1>12, <1>13, <1>14, <1>15 DEF Events

----------------------------------------------------------------------------
(* A bootstrap's commits come before its end, and only in a bootstrap.     *)

NoChunk(msgs) == IsSequence(msgs) /\ \A i \in 1..Len(msgs) : msgs[i].type # "chunk"
NoEnd(msgs) == IsSequence(msgs) /\ \A i \in 1..Len(msgs) : msgs[i].type # "complete"

Ordered(msgs, booting) ==
    /\ IsSequence(msgs)
    /\ \A i \in 1..Len(msgs) :
          msgs[i].type = "chunk" => booting /\ \A j \in 1 .. i - 1 : msgs[j].type # "complete"

LEMMA JoinOrdered ==
    ASSUME NEW s, NEW t, IsSequence(s), IsSequence(t)
    PROVE  /\ \A booting : Ordered(s, booting) /\ NoChunk(t) => Ordered(s \o t, booting)
           /\ NoEnd(s) => Ordered(s, TRUE)
           /\ NoEnd(s) /\ Ordered(t, TRUE) => Ordered(s \o t, TRUE)
<1> DEFINE st == s \o t
<1>1. /\ IsSequence(st) /\ Len(st) = Len(s) + Len(t)
      /\ Len(s) \in Nat /\ Len(t) \in Nat
      /\ \A i \in 1 .. Len(s) + Len(t) : st[i] = IF i <= Len(s) THEN s[i] ELSE t[i - Len(s)]
  BY JoinedSequence
<1> HIDE DEF st
<1>2. ASSUME NEW booting, Ordered(s, booting), NoChunk(t) PROVE Ordered(st, booting)
  <2> SUFFICES ASSUME NEW i \in 1 .. Len(st), st[i].type = "chunk"
               PROVE  booting /\ \A j \in 1 .. i - 1 : st[j].type # "complete"
    BY <1>1 DEF Ordered
  <2>1. i \in 1..Len(s)
    BY <1>1, <1>2 DEF NoChunk
  <2>2. \A j \in 1 .. i : st[j] = s[j]
    BY <1>1, <2>1
  <2>3. s[i].type = "chunk"
    BY <2>1, <2>2
  <2>4. booting /\ \A j \in 1 .. i - 1 : s[j].type # "complete"
    BY <1>2, <2>1, <2>3 DEF Ordered
  <2> QED BY <2>1, <2>2, <2>4
<1>3. NoEnd(s) => Ordered(s, TRUE)
  BY <1>1 DEF NoEnd, Ordered
<1>4. ASSUME NoEnd(s), Ordered(t, TRUE) PROVE Ordered(st, TRUE)
  <2> SUFFICES ASSUME NEW i \in 1 .. Len(st), st[i].type = "chunk", NEW j \in 1 .. i - 1
               PROVE  st[j].type # "complete"
    BY <1>1 DEF Ordered
  <2>1. CASE j <= Len(s)
    BY <1>1, <1>4, <2>1 DEF NoEnd
  <2>2. CASE ~(j <= Len(s))
    <3>1. st[i] = t[i - Len(s)] /\ st[j] = t[j - Len(s)]
      BY <1>1, <2>2
    <3>2. i - Len(s) \in 1..Len(t) /\ j - Len(s) \in 1 .. (i - Len(s)) - 1
      BY <1>1, <2>2
    <3> QED BY <1>4, <3>1, <3>2 DEF Ordered
  <2> QED BY <2>1, <2>2
<1> QED BY <1>2, <1>3, <1>4 DEF st

LEMMA SingleOrdered ==
    ASSUME NEW m
    PROVE  /\ IsSequence(<<m>>)
           /\ m.type # "chunk" => NoChunk(<<m>>)
           /\ m.type # "complete" => NoEnd(<<m>>)
<1> DEFINE one == <<m>>
<1>1. IsSequence(one) /\ Len(one) = 1 /\ one[1] = m
  BY SingleSequence
<1> HIDE DEF one
<1>2. \A i \in 1..Len(one) : one[i] = m
  BY <1>1
<1> QED BY <1>1, <1>2 DEF NoChunk, NoEnd, one

LEMMA BootstrapOrdered ==
    ASSUME NEW repo \in Repos
    PROVE  Ordered(sendInitialBootstrap(repo), TRUE)
<1> DEFINE first == [type |-> "repoSummary"]
           done  == [type |-> "complete", head |-> repo.head, tags |-> repo.tags, stashes |-> repo.stashes]
           head  == HeadMessage(repo)
           plan  == planInitialCommitBatches(repo)
           boot  == plan \o <<done>>
           s     == <<first>> \o boot
<1>1. sendInitialBootstrap(repo) = s \o <<head>>
  BY DEF sendInitialBootstrap, buildBootstrapMessages
<1>2. IsSequence(plan) /\ NoEnd(plan)
  BY PlanCovers DEF NoEnd
<1>3. first.type # "complete" /\ done.type # "chunk" /\ head.type # "chunk"
  BY DEF HeadMessage
<1> HIDE DEF first, done, head, plan
<1>4. NoEnd(<<first>>) /\ NoChunk(<<done>>) /\ NoChunk(<<head>>)
  BY <1>3, SingleOrdered
<1>5. IsSequence(<<first>>) /\ IsSequence(<<done>>) /\ IsSequence(<<head>>)
  BY SingleOrdered
<1>6. Ordered(boot, TRUE)
  BY <1>2, <1>4, <1>5, JoinOrdered
<1> HIDE DEF boot
<1>7. Ordered(s, TRUE)
  BY <1>4, <1>5, <1>6, JoinOrdered DEF Ordered
<1> HIDE DEF s
<1> QED BY <1>1, <1>4, <1>5, <1>7, JoinOrdered DEF Ordered

LEMMA UpdateOrdered ==
    ASSUME NEW new, NEW old, NEW msgs, NEW booting, Ordered(msgs, booting)
    PROVE  Ordered(msgs \o sendUpdate(new, old), booting)
<1> DEFINE d     == DiffRepositories(new, old)
           delta == [type |-> "delta", delta |-> d]
           head  == HeadMessage(new)
           first == IF IsEmpty(d) THEN <<>> ELSE <<delta>>
<1>1. sendUpdate(new, old) = first \o <<head>>
  BY DEF sendUpdate
<1>2. delta.type # "chunk" /\ head.type # "chunk"
  BY DEF HeadMessage
<1> HIDE DEF d, delta, head
<1>3. IsSequence(<<>>) /\ NoChunk(<<>>)
  <2>1. IsSequence(<<>>) /\ Len(<<>>) = 0
    BY EmptySeq DEF IsSequence
  <2> QED BY <2>1 DEF NoChunk
<1>4. IsSequence(first) /\ NoChunk(first) /\ IsSequence(<<head>>) /\ NoChunk(<<head>>)
  BY <1>2, <1>3, SingleOrdered
<1> HIDE DEF first
<1> DEFINE u == first \o <<head>>
<1>5. /\ IsSequence(u) /\ Len(u) = Len(first) + Len(<<head>>)
      /\ Len(first) \in Nat /\ Len(<<head>>) \in Nat
      /\ \A i \in 1 .. Len(first) + Len(<<head>>) :
            u[i] = IF i <= Len(first) THEN first[i] ELSE <<head>>[i - Len(first)]
  BY <1>4, JoinedSequence
<1> HIDE DEF u
<1>6. NoChunk(u)
  <2> SUFFICES ASSUME NEW i \in 1 .. Len(u) PROVE u[i].type # "chunk"
    BY <1>5 DEF NoChunk
  <2> DEFINE one == <<head>>
  <2> HIDE DEF one
  <2>1. Len(u) = Len(first) + Len(one) /\ Len(one) \in Nat
        /\ u[i] = IF i <= Len(first) THEN first[i] ELSE one[i - Len(first)]
    BY <1>5 DEF one
  <2>2. \A j \in 1..Len(one) : one[j].type # "chunk"
    BY <1>4 DEF NoChunk, one
  <2>3. \A j \in 1..Len(first) : first[j].type # "chunk"
    BY <1>4 DEF NoChunk
  <2>4. CASE i <= Len(first)
    BY <1>5, <2>1, <2>3, <2>4
  <2>5. CASE ~(i <= Len(first))
    <3>1. i - Len(first) \in 1..Len(one) /\ u[i] = one[i - Len(first)]
      BY <1>5, <2>1, <2>5
    <3> QED BY <2>2, <3>1
  <2> QED BY <2>4, <2>5
<1> QED BY <1>1, <1>5, <1>6, JoinOrdered DEF Ordered, u

LEMMA RestOrdered ==
    ASSUME NEW msgs, msgs # <<>>, NEW booting, Ordered(msgs, booting)
    PROVE  /\ Ordered(Tail(msgs), booting)
           /\ Head(msgs).type = "chunk" => booting
           /\ Head(msgs).type = "complete" => Ordered(Tail(msgs), FALSE)
<1> DEFINE rest == Tail(msgs)
<1>1. /\ IsSequence(rest) /\ Head(msgs) = msgs[1]
      /\ Len(msgs) \in Nat \ {0} /\ Len(rest) = Len(msgs) - 1
      /\ \A i \in 1 .. Len(msgs) - 1 : rest[i] = msgs[i + 1]
  BY RestOfSequence DEF Ordered
<1> HIDE DEF rest
<1>2. 1 \in 1..Len(msgs)
  BY <1>1
<1>3. ASSUME NEW i \in 1..Len(rest), rest[i].type = "chunk"
      PROVE  booting /\ Head(msgs).type # "complete" /\ \A j \in 1 .. i - 1 : rest[j].type # "complete"
  <2>1. i + 1 \in 1..Len(msgs) /\ msgs[i + 1].type = "chunk" /\ (i + 1) - 1 = i /\ 1 \in 1..i
    BY <1>1, <1>3
  <2>2. booting /\ \A j \in 1..i : msgs[j].type # "complete"
    BY <2>1 DEF Ordered
  <2>3. \A j \in 1 .. i - 1 : j + 1 \in 1..i /\ rest[j] = msgs[j + 1]
    BY <1>1, <1>3
  <2> QED BY <1>1, <2>1, <2>2, <2>3
<1>4. Head(msgs).type = "chunk" => booting
  BY <1>1, <1>2 DEF Ordered
<1> QED BY <1>1, <1>3, <1>4 DEF Ordered, rest

----------------------------------------------------------------------------
(* What is drawn stays what is known, step by step.  A bootstrap's commits *)
(* go into the maps and are drawn at its end, so it needs to be known that *)
(* they come before that end; a graph that was disposed of stays so.       *)

LookInv ==
    /\ Furnished(ctl)
    /\ Ordered(feed, sync = "boot")
    /\ Booting \/ ctl.destroyed \/ Current(ctl)
    /\ Asked(ctl, unanswered)

LEMMA DestroyedStays ==
    ASSUME Whole(ctl), Next
    PROVE  ctl.destroyed => ctl'.destroyed
<1>1. ASSUME NEW c, Whole(c), NEW batch, ctl' = EndBatch(c, batch) \/ Becomes(EndBatch(c, batch))
      PROVE  c.destroyed => ctl'.destroyed
  <2> DEFINE freed == [c EXCEPT !.inflight = @ \ batch]
             d == EndBatch(c, batch)
  <2>1. Whole(freed) /\ freed.destroyed = c.destroyed
    BY <1>1 DEF Whole, Core
  <2>2. d = scheduleHydrationFlush(freed)
    BY DEF EndBatch
  <2> HIDE DEF freed
  <2>3. Keeps(freed, d)
    BY <2>1, <2>2, EnqueueKeeps
  <2> HIDE DEF d
  <2>4. Keeps(d, Collected(d)) /\ (ctl' = d \/ ctl' = Collected(d))
    BY <1>1, <2>3, CollectedData, KeepsWhole DEF Becomes, d
  <2> QED BY <2>1, <2>3, <2>4 DEF Keeps, KeepsHydration
<1>2. CASE Feed
  BY <1>2, FeedKeepsHydration DEF KeepsHydration
<1>3. CASE Hydration
  <2>1. CASE PumpSearch
    BY <2>1, TimersKeep DEF Keeps, KeepsHydration
  <2>2. ASSUME NEW b, flushHydrationBatch(b) PROVE ctl.destroyed => ctl'.destroyed
    BY <2>2 DEF flushHydrationBatch, Whole, Core
  <2>3. ASSUME NEW r, handleGraphCommits(r) \/ NextChunk(r) PROVE ctl.destroyed => ctl'.destroyed
    BY <2>3 DEF handleGraphCommits, NextChunk
  <2>4. ASSUME NEW r, BatchArrives(r) PROVE ctl.destroyed => ctl'.destroyed
    <3> DEFINE c == MergeHydrated(ctl, r.got \cup r.answer)
    <3>1. KeepsHydration(ctl, c)
      BY HydratedData
    <3>2. Becomes(EndBatch(c, r.batch))
      BY <2>4 DEF BatchArrives
    <3> HIDE DEF c
    <3> QED BY <1>1, <3>1, <3>2 DEF KeepsHydration
  <2> QED BY <1>3, <2>1, <2>2, <2>3, <2>4 DEF Hydration
<1>4. CASE Faults
  <2>1. ASSUME NEW r, RequestFails(r) PROVE ctl.destroyed => ctl'.destroyed
    BY <1>1, <2>1 DEF RequestFails
  <2>2. CASE Disconnect
    BY <2>2 DEF Disconnect
  <2>3. ASSUME NEW r, RequestRefused(r) PROVE ctl.destroyed => ctl'.destroyed
    BY <2>3 DEF RequestRefused
  <2> QED BY <1>4, <2>1, <2>2, <2>3 DEF Faults
<1>5. CASE PermalinkFires
  BY <1>5, TimersKeep DEF Keeps, KeepsHydration
<1>6. CASE Pointer
  BY <1>6, PointerKeeps DEF Keeps, KeepsHydration
<1>7. CASE Events
  <2>1. CASE Dispose
    BY <2>1 DEF Dispose
  <2> QED BY <1>7, <2>1, UserKeeps DEF Keeps, KeepsHydration
<1>8. CASE \E repo \in Repos : ServerChanges(repo)
  BY <1>8 DEF ServerChanges
<1> QED BY <1>2, <1>3, <1>4, <1>5, <1>6, <1>7, <1>8 DEF Next

LEMMA SettledLook ==
    ASSUME LookInv, Settles(ctl, ctl'), ctl.destroyed => ctl'.destroyed, UNCHANGED <<feed, sync, unanswered>>
    PROVE  LookInv'
<1>1. Booting' = Booting
  BY DEF Booting
<1>2. Ordered(feed', sync' = "boot")
  BY DEF LookInv
<1>3. Furnished(ctl') /\ (Current(ctl) => Current(ctl')) /\ Asked(ctl', unanswered')
  BY DEF LookInv, Settles
<1> QED BY <1>1, <1>2, <1>3 DEF LookInv

LEMMA FeedLook ==
    ASSUME LookInv, Sound(ctl), server \in Repos, Feed, ctl.destroyed => ctl'.destroyed
    PROVE  LookInv'
<1>1. Furnished(ctl)
  BY DEF LookInv
<1>2. ASSUME NEW c, Sound(c), Renewed(c), Becomes(c), unanswered' = unanswered
      PROVE  Furnished(ctl') /\ Current(ctl') /\ Asked(ctl', unanswered')
  BY <1>2, BecomesLook DEF Renewed, Settles
<1>3. ASSUME NEW type, Deliver(type)
      PROVE  /\ unanswered' = unanswered
             /\ Ordered(feed', sync = "boot")
             /\ type = "chunk" => sync = "boot"
             /\ type = "complete" => Ordered(feed', FALSE)
  BY <1>3, RestOrdered DEF Deliver, LookInv
<1>4. CASE Connect
  <2>1. Ordered(feed', sync' = "boot")
    BY <1>4, BootstrapOrdered DEF Connect
  <2>2. ctl' = ctl /\ unanswered' = unanswered /\ Booting'
    BY <1>4 DEF Connect, Booting
  <2> QED BY <2>1, <2>2 DEF LookInv
<1>5. CASE OnRepoMetadata
  <2>1. Ordered(feed', sync' = "boot")
    BY <1>3, <1>5 DEF OnRepoMetadata
  <2>2. Furnished(ctl') /\ Current(ctl') /\ Asked(ctl', unanswered')
    BY <1>1, <1>2, <1>3, <1>5, ResetSound, ResetLook DEF OnRepoMetadata
  <2> QED BY <2>1, <2>2 DEF LookInv
<1>6. CASE OnBootstrapChunk
  <2> DEFINE c == ApplyChunk(ctl, Head(feed))
  <2>1. sync = "boot" /\ sync' = sync /\ unanswered' = unanswered /\ Ordered(feed', sync = "boot") /\ Becomes(c)
    BY <1>3, <1>6 DEF OnBootstrapChunk
  <2>2. Sound(c) /\ Furnished(c) /\ (Asked(ctl, unanswered) => Asked(c, unanswered))
    BY <1>1, ChunkSound, ChunkLook
  <2> HIDE DEF c
  <2>3. Furnished(ctl') /\ Asked(ctl', unanswered')
    BY <2>1, <2>2, BecomesLook DEF LookInv, Settles
  <2>4. Booting'
    BY <2>1 DEF Booting
  <2> QED BY <2>1, <2>3, <2>4 DEF LookInv
<1>7. CASE OnBootstrapComplete
  <2>1. sync' = "live" /\ Ordered(feed', FALSE)
    BY <1>3, <1>7 DEF OnBootstrapComplete
  <2>2. Furnished(ctl') /\ Current(ctl') /\ Asked(ctl', unanswered')
    BY <1>1, <1>2, <1>3, <1>7, CompleteSound, CompleteLook DEF OnBootstrapComplete
  <2>3. (sync' = "boot") = FALSE
    BY <2>1
  <2> QED BY <2>1, <2>2, <2>3 DEF LookInv
<1>8. CASE OnDelta
  <2>1. Ordered(feed', sync' = "boot")
    BY <1>3, <1>8 DEF OnDelta
  <2>2. Furnished(ctl') /\ Current(ctl') /\ Asked(ctl', unanswered')
    BY <1>1, <1>2, <1>3, <1>8, LiveSound, LiveLook DEF OnDelta
  <2> QED BY <2>1, <2>2 DEF LookInv
<1>9. CASE OnHead
  <2> DEFINE c == setHeadHash(ctl, Head(feed).head)
  <2>1. sync' = sync /\ unanswered' = unanswered /\ Ordered(feed', sync = "boot") /\ Becomes(c)
    BY <1>3, <1>9 DEF OnHead
  <2>2. SameObjects(ctl, c) /\ SameLook(ctl, c)
    BY <1>1, DataSame, HeadLook, SoundMade DEF Sound
  <2> HIDE DEF c
  <2>3. Settles(ctl, ctl')
    BY <2>1, <2>2, EditLook
  <2>4. Booting' = Booting
    BY <2>1 DEF Booting
  <2> QED BY <2>1, <2>3, <2>4 DEF LookInv, Settles
<1> QED BY <1>4, <1>5, <1>6, <1>7, <1>8, <1>9 DEF Feed

LEMMA HydrationLook ==
    ASSUME LookInv, Sound(ctl), Whole(ctl), Hydration, ctl.destroyed => ctl'.destroyed
    PROVE  LookInv'
<1>1. Furnished(ctl)
  BY DEF LookInv
<1>2. CASE PumpSearch
  <2>1. SameObjects(ctl, pumpSearchHydration(ctl)) /\ SameLook(ctl, pumpSearchHydration(ctl))
    BY <1>1, SearchSame, SearchLook, SoundMade DEF Sound
  <2>2. Settles(ctl, ctl') /\ UNCHANGED <<feed, sync, unanswered>>
    BY <1>2, <2>1, EditLook DEF PumpSearch, OnlyController
  <2> QED BY <2>2, SettledLook
<1>3. ASSUME NEW b, flushHydrationBatch(b) PROVE LookInv'
  <2>1. /\ ctl' = [ctl EXCEPT !.flushTimer = FALSE, !.pending = @ \ b, !.inflight = @ \cup b]
        /\ UNCHANGED <<feed, sync, unanswered>>
    BY <1>3 DEF flushHydrationBatch
  <2>2. /\ Furnished(ctl') /\ ctl'.nodes = ctl.nodes /\ ctl'.node = ctl.node /\ ctl'.lazy = ctl.lazy
        /\ ctl'.commits = ctl.commits /\ ctl'.branches = ctl.branches /\ ctl'.tags = ctl.tags
        /\ ctl'.branchNodes = ctl.branchNodes /\ ctl'.tagNodes = ctl.tagNodes
        /\ ctl'.filter = ctl.filter /\ ctl'.scope = ctl.scope /\ ctl'.isolated = ctl.isolated
        /\ ctl'.search = ctl.search /\ ctl'.stashed = ctl.stashed /\ ctl'.dimmedFor = ctl.dimmedFor /\ ctl'.dimmedIn = ctl.dimmedIn
        /\ ctl.pending \cup ctl.inflight \subseteq ctl'.pending \cup ctl'.inflight
    BY <1>1, <2>1 DEF Furnished, Parts, Look
  <2>3. Current(ctl) => Current(ctl')
    BY <2>2, CurrentAlike
  <2>4. \A silent : Asked(ctl, silent) => Asked(ctl', silent)
    BY <2>2 DEF Asked
  <2> QED BY <2>1, <2>2, <2>3, <2>4, SettledLook DEF Settles
<1>4. ASSUME NEW r, handleGraphCommits(r) \/ NextChunk(r) PROVE LookInv'
  <2>1. ctl' = ctl /\ UNCHANGED <<feed, sync, unanswered>>
    BY <1>4 DEF handleGraphCommits, NextChunk
  <2> QED BY <1>1, <2>1, SettlesItself, SettledLook
<1>5. ASSUME NEW r, BatchArrives(r) PROVE LookInv'
  <2> DEFINE got    == r.got \cup r.answer
             merged == MergeHydrated(ctl, got)
             ended  == EndBatch(merged, r.batch)
  <2>1. /\ Becomes(ended) /\ unanswered' = (unanswered \cup r.batch) \ got
        /\ UNCHANGED <<feed, sync>>
    BY <1>5 DEF BatchArrives
  <2>2. Sound(merged) /\ Settles(ctl, merged) /\ ShownWhole(merged, got)
    BY <1>1, HydratedSound, HydratedLook
  <2> HIDE DEF merged, got
  <2>3. /\ Furnished(ended) /\ (Current(merged) => Current(ended))
        /\ \A silent : Asked(merged, silent) => Asked(ended, silent \cup r.batch)
        /\ ended.nodes = merged.nodes /\ ended.node = merged.node
    BY <2>2, EndLook DEF Settles
  <2>4. Sound(ended)
    BY <2>2, DataSame, SameSound, SoundMade DEF Sound
  <2> HIDE DEF ended
  <2>5. Asked(ended, unanswered \cup r.batch) /\ ShownWhole(ended, got)
    BY <2>2, <2>3 DEF LookInv, Settles, ShownWhole
  <2>6. Asked(ended, unanswered')
    BY <2>1, <2>5 DEF Asked, ShownWhole
  <2>7. Settles(ended, ctl')
    BY <2>1, <2>3, <2>4, BecomesLook
  <2>8. Furnished(ctl') /\ (Current(ctl) => Current(ctl')) /\ Asked(ctl', unanswered')
    BY <2>2, <2>3, <2>6, <2>7 DEF Settles
  <2>9. Booting' = Booting /\ Ordered(feed', sync' = "boot")
    BY <2>1 DEF Booting, LookInv
  <2> QED BY <2>8, <2>9 DEF LookInv
<1> QED BY <1>2, <1>3, <1>4, <1>5 DEF Hydration

LEMMA FaultsLook ==
    ASSUME LookInv, Sound(ctl), Faults, ctl.destroyed => ctl'.destroyed
    PROVE  LookInv'
<1>1. Furnished(ctl)
  BY DEF LookInv
<1>2. CASE Disconnect
  <2>1. ctl' = ctl /\ unanswered' = unanswered /\ feed' = <<>> /\ (Booting => Booting')
    BY <1>2 DEF Disconnect, Booting, Offline
  <2>2. IsSequence(<<>>) /\ Len(<<>>) = 0
    BY EmptySeq DEF IsSequence
  <2>3. Ordered(feed', sync' = "boot")
    BY <2>1, <2>2 DEF Ordered
  <2> QED BY <2>1, <2>3 DEF LookInv
<1>3. ASSUME NEW r, RequestRefused(r) PROVE LookInv'
  <2>1. ctl' = ctl /\ UNCHANGED <<feed, sync, unanswered>>
    BY <1>3 DEF RequestRefused
  <2> QED BY <1>1, <2>1, SettlesItself, SettledLook
<1>4. ASSUME NEW r, RequestFails(r) PROVE LookInv'
  <2>1. /\ ctl' = EndBatch(ctl, r.batch) /\ unanswered' = unanswered \cup r.batch
        /\ UNCHANGED <<feed, sync>>
    BY <1>4 DEF RequestFails
  <2>2. Furnished(ctl') /\ (Current(ctl) => Current(ctl')) /\ Asked(ctl', unanswered')
    BY <1>1, <2>1, EndLook DEF LookInv
  <2>3. Booting' = Booting /\ Ordered(feed', sync' = "boot")
    BY <2>1 DEF Booting, LookInv
  <2> QED BY <2>2, <2>3 DEF LookInv
<1> QED BY <1>2, <1>3, <1>4 DEF Faults

LEMMA LookInit == Init => LookInv
<1> SUFFICES ASSUME Init PROVE LookInv
  OBVIOUS
<1>1. PICK h \in Heights : ctl = NewController(h)
  BY DEF Init
<1>2. Furnished(ctl) /\ ctl.nodes = {} /\ ctl.branches = <<>> /\ ctl.tags = <<>>
      /\ ctl.branchNodes = <<>> /\ ctl.tagNodes = <<>>
  BY <1>1 DEF NewController, Furnished, Parts, Look
<1>3. DataCurrent(ctl) /\ DimmedCurrent(ctl) /\ Asked(ctl, unanswered)
  BY <1>2 DEF DataCurrent, DimmedCurrent, Asked
<1>4. RefsCurrent(ctl)
  <2> DEFINE none == <<>>
  <2>1. DOMAIN none = {}
    OBVIOUS
  <2>2. \A S : Restrict(none, {x \in {} : none[x] \in S}) = none
    BY DEF Restrict
  <2>3. Restrict(none, {x \in DOMAIN none : none[x] \in Drawn(ctl)}) = none
    BY <2>1, <2>2
  <2> QED BY <1>2, <2>3 DEF RefsCurrent, reconcileBranchNodes, reconcileTagNodes
<1>5. Ordered(feed, sync = "boot")
  <2>1. IsSequence(<<>>) /\ Len(<<>>) = 0
    BY EmptySeq DEF IsSequence
  <2> QED BY <2>1 DEF Init, Ordered
<1> QED BY <1>2, <1>3, <1>4, <1>5 DEF LookInv, Current

LEMMA LookStep == FeedInv /\ Sound(ctl) /\ LookInv /\ [Next]_vars => LookInv'
<1> SUFFICES ASSUME FeedInv, Sound(ctl), LookInv, [Next]_vars PROVE LookInv'
  OBVIOUS
<1>1. Whole(ctl) /\ Furnished(ctl) /\ server \in Repos
  BY DEF FeedInv, LookInv
<1>2. Next => (ctl.destroyed => ctl'.destroyed)
  BY <1>1, DestroyedStays
<1>3. CASE Feed
  BY <1>1, <1>2, <1>3, FeedLook DEF Next
<1>4. CASE Hydration
  BY <1>1, <1>2, <1>4, HydrationLook DEF Next
<1>5. CASE Faults
  BY <1>2, <1>5, FaultsLook DEF Next
<1>6. CASE PermalinkFires
  <2>1. Sound(selectAndCenterCommit(ctl, Permalink)) /\ Settles(ctl, selectAndCenterCommit(ctl, Permalink))
    BY <1>1, SelectCommitSound, SelectCommitLook
  <2>2. Becomes(selectAndCenterCommit(ctl, Permalink)) /\ UNCHANGED <<feed, sync, unanswered>>
    BY <1>6 DEF PermalinkFires, OnlyController
  <2>3. Settles(ctl, ctl')
    BY <2>1, <2>2, BecomesLook, SettlesChain DEF Settles
  <2> QED BY <1>2, <1>6, <2>2, <2>3, SettledLook DEF Next
<1>7. CASE Pointer
  <2>1. UNCHANGED <<feed, sync, unanswered>>
    BY <1>7 DEF Pointer, PointerDownOnHeader, PointerDownOnBody, PointerDownOnNode, PointerDownOnCanvas,
                handlePointerMove, DragLane, DragNode, handlePointerUp, User, OnlyController
  <2> QED BY <1>1, <1>2, <1>7, <2>1, PointerLook, SettledLook DEF Next
<1>8. CASE Events /\ ~Dispose
  <2>1. UNCHANGED <<feed, sync, unanswered>>
    BY <1>8 DEF Events, Scroll, resize, SetSearchState, SetFilterState, SetGraphSettings, ToggleLayout,
                NavigateCommits, NavigateSearchResults, SelectCommit, JumpToHead, GetNavigationPosition,
                RebuildVisibleGraph, ClearIsolation, Rebalance, User, OnlyController
  <2> QED BY <1>1, <1>2, <1>8, <2>1, EventsLook, SettledLook DEF Next
<1>9. CASE Dispose
  <2> DEFINE d == destroy(ctl)
  <2>1. Becomes(d) /\ feed' = <<>> /\ sync' = "down" /\ unanswered' = unanswered
    BY <1>9 DEF Dispose
  <2>2. Sound(d) /\ Furnished(d) /\ (\A silent : Asked(d, silent)) /\ Whole(d) /\ d.destroyed
    BY <1>1, DestroySound, DestroyLook, DestroyData
  <2> HIDE DEF d
  <2>3. Furnished(ctl') /\ Asked(ctl', unanswered')
    BY <2>1, <2>2, BecomesLook DEF Settles
  <2>4. ctl'.destroyed
    BY <2>1, <2>2, CollectedData DEF Becomes, Keeps, KeepsHydration
  <2>5. IsSequence(<<>>) /\ Len(<<>>) = 0
    BY EmptySeq DEF IsSequence
  <2>6. Ordered(feed', sync' = "boot")
    BY <2>1, <2>5 DEF Ordered
  <2> QED BY <2>3, <2>4, <2>6 DEF LookInv
<1>10. CASE \E repo \in Repos : ServerChanges(repo)
  <2>1. PICK repo \in Repos : ServerChanges(repo)
    BY <1>10
  <2>2. ctl' = ctl /\ UNCHANGED <<sync, unanswered>> /\ feed' \in {feed, feed \o sendUpdate(repo, server)}
    BY <2>1 DEF ServerChanges
  <2>3. Ordered(feed, sync' = "boot")
    BY <2>2 DEF LookInv
  <2>4. Ordered(feed \o sendUpdate(repo, server), sync' = "boot")
    BY <2>3, UpdateOrdered
  <2>5. Ordered(feed', sync' = "boot")
    BY <2>2, <2>3, <2>4
  <2> QED BY <2>2, <2>5 DEF LookInv, Booting
<1>11. CASE UNCHANGED vars
  BY <1>1, <1>11, SettlesItself, SettledLook DEF vars
<1> QED BY <1>3, <1>4, <1>5, <1>6, <1>7, <1>8, <1>9, <1>10, <1>11 DEF Next

LEMMA LookHolds == Spec => []LookInv
BY FeedInit, FeedStep, SoundInit, SoundStep, LookInit, LookStep, PTL DEF Spec

(* Outside a bootstrap the nodes carry what is known of their commits and  *)
(* the decorators stand at the tips of their refs, whatever was scrolled,  *)
(* hydrated, evicted or laid out in between (updateGraph, synchronize,     *)
(* reconcileBranchNodes, mergeCommitData).                                 *)
THEOREM DrawnCurrent == Spec => []DrawnIsCurrent
<1>1. LookInv => DrawnIsCurrent
  BY DEF LookInv, DrawnIsCurrent, Current, DataCurrent, RefsCurrent
<1> QED BY <1>1, LookHolds, PTL

(* Every path that draws, merges commits or changes a filter leaves the    *)
(* nodes dimmed as the predicate of now says (applyDimmingFromPredicate).  *)
(* A lane that is dragged, pushed or rebalanced while one is isolated, and *)
(* a HEAD that moves the start of the depth limit, are left out: there the *)
(* code leaves the nodes dimmed as they were.                              *)
THEOREM DimmedRight == Spec => []DimmingCurrent
<1>1. LookInv => DimmingCurrent
  <2> SUFFICES ASSUME LookInv, ~Booting, ~ctl.destroyed,
                      ctl.scope.depthLimit = Unlimited \/ ctl.dimmedFor = ctl.head,
                      ctl.isolated = NoLane \/ ctl.dimmedIn = ctl.lanes,
                      NEW id \in ctl.nodes
               PROVE  ctl.node[id].dimmed = ~Passes(ctl, ctl.node[id].hash, ctl.node[id].data)
    BY DEF DimmingCurrent, DimmedAsNow, DimmedForHead, LanesStand
  <2>1. ctl.node[id].dimmed = ~Passes(Judge(ctl), ctl.node[id].hash, ctl.node[id].data)
    BY DEF LookInv, Current, DimmedCurrent
  <2>2. /\ Judge(ctl).head = ctl.dimmedFor /\ Judge(ctl).commits = ctl.commits
        /\ Judge(ctl).branches = ctl.branches /\ Judge(ctl).search = ctl.search
        /\ Judge(ctl).filter = ctl.filter /\ Judge(ctl).scope = ctl.scope
        /\ Judge(ctl).isolated = ctl.isolated /\ Judge(ctl).stashed = ctl.stashed
        /\ Judge(ctl).lanes = ctl.dimmedIn
    BY DEF Judge
  <2>3. \A h, level : Passes(Judge(ctl), h, level) = Passes(ctl, h, level)
    BY <2>2 DEF Passes, DepthStart
  <2> QED BY <2>1, <2>3
<1> QED BY <1>1, LookHolds, PTL

(* No scroll, reset, late or failed answer, layout or update makes the     *)
(* controller forget a stub it draws: it is pending, out for an answer, or *)
(* the server did not give it (enqueueHydration, flushHydrationBatch).     *)
THEOREM StubsAskedFor == Spec => []NothingForgotten
<1>1. LookInv => NothingForgotten
  BY DEF LookInv, Asked, NothingForgotten
<1> QED BY <1>1, LookHolds, PTL

----------------------------------------------------------------------------
(* Every row on the screen has an object.  First the window: the search    *)
(* leaves out no row above it that should be in it, nor any below.         *)

LEMMA TimesAtMost ==
    ASSUME NEW a \in Int, NEW b \in Int, NEW k \in Nat, a <= b
    PROVE  k * a <= k * b
OBVIOUS

LEMMA HalvedPasses ==
    ASSUME NEW len \in Nat, NEW range, Spans(range, len), NEW yMin \in Int,
           \A j \in Nat \ {0} : j < range.lo => Step * (j - 1) < yMin
    PROVE  \A j \in Nat \ {0} : j < Halved(range, yMin).lo => Step * (j - 1) < yMin
<1> DEFINE lo  == range.lo
           hi  == range.hi
           mid == (lo + hi) \div 2
           low == Step * (mid - 1) < yMin
<1>1. range = [lo |-> lo, hi |-> hi] /\ lo \in 1 .. len + 1 /\ hi \in 1 .. len + 1 /\ lo <= hi
  BY DEF Spans
<1>2. Halved(range, yMin) = IF lo >= hi THEN range
                            ELSE IF low THEN [range EXCEPT !.lo = mid + 1] ELSE [range EXCEPT !.hi = mid]
  BY DEF Halved
<1>3. CASE lo >= hi
  BY <1>2, <1>3
<1>4. CASE ~(lo >= hi)
  <2>1. mid \in Nat
    <3>1. lo \in Nat /\ hi \in Nat /\ lo < hi
      BY <1>1, <1>4
    <3> QED BY <3>1
  <2> HIDE DEF mid
  <2>2. low => \A j \in Nat \ {0} : j < mid + 1 => Step * (j - 1) < yMin
    <3> SUFFICES ASSUME low, NEW j \in Nat \ {0}, j < mid + 1 PROVE Step * (j - 1) < yMin
      OBVIOUS
    <3>1. j - 1 <= mid - 1 /\ j - 1 \in Int /\ mid - 1 \in Int
      BY <2>1
    <3>2. Step \in Nat
      BY WindowAssumption
    <3> DEFINE a == Step * (j - 1)
               b == Step * (mid - 1)
    <3>3. a <= b /\ a \in Int /\ b \in Int
      BY <3>1, <3>2, TimesAtMost
    <3>4. b < yMin
      OBVIOUS
    <3> HIDE DEF a, b
    <3>5. a < yMin
      BY <3>3, <3>4
    <3> QED BY <3>5 DEF a
  <2> HIDE DEF low
  <2>3. low => Halved(range, yMin).lo = mid + 1
    <3> HIDE DEF lo, hi
    <3> QED BY <1>1, <1>2, <1>4
  <2>4. ~low => Halved(range, yMin).lo = lo
    <3> HIDE DEF lo, hi
    <3> QED BY <1>1, <1>2, <1>4
  <2> QED BY <2>2, <2>3, <2>4
<1> QED BY <1>3, <1>4

LEMMA SearchPasses ==
    ASSUME NEW index, Len(index) \in Nat, NEW yMin \in Int
    PROVE  \A j \in Nat \ {0} : j < FirstAtLeast(index, yMin) => Step * (j - 1) < yMin
<1> DEFINE n == Len(index)
           search == CHOOSE f : IsSearch(f, yMin, n, n)
           all == [lo |-> 1, hi |-> n + 1]
           Passes_(range) == \A j \in Nat \ {0} : j < range.lo => Step * (j - 1) < yMin
<1>1. IsSearch(search, yMin, n, n)
  BY SearchExists
<1>2. FirstAtLeast(index, yMin) = search[n].lo
  BY DEF FirstAtLeast, IsSearch
<1> HIDE DEF search
<1>3. \A k \in 0..n : search[k] = IF k = 0 THEN all ELSE Halved(search[k - 1], yMin)
  <2>1. search = [k \in 0..n |-> IF k = 0 THEN all ELSE Halved(search[k - 1], yMin)]
    BY <1>1 DEF IsSearch
  <2> DEFINE Pass(k) == Halved(search[k - 1], yMin)
  <2>2. search = [k \in 0..n |-> IF k = 0 THEN all ELSE Pass(k)]
    BY <2>1
  <2> HIDE DEF n, all, Pass
  <2>3. \A k \in 0..n : search[k] = IF k = 0 THEN all ELSE Pass(k)
    BY <2>2
  <2> QED BY <2>3 DEF Pass
<1> DEFINE T == {k \in Nat : k <= n => Spans(search[k], n) /\ Passes_(search[k])}
<1>4. 0 \in T
  <2>1. search[0] = all
    BY <1>3
  <2>2. Spans(all, n)
    BY DEF Spans
  <2>3. Passes_(all)
    OBVIOUS
  <2> HIDE DEF Passes_
  <2> QED BY <2>1, <2>2, <2>3
<1>5. ASSUME NEW k \in T PROVE k + 1 \in T
  <2> SUFFICES ASSUME k + 1 <= n PROVE Spans(search[k + 1], n) /\ Passes_(search[k + 1])
    OBVIOUS
  <2>1. k \in Nat /\ k + 1 \in 0..n /\ k + 1 # 0 /\ (k + 1) - 1 = k /\ k <= n
    OBVIOUS
  <2>2. search[k + 1] = Halved(search[k], yMin) /\ Spans(search[k], n) /\ Passes_(search[k])
    BY <1>3, <2>1
  <2>3. Passes_(Halved(search[k], yMin))
    BY <2>2, HalvedPasses
  <2> HIDE DEF Passes_
  <2> QED BY <2>2, <2>3, HalvedSpans
<1>6. (\A k \in T : k + 1 \in T) /\ T \in SUBSET Nat
  BY <1>5
<1> HIDE DEF T
<1>7. n \in T
  BY <1>4, <1>6, Induction
<1>8. Passes_(search[n])
  BY <1>7 DEF T
<1> QED BY <1>2, <1>8

LEMMA QueryComplete ==
    ASSUME NEW index \in Seq(Commit), NEW top \in Int, NEW height \in Nat
    PROVE  LET w == Query(index, top, height)
           IN  /\ w.lo \in Int /\ w.hi \in Int /\ w.lo <= top /\ top + height <= w.hi
               /\ Range(w.entries) \subseteq Range(index)
               /\ \A i \in DOMAIN index : Step * (i - 1) \in w.lo..w.hi => index[i] \in Range(w.entries)
<1> DEFINE yMin  == top - BufferFactor * height
           yMax  == top + height + BufferFactor * height
           first == FirstAtLeast(index, yMin)
           below == {i \in first..Len(index) : Step * (i - 1) > yMax}
           last  == IF below = {} THEN Len(index) ELSE Min(below) - 1
           w     == Query(index, top, height)
<1>1. w.lo = yMin /\ w.hi = yMax /\ w.entries = SubSeq(index, first, last)
  BY DEF Query, queryYRange
<1>2. Len(index) \in Nat /\ DOMAIN index = 1..Len(index)
  BY LenProperties
<1>3. yMin \in Int /\ yMax \in Int /\ yMin <= top /\ top + height <= yMax
  <2>1. BufferFactor \in Nat
    BY WindowAssumption
  <2> DEFINE b == BufferFactor * height
  <2>2. b \in Nat
    BY <2>1
  <2> HIDE DEF b
  <2>3. top - b \in Int /\ top + height + b \in Int /\ top - b <= top /\ top + height <= top + height + b
    BY <2>2
  <2> QED BY <2>3 DEF b
<1> HIDE DEF yMin, yMax
<1>4. first \in 1 .. Len(index) + 1
  BY <1>2, SearchHolds
<1>5. \A j \in Nat \ {0} : j < first => Step * (j - 1) < yMin
  BY <1>2, <1>3, SearchPasses
<1> HIDE DEF first, w
<1>6. last \in Int /\ last <= Len(index)
  <2>1. CASE below = {}
    BY <1>2, <2>1
  <2>2. CASE below # {}
    <3>1. below \in SUBSET Nat
      BY <1>2, <1>4
    <3>2. Min(below) \in below
      BY <2>2, <3>1, LeastOf
    <3>3. Min(below) \in first..Len(index)
      BY <3>2
    <3> QED BY <1>2, <1>4, <2>2, <3>3
  <2> QED BY <2>1, <2>2
<1>7. \A i \in DOMAIN index : Step * (i - 1) \in yMin..yMax => i \in first..last
  <2> SUFFICES ASSUME NEW i \in DOMAIN index, Step * (i - 1) \in yMin..yMax
               PROVE  first <= i /\ i <= last
    BY <1>2, <1>4, <1>6
  <2>1. i \in Nat \ {0} /\ i <= Len(index)
    BY <1>2
  <2>2. first <= i
    <3> SUFFICES ASSUME i < first PROVE FALSE
      BY <1>4, <2>1
    <3> DEFINE y == Step * (i - 1)
    <3>1. y < yMin /\ y \in yMin..yMax
      BY <1>5, <2>1
    <3> HIDE DEF y
    <3> QED BY <1>3, <3>1
  <2>3. CASE below = {}
    BY <2>1, <2>2, <2>3
  <2>4. CASE below # {}
    <3> DEFINE m == Min(below)
    <3>1. below \in SUBSET Nat
      BY <1>2, <1>4
    <3>2. m \in below
      BY <2>4, <3>1, LeastOf
    <3>3. m \in first..Len(index) /\ Step * (m - 1) > yMax
      BY <3>2
    <3>4. last = m - 1
      BY <2>4
    <3> HIDE DEF m, last
    <3>5. m \in Nat
      BY <1>2, <1>4, <3>3
    <3>6. ~(m <= i)
      <4> SUFFICES ASSUME m <= i PROVE FALSE
        OBVIOUS
      <4> DEFINE y == Step * (i - 1)
                 z == Step * (m - 1)
      <4>1. m - 1 \in Int /\ i - 1 \in Int /\ m - 1 <= i - 1 /\ Step \in Nat
        BY <2>1, <3>5, WindowAssumption
      <4>2. z <= y /\ z \in Int /\ y \in Int
        BY <4>1, TimesAtMost
      <4>3. y \in yMin..yMax /\ z > yMax
        BY <3>3
      <4> HIDE DEF y, z
      <4> QED BY <1>3, <4>2, <4>3
    <3> QED BY <2>1, <2>2, <3>4, <3>5, <3>6
  <2> QED BY <2>3, <2>4
<1> HIDE DEF last
<1>8. first \in Nat \ {0}
  BY <1>2, <1>4
<1>9. /\ DOMAIN w.entries = 1 .. last - first + 1 /\ Range(w.entries) \subseteq Range(index)
      /\ \A k \in 1 .. last - first + 1 : w.entries[k] = index[first + k - 1]
  BY <1>1, <1>6, <1>8, PartOf
<1>10. \A i \in first..last : index[i] \in Range(w.entries)
  <2> SUFFICES ASSUME NEW i \in first..last PROVE index[i] \in Range(w.entries)
    OBVIOUS
  <2>1. i - first + 1 \in 1 .. last - first + 1 /\ first + (i - first + 1) - 1 = i
    BY <1>6, <1>8
  <2> QED BY <1>9, <2>1 DEF Range
<1> QED BY <1>1, <1>3, <1>7, <1>9, <1>10 DEF w

(* Then the objects: there are enough of them to give every commit of the  *)
(* window one while those that are drawn, under the pointer and under the  *)
(* tooltip are kept.                                                       *)
LEMMA SizeOf ==
    ASSUME NEW S, NEW s \in Seq(S), IsInjective(s)
    PROVE  IsFiniteSet(Range(s)) /\ Cardinality(Range(s)) = Len(s)
<1>1. Len(s) \in Nat /\ DOMAIN s = 1..Len(s) /\ s \in [1..Len(s) -> S]
  BY LenProperties
<1>2. s \in [1..Len(s) -> Range(s)] /\ \A x \in Range(s) : \E i \in 1..Len(s) : s[i] = x
  BY <1>1 DEF Range
<1>3. s \in Bijection(1..Len(s), Range(s))
  BY <1>1, <1>2 DEF Bijection, Injection, Surjection, IsInjective
<1>4. IsFiniteSet(1..Len(s)) /\ Cardinality(1..Len(s)) = Len(s)
  <2>1. 1 \in Int /\ Len(s) \in Int
    BY <1>1
  <2>2. /\ IsFiniteSet(1..Len(s))
        /\ Cardinality(1..Len(s)) = IF 1 > Len(s) THEN 0 ELSE Len(s) - 1 + 1
    BY <2>1, FS_Interval
  <2> QED BY <1>1, <2>2
<1> QED BY <1>3, <1>4, FS_Bijection DEF ExistsBijection

LEMMA CommitsFinite == IsFiniteSet(Commit) /\ Cardinality(Commit) \in Nat
BY NewestAssumption, SizeOf, FS_CardinalityType

LEMMA FewOf ==
    ASSUME NEW S, NEW node, NEW H, IsFiniteSet(H), \A id \in S : node[id].hash \in H,
           \A id, jd \in S : id # jd => node[id].hash # node[jd].hash
    PROVE  IsFiniteSet(S) /\ Cardinality(S) \in Nat /\ Cardinality(S) <= Cardinality(H)
<1> DEFINE f == [id \in S |-> node[id].hash]
<1>1. f \in [S -> H] /\ \A id, jd \in S : f[id] = f[jd] => id = jd
  OBVIOUS
<1>2. f \in Injection(S, H)
  <2> HIDE DEF f
  <2> QED BY <1>1 DEF Injection, IsInjective
<1> QED BY <1>2, FS_Injection, FS_CardinalityType

(* What objects may be given to, and what is in use besides the active:    *)
(* no more nodes than there are commits, the tooltip's and the pointer's.  *)
Givable(m, hashes) ==
    /\ ActiveHashes(m) \subseteq Commit
    /\ hashes \in Seq(Commit) /\ IsInjective(hashes) /\ Range(hashes) \cap ActiveHashes(m) = {}

Held(inUse) ==
    \E nodes \in SUBSET NodeId : /\ Cardinality(nodes) <= Cardinality(Commit)
                                /\ \E t, d : inUse \subseteq nodes \cup {t, d}

LEMMA FreshEnough ==
    ASSUME NEW m, Pooled(m), NEW hashes, Givable(m, hashes), NEW inUse, Held(inUse),
           NEW n \in Nat, n <= Len(hashes) - Len(m.pool)
    PROVE  Len(NewIds(m, inUse, n)) = n
<1> DEFINE A    == Range(m.active)
           P    == Range(m.pool)
           busy == A \cup P \cup inUse
           all  == [i \in NodeId |-> i]
           free == FreeIds(m, inUse)
<1>1. Objects \in Nat /\ NodeId = 1..Objects
  BY WindowAssumption DEF NodeId
<1>2. all \in Seq(NodeId) /\ IsInjective(all) /\ Range(all) = NodeId
  <2>1. all \in [1..Objects -> NodeId]
    BY <1>1
  <2> QED BY <1>1, <2>1, SeqDef DEF IsInjective, Range
<1> HIDE DEF all
<1>3. free = Among(all, NodeId \ busy)
  BY DEF FreeIds, all
<1> HIDE DEF busy
<1>4. free \in Seq(NodeId) /\ IsInjective(free) /\ Range(free) = NodeId \ busy
  BY <1>2, <1>3, AmongHolds
<1> HIDE DEF free
<1>5. IsFiniteSet(NodeId) /\ Cardinality(NodeId) = Objects
  <2>1. 1 \in Int /\ Objects \in Int
    BY <1>1
  <2>2. /\ IsFiniteSet(1..Objects)
        /\ Cardinality(1..Objects) = IF 1 > Objects THEN 0 ELSE Objects - 1 + 1
    BY <2>1, FS_Interval
  <2> QED BY <1>1, <2>2
<1>6. /\ IsFiniteSet(A) /\ Cardinality(A) \in Nat /\ Cardinality(A) + Len(hashes) <= Cardinality(Commit)
  <2> DEFINE H == ActiveHashes(m)
  <2>1. IsFiniteSet(H) /\ Cardinality(H) \in Nat
    BY CommitsFinite, FS_Subset, FS_CardinalityType DEF Givable
  <2>2. IsFiniteSet(A) /\ Cardinality(A) \in Nat /\ Cardinality(A) <= Cardinality(H)
    <3>1. \A id \in A : m.node[id].hash \in H
      BY DEF ActiveHashes
    <3>2. \A id, jd \in A : id # jd => m.node[id].hash # m.node[jd].hash
      BY DEF Pooled
    <3> DEFINE node == m.node
    <3> HIDE DEF A, H
    <3> QED BY <2>1, <3>1, <3>2, FewOf
  <2>3. IsFiniteSet(Range(hashes)) /\ Cardinality(Range(hashes)) = Len(hashes) /\ Len(hashes) \in Nat
    BY SizeOf, LenProperties DEF Givable
  <2>4. Range(hashes) \subseteq Commit
    BY RangeOf DEF Givable
  <2>5. H \cup Range(hashes) \in SUBSET Commit /\ H \cap Range(hashes) = {}
    BY <2>4 DEF Givable
  <2> HIDE DEF H, A
  <2>6. Cardinality(H \cup Range(hashes)) = Cardinality(H) + Cardinality(Range(hashes)) - Cardinality(H \cap Range(hashes))
    BY <2>1, <2>3, FS_Union
  <2>7. Cardinality(H \cap Range(hashes)) = 0
    BY <2>5, FS_EmptySet
  <2>8. Cardinality(H \cup Range(hashes)) <= Cardinality(Commit)
    BY <2>5, CommitsFinite, FS_Subset
  <2> QED BY <2>1, <2>2, <2>3, <2>6, <2>7, <2>8, CommitsFinite
<1>7. IsFiniteSet(P) /\ Cardinality(P) = Len(m.pool) /\ Len(m.pool) \in Nat
  BY SizeOf, LenProperties DEF Pooled
<1>8. /\ IsFiniteSet(inUse) /\ Cardinality(inUse) \in Nat
      /\ Cardinality(inUse) <= Cardinality(Commit) + 2
  <2>0. PICK nodes \in SUBSET NodeId : /\ Cardinality(nodes) <= Cardinality(Commit)
                                      /\ \E t, d : inUse \subseteq nodes \cup {t, d}
    BY DEF Held
  <2>00. PICK t, d : inUse \subseteq nodes \cup {t, d}
    BY <2>0
  <2>1. IsFiniteSet(nodes) /\ Cardinality(nodes) \in Nat
    BY <1>5, FS_Subset, FS_CardinalityType
  <2>2. IsFiniteSet({d}) /\ Cardinality({d}) = 1 /\ IsFiniteSet({t}) /\ Cardinality({t}) = 1
    BY FS_Singleton
  <2>3. /\ IsFiniteSet(nodes \cup {t}) /\ Cardinality(nodes \cup {t}) <= Cardinality(nodes) + 1
        /\ Cardinality(nodes \cup {t}) \in Nat
    <3>1. IsFiniteSet(nodes \cap {t}) /\ Cardinality(nodes \cap {t}) \in Nat
      BY <2>1, FS_Intersection, FS_CardinalityType
    <3>2. /\ IsFiniteSet(nodes \cup {t})
          /\ Cardinality(nodes \cup {t}) = Cardinality(nodes) + Cardinality({t}) - Cardinality(nodes \cap {t})
      BY <2>1, <2>2, FS_Union
    <3> QED BY <2>1, <2>2, <3>1, <3>2, FS_CardinalityType
  <2> DEFINE V == nodes \cup {t}
  <2>4. /\ IsFiniteSet(V \cup {d}) /\ Cardinality(V \cup {d}) <= Cardinality(V) + 1
        /\ Cardinality(V \cup {d}) \in Nat
    <3> HIDE DEF V
    <3>0. IsFiniteSet(V) /\ Cardinality(V) \in Nat
      BY <2>3 DEF V
    <3>1. IsFiniteSet(V \cap {d}) /\ Cardinality(V \cap {d}) \in Nat
      BY <3>0, FS_Intersection, FS_CardinalityType
    <3>2. /\ IsFiniteSet(V \cup {d})
          /\ Cardinality(V \cup {d}) = Cardinality(V) + Cardinality({d}) - Cardinality(V \cap {d})
      BY <3>0, <2>2, FS_Union
    <3> QED BY <3>0, <2>2, <3>1, <3>2, FS_CardinalityType
  <2>5. inUse \in SUBSET (V \cup {d})
    BY <2>00
  <2>6. Cardinality(V \cup {d}) <= Cardinality(nodes) + 2
    BY <2>1, <2>3, <2>4
  <2> HIDE DEF V
  <2>7. IsFiniteSet(inUse) /\ Cardinality(inUse) <= Cardinality(V \cup {d}) /\ Cardinality(inUse) \in Nat
    BY <2>4, <2>5, FS_Subset, FS_CardinalityType
  <2> QED BY <2>0, <2>1, <2>4, <2>6, <2>7, CommitsFinite
<1>9. /\ IsFiniteSet(busy) /\ Cardinality(busy) \in Nat
      /\ Cardinality(busy) <= Cardinality(A) + Cardinality(P) + Cardinality(inUse)
  <2> HIDE DEF A, P
  <2>1. /\ IsFiniteSet(A \cup P) /\ Cardinality(A \cup P) \in Nat
        /\ Cardinality(A \cup P) <= Cardinality(A) + Cardinality(P)
    <3>1. IsFiniteSet(A \cap P) /\ Cardinality(A \cap P) \in Nat
      BY <1>6, FS_Intersection, FS_CardinalityType
    <3>2. /\ IsFiniteSet(A \cup P)
          /\ Cardinality(A \cup P) = Cardinality(A) + Cardinality(P) - Cardinality(A \cap P)
      BY <1>6, <1>7, FS_Union
    <3> QED BY <1>6, <1>7, <3>1, <3>2, FS_CardinalityType
  <2> DEFINE B == A \cup P
  <2>2. IsFiniteSet(B \cap inUse) /\ Cardinality(B \cap inUse) \in Nat
    BY <2>1, FS_Intersection, FS_CardinalityType
  <2>3. /\ IsFiniteSet(B \cup inUse)
        /\ Cardinality(B \cup inUse) = Cardinality(B) + Cardinality(inUse) - Cardinality(B \cap inUse)
    BY <2>1, <1>8, FS_Union
  <2>4. busy = B \cup inUse
    BY DEF busy
  <2>5. IsFiniteSet(busy) /\ Cardinality(busy) \in Nat
    BY <2>3, <2>4, FS_CardinalityType
  <2> QED BY <1>6, <1>7, <1>8, <2>1, <2>2, <2>3, <2>4, <2>5
<1>10. Len(free) = Cardinality(NodeId \ busy) /\ Len(free) \in Nat
  BY <1>4, SizeOf, LenProperties
<1>11. Cardinality(NodeId \ busy) >= Objects - Cardinality(busy)
  <2>1. Cardinality(NodeId \ busy) = Cardinality(NodeId) - Cardinality(NodeId \cap busy)
    BY <1>5, FS_Difference
  <2>2. Cardinality(NodeId \cap busy) <= Cardinality(busy) /\ Cardinality(NodeId \cap busy) \in Nat
    BY <1>9, FS_Intersection, FS_CardinalityType
  <2> QED BY <1>1, <1>5, <1>9, <2>1, <2>2
<1>12. Len(hashes) \in Nat
  BY LenProperties DEF Givable
<1>13. Len(free) >= n
  <2> HIDE DEF A, P
  <2> DEFINE a == Cardinality(A)
             p == Len(m.pool)
             u == Cardinality(inUse)
             b == Cardinality(busy)
             all_ == Cardinality(Commit)
             l == Len(hashes)
             f == Len(free)
  <2>1. /\ a \in Nat /\ p \in Nat /\ u \in Nat /\ b \in Nat /\ all_ \in Nat /\ l \in Nat /\ f \in Nat
        /\ Objects >= 2 * all_ + 2 /\ a + l <= all_ /\ u <= all_ + 2 /\ b <= a + p + u
        /\ f >= Objects - b /\ n <= l - p
    BY <1>6, <1>7, <1>8, <1>9, <1>10, <1>11, <1>12, CommitsFinite, ObjectsAssumption
  <2> HIDE DEF a, p, u, b, all_, l, f
  <2>2. f >= n
    BY <2>1, <1>1
  <2> QED BY <2>2 DEF f
<1>14. Min({n, Len(free)}) = n
  <2> DEFINE f == Len(free)
  <2>1. f \in Nat /\ f >= n
    BY <1>10, <1>13
  <2> HIDE DEF f
  <2>2. Min({n, f}) = n
    BY <2>1, MinOfTwo
  <2> QED BY <2>2 DEF f
<1>15. NewIds(m, inUse, n) = SubSeq(free, 1, n)
  BY <1>14 DEF NewIds, free
<1>16. SubSeq(free, 1, n) \in Seq(NodeId) /\ DOMAIN SubSeq(free, 1, n) = 1 .. n - 1 + 1
  <2>1. 1 \in Nat \ {0} /\ n \in Int /\ n <= Len(free)
    BY <1>10, <1>13
  <2> QED BY <1>4, <2>1, PartOf
<1>17. DOMAIN SubSeq(free, 1, n) = 1..n
  BY <1>16
<1> QED BY <1>15, <1>16, <1>17, LenProperties

LEMMA AcquiredAll ==
    ASSUME NEW m, Pooled(m), NEW hashes, Givable(m, hashes), NEW inUse, Held(inUse)
    PROVE  ActiveHashes(_acquire(m, hashes, inUse)) = ActiveHashes(m) \cup Range(hashes)
<1> DEFINE len   == Len(hashes)
           size  == Len(m.pool)
           k     == Min({len, size})
           taken == [i \in 1..k |-> m.pool[Len(m.pool) + 1 - i]]
           left  == SubSeq(m.pool, 1, Len(m.pool) - k)
           fresh == NewIds(m, inUse, Len(hashes) - k)
           ids   == taken \o fresh
           hash(id) == hashes[CHOOSE i \in DOMAIN ids : ids[i] = id]
           nodes_ == [id \in NodeId |-> IF id \in Range(ids) THEN [Blank EXCEPT !.hash = hash(id)] ELSE m.node[id]]
           active == m.active \o ids
           a     == _acquire(m, hashes, inUse)
<1>1. /\ Parts \subseteq DOMAIN m /\ a = [m EXCEPT !.pool = left, !.active = active, !.node = nodes_]
      /\ m.active \in Seq(NodeId) /\ IsInjective(m.active) /\ m.pool \in Seq(NodeId) /\ IsInjective(m.pool)
  BY DEF Pooled, _acquire
<1>2. len \in Nat /\ size \in Nat /\ DOMAIN hashes = 1..len /\ hashes \in Seq(Commit) /\ IsInjective(hashes)
  BY <1>1, LenProperties DEF Givable
<1>3. /\ k \in 0..Len(m.pool) /\ Len(hashes) - k \in Nat
      /\ Len(hashes) - k = 0 \/ Len(hashes) - k <= Len(hashes) - Len(m.pool)
  <2> HIDE DEF len, size
  <2>1. k = IF len <= size THEN len ELSE size
    BY <1>2, MinOfTwo
  <2>2. k \in 0..size /\ len - k \in Nat /\ (len - k = 0 \/ len - k <= len - size)
    BY <1>2, <2>1
  <2> QED BY <2>2 DEF len, size
<1> HIDE DEF k
<1>4. taken \in Seq(NodeId) /\ IsInjective(taken) /\ Range(taken) \subseteq Range(m.pool) /\ Len(taken) = k
  <2> DEFINE pool == m.pool
             t    == [i \in 1..k |-> pool[Len(pool) + 1 - i]]
             u    == SubSeq(pool, 1, Len(pool) - k)
  <2>1. pool \in Seq(NodeId) /\ IsInjective(pool) /\ k \in 0..Len(pool)
    BY <1>1, <1>3
  <2> HIDE DEF pool
  <2>2. /\ t \in Seq(NodeId) /\ IsInjective(t) /\ Range(t) \subseteq Range(pool) /\ Len(t) = k
        /\ u \in Seq(NodeId) /\ IsInjective(u) /\ Range(u) \subseteq Range(pool)
        /\ Range(t) \cap Range(u) = {}
    BY <2>1, BackwardsHolds, Zenon
  <2> QED BY <2>2 DEF pool
<1>5. /\ fresh \in Seq(NodeId) /\ IsInjective(fresh) /\ Len(fresh) <= Len(hashes) - k
      /\ Range(fresh) \cap (Range(m.active) \cup Range(m.pool) \cup inUse) = {}
  BY <1>3, NewIdsHolds
<1>6. Len(fresh) = Len(hashes) - k
  <2>1. CASE Len(hashes) - k = 0
    BY <1>5, <2>1, LenProperties
  <2>2. CASE Len(hashes) - k <= Len(hashes) - Len(m.pool)
    BY <1>3, <2>2, FreshEnough DEF fresh
  <2> QED BY <1>3, <2>1, <2>2
<1> HIDE DEF taken, left, fresh
<1>7. ids \in Seq(NodeId) /\ Range(ids) = Range(taken) \cup Range(fresh) /\ IsInjective(ids)
  BY <1>4, <1>5, JoinedRange
<1>8. DOMAIN ids = 1..len
  <2>1. Len(ids) = Len(taken) + Len(fresh) /\ DOMAIN ids = 1..Len(ids)
    <3>1. Len(ids) = Len(taken) + Len(fresh)
      BY <1>4, <1>5, ConcatProperties DEF ids
    <3> QED BY <1>7, <3>1, LenProperties
  <2> DEFINE a_ == Len(taken)
             b_ == Len(fresh)
  <2>2. Len(ids) = len
    <3>1. a_ = k /\ b_ = len - k /\ Len(ids) = a_ + b_ /\ k \in Nat
      BY <1>3, <1>4, <1>6, <2>1
    <3> HIDE DEF a_, b_, len
    <3>2. len \in Nat
      BY <1>2
    <3> QED BY <3>1, <3>2
  <2> QED BY <2>1, <2>2
<1> HIDE DEF ids
<1>9. \A i \in 1..len : hash(ids[i]) = hashes[i] /\ ids[i] \in NodeId /\ ids[i] \in Range(ids)
  <2> SUFFICES ASSUME NEW i \in 1..len PROVE hash(ids[i]) = hashes[i] /\ ids[i] \in NodeId /\ ids[i] \in Range(ids)
    OBVIOUS
  <2>1. \A j \in DOMAIN ids : ids[j] = ids[i] => j = i
    BY <1>7, <1>8 DEF IsInjective
  <2>2. (CHOOSE j \in DOMAIN ids : ids[j] = ids[i]) = i
    BY <1>8, <2>1
  <2>3. ids[i] \in Range(ids)
    BY <1>8 DEF Range
  <2> QED BY <1>7, <2>2, <2>3, RangeOf
<1> HIDE DEF hash
<1>10. Range(active) = Range(m.active) \cup Range(ids)
  BY <1>1, <1>7, JoinedRange
<1> HIDE DEF active, nodes_
<1>11. a.node = nodes_ /\ a.active = active
  BY <1>1 DEF Parts
<1> HIDE DEF a
<1>12. \A i \in 1..len : a.node[ids[i]].hash = hashes[i] /\ ids[i] \in Range(a.active)
  <2>1. \A h : [Blank EXCEPT !.hash = h].hash = h
    BY DEF Blank
  <2> QED BY <1>9, <1>10, <1>11, <2>1 DEF nodes_
<1>13. Range(hashes) \subseteq ActiveHashes(a)
  BY <1>2, <1>12 DEF ActiveHashes, Range
<1>14. /\ Range(m.active) \subseteq Range(a.active)
       /\ \A id \in Range(m.active) : a.node[id] = m.node[id]
       /\ \A id \in Range(a.active) \ Range(m.active) : a.node[id].hash \in Range(hashes)
  BY AcquiredHolds DEF Givable, a
<1>15. ActiveHashes(m) \subseteq ActiveHashes(a) /\ ActiveHashes(a) \subseteq ActiveHashes(m) \cup Range(hashes)
  BY <1>14 DEF ActiveHashes
<1> QED BY <1>13, <1>15 DEF a

LEMMA SynchronizedAll ==
    ASSUME NEW m, Pooled(m), NEW entries \in Seq(Commit), IsInjective(entries),
           NEW commits, NEW inUse, Held(inUse)
    PROVE  ActiveHashes(synchronize(m, entries, commits, inUse)) = Range(entries)
<1> DEFINE gone == Among(m.active, {id \in NodeId : m.node[id].hash \notin Range(entries)})
           new  == Among(entries, Commit \ ActiveHashes(m))
           e == _evict(m, gone)
           a == _acquire(e, new, inUse)
           s == WithAllData(a, commits)
<1>1. m.active \in Seq(NodeId) /\ IsInjective(m.active)
  BY DEF Pooled
<1>2. /\ gone \in Seq(NodeId) /\ IsInjective(gone)
      /\ Range(gone) = Range(m.active) \cap {id \in NodeId : m.node[id].hash \notin Range(entries)}
  BY <1>1, AmongHolds
<1>3. /\ new \in Seq(Commit) /\ IsInjective(new)
      /\ Range(new) = Range(entries) \cap (Commit \ ActiveHashes(m))
  BY AmongHolds
<1>4. synchronize(m, entries, commits, inUse) = s
  BY DEF synchronize
<1>5. Range(entries) \subseteq Commit /\ Range(m.active) \subseteq NodeId
  BY <1>1, RangeOf
<1> HIDE DEF gone, new
<1>6. /\ Pooled(e)
      /\ Range(e.active) = Range(m.active) \ Range(gone)
      /\ \A id \in NodeId \ Range(gone) : e.node[id] = m.node[id]
  BY <1>2, EvictedHolds
<1> HIDE DEF e
<1>7. ActiveHashes(e) = ActiveHashes(m) \cap Range(entries)
  <2>1. Range(e.active) = {id \in Range(m.active) : m.node[id].hash \in Range(entries)}
    BY <1>2, <1>5, <1>6
  <2>2. \A id \in Range(e.active) : e.node[id] = m.node[id]
    BY <1>5, <1>6
  <2> QED BY <2>1, <2>2 DEF ActiveHashes
<1>8. Givable(e, new)
  BY <1>3, <1>5, <1>7 DEF Givable
<1>9. ActiveHashes(a) = ActiveHashes(e) \cup Range(new)
  BY <1>6, <1>8, AcquiredAll
<1>10. Pooled(a)
  BY <1>6, <1>8, AcquiredHolds DEF Givable
<1> HIDE DEF a
<1>11. Painted(a, s)
  BY <1>10, WithDataPaints DEF WithAllData, Pooled
<1>12. ActiveHashes(s) = ActiveHashes(a)
  BY <1>10, <1>11, PaintedPooled
<1> QED BY <1>3, <1>4, <1>5, <1>7, <1>9, <1>12

LEMMA ForcedAll ==
    ASSUME NEW m, Pooled(m), ActiveHashes(m) \subseteq Commit, NEW h \in Commit,
           NEW commits, NEW inUse, Held(inUse)
    PROVE  /\ ActiveHashes(forceMaterialize(m, h, commits, inUse)) = ActiveHashes(m) \cup {h}
           /\ SameRest(m, forceMaterialize(m, h, commits, inUse))
<1> DEFINE next == IF h \in ActiveHashes(m) THEN m ELSE _acquire(m, <<h>>, inUse)
           ids == {id \in Range(next.active) : next.node[id].hash = h}
<1>1. Pooled(next) /\ SameRest(m, next) /\ ActiveHashes(next) = ActiveHashes(m) \cup {h}
  <2>1. CASE h \in ActiveHashes(m)
    BY <2>1 DEF Pooled, SameRest
  <2>2. CASE h \notin ActiveHashes(m)
    <3>1. <<h>> \in Seq(Commit) /\ DOMAIN <<h>> = 1..1 /\ <<h>>[1] = h
      OBVIOUS
    <3>2. IsInjective(<<h>>) /\ Range(<<h>>) = {h}
      BY <3>1 DEF IsInjective, Range
    <3>3. Givable(m, <<h>>)
      BY <2>2, <3>1, <3>2 DEF Givable
    <3>4. ActiveHashes(_acquire(m, <<h>>, inUse)) = ActiveHashes(m) \cup Range(<<h>>)
      BY <3>3, AcquiredAll
    <3>5. Pooled(_acquire(m, <<h>>, inUse)) /\ SameRest(m, _acquire(m, <<h>>, inUse))
      BY <3>3, AcquiredHolds DEF Givable
    <3> QED BY <2>2, <3>2, <3>4, <3>5
  <2> QED BY <2>1, <2>2
<1>2. forceMaterialize(m, h, commits, inUse) = WithData(next, ids, commits)
  BY DEF forceMaterialize
<1> HIDE DEF next
<1>3. Painted(next, WithData(next, ids, commits))
  BY <1>1, WithDataPaints DEF Pooled
<1> DEFINE e == WithData(next, ids, commits)
<1> HIDE DEF e
<1>4. ActiveHashes(e) = ActiveHashes(next)
  BY <1>1, <1>3, PaintedPooled DEF e
<1>5. SameRest(next, e)
  BY <1>3 DEF Painted, e
<1>6. SameRest(m, e)
  BY <1>1, <1>5 DEF SameRest
<1> QED BY <1>1, <1>2, <1>4, <1>6 DEF e

(* What of the controller places the rows on the screen.                   *)
Shape == {"node", "active", "nodes", "window", "index", "mode", "lazy", "top", "height"}

Shaped(c) == Shape \subseteq DOMAIN c

SameView(c, d) ==
    /\ Shaped(d)
    /\ d.active = c.active /\ d.nodes = c.nodes /\ d.window = c.window /\ d.index = c.index
    /\ d.mode = c.mode /\ d.lazy = c.lazy /\ d.top = c.top /\ d.height = c.height
    /\ \A id \in NodeId : d.node[id].hash = c.node[id].hash

LEMMA ViewChain ==
    ASSUME NEW c, NEW d, NEW e, SameView(c, d), SameView(d, e)
    PROVE  SameView(c, e)
BY DEF SameView

LEMMA ViewItself ==
    ASSUME NEW c, Shaped(c)
    PROVE  SameView(c, c)
BY DEF SameView

LEMMA ViewShaped ==
    ASSUME NEW c, NEW d, SameView(c, d)
    PROVE  Shaped(d)
BY DEF SameView

LEMMA EnqueueView ==
    ASSUME NEW c, Shaped(c)
    PROVE  /\ SameView(c, scheduleHydrationFlush(c))
           /\ \A hashes : SameView(c, enqueueHydration(c, hashes))
           /\ SameView(c, HydrateVisible(c))
<1>1. /\ SameView(c, scheduleHydrationFlush(c))
      /\ \A hashes : SameView(c, enqueueHydration(c, hashes))
  BY DEF SameView, Shaped, Shape, scheduleHydrationFlush, enqueueHydration
<1> QED BY <1>1 DEF HydrateVisible

LEMMA SearchView ==
    ASSUME NEW c, Shaped(c)
    PROVE  /\ SameView(c, clearSearchHydrationScan(c)) /\ SameView(c, queueSearchHydration(c))
           /\ SameView(c, pumpSearchHydration(c))
<1>1. SameView(c, clearSearchHydrationScan(c))
  BY DEF SameView, Shaped, Shape, clearSearchHydrationScan
<1>2. SameView(c, queueSearchHydration(c))
  <2>1. SameView(c, [c EXCEPT !.scan = c.index, !.scanTimer = TRUE])
    BY DEF SameView, Shaped, Shape
  <2> QED BY <1>1, <2>1 DEF queueSearchHydration
<1>3. SameView(c, pumpSearchHydration(c))
  <2> DEFINE looked == {c.scan[i] : i \in 1..Min({ScanBudget, Len(c.scan)})}
             asked  == enqueueHydration(c, {h \in looked : commitNeedsHydration(c, h)})
             rest   == SubSeq(c.scan, ScanBudget + 1, Len(c.scan))
  <2>1. SameView(c, asked)
    BY EnqueueView
  <2>2. pumpSearchHydration(c) = [asked EXCEPT !.scan = rest, !.scanTimer = rest # <<>>]
    BY DEF pumpSearchHydration
  <2> HIDE DEF asked, rest
  <2>3. SameView(asked, [asked EXCEPT !.scan = rest, !.scanTimer = rest # <<>>])
    BY <2>1 DEF SameView, Shaped, Shape
  <2> QED BY <2>1, <2>2, <2>3, ViewChain
<1> QED BY <1>1, <1>2, <1>3

LEMMA LooksView ==
    ASSUME NEW c, Shaped(c)
    PROVE  /\ SameView(c, hideTooltip(c)) /\ SameView(c, releaseDrag(c))
           /\ SameView(c, Labelled(c)) /\ SameView(c, reconcileInteractions(c))
           /\ SameView(c, Sorted(c)) /\ SameView(c, Found(c))
           /\ \A h : SameView(c, PointAtResult(c, h))
           /\ \A id : SameView(c, showTooltip(c, id))
<1>1. /\ SameView(c, hideTooltip(c)) /\ SameView(c, releaseDrag(c))
      /\ SameView(c, Labelled(c)) /\ SameView(c, reconcileInteractions(c))
  BY DEF SameView, Shaped, Shape, hideTooltip, releaseDrag, Labelled, reconcileInteractions
<1>2. SameView(c, Sorted(c)) /\ SameView(c, Found(c))
  BY DEF SameView, Shaped, Shape, Sorted, Found
<1>3. \A h : SameView(c, PointAtResult(c, h))
  BY DEF SameView, Shaped, Shape, PointAtResult
<1>4. ASSUME NEW id PROVE SameView(c, showTooltip(c, id))
  <2> DEFINE d == IF c.lazy /\ c.node[id].hash # NoHash
                  THEN enqueueHydration(c, WithParents({c.node[id].hash})) ELSE c
  <2>1. SameView(c, d)
    BY EnqueueView, ViewItself
  <2> HIDE DEF d
  <2>2. SameView(d, [d EXCEPT !.tooltip = IF c.node[id].data = "none" THEN NoId ELSE id])
    BY <2>1 DEF SameView, Shaped, Shape
  <2> QED BY <2>1, <2>2, ViewChain DEF showTooltip, d
<1> QED BY <1>1, <1>2, <1>3, <1>4

LEMMA FieldsView ==
    ASSUME NEW c, Shaped(c)
    PROVE  /\ \A x, y, z : SameView(c, [c EXCEPT !.search = x, !.results = y, !.resultIndex = z])
           /\ \A x, y, z : SameView(c, [c EXCEPT !.filter = x, !.results = y, !.resultIndex = z])
           /\ \A x : SameView(c, [c EXCEPT !.scope = x])
           /\ \A x : SameView(c, [c EXCEPT !.isolated = x])
           /\ \A x : SameView(c, [c EXCEPT !.drag = x])
           /\ \A x : SameView(c, [c EXCEPT !.drag.moved = x])
           /\ \A x, y : SameView(c, [c EXCEPT !.drag.at = x, !.lanes = y])
           /\ \A x : SameView(c, [c EXCEPT !.lanes = x])
           /\ \A x : SameView(c, [c EXCEPT !.selected = x])
           /\ \A x : SameView(c, [c EXCEPT !.resultIndex = x])
           /\ \A x : SameView(c, [c EXCEPT !.center = x])
           /\ \A x : SameView(c, [c EXCEPT !.head = x])
           /\ \A x : SameView(c, [c EXCEPT !.inflight = x])
           /\ \A x, y : SameView(c, [c EXCEPT !.tags = x, !.stashes = y])
           /\ \A x, y : SameView(c, [c EXCEPT !.commits = x, !.branches = y])
           /\ \A x, y : SameView(c, [c EXCEPT !.sorted = x, !.results = y])
           /\ \A x, y, z : SameView(c, [c EXCEPT !.flushTimer = x, !.pending = y, !.inflight = z])
BY DEF SameView, Shaped, Shape

LEMMA DataView ==
    ASSUME NEW c, Shaped(c)
    PROVE  /\ \A hashes, level : SameView(c, AddCommits(c, hashes, level))
           /\ \A branches : SameView(c, AddBranches(c, branches))
           /\ \A h : SameView(c, setHeadHash(c, h)) /\ SameView(c, SyncHead(c, h))
           /\ \A batch : SameView(c, EndBatch(c, batch))
<1>1. /\ \A hashes, level : SameView(c, AddCommits(c, hashes, level))
      /\ \A branches : SameView(c, AddBranches(c, branches))
  BY DEF SameView, Shaped, Shape, AddCommits, AddBranches
<1>2. ASSUME NEW h PROVE SameView(c, setHeadHash(c, h))
  <2> DEFINE moved == [c EXCEPT !.head = h]
  <2>1. SameView(c, moved)
    BY FieldsView
  <2> HIDE DEF moved
  <2>2. SameView(c, enqueueHydration(moved, {h}))
    BY <2>1, ViewShaped, EnqueueView, ViewChain
  <2> QED BY <2>1, <2>2 DEF setHeadHash, moved
<1>3. ASSUME NEW batch PROVE SameView(c, EndBatch(c, batch))
  <2> DEFINE freed == [c EXCEPT !.inflight = @ \ batch]
  <2>1. SameView(c, freed)
    BY FieldsView
  <2> HIDE DEF freed
  <2>2. SameView(c, scheduleHydrationFlush(freed))
    BY <2>1, ViewShaped, EnqueueView, ViewChain
  <2> QED BY <2>2 DEF EndBatch, freed
<1> QED BY <1>1, <1>2, <1>3, ViewItself DEF SyncHead

LEMMA DimmingView ==
    ASSUME NEW c, Pooled(c), Shaped(c)
    PROVE  SameView(c, applyDimmingFromPredicate(c))
<1> DEFINE d == applyDimmingFromPredicate(c)
           nodes == [id \in NodeId |->
                       IF id \in c.nodes
                       THEN [c.node[id] EXCEPT !.dimmed = ~Passes(c, c.node[id].hash, c.node[id].data)]
                       ELSE c.node[id]]
<1>1. d = [c EXCEPT !.dimmedFor = c.head, !.dimmedIn = c.lanes, !.node = nodes]
  BY DEF applyDimmingFromPredicate
<1>2. \A id \in NodeId : \A x : [c.node[id] EXCEPT !.dimmed = x].hash = c.node[id].hash
  BY DEF Pooled, Fields
<1>3. \A id \in NodeId : nodes[id].hash = c.node[id].hash
  BY <1>2
<1> HIDE DEF nodes
<1> QED BY <1>1, <1>3 DEF SameView, Shaped, Shape

(* The materializer moves nothing on the screen.                           *)
SameFrame(c, d) ==
    /\ Shaped(d)
    /\ d.nodes = c.nodes /\ d.window = c.window /\ d.index = c.index
    /\ d.mode = c.mode /\ d.lazy = c.lazy /\ d.top = c.top /\ d.height = c.height

LEMMA FrameChain ==
    ASSUME NEW c, NEW d, NEW e, SameFrame(c, d), SameFrame(d, e)
    PROVE  SameFrame(c, e)
BY DEF SameFrame

LEMMA FrameShaped ==
    ASSUME NEW c, NEW d, SameFrame(c, d)
    PROVE  Shaped(d)
BY DEF SameFrame

LEMMA MaterializerFrame ==
    ASSUME NEW c, Shaped(c)
    PROVE  /\ \A ids : SameFrame(c, _evict(c, ids))
           /\ \A hashes, inUse : SameFrame(c, _acquire(c, hashes, inUse))
           /\ \A ids, commits : SameFrame(c, WithData(c, ids, commits))
<1>1. ASSUME NEW ids PROVE SameFrame(c, _evict(c, ids))
  BY DEF SameFrame, Shaped, Shape, _evict
<1>2. ASSUME NEW hashes, NEW inUse PROVE SameFrame(c, _acquire(c, hashes, inUse))
  BY DEF SameFrame, Shaped, Shape, _acquire
<1>3. ASSUME NEW ids, NEW commits PROVE SameFrame(c, WithData(c, ids, commits))
  BY DEF SameFrame, Shaped, Shape, WithData
<1> QED BY <1>1, <1>2, <1>3

LEMMA SynchronizeFrame ==
    ASSUME NEW c, Shaped(c), NEW commits, NEW inUse
    PROVE  /\ \A entries : SameFrame(c, synchronize(c, entries, commits, inUse))
           /\ \A h : SameFrame(c, forceMaterialize(c, h, commits, inUse))
           /\ SameFrame(c, clear(c))
<1>1. ASSUME NEW entries PROVE SameFrame(c, synchronize(c, entries, commits, inUse))
  BY MaterializerFrame, FrameChain, FrameShaped DEF synchronize, WithAllData
<1>2. ASSUME NEW h PROVE SameFrame(c, forceMaterialize(c, h, commits, inUse))
  <2>1. SameFrame(c, c)
    BY DEF SameFrame
  <2> QED BY <2>1, MaterializerFrame, FrameChain, FrameShaped DEF forceMaterialize
<1>3. SameFrame(c, clear(c))
  BY MaterializerFrame DEF clear
<1> QED BY <1>1, <1>2, <1>3

(* As many nodes as commits at most, each object in use carries a commit;  *)
(* the force layout takes none from the pool, and gives each commit one.   *)
Roomy(c) ==
    /\ Shaped(c) /\ c.top \in Int /\ c.height \in Nat
    /\ c.nodes \subseteq NodeId /\ Cardinality(c.nodes) <= Cardinality(Commit)
    /\ ActiveHashes(c) \subseteq Commit
    /\ ~c.lazy => Range(c.active) = {}
    /\ c.mode # "lane" => \A id \in c.nodes :
           c.node[id].hash \in Commit /\ \A jd \in c.nodes : id # jd => c.node[id].hash # c.node[jd].hash

(* The window reaches beyond the screen and holds every row in its reach.  *)
Framed(c) ==
    /\ c.window.lo \in Int /\ c.window.hi \in Int
    /\ c.window.lo <= c.top /\ c.top + c.height <= c.window.hi
    /\ Range(c.window.entries) \subseteq Range(c.index)
    /\ \A i \in DOMAIN c.index :
           Step * (i - 1) \in c.window.lo..c.window.hi => c.index[i] \in Range(c.window.entries)

(* Every row of the window has its object, and only rows have one.         *)
Furnishes(c) == Range(c.window.entries) \subseteq ActiveHashes(c) /\ ActiveHashes(c) \subseteq Range(c.index)

Seen(c) == Sound(c) /\ Roomy(c) /\ (c.lazy => Framed(c) /\ Furnishes(c))

LEMMA ViewRoomy ==
    ASSUME NEW c, Pooled(c), NEW d, SameView(c, d)
    PROVE  /\ ActiveHashes(d) = ActiveHashes(c)
           /\ Roomy(c) => Roomy(d)
           /\ Framed(c) => Framed(d)
           /\ Furnishes(c) => Furnishes(d)
<1>1. Range(c.active) \subseteq NodeId
  BY RangeOf DEF Pooled
<1>2. /\ Shaped(d)
      /\ d.active = c.active /\ d.nodes = c.nodes /\ d.window = c.window /\ d.index = c.index
      /\ d.mode = c.mode /\ d.lazy = c.lazy /\ d.top = c.top /\ d.height = c.height
      /\ \A id \in NodeId : d.node[id].hash = c.node[id].hash
  BY DEF SameView
<1>3. ActiveHashes(d) = ActiveHashes(c)
  BY <1>1, <1>2 DEF ActiveHashes
<1>4. ASSUME Roomy(c) PROVE Roomy(d)
  <2>1. \A id \in c.nodes : d.node[id].hash = c.node[id].hash
    BY <1>2, <1>4 DEF Roomy
  <2> QED BY <1>2, <1>3, <1>4, <2>1 DEF Roomy
<1>5. (Framed(c) => Framed(d)) /\ (Furnishes(c) => Furnishes(d))
  BY <1>2, <1>3 DEF Framed, Furnishes
<1> QED BY <1>3, <1>4, <1>5

LEMMA ViewSeen ==
    ASSUME NEW c, Seen(c), NEW d, SameView(c, d), Sound(d)
    PROVE  Seen(d)
<1>1. d.lazy = c.lazy
  BY DEF SameView
<1> QED BY <1>1, ViewRoomy DEF Seen, Sound

(* What changes no object either is sound as it was.                       *)
LEMMA SameSeen ==
    ASSUME NEW c, Seen(c), NEW d, SameObjects(c, d), SameView(c, d)
    PROVE  Seen(d)
BY SameSound, ViewSeen DEF Seen

LEMMA SeenShape ==
    ASSUME NEW c, Seen(c)
    PROVE  Made(c) /\ Shaped(c) /\ Pooled(c) /\ Sound(c)
BY SoundMade DEF Seen, Sound, Roomy

LEMMA DimmedSeen ==
    ASSUME NEW c, Seen(c)
    PROVE  Seen(applyDimmingFromPredicate(c))
<1>1. Sound(applyDimmingFromPredicate(c))
  BY DimmingPaints, PaintedSound DEF Seen, Sound
<1> QED BY <1>1, SeenShape, DimmingView, ViewSeen

LEMMA HeldInUse ==
    ASSUME NEW c, Roomy(c)
    PROVE  Held(InUse(c))
<1>1. InUse(c) \subseteq c.nodes \cup {c.tooltip, c.drag.on}
  BY DEF InUse
<1> QED BY <1>1 DEF Held, Roomy

Redrawn(synced, r) ==
    /\ Shaped(r) /\ r.active = synced.active /\ r.window = synced.window /\ r.index = synced.index
    /\ r.mode = synced.mode /\ r.lazy = synced.lazy /\ r.top = synced.top /\ r.height = synced.height
    /\ r.nodes = synced.nodes \/ r.nodes = Range(synced.active)
    /\ ActiveHashes(r) = ActiveHashes(synced)

LEMMA RedrawView ==
    ASSUME NEW c, NEW synced, Pooled(synced), Shaped(synced), NEW scrolling
    PROVE  Redrawn(synced, Redraw(c, synced, scrolling))
<1> DEFINE owned == [synced EXCEPT !.nodes = Range(synced.active)]
           drawn == Labelled(owned)
           calm  == reconcileInteractions(drawn)
<1>1. /\ Shaped(owned) /\ owned.nodes = Range(synced.active)
      /\ owned.active = synced.active /\ owned.window = synced.window /\ owned.index = synced.index
      /\ owned.mode = synced.mode /\ owned.lazy = synced.lazy
      /\ owned.top = synced.top /\ owned.height = synced.height /\ owned.node = synced.node
  BY DEF Shaped, Shape
<1>2. Pooled(owned)
  <2>1. /\ Parts \subseteq DOMAIN synced /\ Parts \subseteq DOMAIN owned /\ owned.pool = synced.pool
        /\ owned.destroyed = synced.destroyed
    BY DEF Pooled, Parts
  <2> HIDE DEF owned
  <2> QED BY <1>1, <2>1 DEF Pooled
<1> HIDE DEF owned
<1>3. SameObjects(owned, drawn) /\ SameView(owned, drawn)
  BY <1>1, <1>2, LooksSame, LooksView, SoundMade
<1>4. Pooled(drawn) /\ Shaped(drawn) /\ Made(drawn)
  BY <1>2, <1>3, SameSound, ViewShaped, SameMade
<1> HIDE DEF drawn
<1>5. SameObjects(drawn, calm) /\ SameView(drawn, calm)
  BY <1>4, LooksSame, LooksView
<1>6. Pooled(calm) /\ Shaped(calm)
  BY <1>4, <1>5, SameSound, ViewShaped
<1> HIDE DEF calm
<1>7. SameView(owned, applyDimmingFromPredicate(drawn)) /\ SameView(owned, applyDimmingFromPredicate(calm))
  BY <1>3, <1>4, <1>5, <1>6, DimmingView, ViewChain
<1>8. ASSUME NEW r, SameView(owned, r) PROVE Redrawn(synced, r)
  <2>1. ActiveHashes(r) = ActiveHashes(owned)
    BY <1>2, <1>8, ViewRoomy
  <2>2. ActiveHashes(owned) = ActiveHashes(synced)
    BY <1>1 DEF ActiveHashes
  <2> QED BY <1>1, <1>8, <2>1, <2>2 DEF SameView, Redrawn
<1>9. Redraw(c, synced, scrolling) \in
          {synced, applyDimmingFromPredicate(drawn), applyDimmingFromPredicate(calm)}
  BY DEF Redraw, calm, drawn, owned
<1> HIDE DEF Redraw
<1>10. CASE Redraw(c, synced, scrolling) = synced
  BY <1>10 DEF Redrawn
<1>11. CASE Redraw(c, synced, scrolling) = applyDimmingFromPredicate(drawn)
  BY <1>7, <1>8, <1>11
<1>12. CASE Redraw(c, synced, scrolling) = applyDimmingFromPredicate(calm)
  BY <1>7, <1>8, <1>12
<1> QED BY <1>9, <1>10, <1>11, <1>12

LEMMA VisibleSeen ==
    ASSUME NEW c, Pooled(c), Windowed(c), Roomy(c), c.lazy, Framed(c),
           NEW scrolling, scrolling => Sound(c)
    PROVE  Seen(rebuildVisibleGraph(c, scrolling))
<1> DEFINE asked  == enqueueHydration(c, KnownParents(c, Range(c.window.entries)))
           synced == synchronize(asked, c.window.entries, c.commits, InUse(c))
           r      == rebuildVisibleGraph(c, scrolling)
<1>1. SameObjects(c, asked) /\ SameView(c, asked)
  BY EnqueueSame, EnqueueView, SoundMade DEF Roomy
<1>2. Pooled(asked) /\ Shaped(asked)
  BY <1>1, SameSound, ViewShaped
<1> HIDE DEF asked
<1>3. Pooled(synced) /\ ActiveHashes(synced) = Range(c.window.entries)
  <2>1. Held(InUse(c))
    BY HeldInUse
  <2> QED BY <1>2, <2>1, SynchronizedHolds, SynchronizedAll DEF Windowed
<1>4. SameFrame(asked, synced)
  BY <1>2, SynchronizeFrame
<1> HIDE DEF synced
<1>5. /\ Shaped(synced) /\ synced.nodes = c.nodes /\ synced.window = c.window /\ synced.index = c.index
      /\ synced.mode = c.mode /\ synced.lazy = c.lazy /\ synced.top = c.top /\ synced.height = c.height
  BY <1>1, <1>4 DEF SameView, SameFrame
<1>6. r = Redraw(c, synced, scrolling)
  BY DEF rebuildVisibleGraph, synced, asked
<1>7. Sound(r)
  BY VisibleSound
<1> HIDE DEF r
<1>8. /\ Shaped(r) /\ r.active = synced.active /\ r.window = c.window /\ r.index = c.index
      /\ r.mode = c.mode /\ r.lazy = c.lazy /\ r.top = c.top /\ r.height = c.height
      /\ r.nodes = c.nodes \/ r.nodes = Range(synced.active)
      /\ ActiveHashes(r) = Range(c.window.entries)
  <2>1. Redrawn(synced, Redraw(c, synced, scrolling))
    BY <1>3, <1>5, RedrawView, Zenon
  <2>2. Redrawn(synced, r)
    BY <1>6, <2>1, Zenon
  <2> QED BY <1>3, <1>5, <2>2 DEF Redrawn
<1>9. Range(c.window.entries) \subseteq Commit
  BY RangeOf DEF Windowed
<1>10. Cardinality(Range(synced.active)) <= Cardinality(Commit) /\ Range(synced.active) \subseteq NodeId
  <2> DEFINE A == Range(synced.active)
             node == synced.node
  <2>1. /\ \A id \in A : synced.node[id].hash \in Commit
        /\ \A id, jd \in A : id # jd => synced.node[id].hash # synced.node[jd].hash
    BY <1>3, <1>9 DEF ActiveHashes, Pooled
  <2>2. Cardinality(A) <= Cardinality(Commit)
    <3> HIDE DEF A
    <3> QED BY <2>1, FewOf, CommitsFinite
  <2> QED BY <1>3, <2>2, RangeOf DEF Pooled
<1>11. Roomy(r)
  <2>1. r.mode = "lane"
    BY <1>8 DEF Windowed
  <2>2. r.nodes \subseteq NodeId /\ Cardinality(r.nodes) <= Cardinality(Commit)
    BY <1>8, <1>10 DEF Roomy
  <2> QED BY <1>8, <1>9, <2>1, <2>2 DEF Roomy
<1>12. Framed(r) /\ Furnishes(r)
  BY <1>8 DEF Framed, Furnishes
<1> QED BY <1>7, <1>11, <1>12 DEF Seen, r

LEMMA RowHeight ==
    ASSUME NEW index \in Seq(Commit), NEW h \in Range(index)
    PROVE  EntryY(index, h) \in Int
<1> DEFINE i == CHOOSE j \in DOMAIN index : index[j] = h
<1>1. i \in DOMAIN index
  BY DEF Range
<1>2. i \in Int
  BY <1>1, LenProperties
<1> HIDE DEF i
<1>3. Step * (i - 1) \in Int
  BY <1>2, WindowAssumption
<1> QED BY <1>3 DEF EntryY, i

(* Places to scroll to: at most one.                                       *)
Place(tops) == \E x \in Int : tops \subseteq {x}

LEMMA PlaceIs ==
    ASSUME NEW tops, Place(tops), tops # {}
    PROVE  Min(tops) \in Int
<1>1. PICK x \in Int : tops = {x}
  BY DEF Place
<1>2. Min({x, x}) = x
  BY MinOfTwo
<1>3. {x, x} = {x}
  OBVIOUS
<1> QED BY <1>1, <1>2, <1>3

LEMMA PlacesFound ==
    ASSUME NEW c, Seen(c), c.lazy
    PROVE  Place(LatestTop(c)) /\ \A h : Place(TopFor(c, h))
<1> DEFINE preferred == IF c.selected # NoHash THEN c.selected ELSE c.head
           newest    == NewestFirst(Drawn(c))
           at(h, k)  == EntryY(c.index, h) - c.height \div k
<1>1. c.index \in Seq(Commit) /\ c.height \in Nat
  BY DEF Seen, Sound, Windowed, Roomy
<1>2. c.height \div 4 \in Int /\ c.height \div 2 \in Int
  BY <1>1
<1>3. \A h \in Range(c.index) : at(h, 4) \in Int /\ at(h, 2) \in Int
  BY <1>1, <1>2, RowHeight
<1>4. Drawn(c) \subseteq Range(c.index)
  BY DEF Seen, Sound, DrawsOwned, Furnishes, Drawn, ActiveHashes
<1>5. newest \in Seq(Commit) /\ Range(newest) \subseteq Drawn(c)
  BY NewestAssumption, AmongHolds DEF NewestFirst
<1> HIDE DEF newest, at
<1>6. Place({at(newest[i], 2) : i \in DOMAIN newest \cap {1}})
  <2>1. CASE 1 \in DOMAIN newest
    <3>1. newest[1] \in Range(c.index)
      BY <1>4, <1>5, <2>1 DEF Range
    <3> QED BY <1>3, <3>1 DEF Place
  <2>2. CASE 1 \notin DOMAIN newest
    BY <2>2 DEF Place
  <2> QED BY <2>1, <2>2
<1>7. \A h : CanCenterOn(c, h) => h \in Range(c.index)
  BY DEF CanCenterOn, Indexed
<1>8. \A h : CanCenterOn(c, h) => Place({at(h, 4)})
  BY <1>3, <1>7 DEF Place
<1>9. LatestTop(c) = IF CanCenterOn(c, preferred) THEN {at(preferred, 4)}
                     ELSE {at(newest[i], 2) : i \in DOMAIN newest \cap {1}}
  BY DEF LatestTop, newest, at
<1> HIDE DEF preferred
<1>10. Place(LatestTop(c))
  BY <1>6, <1>8, <1>9
<1>11. \A h : TopFor(c, h) = IF CanCenterOn(c, h) THEN {at(h, 4)} ELSE LatestTop(c)
  BY DEF TopFor, at
<1> QED BY <1>8, <1>10, <1>11

LEMMA QueryFrames ==
    ASSUME NEW d, Windowed(d), Roomy(d), d.window = Query(d.index, d.top, d.height)
    PROVE  Framed(d)
<1> DEFINE w == Query(d.index, d.top, d.height)
<1>1. d.index \in Seq(Commit) /\ d.top \in Int /\ d.height \in Nat
  BY DEF Windowed, Roomy
<1>2. /\ w.lo \in Int /\ w.hi \in Int /\ w.lo <= d.top /\ d.top + d.height <= w.hi
      /\ Range(w.entries) \subseteq Range(d.index)
      /\ \A i \in DOMAIN d.index : Step * (i - 1) \in w.lo..w.hi => d.index[i] \in Range(w.entries)
  BY <1>1, QueryComplete
<1> HIDE DEF w
<1>3. d.window = w
  BY DEF w
<1> QED BY <1>2, <1>3 DEF Framed

LEMMA ZoomSeen ==
    ASSUME NEW c, Seen(c)
    PROVE  /\ \A top \in Int : Seen(zoomed(c, top))
           /\ \A tops : (c.lazy => Place(tops)) => Seen(translateViewTo(c, tops))
<1>1. ASSUME NEW top \in Int PROVE Seen(zoomed(c, top))
  <2> DEFINE moved  == [c EXCEPT !.top = top]
             framed == [moved EXCEPT !.window = Query(c.index, top, c.height)]
             w == Query(c.index, top, c.height)
  <2>1. /\ Shaped(moved) /\ moved.active = c.active /\ moved.nodes = c.nodes /\ moved.window = c.window
        /\ moved.index = c.index /\ moved.mode = c.mode /\ moved.lazy = c.lazy /\ moved.top = top
        /\ moved.height = c.height /\ moved.node = c.node
    BY SeenShape DEF Shaped, Shape
  <2>2. SameObjects(c, moved)
    BY SeenShape DEF SameObjects, SameRest, Made, Parts
  <2>3. Sound(moved) /\ ActiveHashes(moved) = ActiveHashes(c)
    BY <2>2, SameSound, SeenShape
  <2>4. /\ Shaped(framed) /\ framed.active = moved.active /\ framed.nodes = moved.nodes /\ framed.window = w
        /\ framed.index = moved.index /\ framed.mode = moved.mode /\ framed.lazy = moved.lazy
        /\ framed.top = moved.top /\ framed.height = moved.height /\ framed.node = moved.node
    BY <2>1 DEF Shaped, Shape
  <2>5. zoomed(c, top) = IF ~c.lazy \/ WellInside(c.window, top, c.height) THEN moved
                         ELSE rematerializeFromViewport(framed)
    BY DEF zoomed
  <2> HIDE DEF moved
  <2>6. Roomy(moved)
    BY <2>1, <2>3 DEF Seen, Roomy
  <2>7. Sound(framed)
    BY <2>1, <2>3, FramedSound DEF Sound, Windowed
  <2> HIDE DEF framed, w
  <2>8. ActiveHashes(framed) = ActiveHashes(moved)
    BY <2>4 DEF ActiveHashes
  <2>9. Roomy(framed)
    BY <2>4, <2>6, <2>8 DEF Roomy
  <2>10. CASE ~c.lazy
    BY <2>1, <2>3, <2>5, <2>6, <2>10 DEF Seen
  <2>11. CASE c.lazy /\ WellInside(c.window, top, c.height)
    <3>1. Framed(c) /\ Furnishes(c)
      BY <2>11 DEF Seen
    <3>2. c.window.lo <= top /\ top + c.height <= c.window.hi
      <4>1. Margin \in Nat
        BY WindowAssumption
      <4>2. c.window.lo \in Int /\ c.window.hi \in Int /\ c.height \in Nat
        BY <3>1 DEF Framed, Seen, Roomy
      <4>3. top > c.window.lo + Margin /\ top + c.height < c.window.hi - Margin
        BY <2>11 DEF WellInside
      <4> QED BY <4>1, <4>2, <4>3
    <3>3. Framed(moved) /\ Furnishes(moved)
      BY <2>1, <2>3, <3>1, <3>2 DEF Framed, Furnishes
    <3> QED BY <2>3, <2>5, <2>6, <2>11, <3>3 DEF Seen
  <2>12. CASE c.lazy /\ ~WellInside(c.window, top, c.height)
    <3>1. Pooled(framed) /\ Windowed(framed)
      BY <2>7 DEF Sound
    <3>2. framed.window = Query(framed.index, framed.top, framed.height)
      BY <2>1, <2>4 DEF w
    <3>3. Framed(framed)
      BY <2>9, <3>1, <3>2, QueryFrames
    <3>4. framed.lazy
      BY <2>1, <2>4, <2>12
    <3>5. Seen(rebuildVisibleGraph(framed, TRUE))
      BY <2>7, <2>9, <3>1, <3>3, <3>4, VisibleSeen
    <3> QED BY <2>5, <2>12, <3>5 DEF rematerializeFromViewport
  <2> QED BY <2>10, <2>11, <2>12
<1>2. ASSUME NEW tops, c.lazy => Place(tops) PROVE Seen(translateViewTo(c, tops))
  BY <1>1, <1>2, PlaceIs DEF translateViewTo
<1> QED BY <1>1, <1>2

LEMMA CenterSeen ==
    ASSUME NEW c, Seen(c)
    PROVE  /\ \A h : Seen(centerOnCommit(c, h))
           /\ Seen(CenterOnce(c))
<1>1. \A h : Seen(centerOnCommit(c, h))
  BY ZoomSeen, PlacesFound DEF centerOnCommit
<1> DEFINE centred == [c EXCEPT !.center = FALSE]
<1>2. SameView(c, centred)
  BY SeenShape, FieldsView
<1>3. SameObjects(c, centred)
  BY SeenShape DEF SameObjects, SameRest, Made, Parts
<1> HIDE DEF centred
<1>4. Seen(centred)
  BY <1>2, <1>3, SameSeen
<1>5. Seen(centerOnLatestCommit(centred))
  BY <1>4, ZoomSeen, PlacesFound DEF centerOnLatestCommit
<1> QED BY <1>1, <1>5 DEF CenterOnce, centred

LEMMA LazySeen ==
    ASSUME NEW c, Pooled(c), Windowed(c), Roomy(c), c.lazy
    PROVE  Seen(updateGraphLazy(c))
<1> DEFINE index == rebuild(DOMAIN c.commits)
           known == [c EXCEPT !.index = index, !.window = Query(index, c.top, c.height),
                              !.lanes = Arrange(c.lanes, DOMAIN c.commits),
                              !.stashed = StashCommits(c.stashes, DOMAIN c.commits)]
<1>1. index \in Seq(Commit) /\ IsInjective(index)
  BY RebuildHolds
<1> HIDE DEF index
<1>2. Pooled(known) /\ Windowed(known)
  BY <1>1, FramedSound
<1>3. /\ Shaped(known) /\ known.active = c.active /\ known.nodes = c.nodes
      /\ known.window = Query(index, c.top, c.height) /\ known.index = index
      /\ known.mode = c.mode /\ known.lazy = c.lazy /\ known.top = c.top /\ known.height = c.height
      /\ known.node = c.node
  BY DEF Roomy, Shaped, Shape
<1> HIDE DEF known
<1>4. Roomy(known)
  <2>1. ActiveHashes(known) = ActiveHashes(c)
    BY <1>3 DEF ActiveHashes
  <2> QED BY <1>3, <2>1 DEF Roomy
<1>5. Framed(known)
  BY <1>2, <1>3, <1>4, QueryFrames
<1>6. Seen(rebuildVisibleGraph(known, FALSE))
  BY <1>2, <1>3, <1>4, <1>5, VisibleSeen
<1> QED BY <1>6, CenterSeen DEF updateGraphLazy, known, index

(* The force layout draws each known commit once.                          *)
LEMMA ReconcileSeen ==
    ASSUME NEW c, Seen(c), ~c.lazy, c.mode # "lane"
    PROVE  Seen(reconcileCommitNodes(c))
<1> DEFINE known == DOMAIN c.commits
           kept  == {id \in c.nodes : c.node[id].hash \in known}
           new   == NewestFirst(known \ Drawn(c))
           ids   == NewIds(c, InUse(c), Len(new))
           place(id) == CHOOSE i \in DOMAIN ids : ids[i] = id
           hash(id) == IF id \in kept THEN c.node[id].hash ELSE new[place(id)]
           both  == kept \cup Range(ids)
           nodes == [id \in NodeId |->
                       IF id \in both
                       THEN [hash |-> hash(id), data |-> c.commits[hash(id)], dimmed |-> c.node[id].dimmed]
                       ELSE c.node[id]]
           d     == reconcileCommitNodes(c)
<1>1. d = [c EXCEPT !.nodes = both, !.stashed = StashCommits(c.stashes, known), !.node = nodes]
  BY DEF reconcileCommitNodes
<1>2. new \in Seq(Commit) /\ IsInjective(new) /\ Range(new) \subseteq known \ Drawn(c)
  BY AmongHolds, NewestAssumption DEF NewestFirst
<1>3. Len(new) \in Nat /\ DOMAIN new = 1..Len(new)
  BY <1>2, LenProperties
<1> HIDE DEF new
<1>4. /\ ids \in Seq(NodeId) /\ IsInjective(ids) /\ Range(ids) \cap InUse(c) = {}
      /\ Len(ids) <= Len(new)
  BY <1>3, NewIdsHolds
<1>5. Len(ids) \in Nat /\ DOMAIN ids = 1..Len(ids)
  BY <1>4, LenProperties
<1> HIDE DEF ids
<1>6. /\ c.nodes \subseteq NodeId /\ c.nodes \subseteq InUse(c)
      /\ \A id \in c.nodes :
             c.node[id].hash \in Commit /\ \A jd \in c.nodes : id # jd => c.node[id].hash # c.node[jd].hash
  BY NoIdAssumption DEF Seen, Roomy, InUse
<1>7. \A id \in Range(ids) : place(id) \in DOMAIN ids /\ ids[place(id)] = id
  BY DEF Range
<1> HIDE DEF place
<1>8. \A id \in Range(ids) : place(id) \in DOMAIN new
  BY <1>3, <1>4, <1>5, <1>7
<1>9. Range(ids) \cap kept = {}
  BY <1>4, <1>6
<1>10. \A id \in Range(ids) : hash(id) = new[place(id)] /\ hash(id) \in Commit /\ hash(id) \notin Drawn(c)
  BY <1>2, <1>8, <1>9, RangeOf DEF Range
<1>11. \A id \in kept : hash(id) = c.node[id].hash /\ hash(id) \in Commit /\ hash(id) \in Drawn(c)
  BY <1>6 DEF Drawn
<1> HIDE DEF hash
<1>12. \A id, jd \in Range(ids) : id # jd => hash(id) # hash(jd)
  BY <1>2, <1>7, <1>8, <1>10 DEF IsInjective
<1>13. \A id, jd \in kept : id # jd => hash(id) # hash(jd)
  BY <1>6, <1>11
<1>14. \A id, jd \in both : id # jd => hash(id) # hash(jd)
  BY <1>10, <1>11, <1>12, <1>13
<1>15. both \subseteq NodeId /\ \A id \in both : hash(id) \in Commit
  BY <1>4, <1>6, <1>10, <1>11, RangeOf
<1> HIDE DEF both
<1>16. \A id \in both : nodes[id].hash = hash(id)
  BY <1>15
<1> HIDE DEF nodes
<1>17. Cardinality(both) <= Cardinality(Commit)
  <2>1. /\ \A id \in both : nodes[id].hash \in Commit
        /\ \A id, jd \in both : id # jd => nodes[id].hash # nodes[jd].hash
    BY <1>14, <1>15, <1>16
  <2> QED BY <2>1, FewOf, CommitsFinite
<1>18. /\ Shaped(d) /\ d.nodes = both /\ d.mode = c.mode /\ d.lazy = c.lazy
       /\ d.top = c.top /\ d.height = c.height /\ d.active = c.active /\ d.node = nodes
  BY <1>1, SeenShape DEF Shaped, Shape
<1>19. Sound(d)
  BY ReconcileSound DEF Seen
<1> HIDE DEF d
<1>20. Range(d.active) = {}
  BY <1>18 DEF Seen, Roomy
<1>21. c.top \in Int /\ c.height \in Nat
  BY DEF Seen, Roomy
<1>22. Roomy(d)
  BY <1>14, <1>15, <1>16, <1>17, <1>18, <1>20, <1>21 DEF Roomy, ActiveHashes
<1> QED BY <1>18, <1>19, <1>22 DEF Seen, d

LEMMA EagerSeen ==
    ASSUME NEW c, Seen(c), ~c.lazy, c.mode # "lane"
    PROVE  Seen(updateGraphEager(c))
<1> DEFINE given  == reconcileCommitNodes(c)
           named  == Labelled(given)
           drawn  == reconcileInteractions(named)
           dimmed == applyDimmingFromPredicate(drawn)
<1>1. Seen(given)
  BY ReconcileSeen
<1> HIDE DEF given
<1>2. Seen(named)
  BY <1>1, SeenShape, LooksSame, LooksView, SameSeen
<1> HIDE DEF named
<1>3. Seen(drawn)
  BY <1>2, SeenShape, LooksSame, LooksView, SameSeen
<1> HIDE DEF drawn
<1>4. Seen(dimmed)
  BY <1>3, DimmedSeen
<1> HIDE DEF dimmed
<1>5. Seen(HydrateVisible(dimmed))
  BY <1>4, SeenShape, EnqueueSame, EnqueueView, SameSeen
<1> QED BY <1>5 DEF updateGraphEager, dimmed, drawn, named, given

LEMMA UpdateSeen ==
    ASSUME NEW c, Pooled(c), Windowed(c), Roomy(c), c.mode # "lane" => Seen(c)
    PROVE  Seen(updateGraph(c))
<1> DEFINE fresh == [c EXCEPT !.sorted = NoCache, !.results = NoCache]
           lazy  == [fresh EXCEPT !.lazy = TRUE]
<1>1. SameObjects(c, fresh) /\ SameView(c, fresh)
  <2>1. SameView(c, fresh)
    BY FieldsView DEF Roomy
  <2>2. SameObjects(c, fresh)
    BY SoundMade DEF SameObjects, SameRest, Made, Parts
  <2> QED BY <2>1, <2>2
<1> HIDE DEF fresh
<1>2. Pooled(fresh) /\ Windowed(fresh) /\ fresh.mode = c.mode
  BY <1>1, SameObjectsPaint, PaintedPooled DEF SameObjects, SameRest
<1>3. Roomy(fresh)
  BY <1>1, ViewRoomy
<1>4. CASE c.mode = "lane"
  <2>1. /\ Made(lazy) /\ lazy.nodes = fresh.nodes /\ lazy.window = fresh.window /\ lazy.index = fresh.index
        /\ lazy.mode = fresh.mode /\ lazy.destroyed = fresh.destroyed /\ lazy.lazy
        /\ lazy.active = fresh.active /\ lazy.pool = fresh.pool /\ lazy.node = fresh.node
    BY <1>2, SoundMade DEF Made, Parts
  <2>2. Shaped(lazy) /\ lazy.top = fresh.top /\ lazy.height = fresh.height
    BY <1>3 DEF Roomy, Shaped, Shape
  <2> HIDE DEF lazy
  <2>3. Pooled(lazy) /\ Windowed(lazy)
    BY <1>2, <1>4, <2>1 DEF Pooled, Windowed, Made
  <2>4. ActiveHashes(lazy) = ActiveHashes(fresh)
    BY <2>1 DEF ActiveHashes
  <2>5. Roomy(lazy)
    BY <1>2, <1>3, <1>4, <2>1, <2>2, <2>4 DEF Roomy
  <2>6. Seen(updateGraphLazy(lazy))
    BY <2>1, <2>3, <2>5, LazySeen
  <2> QED BY <1>4, <2>6 DEF updateGraph, fresh, lazy
<1>5. CASE c.mode # "lane"
  <2>1. Seen(fresh)
    BY <1>1, <1>5, SameSeen
  <2>2. ~fresh.lazy
    BY <1>2, <1>5 DEF Windowed
  <2>3. Seen(updateGraphEager(fresh))
    BY <1>2, <1>5, <2>1, <2>2, EagerSeen
  <2> QED BY <1>5, <2>3 DEF updateGraph, fresh
<1> QED BY <1>4, <1>5

LEMMA GraphSeen ==
    ASSUME NEW c, Seen(c)
    PROVE  Seen(updateGraph(c))
BY UpdateSeen DEF Seen, Sound

(* Without nodes, nothing is in use after clear.                           *)
LEMMA ClearedSeen ==
    ASSUME NEW m, Pooled(m), Windowed(m), Shaped(m), m.nodes = {}, m.top \in Int, m.height \in Nat
    PROVE  /\ Pooled(clear(m)) /\ Windowed(clear(m)) /\ Roomy(clear(m))
           /\ clear(m).mode = m.mode /\ clear(m).lazy = m.lazy
           /\ ~m.lazy => Seen(clear(m))
<1> DEFINE d == clear(m)
<1>1. Sound(d)
  BY ClearedHolds
<1>2. Range(d.active) = {}
  <2>1. m.active \in Seq(NodeId) /\ IsInjective(m.active)
    BY DEF Pooled
  <2>2. Range(d.active) = Range(m.active) \ Range(m.active)
    BY <2>1, EvictedHolds DEF clear
  <2> QED BY <2>2
<1>3. /\ Shaped(d) /\ d.nodes = {} /\ d.mode = m.mode /\ d.lazy = m.lazy
      /\ d.top = m.top /\ d.height = m.height
  BY SynchronizeFrame DEF SameFrame
<1> HIDE DEF d
<1>4. Cardinality({}) <= Cardinality(Commit)
  <2>1. Cardinality({}) = 0
    BY FS_EmptySet
  <2> QED BY <2>1, CommitsFinite
<1>5. ActiveHashes(d) = {}
  BY <1>2 DEF ActiveHashes
<1>6. Roomy(d)
  BY <1>2, <1>3, <1>4, <1>5 DEF Roomy
<1>7. ~m.lazy => Seen(d)
  BY <1>1, <1>3, <1>6 DEF Seen
<1> QED BY <1>1, <1>3, <1>6, <1>7 DEF Sound, d

LEMMA LayoutSeen ==
    ASSUME NEW c, Seen(c), NEW mode \in {"lane", "force"}
    PROVE  Seen(switchLayout(c, mode))
<1> DEFINE left  == [c EXCEPT !.isolated = NoLane, !.mode = mode,
                             !.lanes = IF mode = "lane" THEN Arrange(<<>>, Drawn(c)) ELSE <<>>]
           lane  == [left EXCEPT !.lazy = TRUE, !.center = TRUE]
           force == [left EXCEPT !.lazy = FALSE, !.nodes = {}]
<1>1. /\ Made(left) /\ left.nodes = c.nodes /\ left.window = c.window /\ left.index = c.index
      /\ left.mode = mode /\ left.lazy = c.lazy /\ left.destroyed = c.destroyed
      /\ left.active = c.active /\ left.pool = c.pool /\ left.node = c.node
  BY SeenShape DEF Made, Parts
<1>2. Shaped(left) /\ left.top = c.top /\ left.height = c.height
  BY SeenShape DEF Shaped, Shape
<1> HIDE DEF left
<1>3. /\ Made(lane) /\ lane.nodes = c.nodes /\ lane.window = c.window /\ lane.index = c.index
      /\ lane.mode = mode /\ lane.lazy /\ lane.destroyed = c.destroyed
      /\ lane.active = c.active /\ lane.pool = c.pool /\ lane.node = c.node
  BY <1>1 DEF Made, Parts
<1>4. /\ Made(force) /\ force.nodes = {} /\ force.window = c.window /\ force.index = c.index
      /\ force.mode = mode /\ ~force.lazy /\ force.destroyed = c.destroyed
      /\ force.active = c.active /\ force.pool = c.pool /\ force.node = c.node
  BY <1>1 DEF Made, Parts
<1>5. /\ Shaped(lane) /\ lane.top = c.top /\ lane.height = c.height
      /\ Shaped(force) /\ force.top = c.top /\ force.height = c.height
  BY <1>2 DEF Shaped, Shape
<1> HIDE DEF lane, force
<1>6. CASE mode = c.mode
  BY <1>6 DEF switchLayout
<1>7. CASE mode = "lane" /\ mode # c.mode
  <2> DEFINE queued == queueSearchHydration(lane)
  <2>1. Pooled(lane) /\ Windowed(lane)
    BY <1>3, <1>7 DEF Seen, Sound, Pooled, Windowed, Made
  <2>2. ActiveHashes(lane) = ActiveHashes(c)
    BY <1>3 DEF ActiveHashes
  <2>3. Roomy(lane)
    BY <1>3, <1>5, <1>7, <2>2 DEF Seen, Roomy
  <2>4. SameObjects(lane, queued) /\ SameView(lane, queued)
    BY <1>3, <1>5, SearchSame, SearchView
  <2> HIDE DEF queued
  <2>5. Pooled(queued) /\ Windowed(queued) /\ queued.mode = "lane"
    BY <1>3, <1>7, <2>1, <2>4, SameObjectsPaint, PaintedPooled DEF SameObjects, SameRest
  <2>6. Roomy(queued)
    BY <2>1, <2>3, <2>4, ViewRoomy
  <2>7. Seen(updateGraph(queued))
    BY <2>5, <2>6, UpdateSeen
  <2>8. switchLayout(c, mode) = updateGraph(queued) \/ switchLayout(c, mode) = c
    BY <1>7 DEF switchLayout, left, lane, queued
  <2> QED BY <2>7, <2>8
<1>8. CASE mode = "force" /\ mode # c.mode
  <2> DEFINE cleared == clear(force)
             ended   == clearSearchHydrationScan(cleared)
  <2>1. Pooled(force) /\ Windowed(force)
    BY <1>4 DEF Seen, Sound, Pooled, Windowed, Made
  <2>2. force.top \in Int /\ force.height \in Nat
    BY <1>5 DEF Seen, Roomy
  <2>3. Seen(cleared)
    BY <1>4, <1>5, <2>1, <2>2, ClearedSeen
  <2> HIDE DEF cleared
  <2>4. Seen(ended)
    BY <2>3, SeenShape, SearchSame, SearchView, SameSeen
  <2> HIDE DEF ended
  <2>5. Seen(updateGraph(ended))
    BY <2>4, GraphSeen
  <2>6. switchLayout(c, mode) = updateGraph(ended) \/ switchLayout(c, mode) = c
    BY <1>8 DEF switchLayout, left, force, ended, cleared
  <2> QED BY <2>5, <2>6
<1> QED BY <1>6, <1>7, <1>8

LEMMA SelectNodeSeen ==
    ASSUME NEW c, Seen(c), NEW h, NEW id
    PROVE  Seen(SelectNode(c, h, id))
<1> DEFINE asked  == enqueueHydration(c, WithParents({h}))
           chosen == [asked EXCEPT !.selected = h]
           tipped == showTooltip(chosen, id)
           shown  == centerOnCommit(tipped, h)
<1>1. Seen(asked)
  BY SeenShape, EnqueueSame, EnqueueView, SameSeen
<1> HIDE DEF asked
<1>2. Seen(chosen)
  BY <1>1, SeenShape, SetFieldsSame, FieldsView, SameSeen
<1> HIDE DEF chosen
<1>3. Seen(tipped)
  BY <1>2, SeenShape, LooksSame, LooksView, SameSeen
<1> HIDE DEF tipped
<1>4. Seen(shown)
  BY <1>3, CenterSeen
<1> HIDE DEF shown
<1>5. Seen(PointAtResult(shown, h))
  BY <1>4, SeenShape, LooksSame, LooksView, SameSeen
<1> QED BY <1>5 DEF SelectNode, shown, tipped, chosen, asked

(* A commit outside the window is on a row, and keeps the rows of the      *)
(* window theirs.                                                          *)
LEMMA ForcedSeen ==
    ASSUME NEW c, Seen(c), c.lazy, NEW h \in Range(c.index)
    PROVE  Seen(forceMaterialize(c, h, c.commits, InUse(c)))
<1> DEFINE d == forceMaterialize(c, h, c.commits, InUse(c))
<1>1. h \in Commit /\ ActiveHashes(c) \subseteq Commit
  BY RangeOf DEF Seen, Sound, Windowed, Roomy
<1>2. Held(InUse(c)) /\ Pooled(c) /\ Shaped(c)
  BY HeldInUse, SeenShape DEF Seen
<1>3. ActiveHashes(d) = ActiveHashes(c) \cup {h}
  BY <1>1, <1>2, ForcedAll
<1>4. SameFrame(c, d)
  BY <1>2, SynchronizeFrame
<1>5. Sound(d)
  BY <1>1, SeenShape, ForcedHolds
<1> HIDE DEF d
<1>6. /\ Shaped(d) /\ d.nodes = c.nodes /\ d.window = c.window /\ d.index = c.index
      /\ d.mode = c.mode /\ d.lazy /\ d.top = c.top /\ d.height = c.height
  BY <1>4 DEF SameFrame
<1>7. d.mode = "lane"
  BY <1>5, <1>6 DEF Sound, Windowed
<1>8. Roomy(d)
  BY <1>1, <1>3, <1>6, <1>7 DEF Seen, Roomy
<1>9. Framed(d) /\ Furnishes(d)
  BY <1>3, <1>6 DEF Seen, Framed, Furnishes
<1> QED BY <1>5, <1>8, <1>9 DEF Seen, d

LEMMA SelectCommitSeen ==
    ASSUME NEW c, Seen(c)
    PROVE  /\ \A h : Seen(selectAndCenterCommit(c, h))
           /\ \A hashes : Seen(SelectIn(c, hashes))
<1>1. ASSUME NEW h PROVE Seen(selectAndCenterCommit(c, h))
  <2> DEFINE able == c.lazy /\ Indexed(c.index, h) /\ h \in DOMAIN c.commits
             with == Materialized(c, h)
  <2>1. ASSUME h \in Drawn(c) \/ able PROVE Seen(with)
    <3>1. CASE h \in Drawn(c)
      BY <3>1 DEF Materialized
    <3>2. CASE h \notin Drawn(c)
      <4>1. c.lazy /\ h \in Range(c.index)
        BY <2>1, <3>2 DEF Indexed
      <4> QED BY <3>2, <4>1, ForcedSeen DEF Materialized
    <3> QED BY <3>1, <3>2
  <2> HIDE DEF with
  <2>2. CASE h \in Drawn(c) \/ able
    <3>1. Seen(SelectNode(with, h, ObjectOf(with, h)))
      BY <2>1, <2>2, SelectNodeSeen
    <3> QED BY <2>2, <3>1 DEF selectAndCenterCommit, with
  <2>3. CASE ~(h \in Drawn(c) \/ able)
    BY <2>3 DEF selectAndCenterCommit
  <2> QED BY <2>2, <2>3
<1> QED BY <1>1 DEF SelectIn

LEMMA NavigateSeen ==
    ASSUME NEW c, Seen(c)
    PROVE  /\ Seen(Sorted(c))
           /\ \A newer : Seen(navigateCommits(c, newer))
           /\ \A forward : Seen(navigateSearchResults(c, forward))
<1>1. ASSUME NEW d, Seen(d) PROVE Seen(Sorted(d)) /\ Seen(Found(d))
  BY <1>1, SeenShape, LooksSame, LooksView, SameSeen
<1>2. ASSUME NEW newer PROVE Seen(navigateCommits(c, newer))
  BY <1>1, SelectCommitSeen DEF navigateCommits, StepFromSelected
<1>3. ASSUME NEW d, Seen(d), NEW i PROVE Seen(StepToResult(d, i))
  <2> DEFINE at == [d EXCEPT !.resultIndex = i]
  <2>1. SameObjects(d, at)
    BY <1>3, SeenShape DEF SameObjects, SameRest, Made, Parts
  <2>2. SameView(d, at)
    BY <1>3, SeenShape, FieldsView
  <2> HIDE DEF at
  <2>3. Seen(selectAndCenterCommit(at, d.results[i]))
    BY <1>3, <2>1, <2>2, SameSeen, SelectCommitSeen
  <2> QED BY <2>3 DEF StepToResult, at
<1>4. ASSUME NEW forward PROVE Seen(navigateSearchResults(c, forward))
  <2>1. Seen(Found(Sorted(c)))
    BY <1>1
  <2>2. \A d : Seen(d) => Seen(StepInResults(d, forward))
    BY <1>3 DEF StepInResults
  <2> QED BY <2>1, <2>2 DEF navigateSearchResults
<1> QED BY <1>1, <1>2, <1>4

LEMMA LeaveForceSeen ==
    ASSUME NEW c, Seen(c)
    PROVE  Seen(LeaveForce(c))
BY LayoutSeen DEF LeaveForce

LEMMA DataSeen ==
    ASSUME NEW c, Seen(c)
    PROVE  /\ \A hashes, level : Seen(AddCommits(c, hashes, level))
           /\ \A branches : Seen(AddBranches(c, branches))
           /\ \A h : Seen(setHeadHash(c, h)) /\ Seen(SyncHead(c, h))
           /\ \A batch : Seen(EndBatch(c, batch))
           /\ \A x, y : Seen([c EXCEPT !.tags = x, !.stashes = y])
           /\ \A x, y : Seen([c EXCEPT !.commits = x, !.branches = y])
           /\ \A hashes : Seen(enqueueHydration(c, hashes))
<1>1. Made(c) /\ Shaped(c)
  BY SeenShape
<1>2. /\ \A hashes, level : Seen(AddCommits(c, hashes, level))
      /\ \A branches : Seen(AddBranches(c, branches))
      /\ \A h : Seen(setHeadHash(c, h)) /\ Seen(SyncHead(c, h))
      /\ \A batch : Seen(EndBatch(c, batch))
  BY <1>1, DataSame, DataView, SameSeen
<1>3. /\ \A x, y : Seen([c EXCEPT !.tags = x, !.stashes = y])
      /\ \A x, y : Seen([c EXCEPT !.commits = x, !.branches = y])
  BY <1>1, SetFieldsSame, FieldsView, SameSeen
<1>4. \A hashes : Seen(enqueueHydration(c, hashes))
  BY <1>1, EnqueueSame, EnqueueView, SameSeen
<1> QED BY <1>2, <1>3, <1>4

LEMMA ChunkSeen ==
    ASSUME NEW c, Seen(c), NEW m
    PROVE  Seen(ApplyChunk(c, m))
<1> DEFINE added == AddCommits(c, Range(m.commits), m.level)
           named == AddBranches(added, m.branches)
<1>1. Seen(added)
  BY DataSeen
<1> HIDE DEF added
<1>2. Seen(named)
  BY <1>1, DataSeen
<1> HIDE DEF named
<1>3. Seen(SyncHead(named, m.head))
  BY <1>2, DataSeen
<1> QED BY <1>3, LeaveForceSeen DEF ApplyChunk, named, added

LEMMA CompleteSeen ==
    ASSUME NEW c, Seen(c), NEW m
    PROVE  Seen(ApplyComplete(c, m))
<1> DEFINE moved == SyncHead(c, m.head)
           named == [moved EXCEPT !.tags = m.tags, !.stashes = m.stashes]
<1>1. Seen(moved)
  BY DataSeen
<1> HIDE DEF moved
<1>2. Seen(named)
  BY <1>1, DataSeen
<1> HIDE DEF named
<1>3. Seen(updateGraph(LeaveForce(named)))
  BY <1>2, LeaveForceSeen, GraphSeen
<1> QED BY <1>3 DEF ApplyComplete, named, moved

LEMMA LiveSeen ==
    ASSUME NEW c, Seen(c), NEW delta
    PROVE  Seen(ApplyLive(c, delta))
<1> DEFINE g == applyDelta([commits |-> DOMAIN c.commits, branches |-> c.branches, head |-> c.head,
                            tags |-> c.tags, stashes |-> c.stashes], delta)
           added == AddCommits(c, delta.addedCommits, "full")
           left  == [added EXCEPT !.commits = Restrict(@, g.commits), !.branches = g.branches]
           moved == SyncHead(left, delta.headHash)
           named == [moved EXCEPT !.tags = g.tags, !.stashes = g.stashes]
<1>1. ApplyLive(c, delta) = updateGraph(LeaveForce(named))
  BY DEF ApplyLive, AfterDelta
<1>2. Seen(added)
  BY DataSeen
<1> HIDE DEF added, g
<1>3. Seen(left)
  BY <1>2, DataSeen
<1> HIDE DEF left
<1>4. Seen(moved)
  BY <1>3, DataSeen
<1> HIDE DEF moved
<1>5. Seen(named)
  BY <1>4, DataSeen
<1> HIDE DEF named
<1>6. Seen(updateGraph(LeaveForce(named)))
  BY <1>5, LeaveForceSeen, GraphSeen
<1> QED BY <1>1, <1>6

LEMMA ResetSeen ==
    ASSUME NEW c, Seen(c)
    PROVE  Seen(resetData(c))
<1> DEFINE fresh == [c EXCEPT !.commits = <<>>, !.branches = <<>>, !.tags = <<>>, !.stashes = {},
                              !.head = NoHash, !.nodes = {}, !.branchNodes = <<>>, !.tagNodes = <<>>,
                              !.selected = NoHash, !.sorted = NoCache, !.results = NoCache,
                              !.resultIndex = 0]
           cleared == clear(fresh)
<1>1. /\ Made(fresh) /\ fresh.nodes = {} /\ fresh.window = c.window /\ fresh.index = c.index
      /\ fresh.mode = c.mode /\ fresh.lazy = c.lazy /\ fresh.destroyed = c.destroyed
      /\ fresh.active = c.active /\ fresh.pool = c.pool /\ fresh.node = c.node
  BY SeenShape DEF Made, Parts
<1>2. Shaped(fresh) /\ fresh.top = c.top /\ fresh.height = c.height
  BY SeenShape DEF Shaped, Shape
<1>3. resetData(c) = updateGraph(cleared)
  BY DEF resetData, resetGraphData
<1> HIDE DEF fresh
<1>4. Pooled(fresh) /\ Windowed(fresh)
  BY <1>1 DEF Seen, Sound, Pooled, Windowed, Made
<1>5. fresh.top \in Int /\ fresh.height \in Nat
  BY <1>2 DEF Seen, Roomy
<1>6. /\ Pooled(cleared) /\ Windowed(cleared) /\ Roomy(cleared)
      /\ cleared.mode = fresh.mode /\ cleared.lazy = fresh.lazy
      /\ ~fresh.lazy => Seen(cleared)
  BY <1>1, <1>2, <1>4, <1>5, ClearedSeen
<1> HIDE DEF cleared
<1>7. cleared.mode # "lane" => Seen(cleared)
  BY <1>4, <1>6 DEF Windowed
<1>8. Seen(updateGraph(cleared))
  BY <1>6, <1>7, UpdateSeen
<1> QED BY <1>3, <1>8

LEMMA MergedSeen ==
    ASSUME NEW c, Seen(c), NEW hashes
    PROVE  Seen(Merged(c, hashes))
<1> DEFINE added  == AddCommits(c, hashes, "full")
           nodes  == [id \in NodeId |->
                         IF id \in c.nodes /\ added.node[id].hash \in hashes
                         THEN [added.node[id] EXCEPT !.data = "full"] ELSE added.node[id]]
           merged == [added EXCEPT !.node = nodes]
<1>1. Merged(c, hashes) = merged
  BY DEF Merged
<1>2. Seen(added)
  BY DataSeen
<1> HIDE DEF added
<1>3. \A id \in NodeId : \A x : [added.node[id] EXCEPT !.data = x].hash = added.node[id].hash
  BY <1>2 DEF Seen, Sound, Pooled, Fields
<1>4. \A id \in NodeId : nodes[id].hash = added.node[id].hash
  BY <1>3
<1> HIDE DEF nodes
<1>5. SameView(added, merged)
  BY <1>2, <1>4, SeenShape DEF SameView, Shaped, Shape
<1> HIDE DEF merged
<1>6. Sound(merged)
  BY <1>1, SeenShape, MergedSound
<1> QED BY <1>1, <1>2, <1>5, <1>6, ViewSeen

LEMMA HydratedSeen ==
    ASSUME NEW c, Seen(c), NEW hashes
    PROVE  Seen(MergeHydrated(c, hashes))
<1> DEFINE merged == Merged(c, hashes)
           asked  == enqueueHydration(merged, UNION {ParentSet(h) : h \in hashes})
           next   == IF hashes \subseteq DOMAIN c.commits THEN asked ELSE updateGraph(asked)
<1>1. MergeHydrated(c, hashes) = IF hashes = {} THEN c ELSE DimAgain(next)
  BY DEF MergeHydrated, Merged
<1>2. Seen(merged)
  BY MergedSeen
<1> HIDE DEF merged
<1>3. Seen(asked)
  BY <1>2, DataSeen
<1> HIDE DEF asked
<1>4. Seen(next)
  BY <1>3, GraphSeen
<1> HIDE DEF next
<1>5. Seen(DimAgain(next))
  BY <1>4, DimmedSeen DEF DimAgain
<1> QED BY <1>1, <1>5

LEMMA CollectedSeen ==
    ASSUME NEW c, Seen(c)
    PROVE  Seen(Collected(c))
<1> DEFINE live  == Range(c.active) \cup Range(c.pool) \cup InUse(c)
           nodes == [id \in NodeId |-> IF id \in live THEN c.node[id] ELSE Blank]
           d     == Collected(c)
<1>1. d = [c EXCEPT !.node = nodes]
  BY DEF Collected
<1>2. Range(c.active) \subseteq NodeId /\ c.nodes \subseteq NodeId /\ c.nodes \subseteq InUse(c)
  BY NoIdAssumption, RangeOf DEF Seen, Sound, Pooled, Roomy, InUse
<1>3. \A id \in Range(c.active) \cup c.nodes : nodes[id] = c.node[id]
  BY <1>2
<1> HIDE DEF nodes
<1>4. /\ Shaped(d) /\ d.active = c.active /\ d.nodes = c.nodes /\ d.window = c.window
      /\ d.index = c.index /\ d.mode = c.mode /\ d.lazy = c.lazy /\ d.top = c.top
      /\ d.height = c.height /\ d.node = nodes
  BY <1>1, SeenShape DEF Shaped, Shape
<1>5. Sound(d)
  BY SeenShape, CollectedSound
<1> HIDE DEF d
<1>6. ActiveHashes(d) = ActiveHashes(c)
  BY <1>3, <1>4 DEF ActiveHashes
<1>7. Roomy(d)
  <2>1. \A id \in c.nodes : d.node[id] = c.node[id]
    BY <1>3, <1>4
  <2> QED BY <1>4, <1>6, <2>1 DEF Seen, Roomy
<1>8. d.lazy => Framed(d) /\ Furnishes(d)
  BY <1>4, <1>6 DEF Seen, Framed, Furnishes
<1> QED BY <1>5, <1>7, <1>8 DEF Seen, d

LEMMA DestroySeen ==
    ASSUME NEW c, Seen(c)
    PROVE  Seen(destroy(c))
<1> DEFINE ended == [c EXCEPT !.flushTimer = FALSE, !.lazy = FALSE, !.lanes = <<>>,
                       !.destroyed = TRUE, !.tooltip = NoId]
           d     == clear(ended)
           still == clearSearchHydrationScan(d)
<1>1. /\ Made(ended) /\ ended.nodes = c.nodes /\ ended.window = c.window /\ ended.index = c.index
      /\ ended.mode = c.mode /\ ~ended.lazy /\ ended.destroyed
      /\ ended.active = c.active /\ ended.pool = c.pool /\ ended.node = c.node
  BY SeenShape DEF Made, Parts
<1>2. Shaped(ended) /\ ended.top = c.top /\ ended.height = c.height
  BY SeenShape DEF Shaped, Shape
<1>3. destroy(c) = releaseDrag(still)
  BY DEF destroy
<1> HIDE DEF ended
<1>4. Pooled(ended) /\ Windowed(ended) /\ ended.nodes \subseteq NodeId
  BY <1>1 DEF Seen, Sound, Pooled, Windowed, Made, DrawsOwned
<1>5. Sound(d)
  BY <1>1, <1>4, ClearedHolds
<1>6. /\ Range(d.active) = {}
      /\ \A id \in NodeId \ Range(c.active) : d.node[id] = c.node[id]
  <2>1. ended.active \in Seq(NodeId) /\ IsInjective(ended.active)
    BY <1>4 DEF Pooled
  <2>2. /\ Range(d.active) = Range(ended.active) \ Range(ended.active)
        /\ \A id \in NodeId \ Range(ended.active) : d.node[id] = ended.node[id]
    BY <1>4, <2>1, EvictedHolds DEF clear
  <2> QED BY <1>1, <2>2
<1>7. /\ Shaped(d) /\ d.nodes = c.nodes /\ d.mode = c.mode /\ ~d.lazy
      /\ d.top = c.top /\ d.height = c.height
  BY <1>1, <1>2, SynchronizeFrame DEF SameFrame
<1> HIDE DEF d
<1>8. Roomy(d)
  <2>1. ActiveHashes(d) = {}
    BY <1>6 DEF ActiveHashes
  <2>2. d.mode # "lane" => Range(c.active) = {}
    BY <1>7 DEF Seen, Sound, Windowed, Roomy
  <2>3. d.mode # "lane" => \A id \in c.nodes : d.node[id] = c.node[id]
    BY <1>6, <2>2 DEF Seen, Roomy
  <2> QED BY <1>6, <1>7, <2>1, <2>3 DEF Seen, Roomy
<1>9. Seen(d)
  BY <1>5, <1>7, <1>8 DEF Seen
<1>10. Seen(still)
  BY <1>9, SeenShape, SearchSame, SearchView, SameSeen
<1> HIDE DEF still
<1>11. Seen(releaseDrag(still))
  BY <1>10, SeenShape, LooksSame, LooksView, SameSeen
<1> QED BY <1>3, <1>11

LEMMA BecomesSeen ==
    ASSUME NEW c, Seen(c), Becomes(c)
    PROVE  Seen(ctl')
BY CollectedSeen DEF Becomes

LEMMA FeedSeen ==
    ASSUME Seen(ctl), Feed
    PROVE  Seen(ctl')
<1>1. CASE Connect
  BY <1>1 DEF Connect
<1>2. CASE OnRepoMetadata
  BY <1>2, ResetSeen, BecomesSeen DEF OnRepoMetadata
<1>3. CASE OnBootstrapChunk
  BY <1>3, ChunkSeen, BecomesSeen DEF OnBootstrapChunk
<1>4. CASE OnBootstrapComplete
  BY <1>4, CompleteSeen, BecomesSeen DEF OnBootstrapComplete
<1>5. CASE OnDelta
  BY <1>5, LiveSeen, BecomesSeen DEF OnDelta
<1>6. CASE OnHead
  BY <1>6, DataSeen, BecomesSeen DEF OnHead
<1> QED BY <1>1, <1>2, <1>3, <1>4, <1>5, <1>6 DEF Feed

LEMMA HydrationSeen ==
    ASSUME Seen(ctl), Hydration
    PROVE  Seen(ctl')
<1>1. CASE PumpSearch
  BY <1>1, SeenShape, SearchSame, SearchView, SameSeen, BecomesSeen DEF PumpSearch
<1>2. ASSUME NEW batch, flushHydrationBatch(batch) PROVE Seen(ctl')
  <2>1. ctl' = [ctl EXCEPT !.flushTimer = FALSE, !.pending = @ \ batch, !.inflight = @ \cup batch]
    BY <1>2 DEF flushHydrationBatch
  <2>2. SameObjects(ctl, ctl') /\ SameView(ctl, ctl')
    BY <2>1, SeenShape, SetFieldsSame, FieldsView
  <2> QED BY <2>2, SameSeen
<1>3. ASSUME NEW r, handleGraphCommits(r) \/ NextChunk(r) PROVE Seen(ctl')
  BY <1>3 DEF handleGraphCommits, NextChunk
<1>4. ASSUME NEW r, BatchArrives(r) PROVE Seen(ctl')
  <2> DEFINE merged == MergeHydrated(ctl, r.got \cup r.answer)
  <2>1. Seen(merged)
    BY HydratedSeen
  <2>2. Becomes(EndBatch(merged, r.batch))
    BY <1>4 DEF BatchArrives
  <2> HIDE DEF merged
  <2>3. Seen(EndBatch(merged, r.batch))
    BY <2>1, DataSeen
  <2> QED BY <2>2, <2>3, BecomesSeen
<1> QED BY <1>1, <1>2, <1>3, <1>4 DEF Hydration

(* Fields that place nothing are the panels', the pointer's and the        *)
(* selection's.                                                            *)
LEMMA PanelsSeen ==
    ASSUME NEW c, Seen(c)
    PROVE  /\ \A x, y, z : Seen([c EXCEPT !.search = x, !.results = y, !.resultIndex = z])
           /\ \A x, y, z : Seen([c EXCEPT !.filter = x, !.results = y, !.resultIndex = z])
           /\ \A x : Seen([c EXCEPT !.scope = x])
           /\ \A x : Seen([c EXCEPT !.isolated = x])
           /\ \A x : Seen([c EXCEPT !.drag = x])
           /\ \A x : Seen([c EXCEPT !.drag.moved = x])
           /\ \A x, y : Seen([c EXCEPT !.drag.at = x, !.lanes = y]) /\ Seen([c EXCEPT !.lanes = x])
           /\ \A x : Seen([c EXCEPT !.selected = x])
           /\ Seen(hideTooltip(c)) /\ Seen(releaseDrag(c)) /\ \A id : Seen(showTooltip(c, id))
           /\ \A id : Seen(EnqueueClicked(c, id))
           /\ Seen(queueSearchHydration(c))
<1>1. Made(c) /\ Shaped(c)
  BY SeenShape
<1>2. /\ \A x, y, z : Seen([c EXCEPT !.search = x, !.results = y, !.resultIndex = z])
      /\ \A x, y, z : Seen([c EXCEPT !.filter = x, !.results = y, !.resultIndex = z])
      /\ \A x : Seen([c EXCEPT !.scope = x])
      /\ \A x : Seen([c EXCEPT !.isolated = x])
  BY <1>1, SetFieldsSame, FieldsView, SameSeen
<1>3. /\ \A x : Seen([c EXCEPT !.drag = x])
      /\ \A x : Seen([c EXCEPT !.drag.moved = x])
      /\ \A x, y : Seen([c EXCEPT !.drag.at = x, !.lanes = y]) /\ Seen([c EXCEPT !.lanes = x])
      /\ \A x : Seen([c EXCEPT !.selected = x])
  BY <1>1, SetFieldsSame, FieldsView, SameSeen
<1>4. /\ Seen(hideTooltip(c)) /\ Seen(releaseDrag(c)) /\ \A id : Seen(showTooltip(c, id))
  BY <1>1, LooksSame, LooksView, SameSeen
<1>6. ASSUME NEW id PROVE Seen(EnqueueClicked(c, id))
  BY <1>1, EnqueueSame, EnqueueView, SameSeen DEF EnqueueClicked
<1>5. Seen(queueSearchHydration(c))
  BY <1>1, SearchSame, SearchView, SameSeen
<1> QED BY <1>2, <1>3, <1>4, <1>5, <1>6

LEMMA PointerSeen ==
    ASSUME Seen(ctl), Pointer
    PROVE  Seen(ctl')
<1>1. CASE PointerDownOnHeader
  BY <1>1, PanelsSeen, BecomesSeen DEF PointerDownOnHeader
<1>2. CASE PointerDownOnBody
  <2>1. PICK l : Becomes(applyDimmingFromPredicate(
                     [ctl EXCEPT !.isolated = IF @ = l THEN NoLane ELSE l]))
    BY <1>2 DEF PointerDownOnBody
  <2> QED BY <2>1, PanelsSeen, DimmedSeen, BecomesSeen
<1>3. CASE PointerDownOnNode
  BY <1>3, PanelsSeen, BecomesSeen DEF PointerDownOnNode
<1>4. CASE PointerDownOnCanvas
  <2> DEFINE c == hideTooltip(ctl)
             d == [c EXCEPT !.isolated = NoLane]
  <2>1. Seen(c)
    BY PanelsSeen
  <2>2. Becomes(c) \/ Becomes(applyDimmingFromPredicate(d))
    BY <1>4 DEF PointerDownOnCanvas
  <2> HIDE DEF c
  <2>3. Seen(applyDimmingFromPredicate(d))
    BY <2>1, PanelsSeen, DimmedSeen
  <2> QED BY <2>1, <2>2, <2>3, BecomesSeen
<1>5. CASE DragNode
  <2> DEFINE c == [ctl EXCEPT !.drag.moved = TRUE]
  <2>1. Seen(c)
    BY PanelsSeen
  <2>2. Becomes(hideTooltip(c))
    BY <1>5 DEF DragNode
  <2> HIDE DEF c
  <2> QED BY <2>1, <2>2, PanelsSeen, BecomesSeen
<1>6. CASE handlePointerUp
  <2> DEFINE id == ctl.drag.on
             c  == releaseDrag(ctl)
             d  == hideTooltip(c)
             s  == showTooltip(c, id)
             e  == EnqueueClicked(s, id)
  <2>1. \/ Becomes(c) \/ Becomes([d EXCEPT !.selected = NoHash])
        \/ Becomes([e EXCEPT !.selected = c.node[id].hash])
    BY <1>6 DEF handlePointerUp
  <2>2. Seen(c)
    BY PanelsSeen
  <2> HIDE DEF c
  <2>5. Seen(d) /\ Seen(s)
    BY <2>2, PanelsSeen
  <2> HIDE DEF d, s
  <2>3. Seen(d) /\ Seen(e)
    BY <2>5, PanelsSeen
  <2> HIDE DEF e
  <2>4. Seen([d EXCEPT !.selected = NoHash]) /\ Seen([e EXCEPT !.selected = c.node[id].hash])
    BY <2>3, PanelsSeen
  <2> QED BY <2>1, <2>2, <2>4, BecomesSeen
<1>7. CASE DragLane
  BY <1>7, PanelsSeen, BecomesSeen DEF DragLane
<1> QED BY <1>1, <1>2, <1>3, <1>4, <1>5, <1>6, <1>7 DEF Pointer, handlePointerMove

LEMMA ResizeSeen ==
    ASSUME Seen(ctl), resize
    PROVE  Seen(ctl')
<1>1. PICK h \in Heights \ {ctl.height} :
         LET c == [ctl EXCEPT !.height = h]
         IN  Becomes(IF c.lazy
                     THEN rematerializeFromViewport([c EXCEPT !.window = Query(c.index, c.top, h)])
                     ELSE HydrateVisible(c))
  BY DEF resize
<1>2. h \in Nat
  BY ControllerAssumption
<1> DEFINE c == [ctl EXCEPT !.height = h]
           w == Query(ctl.index, ctl.top, h)
           d == [c EXCEPT !.window = w]
<1>3. /\ Shaped(c) /\ c.active = ctl.active /\ c.nodes = ctl.nodes /\ c.window = ctl.window
      /\ c.index = ctl.index /\ c.mode = ctl.mode /\ c.lazy = ctl.lazy /\ c.top = ctl.top
      /\ c.height = h /\ c.node = ctl.node
  BY SeenShape DEF Shaped, Shape
<1>4. SameObjects(ctl, c)
  BY SeenShape, SetFieldsSame
<1>5. Becomes(IF c.lazy THEN rematerializeFromViewport(d) ELSE HydrateVisible(c))
  BY <1>1, <1>3
<1>6. Sound(c) /\ ActiveHashes(c) = ActiveHashes(ctl)
  BY <1>4, SameSound, SeenShape
<1> HIDE DEF c
<1>7. Roomy(c)
  BY <1>2, <1>3, <1>6 DEF Seen, Roomy
<1>8. CASE c.lazy
  <2>1. /\ Shaped(d) /\ d.active = c.active /\ d.nodes = c.nodes /\ d.window = w
        /\ d.index = c.index /\ d.mode = c.mode /\ d.lazy = c.lazy /\ d.top = c.top
        /\ d.height = c.height /\ d.node = c.node
    BY <1>3 DEF Shaped, Shape
  <2>2. Sound(d)
    BY <1>3, <1>6, FramedSound DEF Sound, Windowed
  <2> HIDE DEF d, w
  <2>3. ActiveHashes(d) = ActiveHashes(c)
    BY <2>1 DEF ActiveHashes
  <2>4. Roomy(d)
    BY <1>7, <2>1, <2>3 DEF Roomy
  <2>5. d.window = Query(d.index, d.top, d.height)
    BY <1>3, <2>1 DEF w
  <2>6. Framed(d)
    BY <2>2, <2>4, <2>5, QueryFrames DEF Sound
  <2>7. Seen(rebuildVisibleGraph(d, TRUE))
    BY <1>8, <2>1, <2>2, <2>4, <2>6, VisibleSeen DEF Sound
  <2> QED BY <1>5, <1>8, <2>7, BecomesSeen DEF rematerializeFromViewport
<1>9. CASE ~c.lazy
  <2>1. Seen(c)
    BY <1>6, <1>7, <1>9 DEF Seen
  <2>2. Seen(HydrateVisible(c))
    BY <2>1, SeenShape, EnqueueSame, EnqueueView, SameSeen
  <2> QED BY <1>5, <1>9, <2>2, BecomesSeen
<1> QED BY <1>8, <1>9

LEMMA EventsSeen ==
    ASSUME Seen(ctl), Events
    PROVE  Seen(ctl')
<1>1. CASE Scroll
  BY <1>1, ZoomSeen, BecomesSeen, ControllerAssumption DEF Scroll
<1>2. CASE resize
  BY <1>2, ResizeSeen
<1>3. CASE SetSearchState
  <2> DEFINE c == [ctl EXCEPT !.search = ~@, !.results = NoCache, !.resultIndex = 0]
  <2>1. Becomes(applyDimmingFromPredicate(queueSearchHydration(c)))
    BY <1>3 DEF SetSearchState
  <2>2. Seen(c)
    BY PanelsSeen
  <2> HIDE DEF c
  <2> QED BY <2>1, <2>2, PanelsSeen, DimmedSeen, BecomesSeen
<1>4. CASE SetFilterState
  BY <1>4, PanelsSeen, DimmedSeen, BecomesSeen DEF SetFilterState
<1>5. CASE SetGraphSettings
  BY <1>5, PanelsSeen, DimmedSeen, BecomesSeen DEF SetGraphSettings
<1>6. CASE ToggleLayout
  BY <1>6, LayoutSeen, BecomesSeen DEF ToggleLayout
<1>7. CASE NavigateCommits
  BY <1>7, NavigateSeen, BecomesSeen DEF NavigateCommits
<1>8. CASE NavigateSearchResults
  BY <1>8, NavigateSeen, BecomesSeen DEF NavigateSearchResults
<1>9. CASE SelectCommit
  BY <1>9, SelectCommitSeen, BecomesSeen DEF SelectCommit
<1>10. CASE JumpToHead
  BY <1>10, CenterSeen, BecomesSeen DEF JumpToHead
<1>11. CASE GetNavigationPosition
  BY <1>11, NavigateSeen, BecomesSeen DEF GetNavigationPosition
<1>12. CASE RebuildVisibleGraph
  BY <1>12, GraphSeen, BecomesSeen DEF RebuildVisibleGraph
<1>13. CASE ClearIsolation
  BY <1>13, PanelsSeen, DimmedSeen, BecomesSeen DEF ClearIsolation
<1>14. CASE Dispose
  BY <1>14, DestroySeen, BecomesSeen DEF Dispose
<1>15. CASE Rebalance
  BY <1>15, PanelsSeen, BecomesSeen DEF Rebalance
<1> QED
  BY <1>1, <1>2, <1>3, <1>4, <1>5, <1>6, <1>7, <1>8, <1>9, <1>10, <1>11, <1>12, <1>13, <1>14, <1>15 DEF Events

LEMMA SeenInit == Init => Seen(ctl)
<1> SUFFICES ASSUME Init PROVE Seen(ctl)
  OBVIOUS
<1>1. PICK h \in Heights : ctl = NewController(h)
  BY DEF Init
<1> DEFINE none == <<>>
           view == Query(none, 0, h)
<1>2. h \in Nat
  BY ControllerAssumption
<1>3. Range(none) = {}
  BY DEF Range
<1> HIDE DEF none, view
<1>4. /\ Shaped(ctl) /\ ctl.nodes = {} /\ ctl.window = view /\ ctl.index = none /\ ctl.lazy
      /\ ctl.mode = "lane" /\ ctl.active = none /\ ctl.top = 0 /\ ctl.height = h
  BY <1>1 DEF NewController, Shaped, Shape, none, view
<1>5. ActiveHashes(ctl) = {}
  BY <1>3, <1>4 DEF ActiveHashes
<1>6. Cardinality({}) <= Cardinality(Commit)
  <2>1. Cardinality({}) = 0
    BY FS_EmptySet
  <2> QED BY <2>1, CommitsFinite
<1>7. Roomy(ctl)
  BY <1>2, <1>4, <1>5, <1>6 DEF Roomy
<1>8. Sound(ctl)
  BY SoundInit
<1>9. Framed(ctl)
  <2>1. ctl.window = Query(ctl.index, ctl.top, ctl.height)
    BY <1>4 DEF view
  <2> QED BY <1>7, <1>8, <2>1, QueryFrames DEF Sound
<1>10. Furnishes(ctl)
  BY <1>3, <1>4, <1>5, <1>9 DEF Framed, Furnishes
<1> QED BY <1>7, <1>8, <1>9, <1>10 DEF Seen

LEMMA SeenStep == Seen(ctl) /\ [Next]_vars => Seen(ctl)'
<1> SUFFICES ASSUME Seen(ctl), [Next]_vars PROVE Seen(ctl')
  BY DEF Seen
<1>1. CASE Feed
  BY <1>1, FeedSeen
<1>2. CASE Hydration
  BY <1>2, HydrationSeen
<1>3. CASE Faults
  <2>1. CASE Disconnect
    BY <2>1 DEF Disconnect
  <2>2. ASSUME NEW r, RequestRefused(r) PROVE Seen(ctl')
    BY <2>2 DEF RequestRefused
  <2>3. ASSUME NEW r, RequestFails(r) PROVE Seen(ctl')
    BY <2>3, DataSeen DEF RequestFails
  <2> QED BY <1>3, <2>1, <2>2, <2>3 DEF Faults
<1>4. CASE PermalinkFires
  BY <1>4, SelectCommitSeen, BecomesSeen DEF PermalinkFires
<1>5. CASE Pointer
  BY <1>5, PointerSeen
<1>6. CASE Events
  BY <1>6, EventsSeen
<1>7. CASE \E repo \in Repos : ServerChanges(repo)
  BY <1>7 DEF ServerChanges
<1>8. CASE UNCHANGED vars
  BY <1>8 DEF vars
<1> QED BY <1>1, <1>2, <1>3, <1>4, <1>5, <1>6, <1>7, <1>8 DEF Next

LEMMA SeenVisible == Seen(ctl) => VisibleHasObject
<1> SUFFICES ASSUME Seen(ctl), ctl.lazy, NEW h \in Range(ctl.index),
                    EntryY(ctl.index, h) \in ctl.top..(ctl.top + ctl.height)
             PROVE  h \in ActiveHashes(ctl)
  BY DEF VisibleHasObject
<1> DEFINE i == CHOOSE j \in DOMAIN ctl.index : ctl.index[j] = h
<1>1. i \in DOMAIN ctl.index /\ ctl.index[i] = h
  BY DEF Range
<1>2. EntryY(ctl.index, h) = Step * (i - 1)
  BY DEF EntryY
<1> HIDE DEF i
<1>3. /\ Framed(ctl) /\ Furnishes(ctl) /\ ctl.top \in Int /\ ctl.height \in Nat
      /\ ctl.index \in Seq(Commit)
  BY DEF Seen, Roomy, Sound, Windowed
<1>4. Step * (i - 1) \in Int
  BY <1>2, <1>3, RowHeight
<1>5. Step * (i - 1) \in ctl.window.lo..ctl.window.hi
  <2> DEFINE y == Step * (i - 1)
  <2>1. y \in Int /\ y \in ctl.top..(ctl.top + ctl.height)
    BY <1>2, <1>4
  <2> HIDE DEF y
  <2>2. y \in ctl.window.lo..ctl.window.hi
    BY <1>3, <2>1 DEF Framed
  <2> QED BY <2>2 DEF y
<1> QED BY <1>1, <1>3, <1>5 DEF Framed, Furnishes

(* Every row that is on the screen has its node object, however the canvas *)
(* is scrolled, resized and the graph changed: the window that a zoom does *)
(* not renew still holds the screen (WellInside), and synchronize finds an *)
(* object for every entry, kept, from the pool or new.                     *)
THEOREM RowsHaveObjects == Spec => []VisibleHasObject
BY SeenInit, SeenStep, SeenVisible, PTL DEF Spec
=============================================================================
