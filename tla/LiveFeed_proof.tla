--------------------------- MODULE LiveFeed_proof ---------------------------
(***************************************************************************)
(* A client that joins a running session catches up, whatever the session  *)
(* loads, whenever the client joins and however many old deltas it is sent *)
(* again. FeedInv is inductive: CaughtUp alone is not, because it says     *)
(* nothing of a client that still replays deltas its bootstrap held.       *)
(* First what a delta does to one commit and to one branch, whichever      *)
(* graph it is applied to.                                                 *)
(***************************************************************************)
EXTENDS LiveFeed, TLAPS

(* A partial function is a function with its domain and range in bounds.   *)
LEMMA PartialFcnDef ==
    ASSUME NEW S, NEW T, NEW f
    PROVE  f \in PartialFcn(S, T) <=>
              /\ f = [x \in DOMAIN f |-> f[x]]
              /\ DOMAIN f \subseteq S
              /\ \A x \in DOMAIN f : f[x] \in T
<1>1. ASSUME f \in PartialFcn(S, T)
      PROVE  /\ f = [x \in DOMAIN f |-> f[x]]
             /\ DOMAIN f \subseteq S
             /\ \A x \in DOMAIN f : f[x] \in T
  <2>1. PICK D \in SUBSET S : f \in [D -> T]
    BY <1>1 DEF PartialFcn
  <2> QED BY <2>1
<1>2. ASSUME f = [x \in DOMAIN f |-> f[x]], DOMAIN f \subseteq S,
             \A x \in DOMAIN f : f[x] \in T
      PROVE  f \in PartialFcn(S, T)
  <2>1. f \in [DOMAIN f -> T]
    BY <1>2
  <2> QED BY <1>2, <2>1 DEF PartialFcn
<1> QED BY <1>1, <1>2

(* DiffRepositories returns a delta.                                       *)
LEMMA DiffType ==
    ASSUME NEW new \in Repository, NEW old \in Repository
    PROVE  DiffRepositories(new, old) \in Delta
<1> DEFINE with(names) == [b \in names |-> new.branches[b]]
<1>1. /\ DOMAIN new.branches \subseteq Branch
      /\ DOMAIN old.branches \subseteq Branch
      /\ \A b \in DOMAIN new.branches : new.branches[b] \in Commit
  BY PartialFcnDef DEF Repository
<1>2. ASSUME NEW names \in SUBSET DOMAIN new.branches
      PROVE  with(names) \in PartialFcn(Branch, Commit)
  <2>1. with(names) \in [names -> Commit]
    BY <1>1
  <2> QED BY <1>1, <2>1 DEF PartialFcn
<1>3. /\ new.commits \ old.commits \in SUBSET Commit
      /\ old.commits \ new.commits \in SUBSET Commit
      /\ new.head \in Commit \cup {NoHash}
      /\ new.tags \in Tags /\ new.stashes \in Stashes
  BY DEF Repository
<1>4. with(DOMAIN new.branches \ DOMAIN old.branches) \in PartialFcn(Branch, Commit)
  BY <1>2
<1>5. with({b \in DOMAIN new.branches \cap DOMAIN old.branches :
                new.branches[b] # old.branches[b]}) \in PartialFcn(Branch, Commit)
  BY <1>2
<1>6. DOMAIN old.branches \ DOMAIN new.branches \in SUBSET Branch
  BY <1>1
<1> QED BY <1>3, <1>4, <1>5, <1>6 DEF DiffRepositories, Delta

(* Applying a delta to a graph gives a graph.                              *)
LEMMA ApplyType ==
    ASSUME NEW g \in Graph, NEW d \in Delta
    PROVE  applyDelta(g, d) \in Graph
<1> DEFINE names == (DOMAIN g.branches \cup (DOMAIN d.addedBranches \cup
                        DOMAIN d.amendedBranches)) \ d.deletedBranches
           tip(b) == IF b \in DOMAIN d.amendedBranches THEN d.amendedBranches[b]
                     ELSE IF b \in DOMAIN d.addedBranches THEN d.addedBranches[b]
                     ELSE g.branches[b]
           moved == [b \in names |-> tip(b)]
<1>1. /\ DOMAIN g.branches \subseteq Branch
      /\ \A b \in DOMAIN g.branches : g.branches[b] \in Commit
      /\ DOMAIN d.addedBranches \subseteq Branch
      /\ \A b \in DOMAIN d.addedBranches : d.addedBranches[b] \in Commit
      /\ DOMAIN d.amendedBranches \subseteq Branch
      /\ \A b \in DOMAIN d.amendedBranches : d.amendedBranches[b] \in Commit
  BY PartialFcnDef DEF Graph, Delta
<1>2. names \subseteq Branch /\ \A b \in names : tip(b) \in Commit
  BY <1>1
<1>3. moved \in [names -> Commit]
  BY <1>2
<1>4. moved \in PartialFcn(Branch, Commit)
  BY <1>2, <1>3 DEF PartialFcn
<1>5. /\ (g.commits \cup d.addedCommits) \ d.deletedCommits \in SUBSET Commit
      /\ (IF d.headHash # NoHash THEN d.headHash ELSE g.head) \in Commit \cup {NoHash}
      /\ d.tags \in Tags /\ d.stashes \in Stashes
  BY DEF Graph, Delta
<1>6. applyDelta(g, d).branches = moved
  BY DEF applyDelta
<1> QED BY <1>4, <1>5, <1>6 DEF applyDelta, Graph

(* One commit after a delta.                                               *)
LEMMA DeltaOnCommit ==
    ASSUME NEW new \in Repository, NEW old \in Repository, NEW g \in Graph, NEW c
    PROVE  LET h == applyDelta(g, DiffRepositories(new, old))
           IN  \/ AgreeOnCommit(c, h, new)
               \/ AgreeOnCommit(c, old, new) /\ AgreeOnCommit(c, h, g)
BY DEF applyDelta, DiffRepositories, AgreeOnCommit

(* One branch after a delta.                                               *)
LEMMA DeltaOnBranch ==
    ASSUME NEW new \in Repository, NEW old \in Repository, NEW g \in Graph, NEW b
    PROVE  LET h == applyDelta(g, DiffRepositories(new, old))
           IN  \/ AgreeOnBranch(b, h, new)
               \/ AgreeOnBranch(b, old, new) /\ AgreeOnBranch(b, h, g)
<1> DEFINE d == DiffRepositories(new, old)
           h == applyDelta(g, d)
<1>1. /\ DOMAIN d.addedBranches = DOMAIN new.branches \ DOMAIN old.branches
      /\ DOMAIN d.amendedBranches = {x \in DOMAIN new.branches \cap DOMAIN old.branches :
                                        new.branches[x] # old.branches[x]}
      /\ d.deletedBranches = DOMAIN old.branches \ DOMAIN new.branches
      /\ \A x \in DOMAIN d.addedBranches : d.addedBranches[x] = new.branches[x]
      /\ \A x \in DOMAIN d.amendedBranches : d.amendedBranches[x] = new.branches[x]
  BY DEF DiffRepositories
<1>2. DOMAIN h.branches = (DOMAIN g.branches \cup (DOMAIN d.addedBranches \cup
                              DOMAIN d.amendedBranches)) \ d.deletedBranches
  BY DEF applyDelta
<1>3. ASSUME b \in DOMAIN h.branches
      PROVE  h.branches[b] = IF b \in DOMAIN d.amendedBranches THEN d.amendedBranches[b]
                             ELSE IF b \in DOMAIN d.addedBranches THEN d.addedBranches[b]
                             ELSE g.branches[b]
  BY <1>3 DEF applyDelta
<1>4. CASE b \in DOMAIN new.branches \ DOMAIN old.branches
  BY <1>1, <1>2, <1>3, <1>4 DEF AgreeOnBranch
<1>5. CASE b \in DOMAIN old.branches \ DOMAIN new.branches
  BY <1>1, <1>2, <1>5 DEF AgreeOnBranch
<1>6. CASE b \in DOMAIN new.branches \cap DOMAIN old.branches
  BY <1>1, <1>2, <1>3, <1>6 DEF AgreeOnBranch
<1>7. CASE b \notin DOMAIN new.branches \cup DOMAIN old.branches
  BY <1>1, <1>2, <1>3, <1>7 DEF AgreeOnBranch
<1> QED BY <1>4, <1>5, <1>6, <1>7

(* Graphs that agree on every commit and branch are the same.              *)
LEMMA AgreeEverywhere ==
    ASSUME NEW g, NEW h,
           g.commits \in SUBSET Commit, h.commits \in SUBSET Commit,
           g.branches \in PartialFcn(Branch, Commit),
           h.branches \in PartialFcn(Branch, Commit),
           \A c \in Commit : AgreeOnCommit(c, g, h),
           \A b \in Branch : AgreeOnBranch(b, g, h)
    PROVE  SameGraph(g, h)
<1>1. g.commits = h.commits
  BY DEF AgreeOnCommit
<1>2. /\ g.branches = [x \in DOMAIN g.branches |-> g.branches[x]]
      /\ h.branches = [x \in DOMAIN h.branches |-> h.branches[x]]
      /\ DOMAIN g.branches \subseteq Branch /\ DOMAIN h.branches \subseteq Branch
  BY PartialFcnDef
<1>3. DOMAIN g.branches = DOMAIN h.branches
  BY <1>2 DEF AgreeOnBranch
<1>4. \A x \in DOMAIN g.branches : g.branches[x] = h.branches[x]
  BY <1>2 DEF AgreeOnBranch
<1>5. g.branches = h.branches
  BY <1>2, <1>3, <1>4
<1> QED BY <1>1, <1>5 DEF SameGraph

-----------------------------------------------------------------------------
USE LoadableAssumption, MaxLoadsAssumption

(* An empty repository is a repository, and a repository's graph a graph.  *)
LEMMA EmptyType == EmptyRepository \in Repository
<1>1. [b \in {} |-> NoHash] \in [{} -> Commit]
  OBVIOUS
<1>2. [b \in {} |-> NoHash] \in PartialFcn(Branch, Commit)
  BY <1>1 DEF PartialFcn
<1> QED BY <1>2, EmptyAssumption DEF EmptyRepository, Repository

LEMMA GraphOfType ==
    ASSUME NEW repo \in Repository
    PROVE  GraphOf(repo) \in Graph
BY DEF Repository, GraphOf, Graph

(* A client that joins shows the repository it was bootstrapped from.      *)
LEMMA BootstrapShowsAll ==
    ASSUME NEW repo \in Repository
    PROVE  Bootstrap(repo) \in Graph /\ SameGraph(Bootstrap(repo), repo)
<1> DEFINE empty == EmptyRepository
           g == GraphOf(empty)
           h == Bootstrap(repo)
<1>1. empty \in Repository /\ g \in Graph
  BY EmptyType, GraphOfType
<1>2. h \in Graph
  BY <1>1, DiffType, ApplyType DEF Bootstrap
<1>3. ASSUME NEW c \in Commit PROVE AgreeOnCommit(c, h, repo)
  <2>1. \/ AgreeOnCommit(c, h, repo)
        \/ AgreeOnCommit(c, empty, repo) /\ AgreeOnCommit(c, h, g)
    BY <1>1, DeltaOnCommit DEF Bootstrap
  <2>2. g.commits = empty.commits
    BY DEF GraphOf
  <2> QED BY <2>1, <2>2 DEF AgreeOnCommit
<1>4. ASSUME NEW b \in Branch PROVE AgreeOnBranch(b, h, repo)
  <2>1. \/ AgreeOnBranch(b, h, repo)
        \/ AgreeOnBranch(b, empty, repo) /\ AgreeOnBranch(b, h, g)
    BY <1>1, DeltaOnBranch DEF Bootstrap
  <2>2. g.branches = empty.branches
    BY DEF GraphOf
  <2> QED BY <2>1, <2>2 DEF AgreeOnBranch
<1>5. /\ h.commits \in SUBSET Commit /\ h.branches \in PartialFcn(Branch, Commit)
      /\ repo.commits \in SUBSET Commit /\ repo.branches \in PartialFcn(Branch, Commit)
  BY <1>2 DEF Graph, Repository
<1>6. SameGraph(h, repo)
  BY <1>3, <1>4, <1>5, AgreeEverywhere
<1> QED BY <1>2, <1>6

(* What has been loaded stays what it was.                                 *)
LEMMA LoadedAppend ==
    ASSUME NEW s \in Seq(Loadable), NEW new \in Loadable
    PROVE  /\ Append(s, new) \in Seq(Loadable)
           /\ Len(Append(s, new)) = Len(s) + 1
           /\ \A i \in 1..Len(s) : Append(s, new)[i] = s[i]
OBVIOUS

LEMMA LoadedType ==
    ASSUME FeedTypeOK, NEW i \in 1..Len(loaded)
    PROVE  loaded[i] \in Repository
BY DEF FeedTypeOK

-----------------------------------------------------------------------------
LEMMA InitFeed == FeedInit => FeedInv
<1> SUFFICES ASSUME FeedInit PROVE FeedInv
  OBVIOUS
<1>1. PICK repo \in Loadable : loaded = <<repo>>
  BY DEF FeedInit
<1>2. loaded \in Seq(Loadable) /\ Len(loaded) = 1
  BY <1>1
<1>3. shown \in Graph
  BY EmptyType, GraphOfType DEF FeedInit
<1>4. joined = 0 /\ position = 0
  BY DEF FeedInit
<1>5. FeedTypeOK
  BY <1>2, <1>3, <1>4 DEF FeedTypeOK
<1> QED BY <1>4, <1>5 DEF FeedInv, CaughtUp, BetweenTwo

(* Loading a repository does not concern a client.                         *)
LEMMA LoadFeed ==
    ASSUME FeedInv, NEW new \in Loadable, Load(new)
    PROVE  FeedInv'
<1>1. /\ loaded' \in Seq(Loadable) /\ Len(loaded') = Len(loaded) + 1
      /\ \A i \in 1..Len(loaded) : loaded'[i] = loaded[i]
      /\ joined' = joined /\ position' = position /\ shown' = shown
  BY LoadedAppend DEF FeedInv, FeedTypeOK, Load
<1>2. FeedTypeOK'
  BY <1>1 DEF FeedInv, FeedTypeOK
<1>3. joined > 0 => loaded'[position] = loaded[position] /\ loaded'[joined] = loaded[joined]
  BY <1>1 DEF FeedInv, FeedTypeOK
<1>4. CaughtUp'
  BY <1>1, <1>3 DEF FeedInv, FeedTypeOK, CaughtUp
<1>5. BetweenTwo'
  BY <1>1, <1>3 DEF FeedInv, FeedTypeOK, BetweenTwo
<1> QED BY <1>2, <1>4, <1>5 DEF FeedInv

(* A client joins with the latest repository; the deltas it is about to be *)
(* sent start anywhere before.                                             *)
LEMMA JoinFeed ==
    ASSUME FeedInv, NEW first \in 1..Len(loaded), Join(first)
    PROVE  FeedInv'
<1> DEFINE last == loaded[Len(loaded)]
<1>1. /\ loaded' = loaded /\ joined' = Len(loaded) /\ position' = first
      /\ shown' = Bootstrap(last)
  BY DEF Join
<1>2. Len(loaded) \in Nat \ {0}
  BY DEF FeedInv, FeedTypeOK
<1>3. last \in Repository
  BY <1>2, LoadedType DEF FeedInv
<1>4. shown' \in Graph /\ SameGraph(shown', last)
  BY <1>1, <1>3, BootstrapShowsAll
<1>5. FeedTypeOK'
  BY <1>1, <1>2, <1>4 DEF FeedInv, FeedTypeOK
<1>6. CaughtUp'
  <2>1. position' >= joined' => loaded'[position'] = last
    BY <1>1, <1>2
  <2> QED BY <1>4, <2>1 DEF CaughtUp
<1>7. BetweenTwo'
  <2>1. /\ \A c \in Commit : AgreeOnCommit(c, shown', last)
        /\ \A b \in Branch : AgreeOnBranch(b, shown', last)
    BY <1>4 DEF SameGraph, AgreeOnCommit, AgreeOnBranch
  <2> QED BY <1>1, <2>1 DEF BetweenTwo
<1> QED BY <1>5, <1>6, <1>7 DEF FeedInv

(* One more delta. Of a commit or branch it speaks of, the graph comes to  *)
(* agree with where the delta leads; the others it leaves, and there both  *)
(* ends of the delta agree.                                                *)
LEMMA ReceiveFeed ==
    ASSUME FeedInv, Receive
    PROVE  FeedInv'
<1> DEFINE old == loaded[position]
           new == loaded[position + 1]
           held == loaded[joined]
<1>1. /\ loaded' = loaded /\ joined' = joined /\ position' = position + 1
      /\ shown' = applyDelta(shown, DiffRepositories(new, old))
  BY DEF Receive
<1>2. /\ Len(loaded) \in Nat \ {0} /\ joined \in 1..Len(loaded)
      /\ position \in 1..Len(loaded) /\ position + 1 \in 1..Len(loaded)
  BY DEF FeedInv, FeedTypeOK, Receive
<1>3. old \in Repository /\ new \in Repository /\ held \in Repository /\ shown \in Graph
  BY <1>2, LoadedType DEF FeedInv, FeedTypeOK
<1>4. shown' \in Graph
  BY <1>1, <1>3, DiffType, ApplyType
<1>5. FeedTypeOK'
  BY <1>1, <1>2, <1>4 DEF FeedInv, FeedTypeOK
<1>6. ASSUME NEW c \in Commit
      PROVE  \/ AgreeOnCommit(c, shown', new)
             \/ AgreeOnCommit(c, old, new) /\ AgreeOnCommit(c, shown', shown)
  BY <1>1, <1>3, DeltaOnCommit
<1>7. ASSUME NEW b \in Branch
      PROVE  \/ AgreeOnBranch(b, shown', new)
             \/ AgreeOnBranch(b, old, new) /\ AgreeOnBranch(b, shown', shown)
  BY <1>1, <1>3, DeltaOnBranch
<1>8. CASE position >= joined
  <2>1. shown.commits = old.commits /\ shown.branches = old.branches
    BY <1>2, <1>8 DEF FeedInv, CaughtUp, SameGraph
  <2>2. ASSUME NEW c \in Commit PROVE AgreeOnCommit(c, shown', new)
    BY <1>6, <2>1 DEF AgreeOnCommit
  <2>3. ASSUME NEW b \in Branch PROVE AgreeOnBranch(b, shown', new)
    BY <1>7, <2>1 DEF AgreeOnBranch
  <2>4. SameGraph(shown', new)
    BY <1>3, <1>4, <2>2, <2>3, AgreeEverywhere DEF Graph, Repository
  <2>5. CaughtUp' /\ BetweenTwo'
    BY <1>1, <1>2, <1>8, <2>4 DEF CaughtUp, BetweenTwo
  <2> QED BY <1>5, <2>5 DEF FeedInv
<1>9. CASE position < joined
  <2>1. /\ \A c \in Commit : AgreeOnCommit(c, shown, old) \/ AgreeOnCommit(c, shown, held)
        /\ \A b \in Branch : AgreeOnBranch(b, shown, old) \/ AgreeOnBranch(b, shown, held)
    BY <1>2, <1>9 DEF FeedInv, BetweenTwo
  <2>2. ASSUME NEW c \in Commit
        PROVE  AgreeOnCommit(c, shown', new) \/ AgreeOnCommit(c, shown', held)
    BY <1>6, <2>1 DEF AgreeOnCommit
  <2>3. ASSUME NEW b \in Branch
        PROVE  AgreeOnBranch(b, shown', new) \/ AgreeOnBranch(b, shown', held)
    BY <1>7, <2>1 DEF AgreeOnBranch
  <2>4. CASE position + 1 = joined
    <3>1. SameGraph(shown', new)
      BY <1>3, <1>4, <2>2, <2>3, <2>4, AgreeEverywhere DEF Graph, Repository
    <3>2. CaughtUp' /\ BetweenTwo'
      BY <1>1, <1>2, <2>4, <3>1 DEF CaughtUp, BetweenTwo
    <3> QED BY <1>5, <3>2 DEF FeedInv
  <2>5. CASE position + 1 < joined
    <3>1. CaughtUp'
      BY <1>1, <1>2, <2>5 DEF CaughtUp
    <3>2. BetweenTwo'
      BY <1>1, <2>2, <2>3 DEF BetweenTwo
    <3> QED BY <1>5, <3>1, <3>2 DEF FeedInv
  <2> QED BY <1>2, <1>9, <2>4, <2>5
<1> QED BY <1>2, <1>8, <1>9

(* The inductive invariant.                                                *)
THEOREM FeedInvariant == FeedSpec => []FeedInv
<1>1. FeedInit => FeedInv
  BY InitFeed
<1>2. FeedInv /\ [FeedNext]_feedVars => FeedInv'
  <2> SUFFICES ASSUME FeedInv, [FeedNext]_feedVars PROVE FeedInv'
    OBVIOUS
  <2>1. CASE \E new \in Loadable : Load(new)
    BY <2>1, LoadFeed
  <2>2. CASE \E first \in 1..Len(loaded) : Join(first)
    BY <2>2, JoinFeed
  <2>3. CASE Receive
    BY <2>3, ReceiveFeed
  <2>4. CASE UNCHANGED feedVars
    BY <2>4 DEF feedVars, FeedInv, FeedTypeOK, CaughtUp, BetweenTwo
  <2> QED BY <2>1, <2>2, <2>3, <2>4 DEF FeedNext
<1> QED BY <1>1, <1>2, PTL DEF FeedSpec

(* Whatever the order of loads, joining and deliveries, the variables of   *)
(* the feed have their types: the client's graph is always a graph.        *)
THEOREM FeedTypes == FeedSpec => []FeedTypeOK
<1>1. FeedInv => FeedTypeOK
  BY DEF FeedInv
<1> QED BY <1>1, FeedInvariant, PTL

(* A client that has received as much as its bootstrap held shows exactly  *)
(* what the deltas lead to (updateRepository, sendInitialBootstrap,        *)
(* applyDelta), for every history of repositories.                         *)
THEOREM FeedCatchesUp == FeedSpec => []CaughtUp
<1>1. FeedInv => CaughtUp
  BY DEF FeedInv
<1> QED BY <1>1, FeedInvariant, PTL

(* Before that it never shows a commit or a branch as neither the deltas   *)
(* nor its bootstrap have it.                                              *)
THEOREM FeedBetweenTwo == FeedSpec => []BetweenTwo
<1>1. FeedInv => BetweenTwo
  BY DEF FeedInv
<1> QED BY <1>1, FeedInvariant, PTL
=============================================================================
