------------------------------ MODULE LiveFeed ------------------------------
(***************************************************************************)
(* What a session promises a browser that joins while it is running: the   *)
(* abstract counterpart of RepoSession, without locks, queues or lost      *)
(* messages. The session loads one repository after another. A client that *)
(* joins is given all of the latest one (sendInitialBootstrap) and then    *)
(* every delta from some earlier one on: those still queued at that moment *)
(* repeat, delta by delta, what its bootstrap held already, and take its   *)
(* graph back to the past before they bring it forward again.              *)
(***************************************************************************)
EXTENDS RepositoryDelta, Naturals, Sequences

CONSTANTS Loadable,   \* repositories that may be loaded
          MaxLoads    \* bound on how many are

ASSUME LoadableAssumption == Loadable \subseteq Repository
ASSUME MaxLoadsAssumption == MaxLoads \in Nat \ {0}

VARIABLES loaded,     \* the repositories loaded so far
          joined,     \* which of them the client was bootstrapped from; 0: none yet
          position,   \* the one that the deltas it was sent lead to
          shown       \* the graph it shows

feedVars == <<loaded, joined, position, shown>>

(* A registered client was sent the bootstrap as deltas from nothing.      *)
Bootstrap(repo) ==
    applyDelta(GraphOf(EmptyRepository), DiffRepositories(repo, EmptyRepository))

FeedInit == /\ \E repo \in Loadable : loaded = <<repo>>
            /\ joined = 0
            /\ position = 0
            /\ shown = GraphOf(EmptyRepository)

Load(new) == /\ Len(loaded) < MaxLoads
             /\ loaded' = Append(loaded, new)
             /\ UNCHANGED <<joined, position, shown>>

(* The deltas that lead on from the one at first are still queued.         *)
Join(first) == /\ joined = 0
               /\ joined' = Len(loaded)
               /\ position' = first
               /\ shown' = Bootstrap(loaded[Len(loaded)])
               /\ UNCHANGED loaded

Receive == /\ joined > 0
           /\ position < Len(loaded)
           /\ position' = position + 1
           /\ shown' = applyDelta(shown, DiffRepositories(loaded[position + 1], loaded[position]))
           /\ UNCHANGED <<loaded, joined>>

FeedNext == \/ \E new \in Loadable : Load(new)
            \/ \E first \in 1..Len(loaded) : Join(first)
            \/ Receive

FeedSpec == FeedInit /\ [][FeedNext]_feedVars
-----------------------------------------------------------------------------
FeedTypeOK == /\ loaded \in Seq(Loadable) /\ Len(loaded) \in Nat \ {0}
              /\ joined \in 0..Len(loaded)
              /\ position \in 0..Len(loaded)
              /\ (joined = 0) = (position = 0)
              /\ shown \in Graph

(* A client that has received as much as its bootstrap held shows exactly  *)
(* the commits and branches the deltas it was sent lead to.                *)
CaughtUp == (joined > 0 /\ position >= joined) => SameGraph(shown, loaded[position])

(* Until then each commit and each branch is, on its own, as it is in the  *)
(* repository the deltas have reached, or as the bootstrap had it: an old  *)
(* delta never shows what neither of the two held. This is what makes      *)
(* CaughtUp inductive.                                                     *)
BetweenTwo ==
    (joined > 0 /\ position < joined) =>
        /\ \A c \in Commit : \/ AgreeOnCommit(c, shown, loaded[position])
                            \/ AgreeOnCommit(c, shown, loaded[joined])
        /\ \A b \in Branch : \/ AgreeOnBranch(b, shown, loaded[position])
                            \/ AgreeOnBranch(b, shown, loaded[joined])

FeedInv == FeedTypeOK /\ CaughtUp /\ BetweenTwo
=============================================================================
