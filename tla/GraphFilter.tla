----------------------------- MODULE GraphFilter -----------------------------
(***************************************************************************)
(* Which commits of the graph are dimmed: the predicate that               *)
(* web/graph/filterPredicate.js builds from the search, the structural     *)
(* filters, the isolated lane and the scope settings.  The predicate is    *)
(* built from the controller's maps at one moment; GraphController says    *)
(* when it is built.                                                       *)
(***************************************************************************)
EXTENDS RepositoryDelta, Naturals, Sequences, FiniteSetsExt, Functions

CONSTANTS Parents,       \* the parents of each commit, the first one first
          RemoteBranch,  \* the branches under refs/remotes/
          Matches,       \* the commits whose text the search of the user matches
          Recent,        \* the commits inside the time window
          Trunk,         \* refs/heads/main and refs/heads/master, as the map has them
          NoBranch,      \* no branch is focused
          NoLane,        \* no lane is isolated
          Unlimited      \* depthLimit is Infinity

ASSUME ParentsAssumption == Parents \in [Commit -> Seq(Commit)]
ASSUME FilterAssumption ==
    /\ RemoteBranch \subseteq Branch /\ NoBranch \notin Branch
    /\ Matches \subseteq Commit /\ Recent \subseteq Commit
    /\ Trunk \in Seq(Branch)
    /\ Unlimited \notin Nat

(* What the browser knows of a commit: a lightweight stub of a bootstrap   *)
(* has parents and times only, a full commit has its text as well.         *)
Level == {"stub", "full"}

FilterState == [hideRemotes : BOOLEAN, hideMerges : BOOLEAN, hideStashes : BOOLEAN,
                focusBranch : Branch \cup {NoBranch}]

Scope == [depthLimit : Nat \cup {Unlimited}, timeWindow : BOOLEAN,
          hidden : SUBSET Branch]   \* the branchRules that are false

NoFilter == [hideRemotes |-> FALSE, hideMerges |-> FALSE, hideStashes |-> FALSE,
             focusBranch |-> NoBranch]
NoScope == [depthLimit |-> Unlimited, timeWindow |-> FALSE, hidden |-> {}]

ParentSet(h) == Range(Parents[h])

(* The commits at most n parent edges away from the tips, walking only     *)
(* through commits whose data is known.                                    *)
Within(tips, known, n) ==
    LET ball[k \in 0..n] ==
            IF k = 0 THEN tips
            ELSE LET inner == ball[k - 1]
                 IN  inner \cup UNION {ParentSet(h) : h \in inner \cap known}
    IN  ball[n]

getReachableCommits(tips, known) == Within(tips, known, Cardinality(Commit))

isExclusivelyRemote(h, branches) ==
    LET pointing == {b \in DOMAIN branches : branches[b] = h}
    IN  pointing # {} /\ pointing \subseteq RemoteBranch

(* Stash entries and the index and untracked commits inside them.          *)
StashCommits(stashes, known) ==
    stashes \cup UNION {Range(Tail(Parents[s])) : s \in {t \in stashes \cap known : Parents[t] # <<>>}}

(* A matcher reads the text, which a stub does not have.                   *)
Matcher(h, level) == level = "full" /\ h \in Matches

(* Depth counts from HEAD; without one, from the last of main and master.  *)
DepthStart(g) ==
    LET known == {i \in DOMAIN Trunk : Trunk[i] \in DOMAIN g.branches}
    IN  IF g.head # NoHash THEN {g.head}
        ELSE {g.branches[Trunk[i]] : i \in {k \in known : \A j \in known : j <= k}}

(* buildFilterPredicate applied to a commit node: g is the state the       *)
(* predicate closes over, with the place of each commit that is laid out   *)
(* in g.lanes.  Branch rules speak of HEAD, refs/heads/ and refs/remotes/  *)
(* only; GraphBranches sends no other names.                               *)
Passes(g, h, level) ==
    LET known == DOMAIN g.commits
        focus == IF g.filter.focusBranch \in DOMAIN g.branches
                 THEN {g.branches[g.filter.focusBranch]} ELSE {}
        tips  == {g.branches[b] : b \in DOMAIN g.branches \ g.scope.hidden}
    IN  /\ g.search => Matcher(h, level)
        /\ g.filter.hideRemotes => ~isExclusivelyRemote(h, g.branches)
        /\ g.filter.hideMerges => Len(Parents[h]) <= 1
        /\ g.filter.hideStashes => h \notin g.stashed
        /\ g.filter.focusBranch # NoBranch => h \in getReachableCommits(focus, known)
        /\ g.scope.hidden # {} => h \in getReachableCommits(tips, known)
        /\ g.isolated # NoLane => h \in DOMAIN g.lanes /\ g.lanes[h] = g.isolated
        /\ g.scope.depthLimit # Unlimited =>
               h \in Within(DepthStart(g), known, g.scope.depthLimit)
        /\ g.scope.timeWindow => h \in Recent
=============================================================================
