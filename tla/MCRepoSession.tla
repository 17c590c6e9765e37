--------------------------- MODULE MCRepoSession ---------------------------
(***************************************************************************)
(* Small instances of RepoSession: a repository with a commit on main, and *)
(* what Git may turn it into.                                              *)
(***************************************************************************)
EXTENDS RepoSession, TLC

CONSTANTS a, b, c1,                \* commits
          main, dev,               \* branches
          t1, t2                   \* working trees

Repo(commits, branches, head, tags) ==
    [commits |-> commits, branches |-> branches, head |-> head,
     headRef |-> "main", tags |-> tags, stashes |-> "none"]

First == Repo({a}, [x \in {main} |-> a], a, "none")
(* a commit on main, and a branch left behind at the first one *)
Committed == Repo({a, b}, [x \in {main, dev} |-> IF x = main THEN b ELSE a], b, "none")
(* the commit amended, the branch deleted *)
Amended == Repo({a, c1}, [x \in {main} |-> c1], c1, "none")
(* the first one with a tag *)
Tagged == [First EXCEPT !.tags = "v1"]

AllCommits == {a, b, c1}
AllBranches == {main, dev}
History == {First, Committed, Amended}
OneTree == {t1}
TwoTrees == {t1, t2}
TagOnly == {First, Tagged}
OneRepo == {First}
Commits2 == {First, Committed}
Rewritten == {Committed, Amended}
NoPeriods == <<>>
OnePeriod == <<"all">>
TagValues == {"none", "v1"}
StashValues == {"none"}
HeadRefs == {"none", "main"}
StatusRead == {"read"}
StatusFails == {"failed"}        \* a bare repository
StatusEither == {"read", "failed"}
RequestSymmetry == Permutations(Request)
CallbackSymmetry == Permutations(Callback)
=============================================================================
