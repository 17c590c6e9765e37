----------------------------- MODULE MCLiveFeed -----------------------------
(* Every repository over two commits and one branch. *)
EXTENDS LiveFeed

CONSTANTS a, b, main

AllCommits == {a, b}
AllBranches == {main}
OneValue == {"none"}
AllRepos == {r \in Repository : r.head = a}
=============================================================================
