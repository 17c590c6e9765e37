--------------------------- MODULE MCLaneStrategy ---------------------------
(***************************************************************************)
(* Small graphs for LaneStrategy.                                          *)
(***************************************************************************)
EXTENDS LaneStrategy

Heads(label, rank) == [ns |-> "heads", label |-> label, tail |-> label, rank |-> rank]
Remotes(label, rank) == [ns |-> "remotes", label |-> label, tail |-> label, rank |-> rank]
Main == Heads("main", 2)
Dev == Heads("dev", 1)
OriginMain == Remotes("main", 2)
At(name, h) == [name |-> name, hash |-> h]
NoText(S) == [h \in S |-> ""]

Graph(parents, time, branches, stashes) ==
    LET S == DOMAIN parents
    IN  [commits |-> S, parents |-> parents, time |-> time, branches |-> branches,
         stashes |-> stashes, label |-> NoText(S), merged |-> NoText(S), note |-> NoText(S)]

(* 1 - 2 - 5 on main, 3 - 4 merged by 5 and no ref left on it; 4 was       *)
(* written on a machine whose clock was behind                             *)
Merged == Graph(<< <<>>, <<1>>, <<1>>, <<3>>, <<2, 4>> >>, <<1, 2, 3, 1, 4>>,
                <<At(Main, 5)>>, {})
(* main and dev and a commit on neither                                    *)
Forked == Graph(<< <<>>, <<1>>, <<1>>, <<1>>, <<3>> >>, <<1, 2, 3, 4, 4>>,
                <<At(Dev, 3), At(Main, 2)>>, {})
(* the same, dev having moved on                                           *)
DevMoved == [Forked EXCEPT !.branches = <<At(Dev, 5), At(Main, 2)>>]
(* 4 is a stash of 2, 3 its index commit                                   *)
Stashed == [Graph(<< <<>>, <<1>>, <<2>>, <<2, 3>> >>, <<1, 2, 3, 3>>,
                  <<At(Dev, 1), At(Main, 2)>>, {4}) EXCEPT !.note[3] = "index on main"]
(* the histories of gh-pages (3 - 4) and main (1 - 2) are unrelated        *)
Unrelated == Graph(<< <<>>, <<1>>, <<>>, <<3>> >>, <<1, 2, 3, 4>>,
                   <<At(Main, 2), At(Heads("pages", 3), 4)>>, {})
(* main and origin/main diverged                                           *)
Diverged == Graph(<< <<>>, <<1>>, <<1>>, <<1>> >>, <<1, 2, 3, 4>>,
                  <<At(Main, 2), At(OriginMain, 3), At(Dev, 4)>>, {})
(* 1 - 4 - 6 on main; 4 merges 2 - 3, written at once, and 5 is on top of  *)
(* 3 and on no branch                                                      *)
Expected == Graph(<< <<>>, <<1>>, <<2>>, <<1, 3>>, <<3>>, <<4>> >>, <<1, 2, 2, 4, 5, 6>>,
                  <<At(Main, 6)>>, {})
(* no branch at all                                                        *)
Detached == Graph(<< <<>>, <<1>>, <<1, 2>> >>, <<1, 1, 1>>, <<>>, {})

(* All histories of four commits with up to two parents each, main at the  *)
(* last commit, or at the third with dev at the last, or no branch at all; *)
(* written one after the other or three at once.                           *)
ParentLists(i) == {<<>>} \cup {<<p>> : p \in 1 .. i - 1}
                        \cup {q \in (1 .. i - 1) \X (1 .. i - 1) : q[1] # q[2]}
FourCommits == {<< <<>>, p2, p3, p4 >> :
                 p2 \in ParentLists(2), p3 \in ParentLists(3), p4 \in ParentLists(4)}
Refs == {<<>>, <<At(Main, 4)>>, <<At(Main, 3), At(Dev, 4)>>}
Dags == {Graph(h, t, r, {}) : h \in FourCommits, t \in {<<1, 2, 3, 4>>, <<1, 1, 1, 2>>}, r \in Refs}

Curated == {Merged, Forked, DevMoved, Stashed, Unrelated, Detached}
CuratedChanges == {<<Forked, DevMoved>>, <<DevMoved, Forked>>, <<Forked, Merged>>,
                   <<Unrelated, Forked>>, <<Forked, Unrelated>>}
DistinctLabels == Dags \cup Curated
Refuting == {Diverged, Expected}
NoChanges == {}
Drags == {-2, -1, 1, 2}
=============================================================================
