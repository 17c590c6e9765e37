-------------------------- MODULE MCGraphController --------------------------
EXTENDS GraphController

CONSTANTS c1, c2, c3, c4, c5, main, remote, v1

(* c4 is a stash made on c2, with the index c3; c5 is a commit on c2. *)
Graph5 == c1 :> <<>> @@ c2 :> <<c1>> @@ c3 :> <<c2>> @@ c4 :> <<c2, c3>> @@ c5 :> <<c2>>
Line4 == c1 :> <<>> @@ c2 :> <<c1>> @@ c3 :> <<c2>> @@ c4 :> <<c3>>

Order5 == <<c5, c4, c3, c2, c1>>
Order4 == <<c4, c3, c2, c1>>

Repo(commits, branches, head) ==
    [commits |-> commits, branches |-> branches, head |-> head, headRef |-> NoRef,
     tags |-> (v1 :> c1), stashes |-> {}]

(* A large repository and what becomes of it: a commit more, and the       *)
(* newest commits gone.                                                    *)
Grows == {Repo({c1, c2, c3}, main :> c3, c3), Repo({c1, c2, c3, c4}, main :> c4, c4),
          Repo({c1, c2}, main :> c2, c2)}
Fewer == {Repo({c1, c2, c3}, main :> c3, c3), Repo({c1, c2}, main :> c2, c2)}
Fixed4 == {Repo({c1, c2, c3, c4}, main :> c4, c4)}

TagMaps == {<<>>, v1 :> c1, v1 :> c2}
NoTag == <<>>
StashLists == {{}, {c4}}
NoStash == {}
OnMain == <<main>>

(* The index commit of the stash has a lane of its own, which may be       *)
(* dragged; the others are on the main lane.                               *)
SomePlaces == {-1, 0, 1}
Arrange5(lanes, commits) ==
    [h \in commits |-> IF h # c3 THEN 0 ELSE IF h \in DOMAIN lanes THEN lanes[h] ELSE 1]
Layouts5 == {[h \in commits |-> IF h = c3 THEN place ELSE 0] : commits \in SUBSET Commit, place \in {-1, 1}}

NoPlaces == {}
Arrange4(lanes, commits) == [h \in commits |-> 0]
Layouts4 == {Arrange4(<<>>, commits) : commits \in SUBSET Commit}

(* A small repository with a stash and a remote branch, and what a commit  *)
(* and a push make of it.                                                  *)
Views == {[Repo({c1, c2, c3, c4}, main :> c2 @@ remote :> c1, c2) EXCEPT !.stashes = {c4}],
          [Repo({c1, c2, c3, c4, c5}, main :> c5 @@ remote :> c2, c5)
              EXCEPT !.stashes = {c4}, !.tags = (v1 :> c2)]}

SomeFilters == {NoFilter,
                [NoFilter EXCEPT !.focusBranch = main, !.hideStashes = TRUE, !.hideRemotes = TRUE]}
SomeScopes == {NoScope,
               [depthLimit |-> 1, timeWindow |-> TRUE, hidden |-> {remote}]}

(* The canvas is small when the page opens; its other height comes with a  *)
(* resize.                                                                 *)
SmallInit == Init /\ ctl.height = 4
SmallSpec == SmallInit /\ [][Next]_vars

AllFilters == {NoFilter}
AllScopes == {NoScope}
=============================================================================
