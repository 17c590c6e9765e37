-------------------------------- MODULE MCViews --------------------------------
(* The graphs of MCLaneStrategy, and a few histories of three commits for  *)
(* the analytics view: a merge, two commits of one time, one in a week to  *)
(* come, files touched again soon, late and at once.                       *)
EXTENDS MCLaneStrategy, Views

CONSTANTS k1, k2, k3, k4, ann, bob, x, y

Made(when, author, merge, files) == [when |-> when, author |-> author, merge |-> merge, files |-> files]
Three(first, second, third) == (k1 :> first) @@ (k2 :> second) @@ (k3 :> third)

Grown == Three(Made(2, ann, FALSE, {x}), Made(5, bob, FALSE, {x, y}), Made(5, ann, TRUE, {y}))
Amended == [h \in {k1, k3} |-> Grown[h]] @@ (k4 :> Made(9, bob, FALSE, {y}))
Late == Three(Made(1, ann, FALSE, {x}), Made(4, ann, FALSE, {x, y}), Made(6, bob, FALSE, {x}))
AtOnce == Three(Made(4, bob, FALSE, {y}), Made(4, bob, FALSE, {y}), Made(7, ann, FALSE, {y, x}))
SomeHistories == {<<Grown, Amended>>, <<Late>>, <<AtOnce>>}

SomeCutoffs == ("All" :> 0) @@ ("3m" :> 4)
SomeLimits == <<1>>
===============================================================================
