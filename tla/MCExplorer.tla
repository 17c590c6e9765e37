------------------------------ MODULE MCExplorer ------------------------------
(* Two commits of one directory and one file each, and the statuses and    *)
(* names the runs of Explorer use.                                         *)
EXTENDS Explorer

CONSTANTS c1, c2, d, f, g

Dir(name, tree) == [name |-> name, dir |-> TRUE, hash |-> tree]
File(name, blob) == [name |-> name, dir |-> FALSE, hash |-> blob]

TwoRoots == (c1 :> "t1") @@ (c2 :> "t2")
TwoTrees == ("t1" :> <<Dir(d, "x1"), File(f, "b1")>>) @@ ("t2" :> <<Dir(d, "x2"), File(f, "b2")>>)
            @@ ("x1" :> <<File(g, "b3")>>) @@ ("x2" :> <<File(g, "b4")>>)
Changed == (c1 :> {<<f>>}) @@ (c2 :> {<<f>>})
InDir == <<d, g>>
SomeStatuses == {CleanStatus, [staged |-> {InDir}, modified |-> {InDir}, untracked |-> {}]}
Nowhere == <<>>
===============================================================================
