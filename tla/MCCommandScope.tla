--------------------------- MODULE MCCommandScope ---------------------------
(***************************************************************************)
(* A build, the check of what it built, and the operation that installs    *)
(* it; or an operation, the build that needs what it installed, and an     *)
(* operation with a script.                                                *)
(***************************************************************************)
EXTENDS CommandScope, TLC

CONSTANTS b1, c1, o1, o2, r1, n1

MCConstructions == {b1}
MCChecks     == {c1}
MCOperations == {o1}
MCRetained   == {r1}
MCBefore  == (o1 :> <<n1>>)
MCAfter   == (o1 :> <<>>)
MCEdges   == {<<r1, b1>>, <<b1, c1>>, <<c1, n1>>}
MCBuildOf == (c1 :> b1)
MCRank    == (o1 :> 1) @@ (c1 :> 2) @@ (b1 :> 3)

NoChecks     == {}
LaterOperations == {o1, o2}
LaterBefore  == (o1 :> <<>>) @@ (o2 :> <<n1>>)
LaterAfter   == (o1 :> <<>>) @@ (o2 :> <<>>)
LaterEdges   == {<<r1, o1>>, <<o1, b1>>, <<b1, n1>>}
LaterBuildOf == [c \in {} |-> b1]
LaterRank    == (o1 :> 1) @@ (b1 :> 2) @@ (o2 :> 3)

=============================================================================
