----------------------------- MODULE MCRunDrive -----------------------------
(***************************************************************************)
(* A build, the check of what it built, and the operation that installs    *)
(* it, driven from one durable run.                                        *)
(***************************************************************************)
EXTENDS RunDrive, TLC

CONSTANTS b1, c1, o1, r1

MCConstructions == {b1}
MCChecks     == {c1}
MCOperations == {o1}
MCRetained   == {r1}
MCBefore  == (o1 :> <<>>)
MCAfter   == (o1 :> <<>>)
MCEdges   == {<<r1, b1>>, <<b1, c1>>, <<c1, o1>>}
MCBuildOf == (c1 :> b1)
MCRank    == (o1 :> 1) @@ (c1 :> 2) @@ (b1 :> 3)

\* The same program without the check.
NoChecks     == {}
PairEdges    == {<<r1, b1>>, <<b1, o1>>}
PairBuildOf  == [c \in {} |-> b1]
PairRank     == (o1 :> 1) @@ (b1 :> 2)

ControllerSymmetry == Permutations(Controllers) \cup Permutations(Sessions)

=============================================================================
