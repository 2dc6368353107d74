------------------------------- MODULE Front --------------------------------
(***************************************************************************)
(* The parts of the program in which nothing runs concurrently, each by    *)
(* itself: what a command line means, where a command puts things, how     *)
(* records are written and read, and what evidence says of the nodes of a  *)
(* program.  A behaviour is one of one part; the others rest.              *)
(***************************************************************************)
EXTENDS Derivation, RecordCodec, NativePaths, CommandLine

VARIABLE part

frontVars == <<part, evidence, codecVars, pathVars, lineVars>>

\* The parts other than x rest.
Rest(x) ==
    /\ IF x = "progress" THEN TRUE ELSE UNCHANGED evidence
    /\ IF x = "codec"    THEN TRUE ELSE UNCHANGED codecVars
    /\ IF x = "paths"    THEN TRUE ELSE UNCHANGED pathVars
    /\ IF x = "line"     THEN TRUE ELSE UNCHANGED lineVars
    /\ UNCHANGED part

FrontInit ==
    /\ part \in {"progress", "codec", "paths", "line"}
    /\ Init /\ CodecInit /\ PathInit /\ LineInit

FrontNext ==
    \/ part = "progress" /\ Next      /\ Rest("progress")
    \/ part = "codec"    /\ CodecNext /\ Rest("codec")
    \/ part = "paths"    /\ PathNext  /\ Rest("paths")
    \/ part = "line"     /\ LineNext  /\ Rest("line")

FrontSpec == FrontInit /\ [][FrontNext]_frontVars

-----------------------------------------------------------------------------
(* The properties of Derivation, which explains them, guarded by the part.  *)

\* Derivation: the sweep computes the declared status of every node.
SweepIsStatus == part = "progress" => SweepComputesStatus

\* Derivation: what rests on a node that is not satisfied is not satisfied.
SatisfactionIsGrounded == part = "progress" => SatisfiedRestsOnSatisfied

\* Derivation: no evidence revives a decided node.
DecisionsStand == [][part = "progress" => KeepsDecisions]_evidence

=============================================================================
