------------------------------ MODULE MCEffect ------------------------------
(***************************************************************************)
(* Small instances of the effect attempt.  The bounds of each run are in   *)
(* its cfg; controllers are interchangeable.                               *)
(***************************************************************************)
EXTENDS EffectAttempt, TLC

ControllerSymmetry == Permutations(Controllers)

=============================================================================
