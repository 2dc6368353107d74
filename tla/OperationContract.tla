-------------------------- MODULE OperationContract --------------------------
(***************************************************************************)
(* What one effectful operation promises, however often its controller     *)
(* crashes, restarts or loses its lease: the physical steps happen in      *)
(* program order and none of them twice, a step starts only when the one   *)
(* before it succeeded, the verdict is reached once, and it is honest.     *)
(*                                                                         *)
(* Step 1 .. Steps - 1 are lifecycle programs and the package application; *)
(* the last step is the publication of the canonical state.                *)
(***************************************************************************)
EXTENDS Integers

CONSTANT Steps

VARIABLES begun, succeeded, verdict

Init == begun = 0 /\ succeeded = 0 /\ verdict = "open"

\* A step begins once its predecessor succeeded; it may succeed in the same
\* instant, and publication does not begin without succeeding.
Begin ==
    /\ verdict = "open"
    /\ begun = succeeded /\ begun < Steps
    /\ begun' = begun + 1
    /\ succeeded' \in {succeeded, begun + 1}
    /\ begun' = Steps => succeeded' = Steps
    /\ UNCHANGED verdict

\* An application that was interrupted succeeds later, without a second begin.
Succeed ==
    /\ verdict = "open"
    /\ begun = succeeded + 1
    /\ succeeded' = begun
    /\ UNCHANGED <<begun, verdict>>

\* "completed" means published, "failed" means not published; only a lost lease
\* leaves that open.
Decide ==
    /\ verdict = "open"
    /\ verdict' \in {"completed", "failed", "lost"}
    /\ verdict' = "completed" => succeeded = Steps
    /\ verdict' = "failed" => begun < Steps
    /\ UNCHANGED <<begun, succeeded>>

Next == Begin \/ Succeed \/ Decide

Spec == Init /\ [][Next]_<<begun, succeeded, verdict>>

=============================================================================
