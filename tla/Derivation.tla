----------------------------- MODULE Derivation -----------------------------
(***************************************************************************)
(* transaction_progress as a state machine (src/progression.cpp): terminal *)
(* evidence is admitted for one ready unit at a time, and after each       *)
(* admission every node status is derived again by sweeping the units in   *)
(* identity order, in place, until a sweep changes nothing.                *)
(*                                                                         *)
(* Sweep is that loop; Status (Progression) says what it should compute,   *)
(* as sets and one least fixpoint.  The two are compared in every          *)
(* reachable state.                                                        *)
(***************************************************************************)
EXTENDS Progression, TLC

CONSTANT Order  \* the units in identity order

ASSUME OrderAssumption ==
    /\ Order \in Seq(Units) /\ Len(Order) = Cardinality(Units)
    /\ Range(Order) = Units

\* A lifecycle node stands once in the phases of its operation: a repeated one
\* is refused, and none both precedes and follows the action.
ASSUME PhaseAssumption ==
    \A o \in Operations : IsInjective(Before[o]) /\ IsInjective(After[o])
                         /\ Range(Before[o]) \cap Range(After[o]) = {}

VARIABLE evidence

\* What the evidence alone says; a failed operation blocks the members it cut off.
Assigned(ev) ==
    [n \in Nodes |->
        IF n \in Retained THEN "satisfied"
        ELSE LET u == Owner(n) IN
             CASE ev[u] = None                       -> "pending"
               [] ev[u] # None /\ Succeeded(ev[u])   -> "satisfied"
               [] OTHER ->
                    IF n = u THEN "failed"
                    ELSE CASE n \in Returned(u, ev[u], TRUE)  -> "satisfied"
                           [] n \in Returned(u, ev[u], FALSE) -> "failed"
                           [] OTHER                           -> "blocked"]

\* A slip in Derived.
ReadyUnlessBlocked(state, u) ==
    IF {state[n] : n \in External(u)} \cap {"failed", "blocked"} # {} THEN "blocked" ELSE "ready"

Derived(state, u) ==
    LET statuses == {state[n] : n \in External(u)} IN
    CASE statuses \cap {"failed", "blocked"} # {} -> "blocked"
      [] statuses \subseteq {"satisfied"}         -> "ready"
      [] OTHER                                    -> "pending"

\* A slip in Visit.
VisitPrimaryOnly(state, u) ==
    IF state[u] \in {"satisfied", "failed"} THEN state
    ELSE LET status == Derived(state, u) IN [state EXCEPT ![u] = status]

\* One unit of a sweep: decided units are skipped, others give every member
\* the status their external predecessors imply now.
Visit(state, u) ==
    IF state[u] \in {"satisfied", "failed"} THEN state
    ELSE LET status == Derived(state, u) IN [n \in Nodes |-> IF n \in Members(u) THEN status ELSE state[n]]

SweepFrom(start) ==
    LET after[k \in 0..Len(Order)] ==
            IF k = 0 THEN start ELSE Visit(after[k - 1], Order[k])
    IN  after[Len(Order)]

Statuses == {"pending", "ready", "satisfied", "failed", "blocked"}

\* The code sweeps until nothing changes.
DerivedStatus(ev) ==
    LET settle[state \in [Nodes -> Statuses]] ==
            LET next == SweepFrom(state) IN IF next = state THEN state ELSE settle[next]
    IN  settle[Assigned(ev)]

-----------------------------------------------------------------------------
Init == evidence = [u \in Units |-> None]

ReadyNow(u) == evidence[u] = None /\ DerivedStatus(evidence)[u] = "ready"

\* A slip in Admit.
AdmitForgettingOthers(u, result) ==
    evidence' = [v \in Units |-> IF v = u THEN result ELSE None]

Admit(u, result) == evidence' = [evidence EXCEPT ![u] = result]

AdvanceConstruction(u, result) ==
    /\ u \in Constructions
    /\ ReadyNow(u)
    /\ Admit(u, result)

AdvanceCheck(u, result) ==
    /\ u \in Checks
    /\ ReadyNow(u)
    /\ evidence[BuildOf[u]] # None /\ Succeeded(evidence[BuildOf[u]])
    /\ Admit(u, result)

AdvanceEffect(u, result) ==
    /\ u \in Operations
    /\ ReadyNow(u)
    /\ result.outcome \in DefinitiveFailure \cup {"completed"}
    /\ Admit(u, result)

Next ==
    \E u \in Units : ReadyNow(u) /\ \E result \in Results(u) :
        AdvanceConstruction(u, result) \/ AdvanceCheck(u, result) \/ AdvanceEffect(u, result)

Spec == Init /\ [][Next]_evidence

-----------------------------------------------------------------------------
(***************************************************************************)
(* The in-place loop of derive_statuses comes to rest on the declared      *)
(* status of every node: late units visited first, and units whose         *)
(* lifecycle nodes order them both ways, leave no stale "pending" behind.  *)
(***************************************************************************)
SweepComputesStatus ==
    LET derived == DerivedStatus(evidence) IN
    \A n \in Nodes : derived[n] = Status(evidence, n)

(***************************************************************************)
(* Satisfied, failed and blocked are final: no later evidence revives a    *)
(* blocked node or undoes a decided one, whatever unit it is admitted for. *)
(***************************************************************************)
KeepsDecisions ==
    LET old == DerivedStatus(evidence)
        new == DerivedStatus(evidence')
    IN  \A n \in Nodes : old[n] \in {"satisfied", "failed", "blocked"} => new[n] = old[n]

(***************************************************************************)
(* Success and failure exclude each other per unit, and a unit that        *)
(* succeeded had every external predecessor satisfied: no node is          *)
(* satisfied on top of a failed or blocked one, except a lifecycle node    *)
(* that ran before its own operation failed.                               *)
(***************************************************************************)
SatisfiedRestsOnSatisfied ==
    LET status == DerivedStatus(evidence) IN
    \A u \in Units : \A n \in Members(u) :
        status[n] = "satisfied" => \A m \in External(u) : status[m] = "satisfied"

=============================================================================
