----------------------------- MODULE Progression -----------------------------
(***************************************************************************)
(* The transaction graph and what is known about it: realization units,    *)
(* terminal evidence, and the status every node derives from the evidence. *)
(* Pure definitions; src/progression.cpp keeps no state of its own, every  *)
(* transaction_progress is rebuilt from its evidence.                      *)
(*                                                                         *)
(* A unit is named by its primary node.  A construction or a check is one  *)
(* node; an operation absorbs the lifecycle nodes that run before and      *)
(* after its target action.  The program itself (nodes, edges, phases) is  *)
(* composed outside this repository and is a parameter here.               *)
(***************************************************************************)
EXTENDS Integers, Sequences, FiniteSets, Functions

CONSTANTS
    Constructions,  \* primary nodes of construction units (build actions)
    Checks,         \* primary nodes of check units
    Operations,     \* primary nodes of operation units (install, upgrade, remove)
    Retained,       \* retain nodes: satisfied from the start
    Before,         \* [Operations -> Seq(lifecycle nodes)]: order before the action
    After,          \* [Operations -> Seq(lifecycle nodes)]: order after the action
    Edges,          \* the program's edges, a set of pairs <<before, after>>
    BuildOf,        \* [Checks -> Constructions]: the build a check examines
    Sessions,       \* identities of admitted attempt sessions
    None            \* the absent optional

Units == Constructions \cup Checks \cup Operations

Lifecycle(o) == Range(Before[o]) \cup Range(After[o])

Members(u) == IF u \in Operations THEN {u} \cup Lifecycle(u) ELSE {u}

Nodes == Retained \cup UNION {Members(u) : u \in Units}

\* Predecessors outside the unit: edges inside an operation order its own phases.
External(u) == {n \in Nodes \ Members(u) : \E m \in Members(u) : <<n, m>> \in Edges}

(***************************************************************************)
(* Units partition the non-retained nodes: units() refuses a lifecycle     *)
(* node that belongs to two operations, and a phase of an operation has    *)
(* lifecycle nodes only, never its action.  Every check has its build as   *)
(* an external predecessor.                                                *)
(***************************************************************************)
ASSUME ProgramAssumption ==
    /\ Constructions \cap Checks = {}
    /\ Constructions \cap Operations = {}
    /\ Checks \cap Operations = {}
    /\ Retained \cap UNION {Members(u) : u \in Units} = {}
    /\ \A u, v \in Units : u # v => Members(u) \cap Members(v) = {}
    /\ BuildOf \in [Checks -> Constructions]
    /\ \A c \in Checks : <<BuildOf[c], c>> \in Edges
    /\ \A o \in Operations : Before[o] \in Seq(Nodes) /\ After[o] \in Seq(Nodes)
    /\ \A o \in Operations : o \notin Lifecycle(o)
    /\ None \notin Sessions

(***************************************************************************)
(* Outcomes.  An operation result also carries the lifecycle results of    *)
(* its two phases, as the sequence of their success flags.                 *)
(***************************************************************************)
DefinitiveFailure ==
    {"lifecycle_failed_before_application", "application_not_completed",
     "lifecycle_failed_after_application", "state_publication_not_completed"}

UncertainOutcomes ==
    {"outer_lease_lost", "state_publication_indeterminate",
     "application_resolution_required"}

AllPassed(s) == [i \in DOMAIN s |-> TRUE]

FailedLast(s) == {[i \in 1..k |-> i < k] : k \in DOMAIN s}

UnitResults(u) ==
    {[session |-> s, outcome |-> o, before |-> <<>>, after |-> <<>>] :
        s \in Sessions, o \in {"succeeded", "failed"}}

OperationResults(o) ==
    LET Result(outcomes, befores, afters) ==
            {[session |-> s, outcome |-> x, before |-> b, after |-> a] :
                s \in Sessions, x \in outcomes, b \in befores, a \in afters}
        allBefore == {AllPassed(Before[o])}
        allAfter  == {AllPassed(After[o])}
    IN  UNION {
          Result({"completed", "state_publication_not_completed"}, allBefore, allAfter),
          Result({"lifecycle_failed_before_application"}, FailedLast(Before[o]), {<<>>}),
          Result({"application_not_completed"}, allBefore, {<<>>}),
          Result({"lifecycle_failed_after_application"}, allBefore, FailedLast(After[o])) }

Results(u) == IF u \in Operations THEN OperationResults(u) ELSE UnitResults(u)

Succeeded(result) == result.outcome \in {"succeeded", "completed"}

AllResults == UNION {Results(u) : u \in Units}

ASSUME ResultAssumption == None \notin AllResults

-----------------------------------------------------------------------------
(***************************************************************************)
(* Node status as a function of the evidence ev \in [Units -> result or    *)
(* None].                                                                  *)
(***************************************************************************)
Evidenced(ev) == {u \in Units : ev[u] # None}
Idle(ev)      == {u \in Units : ev[u] = None}

EvidenceType(ev) ==
    /\ ev \in [Units -> AllResults \cup {None}]
    /\ \A u \in Evidenced(ev) : ev[u] \in Results(u)

FailedUnits(ev) == {u \in Evidenced(ev) : ~Succeeded(ev[u])}

\* Lifecycle members of a failed operation keep the result they returned.
Returned(o, result, flag) ==
    {Before[o][i] : i \in {k \in DOMAIN result.before : result.before[k] = flag}}
        \cup {After[o][i] : i \in {k \in DOMAIN result.after : result.after[k] = flag}}

SatisfiedBy(u, result) ==
    IF Succeeded(result) THEN Members(u)
    ELSE IF u \in Operations THEN Returned(u, result, TRUE) ELSE {}

SatisfiedNodes(ev) ==
    Retained \cup UNION {SatisfiedBy(u, ev[u]) : u \in Evidenced(ev)}

FailedNodes(ev) ==
    FailedUnits(ev)
        \cup UNION {Returned(u, ev[u], FALSE) : u \in FailedUnits(ev) \cap Operations}

\* Members of a failed operation that never ran.
CutOffNodes(ev) ==
    (UNION {Members(u) : u \in FailedUnits(ev)}) \ (SatisfiedNodes(ev) \cup FailedNodes(ev))

ReadyUnits(ev) == {u \in Idle(ev) : External(u) \subseteq SatisfiedNodes(ev)}

(***************************************************************************)
(* A unit without evidence is blocked when a failure reaches it through    *)
(* external predecessors: the least set closed under that step.            *)
(***************************************************************************)
BlockedClosed(ev, S) ==
    \A u \in Idle(ev) :
        \/ External(u) \cap (FailedNodes(ev) \cup CutOffNodes(ev)) # {}
        \/ \E v \in S : External(u) \cap Members(v) # {}
        => u \in S

BlockedUnits(ev) ==
    {u \in Idle(ev) : \A S \in SUBSET Idle(ev) : BlockedClosed(ev, S) => u \in S}

Owner(n) == CHOOSE u \in Units : n \in Members(u)

Status(ev, n) ==
    CASE n \in SatisfiedNodes(ev) -> "satisfied"
      [] n \in FailedNodes(ev)    -> "failed"
      [] n \in CutOffNodes(ev)    -> "blocked"
      [] OTHER -> IF Owner(n) \in BlockedUnits(ev) THEN "blocked"
                  ELSE IF Owner(n) \in ReadyUnits(ev) THEN "ready" ELSE "pending"

Complete(ev) == Nodes \subseteq SatisfiedNodes(ev)
Failed(ev)   == FailedNodes(ev) # {}

=============================================================================
