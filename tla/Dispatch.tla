------------------------------ MODULE Dispatch ------------------------------
(***************************************************************************)
(* The dispatch ledger of one transaction run (src/dispatch.cpp): which    *)
(* ready unit was reserved under which nonce, which attempt session was    *)
(* bound to it before execution, and which terminal evidence retired it.   *)
(*                                                                         *)
(* Every operation of the ledger is a pure function from a run to a run;   *)
(* the code validates each run it builds (validate_run_records) and each   *)
(* run it restores (validate_rehydrated_run_history).  Those two checks    *)
(* are no guard here: they are stated as invariants, so that what is       *)
(* checked is that no legal sequence of calls ever meets their refusal.    *)
(***************************************************************************)
EXTENDS Progression

CONSTANTS
    Nonces,                \* dispatch nonces the controller may draw
    Rank,                  \* [Units -> Nat]: the order of the primary identities
    ConstructionCapacity,  \* policy: constructions active at once
    CheckCapacity,         \* policy: checks active at once
    RetainedInputs,        \* [Constructions -> SUBSET Retained]: inputs already installed
    Rewrites,              \* [Operations -> SUBSET Retained]: packages an operation replaces
    MaxReleases            \* bound: reservations given back without a start

ASSUME DispatchAssumption ==
    /\ ConstructionCapacity \in Nat \ {0}
    /\ CheckCapacity \in Nat \ {0}
    /\ Rank \in [Units -> Nat]
    /\ \A u, v \in Units : Rank[u] = Rank[v] => u = v
    /\ MaxReleases \in Nat

VARIABLES
    evidence,  \* [Units -> terminal result or None]
    epoch,     \* the current canonical state, as the operations published into it
    ledger     \* Seq of dispatch records

vars == <<evidence, epoch, ledger>>

Phases == {"reserved", "started", "completed", "released"}

\* Mutants (only used to show that the properties can fail): each is a slip a
\* change to the code could make, and stands before the definition it replaces.
ActiveOnlyReserved(record) == record.phase = "reserved"

Active(record) == record.phase \in {"reserved", "started"}

ActiveUnits == {ledger[i].unit : i \in {k \in DOMAIN ledger : Active(ledger[k])}}

\* Retained predecessors carry no evidence; a lifecycle node's is its operation's.
Dependencies(ev, u) == [n \in External(u) \ Retained |-> ev[Owner(n)]]

KindOf(u) == CASE u \in Constructions -> Constructions
               [] u \in Checks        -> Checks
               [] OTHER               -> Operations

TwoOperationLanes(u) == CASE u \in Constructions -> ConstructionCapacity
                          [] u \in Checks        -> CheckCapacity
                          [] OTHER               -> 2

Capacity(u) == CASE u \in Constructions -> ConstructionCapacity
                 [] u \in Checks        -> CheckCapacity
                 [] OTHER               -> 1

ActiveOfKind(u) ==
    {k \in DOMAIN ledger : Active(ledger[k]) /\ ledger[k].unit \in KindOf(u)}

CapacityOffByOne(u) == Cardinality(ActiveOfKind(u)) <= Capacity(u)

CapacityAvailable(u) == Cardinality(ActiveOfKind(u)) < Capacity(u)

OverlapsRecorded(u) == \E i \in DOMAIN ledger : Members(u) \cap Members(ledger[i].unit) # {}

OverlapsActive(u) == \E v \in ActiveUnits : Members(u) \cap Members(v) # {}

Stopped == Failed(evidence)

Init ==
    /\ evidence = [u \in Units |-> None]
    /\ epoch = {}
    /\ ledger = <<>>

-----------------------------------------------------------------------------
Eligible == {u \in ReadyUnits(evidence) : CapacityAvailable(u) /\ ~OverlapsActive(u)}

NonceUsed(nonce) == \E i \in DOMAIN ledger : ledger[i].nonce = nonce

Reservation(u, nonce) ==
    [unit |-> u, nonce |-> nonce, reservedFrom |-> evidence, reservedState |-> epoch,
     dependencies |-> Dependencies(evidence, u),
     phase |-> "reserved", session |-> None, observations |-> {}, terminal |-> None]

ReserveWhileStopped(nonce) ==
    /\ ~NonceUsed(nonce)
    /\ \E u \in Eligible :
         /\ \A v \in Eligible : Rank[u] <= Rank[v]
         /\ ledger' = Append(ledger, Reservation(u, nonce))
    /\ UNCHANGED <<evidence, epoch>>

\* The first eligible unit in identity order is reserved; the ledger is only
\* extended, and a stopped run reserves nothing.
ReserveNext(nonce) ==
    /\ ~NonceUsed(nonce)
    /\ ~Stopped
    /\ \E u \in Eligible :
         /\ \A v \in Eligible : Rank[u] <= Rank[v]
         /\ ledger' = Append(ledger, Reservation(u, nonce))
    /\ UNCHANGED <<evidence, epoch>>

(***************************************************************************)
(* What a start and a completion recheck against the present progression.  *)
(***************************************************************************)
DispatchIsCurrent(record) ==
    /\ record.unit \in ReadyUnits(evidence)
    /\ record.dependencies = Dependencies(evidence, record.unit)
    /\ record.unit \in Operations => record.reservedState = epoch

\* The inputs a construction session names must still be what is installed.
InputsCurrent(u) ==
    \A o \in epoch : RetainedInputs[u] \cap Rewrites[o] = {}

\* A check session must name the construction its dispatch depends on.
CheckedBuildIsRetained(record) ==
    record.dependencies[BuildOf[record.unit]] = evidence[BuildOf[record.unit]]

InPhase(i, phase) == i \in DOMAIN ledger /\ ledger[i].phase = phase

StartedWithoutSession(i, session) ==
    /\ ledger' = [ledger EXCEPT ![i].phase = "started"]
    /\ UNCHANGED <<evidence, epoch>>

MarkStarted(i, session) ==
    /\ ledger' = [ledger EXCEPT ![i].phase = "started", ![i].session = session]
    /\ UNCHANGED <<evidence, epoch>>

StartConstruction(i, session) ==
    /\ ~Stopped
    /\ InPhase(i, "reserved")
    /\ ledger[i].unit \in Constructions
    /\ DispatchIsCurrent(ledger[i])
    /\ InputsCurrent(ledger[i].unit)
    /\ MarkStarted(i, session)

StartCheck(i, session) ==
    /\ ~Stopped
    /\ InPhase(i, "reserved")
    /\ ledger[i].unit \in Checks
    /\ DispatchIsCurrent(ledger[i])
    /\ CheckedBuildIsRetained(ledger[i])
    /\ MarkStarted(i, session)

\* The effect attempt admitted by the same call has its own journal.
StartOperation(i, session) ==
    /\ ~Stopped
    /\ InPhase(i, "reserved")
    /\ ledger[i].unit \in Operations
    /\ DispatchIsCurrent(ledger[i])
    /\ MarkStarted(i, session)

Releases == Cardinality({i \in DOMAIN ledger : ledger[i].phase = "released"})

\* Allowed in a stopped run: work that never started is given back.
ReleaseUnstarted(i) ==
    /\ Releases < MaxReleases
    /\ InPhase(i, "reserved")
    /\ ledger' = [ledger EXCEPT ![i].phase = "released"]
    /\ UNCHANGED <<evidence, epoch>>

RetireLedgerOnly(i, result) ==
    /\ evidence' = evidence
    /\ ledger' = [ledger EXCEPT ![i].phase = "completed", ![i].terminal = result]

Retire(i, result) ==
    /\ evidence' = [evidence EXCEPT ![ledger[i].unit] = result]
    /\ ledger' = [ledger EXCEPT ![i].phase = "completed", ![i].terminal = result]

CompleteConstruction(i, result) ==
    /\ InPhase(i, "started")
    /\ ledger[i].unit \in Constructions
    /\ DispatchIsCurrent(ledger[i])
    /\ InputsCurrent(ledger[i].unit)
    /\ result \in UnitResults(ledger[i].unit)
    /\ result.session = ledger[i].session
    /\ Retire(i, result)
    /\ UNCHANGED epoch

CompleteCheck(i, result) ==
    /\ InPhase(i, "started")
    /\ ledger[i].unit \in Checks
    /\ DispatchIsCurrent(ledger[i])
    /\ CheckedBuildIsRetained(ledger[i])
    /\ Succeeded(evidence[BuildOf[ledger[i].unit]])
    /\ result \in UnitResults(ledger[i].unit)
    /\ result.session = ledger[i].session
    /\ Retire(i, result)
    /\ UNCHANGED epoch

\* A terminal result retires the dispatch; only a completed one moves the state.
CompleteOperation(i, result) ==
    /\ InPhase(i, "started")
    /\ ledger[i].unit \in Operations
    /\ DispatchIsCurrent(ledger[i])
    /\ result \in OperationResults(ledger[i].unit)
    /\ result.session = ledger[i].session
    /\ Retire(i, result)
    /\ epoch' = IF Succeeded(result) THEN epoch \cup {ledger[i].unit} ELSE epoch

ObservationReplaced(i, outcome) ==
    /\ InPhase(i, "started")
    /\ ledger[i].unit \in Operations
    /\ DispatchIsCurrent(ledger[i])
    /\ outcome \in UncertainOutcomes \ ledger[i].observations
    /\ ledger' = [ledger EXCEPT ![i].observations = {outcome}]
    /\ UNCHANGED <<evidence, epoch>>

\* An uncertain result is retained as an observation and retires nothing.
ObserveOperation(i, outcome) ==
    /\ InPhase(i, "started")
    /\ ledger[i].unit \in Operations
    /\ DispatchIsCurrent(ledger[i])
    /\ outcome \in UncertainOutcomes \ ledger[i].observations
    /\ ledger' = [ledger EXCEPT ![i].observations = @ \cup {outcome}]
    /\ UNCHANGED <<evidence, epoch>>

Start(i) ==
    \E s \in Sessions : StartConstruction(i, s) \/ StartCheck(i, s) \/ StartOperation(i, s)

Finish(i) ==
    \E r \in Results(ledger[i].unit) :
        CompleteConstruction(i, r) \/ CompleteCheck(i, r) \/ CompleteOperation(i, r)

Observe(i) == \E x \in UncertainOutcomes : ObserveOperation(i, x)

Reserve == \E nonce \in Nonces : ReserveNext(nonce)

Next ==
    \/ Reserve
    \/ \E i \in DOMAIN ledger : Start(i) \/ ReleaseUnstarted(i) \/ Finish(i) \/ Observe(i)

Spec == Init /\ [][Next]_vars

-----------------------------------------------------------------------------
Records ==
    [unit : Units, nonce : Nonces, reservedFrom : [Units -> AllResults \cup {None}],
     reservedState : SUBSET Operations,
     dependencies : UNION {[External(u) \ Retained -> AllResults] : u \in Units},
     phase : Phases, session : Sessions \cup {None},
     observations : SUBSET UncertainOutcomes, terminal : AllResults \cup {None}]

\* The shape validate_record_shape asks of each phase.
RecordShape(record) ==
    /\ record.session # None <=> record.phase \in {"started", "completed"}
    /\ record.terminal # None <=> record.phase = "completed"
    /\ record.observations # {} =>
          record.unit \in Operations /\ record.phase \in {"started", "completed"}

TypeOK ==
    /\ EvidenceType(evidence)
    /\ epoch \in SUBSET Operations
    /\ ledger \in Seq(Records)
    /\ \A i \in DOMAIN ledger : RecordShape(ledger[i])

NoncesUnique ==
    \A i, j \in DOMAIN ledger : ledger[i].nonce = ledger[j].nonce => i = j

\* Two active records never share a graph node.
ActiveDisjoint ==
    \A i, j \in DOMAIN ledger :
        /\ Active(ledger[i]) /\ Active(ledger[j]) /\ i # j
        => Members(ledger[i].unit) \cap Members(ledger[j].unit) = {}

WithinCapacity == \A u \in Units : Cardinality(ActiveOfKind(u)) <= Capacity(u)

ActiveCurrent == \A i \in DOMAIN ledger : Active(ledger[i]) => DispatchIsCurrent(ledger[i])

(***************************************************************************)
(* The code's own check of every ledger it builds never refuses: whatever  *)
(* other units complete, publish or fail while a dispatch is active, its   *)
(* unit stays ready, its captured predecessors and its state epoch stay    *)
(* current, active units stay disjoint and capacities hold                 *)
(* (validate_run_records).                                                 *)
(***************************************************************************)
LedgerValid == NoncesUnique /\ ActiveDisjoint /\ WithinCapacity /\ ActiveCurrent

(***************************************************************************)
(* A run can be restored from its records and evidence after a crash at    *)
(* any point, released and completed records included: predecessors are as *)
(* captured when the unit was reserved, and every completed record agrees  *)
(* with the evidence (validate_rehydrated_run_history).                    *)
(***************************************************************************)
HistoryRestorable ==
    \A i \in DOMAIN ledger :
        /\ External(ledger[i].unit) \subseteq SatisfiedNodes(evidence)
        /\ ledger[i].dependencies = Dependencies(evidence, ledger[i].unit)
        /\ ledger[i].phase = "completed" =>
              /\ evidence[ledger[i].unit] = ledger[i].terminal
              /\ ledger[i].session = ledger[i].terminal.session

(***************************************************************************)
(* No unit is executed twice: among the records of one unit at most one    *)
(* ever started, and a unit has terminal evidence exactly when a record of *)
(* it completed (README: a graph unit cannot be silently dispatched twice).*)
(***************************************************************************)
UniqueExecution ==
    /\ \A i, j \in DOMAIN ledger :
         /\ ledger[i].unit = ledger[j].unit
         /\ ledger[i].phase \in {"started", "completed"}
         /\ ledger[j].phase \in {"started", "completed"}
         => i = j
    /\ \A u \in Evidenced(evidence) :
         \E i \in DOMAIN ledger : ledger[i].unit = u /\ ledger[i].phase = "completed"

\* The units of a program without cycles come after their predecessors.
Ordered(order) ==
    /\ order \in [Units -> Nat]
    /\ \A u, v \in Units : External(u) \cap Members(v) # {} => order[v] < order[u]

(***************************************************************************)
(* The graph never stalls: while a run is neither complete nor stopped,    *)
(* something is active or can be reserved, whatever the capacities (the    *)
(* quiescent_incomplete stop of the driver is unreachable for a program    *)
(* whose units are acyclic).                                               *)
(***************************************************************************)
NeverStalls == Stopped \/ Complete(evidence) \/ ActiveUnits # {} \/ Eligible # {}

(***************************************************************************)
(* Failure containment: once a terminal failure is known nothing new is    *)
(* reserved and nothing reserved is started; what already ran may finish.  *)
(***************************************************************************)
Started(l) == {i \in DOMAIN l : l[i].session # None}

FailureContained ==
    [][Stopped => Len(ledger') = Len(ledger) /\ Started(ledger') = Started(ledger)]_vars

(***************************************************************************)
(* The ledger only grows and only moves forward: no record disappears, is  *)
(* rebound to another unit or nonce, leaves a terminal phase, or is given  *)
(* back after it started; no observation is lost.                          *)
(***************************************************************************)
Forward == [reserved |-> {"reserved", "started", "released"},
            started |-> {"started", "completed"},
            completed |-> {"completed"}, released |-> {"released"}]

LedgerMonotone ==
    [][\A i \in DOMAIN ledger :
         LET old == ledger[i] new == ledger'[i] IN
         /\ i \in DOMAIN ledger'
         /\ new.unit = old.unit /\ new.nonce = old.nonce
         /\ new.dependencies = old.dependencies
         /\ new.reservedFrom = old.reservedFrom /\ new.reservedState = old.reservedState
         /\ new.phase \in Forward[old.phase]
         /\ old.session # None => new.session = old.session
         /\ old.terminal # None => new.terminal = old.terminal
         /\ old.observations \subseteq new.observations]_vars

(***************************************************************************)
(* Canonical state moves only by one operation completing in the epoch it  *)
(* was reserved against, while no other operation is active: operations    *)
(* are serial from reservation to publication.                             *)
(***************************************************************************)
EpochSerial ==
    [][epoch' # epoch =>
         \E i \in DOMAIN ledger :
            /\ ledger[i].unit \in Operations
            /\ epoch' = epoch \cup {ledger[i].unit}
            /\ ledger[i].reservedState = epoch
            /\ ledger[i].phase = "started" /\ ledger'[i].phase = "completed"
            /\ \A j \in DOMAIN ledger \ {i} :
                  ledger[j].unit \in Operations => ~Active(ledger[j])]_vars

=============================================================================
