--------------------------- MODULE DispatchProofs ---------------------------
(***************************************************************************)
(* Proofs about the dispatch ledger, for every program, policy and set of  *)
(* nonces.  The inductive invariant is the conjunction of what the runs    *)
(* check: the ledger's types, the code's own validity check, the           *)
(* restorability of its history and the uniqueness of execution.           *)
(***************************************************************************)
EXTENDS DispatchJournal, TLAPS, FiniteSetTheorems, WellFoundedInduction

IInv == TypeOK /\ LedgerValid /\ HistoryRestorable /\ UniqueExecution

-----------------------------------------------------------------------------
(***************************************************************************)
(* Facts about the derivation of statuses from evidence.                   *)
(***************************************************************************)

\* Units partition the nodes they own, so a node determines its unit.
LEMMA OwnerOfMember ==
    ASSUME NEW u \in Units, NEW n \in Members(u)
    PROVE  Owner(n) = u
  BY ProgramAssumption DEF Owner

\* A unit is a member of itself.
LEMMA PrimaryIsMember == \A u \in Units : u \in Members(u)
  BY DEF Members

\* Lifecycle results of an operation are of its own lifecycle nodes.
LEMMA ReturnedMembers ==
    ASSUME NEW u \in Operations, NEW r \in Results(u), NEW flag
    PROVE  Returned(u, r, flag) \subseteq Lifecycle(u)
<1>1. r \in OperationResults(u)
  BY DEF Results
<1>2. Before[u] \in Seq(Nodes) /\ After[u] \in Seq(Nodes)
  BY ProgramAssumption
<1>3. DOMAIN r.before \subseteq DOMAIN Before[u]
  BY <1>1, <1>2 DEF OperationResults, AllPassed, FailedLast
<1>4. DOMAIN r.after \subseteq DOMAIN After[u]
  BY <1>1, <1>2 DEF OperationResults, AllPassed, FailedLast
<1> QED
  BY <1>3, <1>4 DEF Returned, Lifecycle, Range

\* A unit's result satisfies members of that unit only.
LEMMA SatisfiedByMembers ==
    ASSUME NEW u \in Units, NEW r \in Results(u)
    PROVE  SatisfiedBy(u, r) \subseteq Members(u)
  BY ReturnedMembers DEF SatisfiedBy, Members

\* A satisfied node that is not retained belongs to a unit with evidence.
LEMMA SatisfiedIsEvidenced ==
    ASSUME NEW ev, EvidenceType(ev), NEW n \in SatisfiedNodes(ev), n \notin Retained
    PROVE  \E w \in Units : ev[w] # None /\ n \in Members(w) /\ Owner(n) = w
<1>1. PICK w \in Evidenced(ev) : n \in SatisfiedBy(w, ev[w])
  BY DEF SatisfiedNodes
<1>2. w \in Units /\ ev[w] # None /\ ev[w] \in Results(w)
  BY <1>1 DEF EvidenceType, Evidenced
<1>3. n \in Members(w)
  BY <1>1, <1>2, SatisfiedByMembers
<1> QED
  BY <1>2, <1>3, OwnerOfMember

\* Evidence is only added for units without any: nothing stops being satisfied.
LEMMA SatisfiedGrows ==
    ASSUME NEW ev, EvidenceType(ev), NEW u \in Units, ev[u] = None, NEW r
    PROVE  SatisfiedNodes(ev) \subseteq SatisfiedNodes([ev EXCEPT ![u] = r])
<1> DEFINE new == [ev EXCEPT ![u] = r]
<1>1. \A w \in Evidenced(ev) : w \in Evidenced(new) /\ new[w] = ev[w]
  BY DEF Evidenced, EvidenceType
<1> QED
  BY <1>1 DEF SatisfiedNodes

\* New evidence leaves the captured predecessors of a satisfied unit alone.
LEMMA DependenciesStable ==
    ASSUME NEW ev, EvidenceType(ev),
           NEW new, \A w \in Evidenced(ev) : new[w] = ev[w],
           NEW v, External(v) \subseteq SatisfiedNodes(ev)
    PROVE  Dependencies(new, v) = Dependencies(ev, v)
<1>1. ASSUME NEW n \in External(v) \ Retained
      PROVE  new[Owner(n)] = ev[Owner(n)]
  <2>1. PICK w \in Units : ev[w] # None /\ Owner(n) = w
    BY <1>1, SatisfiedIsEvidenced
  <2> QED
    BY <2>1 DEF Evidenced
<1> QED
  BY <1>1 DEF Dependencies

\* An idle unit stays ready when another unit retires.
LEMMA ReadyStable ==
    ASSUME NEW ev, EvidenceType(ev), NEW u \in Units, ev[u] = None, NEW r,
           NEW v \in ReadyUnits(ev), v # u
    PROVE  v \in ReadyUnits([ev EXCEPT ![u] = r])
  BY SatisfiedGrows DEF ReadyUnits, Idle, EvidenceType

\* What reserve_next captures are results of the predecessors.
LEMMA DependenciesType ==
    ASSUME NEW ev, EvidenceType(ev), NEW v, External(v) \subseteq SatisfiedNodes(ev)
    PROVE  Dependencies(ev, v) \in [External(v) \ Retained -> AllResults]
<1>1. ASSUME NEW n \in External(v) \ Retained
      PROVE  ev[Owner(n)] \in AllResults
  <2>1. PICK w \in Units : ev[w] # None /\ Owner(n) = w
    BY <1>1, SatisfiedIsEvidenced
  <2>2. ev[w] \in Results(w)
    BY <2>1 DEF EvidenceType, Evidenced
  <2> QED
    BY <2>1, <2>2 DEF AllResults
<1> QED
  BY <1>1 DEF Dependencies

\* A sweep of the ledger by kind is a finite set of positions.
LEMMA ActiveOfKindFinite ==
    ASSUME TypeOK, NEW u
    PROVE  IsFiniteSet(ActiveOfKind(u)) /\ Cardinality(ActiveOfKind(u)) \in Nat
<1>1. DOMAIN ledger = 1..Len(ledger) /\ Len(ledger) \in Nat
  BY DEF TypeOK
<1>2. IsFiniteSet(DOMAIN ledger)
  BY <1>1, FS_Interval
<1> QED
  BY <1>2, FS_Subset, FS_CardinalityType DEF ActiveOfKind

\* At most one operation is active: the code's operation capacity is one.
LEMMA OneOperationLane ==
    ASSUME TypeOK, WithinCapacity, NEW i \in DOMAIN ledger, NEW j \in DOMAIN ledger,
           Active(ledger[i]), Active(ledger[j]),
           ledger[i].unit \in Operations, ledger[j].unit \in Operations
    PROVE  i = j
<1> DEFINE u == ledger[i].unit
           S == ActiveOfKind(u)
<1>1. u \in Units /\ KindOf(u) = Operations /\ Capacity(u) = 1
  BY ProgramAssumption DEF Units, KindOf, Capacity
<1>2. i \in S /\ j \in S
  BY <1>1 DEF ActiveOfKind
<1>3. IsFiniteSet(S) /\ Cardinality(S) \in Nat /\ Cardinality(S) <= 1
  BY <1>1, ActiveOfKindFinite DEF WithinCapacity
<1>4. SUFFICES ASSUME i # j PROVE FALSE
  OBVIOUS
<1>5. {i} \subseteq S \ {j} /\ IsFiniteSet(S \ {j})
  BY <1>2, <1>3, <1>4, FS_RemoveElement
<1>6. Cardinality(S \ {j}) = Cardinality(S) - 1
  BY <1>2, <1>3, FS_RemoveElement
<1>7. Cardinality({i}) = 1 /\ Cardinality({i}) <= Cardinality(S \ {j})
  BY <1>5, FS_Singleton, FS_Subset
<1> QED
  BY <1>3, <1>6, <1>7

-----------------------------------------------------------------------------
(***************************************************************************)
(* The steps, described by what they do to the ledger: append one record,  *)
(* replace one record that keeps its authority, or retire one.             *)
(***************************************************************************)
Reserving(u, nonce) ==
    /\ ~NonceUsed(nonce) /\ nonce \in Nonces
    /\ u \in Eligible
    /\ ledger' = Append(ledger, Reservation(u, nonce))
    /\ UNCHANGED <<evidence, epoch>>

SameAuthority(old, new) ==
    /\ new.unit = old.unit
    /\ new.nonce = old.nonce
    /\ new.reservedFrom = old.reservedFrom
    /\ new.reservedState = old.reservedState
    /\ new.dependencies = old.dependencies

\* What a record gathered stays, and its phase goes forward.
Advances(old, new) ==
    /\ new.phase \in Forward[old.phase]
    /\ old.session # None => new.session = old.session
    /\ old.terminal # None => new.terminal = old.terminal
    /\ old.observations \subseteq new.observations

\* A record moves without retiring: it starts, is observed or is released.
Moving(i) ==
    /\ i \in DOMAIN ledger
    /\ DOMAIN ledger' = DOMAIN ledger /\ ledger' \in Seq(Records)
    /\ \A j \in DOMAIN ledger \ {i} : ledger'[j] = ledger[j]
    /\ SameAuthority(ledger[i], ledger'[i]) /\ Advances(ledger[i], ledger'[i])
    /\ RecordShape(ledger'[i])
    /\ Active(ledger[i]) /\ ledger'[i].phase # "completed"
    /\ UNCHANGED <<evidence, epoch>>

Retiring(i, result) ==
    /\ i \in DOMAIN ledger /\ ledger[i].phase = "started"
    /\ DispatchIsCurrent(ledger[i])
    /\ result \in Results(ledger[i].unit) /\ result.session = ledger[i].session
    /\ Retire(i, result)
    /\ IF ledger[i].unit \in Operations
       THEN epoch' \in {epoch, epoch \cup {ledger[i].unit}}
       ELSE epoch' = epoch

\* Every step of the ledger is one of the three.
LEMMA StepShapes ==
    ASSUME TypeOK, Next
    PROVE  \/ \E u, nonce : Reserving(u, nonce)
           \/ \E i : Moving(i)
           \/ \E i, result : Retiring(i, result)
<1> USE DEF InPhase, Active
<1>1. CASE Reserve
  BY <1>1 DEF Reserve, ReserveNext, Reserving, Eligible
<1>2. ASSUME NEW i \in DOMAIN ledger, NEW s \in Sessions, MarkStarted(i, s), ledger[i].phase = "reserved"
      PROVE  Moving(i)
  <2>1. ledger[i] \in Records /\ RecordShape(ledger[i])
    BY DEF TypeOK
  <2>2. ledger'[i] = [ledger[i] EXCEPT !.phase = "started", !.session = s]
    BY <1>2 DEF MarkStarted, TypeOK
  <2>3. ledger'[i] \in Records
    BY <2>1, <2>2 DEF Records, Phases
  <2>4. ledger' \in Seq(Records) /\ DOMAIN ledger' = DOMAIN ledger
    <3>1. ledger \in Seq(Records)
      BY DEF TypeOK
    <3>2. ledger' = [ledger EXCEPT ![i] = ledger'[i]]
      BY <1>2, <2>2 DEF MarkStarted, TypeOK
    <3> QED
      BY <2>3, <3>1, <3>2
  <2>5. RecordShape(ledger'[i])
    BY <1>2, <2>1, <2>2, ProgramAssumption DEF RecordShape, Records
  <2>6. Advances(ledger[i], ledger'[i])
    BY <1>2, <2>1, <2>2 DEF Advances, Forward, Records, RecordShape, MarkStarted
  <2> QED
    BY <1>2, <2>1, <2>2, <2>4, <2>5, <2>6 DEF Moving, MarkStarted, SameAuthority, Records, TypeOK
<1>3. ASSUME NEW i \in DOMAIN ledger, ReleaseUnstarted(i)
      PROVE  Moving(i)
  <2>1. ledger[i] \in Records /\ RecordShape(ledger[i]) /\ ledger[i].phase = "reserved"
    BY <1>3 DEF TypeOK, ReleaseUnstarted
  <2>2. ledger'[i] = [ledger[i] EXCEPT !.phase = "released"]
    BY <1>3 DEF ReleaseUnstarted, TypeOK
  <2>3. ledger'[i] \in Records
    BY <2>1, <2>2 DEF Records, Phases
  <2>4. ledger' \in Seq(Records) /\ DOMAIN ledger' = DOMAIN ledger
    BY <1>3, <2>3 DEF ReleaseUnstarted, TypeOK
  <2>5. RecordShape(ledger'[i])
    BY <2>1, <2>2 DEF RecordShape, Records
  <2>6. Advances(ledger[i], ledger'[i])
    BY <1>3, <2>1, <2>2 DEF Advances, Forward, Records, RecordShape, ReleaseUnstarted
  <2> QED
    BY <1>3, <2>1, <2>2, <2>4, <2>5, <2>6 DEF Moving, ReleaseUnstarted, SameAuthority, Records, TypeOK
<1>4. ASSUME NEW i \in DOMAIN ledger, NEW x \in UncertainOutcomes, ObserveOperation(i, x)
      PROVE  Moving(i)
  <2>1. ledger[i] \in Records /\ RecordShape(ledger[i]) /\ ledger[i].phase = "started"
    BY <1>4 DEF TypeOK, ObserveOperation
  <2>2. ledger'[i] = [ledger[i] EXCEPT !.observations = @ \cup {x}]
    BY <1>4 DEF ObserveOperation, TypeOK
  <2>3. ledger'[i] \in Records
    <3>1. ledger[i].observations \cup {x} \in SUBSET UncertainOutcomes
      BY <2>1 DEF Records
    <3> QED
      BY <2>1, <2>2, <3>1 DEF Records
  <2>4. ledger' \in Seq(Records) /\ DOMAIN ledger' = DOMAIN ledger
    BY <1>4, <2>3 DEF ObserveOperation, TypeOK
  <2>5. RecordShape(ledger'[i])
    BY <1>4, <2>1, <2>2 DEF RecordShape, Records, ObserveOperation
  <2>6. Advances(ledger[i], ledger'[i])
    BY <1>4, <2>1, <2>2 DEF Advances, Forward, Records, RecordShape, ObserveOperation
  <2>7. SameAuthority(ledger[i], ledger'[i]) /\ ledger'[i].phase = "started"
    BY <2>1, <2>2 DEF SameAuthority, Records
  <2>8. /\ \A j \in DOMAIN ledger \ {i} : ledger'[j] = ledger[j]
        /\ UNCHANGED <<evidence, epoch>>
    BY <1>4 DEF ObserveOperation, TypeOK
  <2> QED
    BY <1>4, <2>1, <2>4, <2>5, <2>6, <2>7, <2>8 DEF Moving, Active
<1>5. ASSUME NEW i \in DOMAIN ledger, Finish(i)
      PROVE  \E result : Retiring(i, result)
  BY <1>5, ProgramAssumption
     DEF Finish, CompleteConstruction, CompleteCheck, CompleteOperation, Retiring, Results
<1>6. ASSUME NEW i \in DOMAIN ledger, Start(i)
      PROVE  Moving(i)
  BY <1>2, <1>6 DEF Start, StartConstruction, StartCheck, StartOperation
<1> QED
  BY <1>1, <1>3, <1>4, <1>5, <1>6 DEF Next, Observe

-----------------------------------------------------------------------------
(***************************************************************************)
(* The invariant is preserved by each kind of step.                        *)
(***************************************************************************)

\* Reserving appends one fresh, current, disjoint record within capacity.
LEMMA ReservingPreserves ==
    ASSUME IInv, NEW u, NEW nonce, Reserving(u, nonce)
    PROVE  IInv'
<1> DEFINE n == Len(ledger) + 1
           r == Reservation(u, nonce)
<1>1. u \in Units /\ u \in ReadyUnits(evidence) /\ External(u) \subseteq SatisfiedNodes(evidence)
  BY DEF Reserving, Eligible, ReadyUnits, Idle
<1>2. ledger \in Seq(Records) /\ Len(ledger) \in Nat
  BY DEF IInv, TypeOK
<1>3. r \in Records /\ RecordShape(r) /\ Active(r)
  <2>1. Dependencies(evidence, u) \in [External(u) \ Retained -> AllResults]
    BY <1>1, DependenciesType DEF IInv, TypeOK
  <2>2. evidence \in [Units -> AllResults \cup {None}]
    BY DEF IInv, TypeOK, EvidenceType
  <2> QED
    BY <1>1, <2>1, <2>2 DEF Reservation, Records, Phases, RecordShape, Active, Reserving, IInv, TypeOK
<1>4. /\ ledger' \in Seq(Records) /\ DOMAIN ledger' = DOMAIN ledger \cup {n}
      /\ n \notin DOMAIN ledger /\ ledger'[n] = r
      /\ \A i \in DOMAIN ledger : ledger'[i] = ledger[i]
  BY <1>2, <1>3 DEF Reserving
<1>5. evidence' = evidence /\ epoch' = epoch
  BY DEF Reserving
<1>6. TypeOK'
  BY <1>3, <1>4, <1>5 DEF IInv, TypeOK
<1>7. NoncesUnique'
  BY <1>4 DEF IInv, LedgerValid, NoncesUnique, Reserving, NonceUsed, Reservation
<1>8. ActiveDisjoint'
  <2>1. \A i \in DOMAIN ledger : Active(ledger[i]) =>
            Members(u) \cap Members(ledger[i].unit) = {}
    BY DEF Reserving, Eligible, OverlapsActive, ActiveUnits
  <2>2. r.unit = u
    BY DEF Reservation
  <2>3. ASSUME NEW i \in DOMAIN ledger', NEW j \in DOMAIN ledger', i # j,
               Active(ledger'[i]), Active(ledger'[j])
        PROVE  Members(ledger'[i].unit) \cap Members(ledger'[j].unit) = {}
    <3>1. CASE i = n
      BY <1>4, <2>1, <2>2, <2>3, <3>1
    <3>2. CASE j = n
      BY <1>4, <2>1, <2>2, <2>3, <3>2
    <3>3. CASE i \in DOMAIN ledger /\ j \in DOMAIN ledger
      BY <1>4, <2>3, <3>3 DEF IInv, LedgerValid, ActiveDisjoint
    <3> QED
      BY <1>4, <3>1, <3>2, <3>3
  <2> QED
    BY <2>3 DEF ActiveDisjoint, Active
<1>9. WithinCapacity'
  <2>1. ASSUME NEW v \in Units
        PROVE  Cardinality(ActiveOfKind(v)') <= Capacity(v)
    <3>1. IsFiniteSet(ActiveOfKind(v)) /\ Cardinality(ActiveOfKind(v)) \in Nat
      BY ActiveOfKindFinite DEF IInv
    <3>2. Cardinality(ActiveOfKind(v)) <= Capacity(v) /\ Capacity(v) \in Nat
      BY <2>1, DispatchAssumption DEF IInv, LedgerValid, WithinCapacity, Capacity
    <3>3. CASE u \in KindOf(v)
      <4>1. ActiveOfKind(v)' = ActiveOfKind(v) \cup {n} /\ n \notin ActiveOfKind(v)
        BY <1>3, <1>4, <3>3 DEF ActiveOfKind, Reservation
      <4>2. Cardinality(ActiveOfKind(v)') = Cardinality(ActiveOfKind(v)) + 1
        BY <3>1, <4>1, FS_AddElement
      <4>3. KindOf(u) = KindOf(v) /\ Capacity(u) = Capacity(v)
        BY <1>1, <2>1, <3>3, ProgramAssumption DEF KindOf, Capacity, Units
      <4>4. ActiveOfKind(u) = ActiveOfKind(v)
        BY <4>3 DEF ActiveOfKind
      <4>5. Cardinality(ActiveOfKind(v)) < Capacity(v)
        BY <4>3, <4>4 DEF Reserving, Eligible, CapacityAvailable
      <4> QED
        BY <3>1, <3>2, <4>2, <4>5
    <3>4. CASE u \notin KindOf(v)
      <4>1. ActiveOfKind(v)' = ActiveOfKind(v)
        BY <1>4, <3>4 DEF ActiveOfKind, Reservation
      <4> QED
        BY <3>2, <4>1
    <3> QED
      BY <3>3, <3>4
  <2> QED
    BY <2>1 DEF WithinCapacity
<1>10. ActiveCurrent'
  BY <1>1, <1>4, <1>5 DEF IInv, LedgerValid, ActiveCurrent, DispatchIsCurrent, Reservation
<1>11. HistoryRestorable'
  BY <1>1, <1>4, <1>5 DEF IInv, HistoryRestorable, Reservation
<1>12. UniqueExecution'
  BY <1>4, <1>5 DEF IInv, UniqueExecution, Reservation
<1> QED
  BY <1>6, <1>7, <1>8, <1>9, <1>10, <1>11, <1>12 DEF IInv, LedgerValid

\* A record that starts, is observed or is released keeps its authority, and
\* only frees capacity.
LEMMA MovingPreserves ==
    ASSUME IInv, NEW i, Moving(i)
    PROVE  IInv'
<1>1. /\ i \in DOMAIN ledger /\ DOMAIN ledger' = DOMAIN ledger
      /\ \A j \in DOMAIN ledger : j # i => ledger'[j] = ledger[j]
      /\ \A j \in DOMAIN ledger : SameAuthority(ledger[j], ledger'[j])
      /\ \A j \in DOMAIN ledger : Active(ledger'[j]) => Active(ledger[j])
      /\ evidence' = evidence /\ epoch' = epoch
  BY DEF Moving, SameAuthority
<1>2. TypeOK'
  BY <1>1 DEF Moving, IInv, TypeOK
<1>3. NoncesUnique'
  BY <1>1 DEF IInv, LedgerValid, NoncesUnique, SameAuthority
<1>4. ActiveDisjoint'
  BY <1>1 DEF IInv, LedgerValid, ActiveDisjoint, SameAuthority
<1>5. WithinCapacity'
  <2>1. ASSUME NEW v \in Units
        PROVE  Cardinality(ActiveOfKind(v)') <= Capacity(v)
    <3>1. ActiveOfKind(v)' \subseteq ActiveOfKind(v)
      BY <1>1 DEF ActiveOfKind, SameAuthority
    <3>2. IsFiniteSet(ActiveOfKind(v)) /\ Cardinality(ActiveOfKind(v)) \in Nat
      BY ActiveOfKindFinite DEF IInv
    <3>3. /\ Cardinality(ActiveOfKind(v)') \in Nat
          /\ Cardinality(ActiveOfKind(v)') <= Cardinality(ActiveOfKind(v))
      BY <3>1, <3>2, FS_Subset, FS_CardinalityType
    <3>4. Cardinality(ActiveOfKind(v)) <= Capacity(v) /\ Capacity(v) \in Nat
      BY <2>1, DispatchAssumption DEF IInv, LedgerValid, WithinCapacity, Capacity
    <3> QED
      BY <3>2, <3>3, <3>4
  <2> QED
    BY <2>1 DEF WithinCapacity
<1>6. ActiveCurrent'
  BY <1>1 DEF IInv, LedgerValid, ActiveCurrent, DispatchIsCurrent, SameAuthority
<1>7. HistoryRestorable'
  BY <1>1 DEF IInv, HistoryRestorable, SameAuthority, Moving
<1>8. UniqueExecution'
  <2>1. ASSUME NEW j \in DOMAIN ledger, NEW k \in DOMAIN ledger,
               ledger'[j].unit = ledger'[k].unit,
               ledger'[j].phase \in {"started", "completed"},
               ledger'[k].phase \in {"started", "completed"},
               j # k
        PROVE  FALSE
    <3>1. ledger[j].unit = ledger[k].unit
      BY <1>1, <2>1 DEF SameAuthority
    <3>2. ASSUME NEW a \in DOMAIN ledger, Active(ledger[a])
          PROVE  ledger[a].unit \in Units /\ evidence[ledger[a].unit] = None
      BY <3>2 DEF IInv, LedgerValid, ActiveCurrent, DispatchIsCurrent, ReadyUnits, Idle
    <3>3. ASSUME NEW a \in DOMAIN ledger, ledger[a].phase = "completed"
          PROVE  evidence[ledger[a].unit] # None
      BY <3>3 DEF IInv, HistoryRestorable, TypeOK, RecordShape
    <3>4. \A a \in DOMAIN ledger : ledger'[a].phase \in {"started", "completed"} =>
              Active(ledger[a]) \/ ledger[a].phase = "completed"
      BY <1>1 DEF Moving, Active
    <3>5. CASE Active(ledger[j]) /\ Active(ledger[k])
      <4>1. ledger[j].unit \in Members(ledger[j].unit) \cap Members(ledger[k].unit)
        BY <3>1, <3>2, <3>5, PrimaryIsMember
      <4> QED
        BY <2>1, <3>5, <4>1 DEF IInv, LedgerValid, ActiveDisjoint
    <3>6. CASE ledger[j].phase = "completed" /\ ledger[k].phase = "completed"
      BY <2>1, <3>1, <3>6 DEF IInv, UniqueExecution
    <3> QED
      BY <2>1, <3>1, <3>2, <3>3, <3>4, <3>5, <3>6
  <2>2. ASSUME NEW u \in Evidenced(evidence)
        PROVE  \E j \in DOMAIN ledger' : ledger'[j].unit = u /\ ledger'[j].phase = "completed"
    <3>1. PICK j \in DOMAIN ledger : ledger[j].unit = u /\ ledger[j].phase = "completed"
      BY <2>2 DEF IInv, UniqueExecution
    <3> QED
      BY <1>1, <3>1 DEF Moving, Active
  <2> QED
    BY <1>1, <2>1, <2>2 DEF UniqueExecution
<1> QED
  BY <1>2, <1>3, <1>4, <1>5, <1>6, <1>7, <1>8 DEF IInv, LedgerValid

\* A completion gives evidence to one ready unit.  Every other unit's
\* predecessors already had theirs, so nothing captured before changes; and if
\* the state epoch moves, no other operation is active to notice.
LEMMA RetiringPreserves ==
    ASSUME IInv, NEW i, NEW result, Retiring(i, result)
    PROVE  IInv'
<1> DEFINE u == ledger[i].unit
<1>1. /\ i \in DOMAIN ledger /\ ledger[i] \in Records /\ RecordShape(ledger[i])
      /\ u \in Units /\ evidence[u] = None /\ ledger[i].phase = "started"
      /\ Active(ledger[i])
  <2>1. i \in DOMAIN ledger /\ ledger[i].phase = "started" /\ Active(ledger[i])
    BY DEF Retiring, Active
  <2>2. ledger[i] \in Records /\ RecordShape(ledger[i])
    BY <2>1 DEF IInv, TypeOK
  <2>3. u \in ReadyUnits(evidence)
    BY DEF Retiring, DispatchIsCurrent
  <2> QED
    BY <2>1, <2>2, <2>3 DEF ReadyUnits, Idle
<1>2. EvidenceType(evidence) /\ evidence' = [evidence EXCEPT ![u] = result]
  BY DEF Retiring, Retire, IInv, TypeOK
<1>3. result \in Results(u) /\ result \in AllResults /\ result # None
  BY <1>1, ResultAssumption DEF Retiring, AllResults
<1>4. ledger'[i] = [ledger[i] EXCEPT !.phase = "completed", !.terminal = result]
  BY <1>1 DEF Retiring, Retire, IInv, TypeOK
<1>5. ledger'[i] \in Records
  BY <1>1, <1>3, <1>4 DEF Records, Phases
<1>6. ledger' \in Seq(Records) /\ DOMAIN ledger' = DOMAIN ledger
  <2>1. ledger \in Seq(Records)
    BY DEF IInv, TypeOK
  <2>2. ledger' = [ledger EXCEPT ![i] = ledger'[i]]
    BY <1>1, <1>4, <2>1 DEF Retiring, Retire
  <2> QED
    BY <1>1, <1>5, <2>1, <2>2
<1>7. \A j \in DOMAIN ledger : j # i => ledger'[j] = ledger[j]
  BY DEF Retiring, Retire, IInv, TypeOK
<1>8. /\ SameAuthority(ledger[i], ledger'[i]) /\ ledger'[i].phase = "completed"
      /\ ledger'[i].terminal = result /\ ledger'[i].session = ledger[i].session
      /\ ledger'[i].observations = ledger[i].observations
  BY <1>1, <1>4 DEF SameAuthority, Records
<1>9. \A j \in DOMAIN ledger : SameAuthority(ledger[j], ledger'[j])
  BY <1>7, <1>8 DEF SameAuthority
<1>10. \A j \in DOMAIN ledger : Active(ledger'[j]) => Active(ledger[j]) /\ j # i
  BY <1>7, <1>8 DEF Active
<1>11. \A w \in Evidenced(evidence) : evidence'[w] = evidence[w]
  BY <1>1, <1>2 DEF Evidenced, EvidenceType
<1>12. ASSUME NEW j \in DOMAIN ledger, Active(ledger[j]), j # i
       PROVE  ledger[j].unit # u
  <2>1. u \in Members(u)
    BY <1>1, PrimaryIsMember
  <2>2. Members(ledger[j].unit) \cap Members(u) = {}
    BY <1>1, <1>12 DEF IInv, LedgerValid, ActiveDisjoint
  <2> QED
    BY <2>1, <2>2
<1>13. TypeOK'
  <2>1. EvidenceType(evidence')
    BY <1>1, <1>2, <1>3 DEF EvidenceType, Evidenced
  <2>2. epoch' \in SUBSET Operations
    BY DEF Retiring, IInv, TypeOK
  <2>3. RecordShape(ledger'[i])
    BY <1>1, <1>3, <1>8, ProgramAssumption DEF RecordShape, SameAuthority
  <2>4. \A j \in DOMAIN ledger' : RecordShape(ledger'[j])
    BY <1>6, <1>7, <2>3 DEF IInv, TypeOK
  <2> QED
    BY <1>6, <2>1, <2>2, <2>4 DEF TypeOK
<1>14. NoncesUnique'
  BY <1>6, <1>9 DEF IInv, LedgerValid, NoncesUnique, SameAuthority
<1>15. ActiveDisjoint'
  BY <1>6, <1>9, <1>10 DEF IInv, LedgerValid, ActiveDisjoint, SameAuthority
<1>16. WithinCapacity'
  <2>1. ASSUME NEW v \in Units
        PROVE  Cardinality(ActiveOfKind(v)') <= Capacity(v)
    <3>1. ActiveOfKind(v)' \subseteq ActiveOfKind(v)
      BY <1>6, <1>9, <1>10 DEF ActiveOfKind, SameAuthority
    <3>2. IsFiniteSet(ActiveOfKind(v)) /\ Cardinality(ActiveOfKind(v)) \in Nat
      BY ActiveOfKindFinite DEF IInv
    <3>3. /\ Cardinality(ActiveOfKind(v)') \in Nat
          /\ Cardinality(ActiveOfKind(v)') <= Cardinality(ActiveOfKind(v))
      BY <3>1, <3>2, FS_Subset, FS_CardinalityType
    <3>4. Cardinality(ActiveOfKind(v)) <= Capacity(v) /\ Capacity(v) \in Nat
      BY <2>1, DispatchAssumption DEF IInv, LedgerValid, WithinCapacity, Capacity
    <3> QED
      BY <3>2, <3>3, <3>4
  <2> QED
    BY <2>1 DEF WithinCapacity
<1>17. ActiveCurrent'
  <2>1. ASSUME NEW j \in DOMAIN ledger, Active(ledger'[j])
        PROVE  DispatchIsCurrent(ledger[j])'
    <3> DEFINE v == ledger[j].unit
    <3>1. j # i /\ ledger'[j] = ledger[j] /\ Active(ledger[j]) /\ v # u
      BY <1>7, <1>10, <1>12, <2>1
    <3>2. DispatchIsCurrent(ledger[j])
      BY <3>1 DEF IInv, LedgerValid, ActiveCurrent
    <3>3. v \in ReadyUnits(evidence')
      BY <1>1, <1>2, <3>1, <3>2, ReadyStable DEF DispatchIsCurrent
    <3>4. Dependencies(evidence', v) = Dependencies(evidence, v)
      <4>1. External(v) \subseteq SatisfiedNodes(evidence)
        BY <3>2 DEF DispatchIsCurrent, ReadyUnits
      <4> QED
        BY <1>2, <1>11, <4>1, DependenciesStable, ZenonT(30)
    <3>5. v \in Operations => epoch' = epoch
      <4>1. SUFFICES ASSUME v \in Operations PROVE u \notin Operations
        BY DEF Retiring
      <4> QED
        BY <1>1, <3>1, <4>1, OneOperationLane DEF IInv, LedgerValid
    <3> QED
      BY <3>1, <3>2, <3>3, <3>4, <3>5 DEF DispatchIsCurrent
  <2> QED
    BY <1>6, <2>1 DEF ActiveCurrent, Active, DispatchIsCurrent
<1>18. HistoryRestorable'
  <2>1. ASSUME NEW j \in DOMAIN ledger
        PROVE  /\ External(ledger'[j].unit) \subseteq SatisfiedNodes(evidence')
               /\ ledger'[j].dependencies = Dependencies(evidence', ledger'[j].unit)
    <3> DEFINE v == ledger[j].unit
    <3>1. External(v) \subseteq SatisfiedNodes(evidence) /\ ledger[j].dependencies = Dependencies(evidence, v)
      BY DEF IInv, HistoryRestorable
    <3>2. SatisfiedNodes(evidence) \subseteq SatisfiedNodes(evidence')
      BY <1>1, <1>2, SatisfiedGrows
    <3>3. Dependencies(evidence', v) = Dependencies(evidence, v)
      <4>1. External(v) \subseteq SatisfiedNodes(evidence)
        BY <3>1
      <4> QED
        BY <1>2, <1>11, <4>1, DependenciesStable, ZenonT(30)
    <3> QED
      BY <1>9, <3>1, <3>2, <3>3 DEF SameAuthority
  <2>2. ASSUME NEW j \in DOMAIN ledger, ledger'[j].phase = "completed"
        PROVE  /\ evidence'[ledger'[j].unit] = ledger'[j].terminal
               /\ ledger'[j].session = ledger'[j].terminal.session
    <3>1. CASE j = i
      BY <1>1, <1>2, <1>8, <3>1 DEF EvidenceType, SameAuthority, Retiring
    <3>2. CASE j # i
      <4>1. /\ ledger'[j] = ledger[j] /\ evidence[ledger[j].unit] = ledger[j].terminal
            /\ ledger[j].session = ledger[j].terminal.session /\ ledger[j].terminal # None
        BY <1>7, <2>2, <3>2 DEF IInv, HistoryRestorable, TypeOK, RecordShape
      <4>2. ledger[j].unit \in Units /\ ledger[j].unit # u
        <5>1. ledger[j] \in Records
          BY DEF IInv, TypeOK
        <5> QED
          BY <1>1, <4>1, <5>1 DEF Records
      <4> QED
        BY <1>2, <4>1, <4>2 DEF EvidenceType
    <3> QED
      BY <3>1, <3>2
  <2> QED
    BY <1>6, <2>1, <2>2 DEF HistoryRestorable
<1>19. UniqueExecution'
  <2>1. ASSUME NEW j \in DOMAIN ledger, NEW k \in DOMAIN ledger,
               ledger'[j].unit = ledger'[k].unit,
               ledger'[j].phase \in {"started", "completed"},
               ledger'[k].phase \in {"started", "completed"}
        PROVE  j = k
    <3>1. \A a \in DOMAIN ledger :
              /\ ledger'[a].unit = ledger[a].unit
              /\ ledger'[a].phase \in {"started", "completed"} =>
                    ledger[a].phase \in {"started", "completed"}
      BY <1>1, <1>7, <1>8 DEF SameAuthority
    <3> QED
      BY <2>1, <3>1 DEF IInv, UniqueExecution
  <2>2. ASSUME NEW w \in Evidenced(evidence')
        PROVE  \E j \in DOMAIN ledger : ledger'[j].unit = w /\ ledger'[j].phase = "completed"
    <3>1. CASE w = u
      BY <1>1, <1>8, <3>1 DEF SameAuthority
    <3>2. CASE w # u
      <4>1. w \in Evidenced(evidence)
        BY <1>2, <2>2, <3>2 DEF Evidenced, EvidenceType
      <4>2. PICK j \in DOMAIN ledger : ledger[j].unit = w /\ ledger[j].phase = "completed"
        BY <4>1 DEF IInv, UniqueExecution
      <4> QED
        BY <1>7, <3>2, <4>2
    <3> QED
      BY <3>1, <3>2
  <2> QED
    BY <1>6, <2>1, <2>2 DEF UniqueExecution
<1> QED
  BY <1>13, <1>14, <1>15, <1>16, <1>17, <1>18, <1>19 DEF IInv, LedgerValid

-----------------------------------------------------------------------------
\* An empty ledger satisfies every part of the invariant.
LEMMA InitEstablishes ==
    ASSUME Init
    PROVE  IInv
<1>1. ledger = <<>> /\ DOMAIN ledger = {} /\ Evidenced(evidence) = {}
  BY DEF Init, Evidenced
<1>2. TypeOK
  BY <1>1 DEF Init, TypeOK, EvidenceType
<1>3. WithinCapacity
  <2>1. \A u : ActiveOfKind(u) = {}
    BY <1>1 DEF ActiveOfKind
  <2>2. Cardinality({}) = 0
    BY FS_EmptySet
  <2>3. \A u \in Units : Capacity(u) \in Nat
    BY DispatchAssumption DEF Capacity
  <2> QED
    BY <2>1, <2>2, <2>3 DEF WithinCapacity
<1> QED
  BY <1>1, <1>2, <1>3
     DEF IInv, LedgerValid, NoncesUnique, ActiveDisjoint, ActiveCurrent, HistoryRestorable, UniqueExecution

\* Each step, and stuttering, preserves the invariant.
LEMMA NextPreserves ==
    ASSUME IInv, [Next]_vars
    PROVE  IInv'
<1>1. CASE Next
  BY <1>1, StepShapes, ReservingPreserves, MovingPreserves, RetiringPreserves DEF IInv
<1>2. CASE UNCHANGED vars
  <2> USE <1>2 DEF vars, IInv
  <2>1. TypeOK'
    BY DEF TypeOK
  <2>2. LedgerValid'
    <3>1. \A u : ActiveOfKind(u)' = ActiveOfKind(u)
      BY DEF ActiveOfKind
    <3> QED
      BY <3>1 DEF LedgerValid, NoncesUnique, ActiveDisjoint, WithinCapacity, ActiveCurrent, DispatchIsCurrent
  <2>3. HistoryRestorable' /\ UniqueExecution'
    BY DEF HistoryRestorable, UniqueExecution
  <2> QED
    BY <2>1, <2>2, <2>3
<1> QED
  BY <1>1, <1>2

\* The inductive invariant of the dispatch ledger, for every program and policy.
THEOREM Inductive == Spec => []IInv
BY InitEstablishes, NextPreserves, PTL DEF Spec

\* Every reachable ledger has the types and the record shapes of dispatch.h.
THEOREM TypeCorrect == Spec => []TypeOK
BY Inductive, PTL DEF IInv

\* validate_run_records never refuses a run that legal calls produced: active
\* dispatches stay ready, current, disjoint and within capacity.
THEOREM LedgerAlwaysValid == Spec => []LedgerValid
BY Inductive, PTL DEF IInv

\* validate_rehydrated_run_history accepts the ledger of every reachable run.
THEOREM AlwaysRestorable == Spec => []HistoryRestorable
BY Inductive, PTL DEF IInv

\* No unit is started twice, and evidence exists exactly for completed records.
THEOREM ExecutedOnce == Spec => []UniqueExecution
BY Inductive, PTL DEF IInv

-----------------------------------------------------------------------------
(***************************************************************************)
(* Progress of a program whose units can be ordered.                       *)
(***************************************************************************)

\* A set of naturals that is not empty has a least element.
LEMMA LeastOf ==
    ASSUME NEW S, NEW f \in [S -> Nat], S # {}
    PROVE  \E x \in S : \A y \in S : f[x] <= f[y]
<1> DEFINE T == {f[x] : x \in S}
<1>1. T \subseteq Nat /\ T # {}
  OBVIOUS
<1>2. PICK n \in T : \A m \in T : ~(<<m, n>> \in OpToRel(<, Nat))
  BY <1>1, NatLessThanWellFounded, WFMin
<1>3. \A m \in T : ~(m < n)
  BY <1>1, <1>2 DEF OpToRel
<1>4. PICK x \in S : n = f[x]
  OBVIOUS
<1>5. \A y \in S : f[y] \in Nat /\ f[x] \in Nat /\ ~(f[y] < f[x])
  BY <1>3, <1>4
<1> QED
  BY <1>5

\* A unit with evidence in a run that has not failed satisfies its members.
LEMMA EvidencedIsSatisfied ==
    ASSUME NEW ev, EvidenceType(ev), ~Failed(ev), NEW u \in Units, ev[u] # None
    PROVE  Members(u) \subseteq SatisfiedNodes(ev)
<1>1. u \in Evidenced(ev)
  BY DEF Evidenced
<1>2. Succeeded(ev[u])
  BY <1>1 DEF Failed, FailedNodes, FailedUnits
<1> QED
  BY <1>1, <1>2 DEF SatisfiedNodes, SatisfiedBy

\* A program that is not complete and has not failed has a unit to run.
LEMMA SomeIdle ==
    ASSUME NEW ev, EvidenceType(ev), ~Failed(ev), ~Complete(ev)
    PROVE  Idle(ev) # {}
<1> SUFFICES ASSUME Idle(ev) = {}
             PROVE  Nodes \subseteq SatisfiedNodes(ev)
  BY DEF Complete
<1>1. ASSUME NEW u \in Units PROVE Members(u) \subseteq SatisfiedNodes(ev)
  BY EvidencedIsSatisfied DEF Idle
<1> QED
  BY <1>1 DEF Nodes, SatisfiedNodes

\* The first idle unit has only predecessors that are satisfied.
LEMMA FirstIdleIsReady ==
    ASSUME NEW ev, EvidenceType(ev), ~Failed(ev), NEW order, Ordered(order),
           NEW u \in Idle(ev), \A v \in Idle(ev) : order[u] <= order[v]
    PROVE  u \in ReadyUnits(ev)
<1>1. u \in Units /\ order \in [Units -> Nat]
  BY DEF Idle, Ordered
<1>2. ASSUME NEW n \in External(u) PROVE n \in SatisfiedNodes(ev)
  <2>1. CASE n \in Retained
    BY <2>1 DEF SatisfiedNodes
  <2>2. CASE n \notin Retained
    <3>1. PICK v \in Units : n \in Members(v)
      BY <2>2 DEF External, Nodes
    <3>2. order[v] < order[u] /\ order[v] \in Nat /\ order[u] \in Nat
      BY <1>1, <3>1 DEF Ordered
    <3>3. v \notin Idle(ev)
      BY <3>2
    <3> QED
      BY <3>1, <3>3, EvidencedIsSatisfied DEF Idle
  <2> QED
    BY <2>1, <2>2
<1> QED
  BY <1>2 DEF ReadyUnits

\* The drive never finds a run quiescent and incomplete, whatever the policy
\* (NeverStalls of Dispatch): the first idle unit of the order can be reserved
\* as soon as nothing is active.
THEOREM NeverQuiescent ==
    ASSUME NEW order, Ordered(order)
    PROVE  Spec => []NeverStalls
<1>1. ASSUME TypeOK PROVE NeverStalls
  <2> SUFFICES ASSUME ~Stopped, ~Complete(evidence), ActiveUnits = {}
               PROVE  Eligible # {}
    BY DEF NeverStalls
  <2>1. EvidenceType(evidence) /\ ~Failed(evidence)
    BY <1>1 DEF TypeOK, Stopped
  <2>2. Idle(evidence) # {} /\ Idle(evidence) \subseteq Units
    BY <2>1, SomeIdle DEF Idle
  <2>3. PICK u \in Idle(evidence) : \A v \in Idle(evidence) : order[u] <= order[v]
    <3> DEFINE f == [v \in Idle(evidence) |-> order[v]]
    <3>1. f \in [Idle(evidence) -> Nat]
      BY <2>2 DEF Ordered
    <3>2. \E u \in Idle(evidence) : \A v \in Idle(evidence) : f[u] <= f[v]
      BY <2>2, <3>1, LeastOf
    <3> QED
      BY <3>2
  <2>4. u \in ReadyUnits(evidence)
    BY <2>1, <2>3, FirstIdleIsReady
  <2>5. ActiveOfKind(u) = {}
    BY DEF ActiveOfKind, ActiveUnits
  <2>6. CapacityAvailable(u)
    BY <2>5, FS_EmptySet, DispatchAssumption DEF CapacityAvailable, Capacity
  <2>7. ~OverlapsActive(u)
    BY DEF OverlapsActive
  <2> QED
    BY <2>4, <2>6, <2>7 DEF Eligible
<1> QED
  BY <1>1, TypeCorrect, PTL

-----------------------------------------------------------------------------
(***************************************************************************)
(* Action properties.                                                      *)
(***************************************************************************)

\* After a terminal failure nothing is reserved and nothing reserved is started.
THEOREM Contained == Spec => FailureContained
<1>1. ASSUME TypeOK, Next, Stopped
      PROVE  Len(ledger') = Len(ledger) /\ Started(ledger') = Started(ledger)
  <2> USE DEF InPhase
  <2>1. ledger \in Seq(Records)
    BY <1>1 DEF TypeOK
  <2>2. ~Reserve
    BY <1>1 DEF Reserve, ReserveNext
  <2>3. \A i : ~Start(i)
    BY <1>1 DEF Start, StartConstruction, StartCheck, StartOperation
  <2>4. ASSUME NEW i \in DOMAIN ledger, ReleaseUnstarted(i)
        PROVE  Len(ledger') = Len(ledger) /\ Started(ledger') = Started(ledger)
    BY <2>1, <2>4 DEF ReleaseUnstarted, Started, Records
  <2>5. ASSUME NEW i \in DOMAIN ledger, Finish(i)
        PROVE  Len(ledger') = Len(ledger) /\ Started(ledger') = Started(ledger)
    <3>1. PICK r : Retire(i, r)
      BY <2>5 DEF Finish, CompleteConstruction, CompleteCheck, CompleteOperation
    <3>2. \A j \in DOMAIN ledger : ledger'[j].session = ledger[j].session
      BY <2>1, <3>1 DEF Retire, Records
    <3>3. Len(ledger') = Len(ledger) /\ DOMAIN ledger' = DOMAIN ledger
      BY <2>1, <3>1 DEF Retire
    <3> QED
      BY <3>2, <3>3 DEF Started
  <2>6. ASSUME NEW i \in DOMAIN ledger, Observe(i)
        PROVE  Len(ledger') = Len(ledger) /\ Started(ledger') = Started(ledger)
    BY <2>1, <2>6 DEF Observe, ObserveOperation, Started, Records
  <2> QED
    BY <1>1, <2>2, <2>3, <2>4, <2>5, <2>6 DEF Next
<1>2. TypeOK /\ [Next]_vars => [Stopped => Len(ledger') = Len(ledger) /\ Started(ledger') = Started(ledger)]_vars
  BY <1>1
<1> QED
  BY <1>2, TypeCorrect, PTL DEF Spec, FailureContained

\* Canonical state moves only when the single active operation completes in the
\* epoch it was reserved against.
THEOREM Serial == Spec => EpochSerial
<1> DEFINE Published(i) ==
        /\ ledger[i].unit \in Operations
        /\ epoch' = epoch \cup {ledger[i].unit}
        /\ ledger[i].reservedState = epoch
        /\ ledger[i].phase = "started" /\ ledger'[i].phase = "completed"
        /\ \A j \in DOMAIN ledger \ {i} : ledger[j].unit \in Operations => ~Active(ledger[j])
<1>1. ASSUME IInv, Next, epoch' # epoch
      PROVE  \E i \in DOMAIN ledger : Published(i)
  <2>1. PICK i, result : Retiring(i, result)
    BY <1>1, StepShapes DEF IInv, Reserving, Moving
  <2>2. /\ i \in DOMAIN ledger /\ ledger[i].phase = "started"
        /\ ledger[i].unit \in Operations /\ epoch' = epoch \cup {ledger[i].unit}
        /\ ledger[i].reservedState = epoch
    BY <1>1, <2>1 DEF Retiring, DispatchIsCurrent
  <2>3. ledger[i] \in Records /\ ledger \in Seq(Records)
    BY <1>1, <2>2 DEF IInv, TypeOK
  <2>4. ledger'[i].phase = "completed"
    BY <2>1, <2>2, <2>3 DEF Retiring, Retire, Records
  <2>5. \A j \in DOMAIN ledger \ {i} : ledger[j].unit \in Operations => ~Active(ledger[j])
    BY <1>1, <2>2, OneOperationLane DEF IInv, LedgerValid, Active
  <2> QED
    BY <2>2, <2>4, <2>5
<1>2. IInv /\ [Next]_vars => [epoch' # epoch => \E i \in DOMAIN ledger : Published(i)]_vars
  BY <1>1
<1> QED
  BY <1>2, Inductive, PTL DEF Spec, EpochSerial

\* A record that stays as it is keeps its authority and what it gathered.
LEMMA RecordRests ==
    ASSUME TypeOK, NEW i \in DOMAIN ledger, ledger'[i] = ledger[i]
    PROVE  SameAuthority(ledger[i], ledger'[i]) /\ Advances(ledger[i], ledger'[i])
<1>1. ledger[i] \in Records
  BY DEF TypeOK
<1>2. ledger[i].phase \in Phases
  BY <1>1 DEF Records
<1> QED
  BY <1>2 DEF SameAuthority, Advances, Forward, Phases

\* Every record is still there after a step, no less than it was.
LEMMA RecordsAdvance ==
    ASSUME TypeOK, Next, NEW i \in DOMAIN ledger
    PROVE  /\ i \in DOMAIN ledger'
           /\ SameAuthority(ledger[i], ledger'[i]) /\ Advances(ledger[i], ledger'[i])
<1>1. ledger \in Seq(Records) /\ ledger[i] \in Records /\ RecordShape(ledger[i])
  BY DEF TypeOK
<1>2. CASE \E u, nonce : Reserving(u, nonce)
  BY <1>1, <1>2, RecordRests DEF Reserving
<1>3. CASE \E k : Moving(k)
  BY <1>3, RecordRests DEF Moving
<1>4. ASSUME NEW k, NEW result, Retiring(k, result)
      PROVE  /\ i \in DOMAIN ledger'
             /\ SameAuthority(ledger[i], ledger'[i]) /\ Advances(ledger[i], ledger'[i])
  <2>1. /\ k \in DOMAIN ledger /\ ledger[k].phase = "started"
        /\ ledger' = [ledger EXCEPT ![k].phase = "completed", ![k].terminal = result]
    BY <1>4 DEF Retiring, Retire
  <2>2. CASE i # k
    BY <1>1, <2>1, <2>2, RecordRests
  <2>3. CASE i = k
    <3>1. ledger'[i] = [ledger[i] EXCEPT !.phase = "completed", !.terminal = result]
      BY <1>1, <2>1, <2>3
    <3>2. ledger[i].terminal = None
      BY <1>1, <2>1, <2>3 DEF RecordShape
    <3> QED
      BY <1>1, <2>1, <2>3, <3>1, <3>2 DEF SameAuthority, Advances, Forward, Records
  <2> QED
    BY <2>2, <2>3
<1> QED
  BY <1>2, <1>3, <1>4, StepShapes

\* No record is dropped, rebound, moved backwards or robbed of an observation.
THEOREM Monotone == Spec => LedgerMonotone
<1> DEFINE Kept(i) == SameAuthority(ledger[i], ledger'[i]) /\ Advances(ledger[i], ledger'[i])
<1>1. TypeOK /\ [Next]_vars => [\A i \in DOMAIN ledger : i \in DOMAIN ledger' /\ Kept(i)]_vars
  BY RecordsAdvance
<1>2. [\A i \in DOMAIN ledger : i \in DOMAIN ledger' /\ Kept(i)]_vars =>
        [\A i \in DOMAIN ledger :
           LET old == ledger[i] new == ledger'[i] IN
           /\ i \in DOMAIN ledger'
           /\ new.unit = old.unit /\ new.nonce = old.nonce
           /\ new.dependencies = old.dependencies
           /\ new.reservedFrom = old.reservedFrom /\ new.reservedState = old.reservedState
           /\ new.phase \in Forward[old.phase]
           /\ old.session # None => new.session = old.session
           /\ old.terminal # None => new.terminal = old.terminal
           /\ old.observations \subseteq new.observations]_vars
  BY DEF SameAuthority, Advances
<1> QED
  BY <1>1, <1>2, TypeCorrect, PTL DEF Spec, LedgerMonotone

-----------------------------------------------------------------------------
(***************************************************************************)
(* The journal's view of the ledger (DispatchJournal).  A journal numbers  *)
(* its records by the transitions they retain, so besides the invariant of *)
(* the ledger the proof needs that a step adds exactly one of them.        *)
(***************************************************************************)
\* How many transitions a record has been through, and all of a ledger's.
Steps(r) == Counting!Transitions(r)
Pairs(l) == UNION {{i} \X (1..Steps(l[i])) : i \in DOMAIN l}

\* The instances count as this module does.
LEMMA SameCardinality == \A S : Journal!Cardinality(S) = Cardinality(S) /\ Counting!Cardinality(S) = Cardinality(S)
  BY DEF Journal!Cardinality, Counting!Cardinality, Cardinality

\* What a journal of this ledger counts.
LEMMA CountIs == TransitionCount = Cardinality(Pairs(ledger))
  BY SameCardinality DEF TransitionCount, Counting!RetainedTransitionCount, Counting!RetainedTransitions, Pairs, Steps

\* And after a step.
LEMMA CountIsNext == TransitionCount' = Cardinality(Pairs(ledger'))
  BY SameCardinality DEF TransitionCount, Counting!RetainedTransitionCount, Counting!RetainedTransitions, Pairs, Steps

\* An operation has at most three observations.
LEMMA ObservationsFinite ==
    ASSUME NEW S \in SUBSET UncertainOutcomes
    PROVE  IsFiniteSet(S) /\ Cardinality(S) \in 0..3
<1>1. IsFiniteSet({}) /\ Cardinality({}) = 0
  BY FS_EmptySet
<1>2. IsFiniteSet({"outer_lease_lost"}) /\ Cardinality({"outer_lease_lost"}) = 1
  BY FS_Singleton
<1> DEFINE A == {"outer_lease_lost"} 
           B == A \cup {"state_publication_indeterminate"}
           C == B \cup {"application_resolution_required"}
<1>3. IsFiniteSet(B) /\ Cardinality(B) = 2
  BY <1>2, FS_AddElement
<1>4. IsFiniteSet(C) /\ Cardinality(C) = 3
  BY <1>3, FS_AddElement
<1>5. C = UncertainOutcomes
  BY DEF UncertainOutcomes
<1> QED
  BY <1>4, <1>5, FS_Subset, FS_CardinalityType

\* A record has been through at most six transitions.
LEMMA TransitionBounds ==
    ASSUME NEW r \in Records
    PROVE  Steps(r) \in 1..6
<1>1. r.phase \in Phases /\ r.observations \in SUBSET UncertainOutcomes
  BY DEF Records
<1>2. Cardinality(r.observations) \in 0..3
  BY <1>1, ObservationsFinite
<1>3. Counting!Cardinality(r.observations) \in 0..3
  BY <1>2, SameCardinality
<1> QED
  BY <1>1, <1>3 DEF Steps, Counting!Transitions, Phases

\* So a ledger retains finitely many.
LEMMA PairsFinite ==
    ASSUME NEW l \in Seq(Records)
    PROVE  IsFiniteSet(Pairs(l)) /\ Cardinality(Pairs(l)) \in Nat
<1> DEFINE Box == (1..Len(l)) \X (1..6)
<1>1. IsFiniteSet(Box)
  <2>1. Len(l) \in Nat /\ 1 \in Int /\ 6 \in Int
    OBVIOUS
  <2>2. IsFiniteSet(1..Len(l))
    BY <2>1, FS_Interval
  <2>3. IsFiniteSet(1..6)
    BY <2>1, FS_Interval
  <2> QED
    BY <2>2, <2>3, FS_Product
<1>2. \A i \in DOMAIN l : Steps(l[i]) \in 1..6
  BY TransitionBounds
<1>3. Pairs(l) \subseteq Box
  BY <1>2 DEF Pairs
<1> QED
  BY <1>1, <1>3, FS_Subset, FS_CardinalityType

\* One record is new or has been through one transition more.
LEMMA OneMore ==
    ASSUME NEW l \in Seq(Records), NEW m \in Seq(Records), NEW i \in DOMAIN m,
           DOMAIN m = DOMAIN l \cup {i},
           \A j \in DOMAIN l : j # i => m[j] = l[j],
           IF i \in DOMAIN l THEN Steps(m[i]) = Steps(l[i]) + 1 ELSE Steps(m[i]) = 1
    PROVE  Cardinality(Pairs(m)) = Cardinality(Pairs(l)) + 1
<1> DEFINE p == <<i, Steps(m[i])>>
<1>1. \A j \in DOMAIN l : Steps(l[j]) \in 1..6
  BY TransitionBounds
<1>2. Steps(m[i]) \in 1..6
  BY TransitionBounds
<1>3. p \notin Pairs(l)
  BY <1>1, <1>2 DEF Pairs
<1>4. ASSUME NEW x PROVE x \in Pairs(m) <=> x \in Pairs(l) \cup {p}
  <2>1. ASSUME NEW j \in DOMAIN m, j # i
        PROVE  x \in {j} \X (1..Steps(m[j])) <=> x \in {j} \X (1..Steps(l[j]))
    BY <2>1
  <2>2. CASE i \in DOMAIN l
    <3>1. x \in {i} \X (1..Steps(m[i])) <=> x \in {i} \X (1..Steps(l[i])) \/ x = p
      BY <1>1, <1>2, <2>2
    <3> QED
      BY <2>1, <2>2, <3>1 DEF Pairs
  <2>3. CASE i \notin DOMAIN l
    <3>1. x \in {i} \X (1..Steps(m[i])) <=> x = p
      BY <1>2, <2>3
    <3> QED
      BY <2>1, <2>3, <3>1 DEF Pairs
  <2> QED
    BY <2>2, <2>3
<1>5. Pairs(m) = Pairs(l) \cup {p}
  BY <1>4
<1> QED
  BY <1>3, <1>5, PairsFinite, FS_AddElement

\* A record goes through one transition.
Transits(i) ==
    /\ i \in DOMAIN ledger /\ DOMAIN ledger' = DOMAIN ledger
    /\ \A j \in DOMAIN ledger : j # i => ledger'[j] = ledger[j]
    /\ Steps(ledger'[i]) = Steps(ledger[i]) + 1
    /\ Journal!RecordTransition(ledger[i], ledger'[i])
    /\ ledger'[i] # ledger[i]

\* A record without observations counts none.
LEMMA NoObservations == Counting!Cardinality({}) = 0
  BY SameCardinality, FS_EmptySet

\* A start is one transition.
LEMMA StartTransits ==
    ASSUME TypeOK, NEW i \in DOMAIN ledger, NEW s \in Sessions,
           ledger[i].phase = "reserved", MarkStarted(i, s)
    PROVE  Transits(i)
<1>1. ledger[i] \in Records /\ RecordShape(ledger[i])
  BY DEF TypeOK
<1>2. ledger'[i] = [ledger[i] EXCEPT !.phase = "started", !.session = s]
  BY DEF MarkStarted, TypeOK
<1>3. /\ ledger'[i].phase = "started" /\ ledger'[i].session = s /\ s # None
      /\ ledger'[i].observations = {} /\ ledger'[i].terminal = None
      /\ Journal!SameAuthority(ledger[i], ledger'[i])
  BY <1>1, <1>2, ProgramAssumption DEF Records, RecordShape, Journal!SameAuthority
<1>4. Steps(ledger'[i]) = 2 /\ Steps(ledger[i]) = 1
  BY <1>3, NoObservations DEF Steps, Counting!Transitions
<1>5. Journal!RecordTransition(ledger[i], ledger'[i])
  BY <1>3 DEF Journal!RecordTransition, Journal!NoEvidence, Journal!ProgressChanged, MarkStarted
<1> QED
  BY <1>3, <1>4, <1>5 DEF Transits, MarkStarted, TypeOK

\* So is a release.
LEMMA ReleaseTransits ==
    ASSUME TypeOK, NEW i \in DOMAIN ledger, ReleaseUnstarted(i)
    PROVE  Transits(i)
<1>1. ledger[i] \in Records /\ RecordShape(ledger[i]) /\ ledger[i].phase = "reserved"
  BY DEF TypeOK, ReleaseUnstarted, InPhase
<1>2. ledger'[i] = [ledger[i] EXCEPT !.phase = "released"]
  BY DEF ReleaseUnstarted, TypeOK
<1>3. /\ ledger'[i].phase = "released" /\ ledger'[i].session = None
      /\ ledger'[i].observations = {} /\ ledger'[i].terminal = None
      /\ Journal!SameAuthority(ledger[i], ledger'[i])
  BY <1>1, <1>2 DEF Records, RecordShape, Journal!SameAuthority
<1>4. Steps(ledger'[i]) = 2 /\ Steps(ledger[i]) = 1
  BY <1>1, <1>3 DEF Steps, Counting!Transitions
<1>5. Journal!RecordTransition(ledger[i], ledger'[i])
  BY <1>1, <1>3 DEF Journal!RecordTransition, Journal!NoEvidence, Journal!ProgressChanged, ReleaseUnstarted
<1> QED
  BY <1>1, <1>3, <1>4, <1>5 DEF Transits, ReleaseUnstarted, TypeOK

\* So is an observation, which is never one already made.
LEMMA ObserveTransits ==
    ASSUME TypeOK, NEW i \in DOMAIN ledger, NEW x, ObserveOperation(i, x)
    PROVE  Transits(i)
<1> DEFINE old == ledger[i].observations
<1>1. /\ ledger[i] \in Records /\ RecordShape(ledger[i]) /\ ledger[i].phase = "started"
      /\ x \in UncertainOutcomes \ old
  BY DEF TypeOK, ObserveOperation, InPhase
<1>2. ledger'[i] = [ledger[i] EXCEPT !.observations = @ \cup {x}]
  BY DEF ObserveOperation, TypeOK
<1>3. /\ ledger'[i].phase = "started" /\ ledger'[i].session = ledger[i].session
      /\ ledger'[i].observations = old \cup {x} /\ ledger'[i].terminal = None
      /\ Journal!SameAuthority(ledger[i], ledger'[i])
  BY <1>1, <1>2 DEF Records, RecordShape, Journal!SameAuthority
<1>4. IsFiniteSet(old) /\ Cardinality(old) \in 0..3
  BY <1>1, ObservationsFinite DEF Records
<1>5. Cardinality(old \cup {x}) = Cardinality(old) + 1
  BY <1>1, <1>4, FS_AddElement
<1>6. /\ Counting!Cardinality(old \cup {x}) = Counting!Cardinality(old) + 1
      /\ Journal!Cardinality(old \cup {x}) = Journal!Cardinality(old) + 1
      /\ Counting!Cardinality(old) \in Nat
  BY <1>4, <1>5, SameCardinality
<1>7. Steps(ledger'[i]) = Steps(ledger[i]) + 1
  <2>1. Steps(ledger'[i]) = 2 + Counting!Cardinality(old \cup {x})
    BY <1>3 DEF Steps, Counting!Transitions
  <2>2. Steps(ledger[i]) = 2 + Counting!Cardinality(old)
    BY <1>1 DEF Steps, Counting!Transitions
  <2> QED
    BY <1>6, <2>1, <2>2
<1>8. Journal!RecordTransition(ledger[i], ledger'[i])
  BY <1>1, <1>3, <1>6 DEF Journal!RecordTransition, Journal!SameAttempt, Journal!ProgressChanged, ObserveOperation
<1> QED
  BY <1>1, <1>3, <1>7, <1>8 DEF Transits, ObserveOperation, TypeOK

\* So is a completion, which always changes the progression.
LEMMA FinishTransits ==
    ASSUME IInv, NEW i, NEW result, Retiring(i, result)
    PROVE  Transits(i) /\ evidence' # evidence /\ ledger'[i].phase = "completed"
<1> DEFINE u == ledger[i].unit
<1>1. /\ i \in DOMAIN ledger /\ ledger[i] \in Records /\ RecordShape(ledger[i])
      /\ ledger[i].phase = "started"
  BY DEF Retiring, IInv, TypeOK
<1>2. u \in Units /\ evidence[u] = None
  BY DEF Retiring, DispatchIsCurrent, ReadyUnits, Idle
<1>3. result # None
  BY <1>2, ResultAssumption DEF Retiring, AllResults
<1>4. ledger'[i] = [ledger[i] EXCEPT !.phase = "completed", !.terminal = result]
  BY <1>1 DEF Retiring, Retire, IInv, TypeOK
<1>5. /\ ledger'[i].phase = "completed" /\ ledger'[i].session = ledger[i].session
      /\ ledger'[i].observations = ledger[i].observations /\ ledger'[i].terminal = result
      /\ Journal!SameAuthority(ledger[i], ledger'[i])
  BY <1>1, <1>4 DEF Records, Journal!SameAuthority
<1>6. evidence'[u] = result
  BY <1>2 DEF Retiring, Retire, IInv, TypeOK, EvidenceType
<1>7. evidence' # evidence
  BY <1>2, <1>3, <1>6
<1>8. Steps(ledger'[i]) = Steps(ledger[i]) + 1
  <2>1. Cardinality(ledger[i].observations) \in 0..3
    BY <1>1, ObservationsFinite DEF Records
  <2>2. Counting!Cardinality(ledger[i].observations) \in Nat
    BY <2>1, SameCardinality
  <2> QED
    BY <1>1, <1>5, <2>2 DEF Steps, Counting!Transitions
<1>9. Journal!RecordTransition(ledger[i], ledger'[i])
  BY <1>1, <1>3, <1>5, <1>7 DEF Journal!RecordTransition, Journal!SameAttempt, Journal!ProgressChanged
<1> QED
  BY <1>1, <1>5, <1>7, <1>8, <1>9 DEF Transits, Retiring, Retire, IInv, TypeOK

\* A step reserves, or takes one record through one transition; only a
\* completion changes more than the ledger.
LEMMA StepTransits ==
    ASSUME IInv, Next
    PROVE  \/ \E u, nonce : Reserving(u, nonce)
           \/ \E i : Transits(i) /\ UNCHANGED <<evidence, epoch>>
           \/ \E i, result : Transits(i) /\ Retiring(i, result) /\ evidence' # evidence /\ ledger'[i].phase = "completed"
<1>1. TypeOK
  BY DEF IInv
<1>2. CASE Reserve
  BY <1>2 DEF Reserve, ReserveNext, Reserving, Eligible
<1>3. ASSUME NEW i \in DOMAIN ledger, Start(i)
      PROVE  Transits(i) /\ UNCHANGED <<evidence, epoch>>
  <2>1. PICK s \in Sessions : ledger[i].phase = "reserved" /\ MarkStarted(i, s)
    BY <1>3 DEF Start, StartConstruction, StartCheck, StartOperation, InPhase
  <2>2. UNCHANGED <<evidence, epoch>>
    BY <2>1 DEF MarkStarted
  <2> QED
    BY <1>1, <2>1, <2>2, StartTransits
<1>4. ASSUME NEW i \in DOMAIN ledger, ReleaseUnstarted(i)
      PROVE  Transits(i) /\ UNCHANGED <<evidence, epoch>>
  BY <1>1, <1>4, ReleaseTransits DEF ReleaseUnstarted
<1>5. ASSUME NEW i \in DOMAIN ledger, Observe(i)
      PROVE  Transits(i) /\ UNCHANGED <<evidence, epoch>>
  <2>1. PICK x \in UncertainOutcomes : ObserveOperation(i, x)
    BY <1>5 DEF Observe
  <2> QED
    BY <1>1, <2>1, ObserveTransits DEF ObserveOperation
<1>6. ASSUME NEW i \in DOMAIN ledger, Finish(i)
      PROVE  \E result : Retiring(i, result)
  BY <1>6, ProgramAssumption
     DEF Finish, CompleteConstruction, CompleteCheck, CompleteOperation, Retiring, Results, InPhase
<1> QED
  BY <1>2, <1>3, <1>4, <1>5, <1>6, FinishTransits DEF Next

\* Within its limits, the bounds of the journal on its records are those of
\* the ledger.
LEMMA RecordBounded ==
    ASSUME IInv, Journal!WithinLimits(ledger)
    PROVE  Journal!RecordBounds(ledger)
<1>1. Journal!ActiveRecords(ledger) = {k \in DOMAIN ledger : Active(ledger[k])}
  BY DEF Journal!ActiveRecords, Active
<1>2. Journal!IsInjective([i \in DOMAIN ledger |-> ledger[i].nonce])
  BY DEF Journal!IsInjective, IInv, LedgerValid, NoncesUnique
<1>3. \A i, j \in Journal!ActiveRecords(ledger) :
         i # j => Members(ledger[i].unit) \cap Members(ledger[j].unit) = {}
  BY <1>1 DEF IInv, LedgerValid, ActiveDisjoint
<1>4. ASSUME NEW i \in Journal!ActiveRecords(ledger)
      PROVE  Journal!Cardinality({j \in Journal!ActiveRecords(ledger) : ledger[j].unit \in KindOf(ledger[i].unit)})
                <= Capacity(ledger[i].unit)
  <2>1. {j \in Journal!ActiveRecords(ledger) : ledger[j].unit \in KindOf(ledger[i].unit)}
           = ActiveOfKind(ledger[i].unit)
    BY <1>1 DEF ActiveOfKind
  <2>2. ledger[i].unit \in Units
    <3>1. ledger[i] \in Records
      BY <1>1 DEF IInv, TypeOK
    <3> QED
      BY <3>1 DEF Records
  <2>3. Cardinality(ActiveOfKind(ledger[i].unit)) <= Capacity(ledger[i].unit)
    BY <2>2 DEF IInv, LedgerValid, WithinCapacity
  <2>4. Journal!Cardinality(ActiveOfKind(ledger[i].unit)) = Cardinality(ActiveOfKind(ledger[i].unit))
    BY SameCardinality
  <2> QED
    BY <2>1, <2>3, <2>4
<1>5. ASSUME NEW i \in DOMAIN ledger PROVE Members(ledger[i].unit) # {}
  <2>1. ledger[i] \in Records
    BY DEF IInv, TypeOK
  <2>2. ledger[i].unit \in Units
    BY <2>1 DEF Records
  <2> QED
    BY <2>2, PrimaryIsMember
<1> QED
  BY <1>2, <1>3, <1>4, <1>5 DEF Journal!RecordBounds

\* No progression is both complete and failed.
LEMMA VerdictConsistent ==
    ASSUME TypeOK
    PROVE  ~(Complete(evidence) /\ Failed(evidence))
<1> SUFFICES ASSUME Complete(evidence), Failed(evidence) PROVE FALSE
  OBVIOUS
<1>1. PICK u \in FailedUnits(evidence) : TRUE
  BY DEF Failed, FailedNodes
<1>2. u \in Units /\ u \in Members(u) /\ ~Succeeded(evidence[u])
  BY <1>1, PrimaryIsMember DEF FailedUnits, Evidenced
<1>3. u \notin Retained /\ u \in SatisfiedNodes(evidence)
  BY <1>2, ProgramAssumption DEF Complete, Nodes
<1>4. PICK w \in Evidenced(evidence) : u \in SatisfiedBy(w, evidence[w])
  BY <1>3 DEF SatisfiedNodes
<1>5. w \in Units /\ evidence[w] \in Results(w)
  BY <1>4 DEF Evidenced, TypeOK, EvidenceType
<1>6. w = u
  <2>1. u \in Members(w)
    BY <1>4, <1>5, SatisfiedByMembers
  <2> QED
    BY <1>2, <1>5, <2>1, ProgramAssumption
<1>7. u \in Operations /\ u \in Returned(u, evidence[u], TRUE)
  BY <1>2, <1>4, <1>6 DEF SatisfiedBy
<1>8. Returned(u, evidence[u], TRUE) \subseteq Lifecycle(u)
  BY <1>5, <1>6, <1>7, ReturnedMembers
<1> QED
  BY <1>7, <1>8, ProgramAssumption

\* No more records than transitions.
Bounded == Len(ledger) <= TransitionCount /\ TransitionCount \in Nat

\* Every ledger within the limits has the shape the journal asks for.
LEMMA ShapeHolds ==
    ASSUME IInv, Bounded, Journal!WithinLimits(ledger)
    PROVE  Journal!TopLevelShape
<1>1. ledger \in Seq(Records) /\ Len(ledger) \in Nat
  BY DEF IInv, TypeOK
<1>2. TransitionCount = 0 <=> ledger = <<>>
  <2>1. ASSUME ledger = <<>> PROVE TransitionCount = 0
    <3>1. Pairs(ledger) = {}
      BY <2>1 DEF Pairs
    <3> QED
      BY <3>1, CountIs, FS_EmptySet
  <2>2. ASSUME TransitionCount = 0 PROVE ledger = <<>>
    BY <1>1, <2>2 DEF Bounded
  <2> QED
    BY <2>1, <2>2
<1>3. TransitionCount = Journal!RetainedTransitionCount(ledger)
  <2>1. Journal!RetainedTransitions(ledger) = Counting!RetainedTransitions(ledger)
    <3>1. \A r : Journal!Transitions(r) = Counting!Transitions(r)
      BY SameCardinality DEF Journal!Transitions, Counting!Transitions
    <3> QED
      BY <3>1 DEF Journal!RetainedTransitions, Counting!RetainedTransitions
  <2> QED
    BY <2>1, SameCardinality DEF TransitionCount, Counting!RetainedTransitionCount, Journal!RetainedTransitionCount
<1> QED
  BY <1>2, <1>3, RecordBounded, VerdictConsistent DEF Journal!TopLevelShape, Bounded, IInv, Stopped

\* A step of the ledger is counted once, and adds one record at most.
LEMMA StepCounts ==
    ASSUME IInv, IInv', Next
    PROVE  TransitionCount' = TransitionCount + 1 /\ Len(ledger') <= Len(ledger) + 1
<1>1. ledger \in Seq(Records) /\ ledger' \in Seq(Records)
  BY DEF IInv, TypeOK
<1>2. ASSUME NEW u, NEW nonce, Reserving(u, nonce)
      PROVE  TransitionCount' = TransitionCount + 1 /\ Len(ledger') <= Len(ledger) + 1
  <2> DEFINE n == Len(ledger) + 1
  <2>1. /\ n \in DOMAIN ledger' /\ n \notin DOMAIN ledger
        /\ DOMAIN ledger' = DOMAIN ledger \cup {n}
        /\ \A j \in DOMAIN ledger : j # n => ledger'[j] = ledger[j]
        /\ ledger'[n].phase = "reserved" /\ Len(ledger') = n
    BY <1>1, <1>2 DEF Reserving, Reservation
  <2>2. Steps(ledger'[n]) = 1
    BY <2>1 DEF Steps, Counting!Transitions
  <2>3. Cardinality(Pairs(ledger')) = Cardinality(Pairs(ledger)) + 1
    BY <1>1, <2>1, <2>2, OneMore
  <2> QED
    BY <1>1, <2>1, <2>3, CountIs, CountIsNext
<1>3. ASSUME NEW i, Transits(i)
      PROVE  TransitionCount' = TransitionCount + 1 /\ Len(ledger') <= Len(ledger) + 1
  <2>1. Cardinality(Pairs(ledger')) = Cardinality(Pairs(ledger)) + 1
    <3>1. /\ i \in DOMAIN ledger /\ i \in DOMAIN ledger' /\ DOMAIN ledger' = DOMAIN ledger \cup {i}
          /\ \A j \in DOMAIN ledger : j # i => ledger'[j] = ledger[j]
          /\ Steps(ledger'[i]) = Steps(ledger[i]) + 1
      BY <1>3 DEF Transits
    <3> QED
      BY <1>1, <3>1, OneMore
  <2>2. Len(ledger') = Len(ledger)
    BY <1>1, <1>3 DEF Transits
  <2> QED
    BY <1>1, <2>1, <2>2, CountIs, CountIsNext
<1> QED
  BY <1>2, <1>3, StepTransits

\* A step of the ledger within the limits is a successor the journal accepts.
LEMMA StepSucceeds ==
    ASSUME IInv, IInv', Next, Journal!TopLevelShape', Journal!Encodable(ledger')
    PROVE  Journal!Successor
<1>1. ledger \in Seq(Records) /\ ledger' \in Seq(Records)
  BY DEF IInv, TypeOK
<1>2. TransitionCount' = TransitionCount + 1
  BY StepCounts
<1>3. ASSUME NEW u, NEW nonce, Reserving(u, nonce)
      PROVE  Journal!Reservation /\ Journal!EpochAuthority
  <2>1. /\ evidence' = evidence /\ epoch' = epoch
        /\ ledger' = Append(ledger, Reservation(u, nonce))
    BY <1>3 DEF Reserving
  <2>2. /\ Len(ledger') = Len(ledger) + 1 /\ SubSeq(ledger', 1, Len(ledger)) = ledger
        /\ ledger'[Len(ledger')] = Reservation(u, nonce)
    BY <1>1, <2>1
  <2>3. Journal!NewRecord = Reservation(u, nonce)
    BY <2>2 DEF Journal!NewRecord
  <2>4. Journal!Reservation
    BY <2>1, <2>2, <2>3 DEF Journal!Reservation, Journal!ProgressChanged, Reservation
  <2> QED
    BY <2>1, <2>4 DEF Journal!EpochAuthority, Journal!ProgressChanged, Stopped
<1>4. ASSUME NEW i, Transits(i)
      PROVE  Journal!OneTransition /\ i \in Journal!ChangedRecords
  <2>1. Journal!ChangedRecords = {i}
    BY <1>4 DEF Transits, Journal!ChangedRecords
  <2> QED
    BY <1>1, <1>4, <2>1 DEF Transits, Journal!OneTransition
<1>5. ASSUME UNCHANGED <<evidence, epoch>>
      PROVE  Journal!EpochAuthority
  BY <1>5 DEF Journal!EpochAuthority, Journal!ProgressChanged, Stopped
<1>6. ASSUME NEW i, NEW result, Transits(i), Retiring(i, result), evidence' # evidence, ledger'[i].phase = "completed"
      PROVE  Journal!EpochAuthority
  <2>1. epoch' # epoch => ledger[i].unit \in Operations
    BY <1>6 DEF Retiring
  <2>2. ledger'[i].unit = ledger[i].unit
    BY <1>6 DEF Transits, Journal!RecordTransition, Journal!SameAuthority
  <2> QED
    BY <1>4, <1>6, <2>1, <2>2 DEF Journal!EpochAuthority, Journal!ProgressChanged
<1>7. (Journal!Reservation \/ Journal!OneTransition) /\ Journal!EpochAuthority
  BY <1>3, <1>4, <1>5, <1>6, StepTransits
<1> QED
  BY <1>2, <1>7 DEF Journal!Successor

-----------------------------------------------------------------------------
(***************************************************************************)
(* The limits of the journal, which the ledger does not know.              *)
(***************************************************************************)
\* Records of the same units, dependencies and observations are as many.
LEMMA LimitsKept ==
    ASSUME Journal!WithinLimits(ledger), DOMAIN ledger' = DOMAIN ledger,
           Len(ledger') = Len(ledger),
           \A j \in DOMAIN ledger :
               /\ ledger'[j].unit = ledger[j].unit
               /\ ledger'[j].dependencies = ledger[j].dependencies
               /\ ledger'[j].observations = ledger[j].observations
    PROVE  Journal!WithinLimits(ledger')
BY DEF Journal!WithinLimits

\* What a start or a completion does to a record leaves all three as they are.
LEMMA RunningFits ==
    ASSUME IInv, Journal!WithinLimits(ledger), NEW i \in DOMAIN ledger, Start(i) \/ Finish(i)
    PROVE  Journal!WithinLimits(ledger')
<1>1. ledger \in Seq(Records) /\ \A j \in DOMAIN ledger : ledger[j] \in Records
  BY DEF IInv, TypeOK
<1>2. ASSUME NEW s, MarkStarted(i, s) PROVE Journal!WithinLimits(ledger')
  <2>1. ledger' = [ledger EXCEPT ![i] = [ledger[i] EXCEPT !.phase = "started", !.session = s]]
    BY <1>1, <1>2 DEF MarkStarted
  <2>2. DOMAIN ledger' = DOMAIN ledger /\ Len(ledger') = Len(ledger)
    BY <1>1, <2>1
  <2>3. \A j \in DOMAIN ledger :
            /\ ledger'[j].unit = ledger[j].unit
            /\ ledger'[j].dependencies = ledger[j].dependencies
            /\ ledger'[j].observations = ledger[j].observations
    BY <1>1, <2>1 DEF Records
  <2> QED
    BY <2>2, <2>3, LimitsKept
<1>3. ASSUME NEW r, Retire(i, r) PROVE Journal!WithinLimits(ledger')
  <2>1. ledger' = [ledger EXCEPT ![i] = [ledger[i] EXCEPT !.phase = "completed", !.terminal = r]]
    BY <1>1, <1>3 DEF Retire
  <2>2. DOMAIN ledger' = DOMAIN ledger /\ Len(ledger') = Len(ledger)
    BY <1>1, <2>1
  <2>3. \A j \in DOMAIN ledger :
            /\ ledger'[j].unit = ledger[j].unit
            /\ ledger'[j].dependencies = ledger[j].dependencies
            /\ ledger'[j].observations = ledger[j].observations
    BY <1>1, <2>1 DEF Records
  <2> QED
    BY <2>2, <2>3, LimitsKept
<1> QED
  BY <1>2, <1>3 DEF Start, StartConstruction, StartCheck, StartOperation,
                    Finish, CompleteConstruction, CompleteCheck, CompleteOperation

\* So only a reservation or an observation can be one too many, and neither
\* starts or retires anything.
LEMMA CountsOutgrown ==
    ASSUME IInv, Next, Journal!WithinLimits(ledger), ~Journal!WithinLimits(ledger')
    PROVE  UNCHANGED <<evidence, epoch>> /\ Started(ledger') = Started(ledger)
<1>1. ledger \in Seq(Records) /\ Len(ledger) \in Nat /\ \A j \in DOMAIN ledger : ledger[j] \in Records
  BY DEF IInv, TypeOK
<1>2. CASE Reserve
  <2>1. PICK u, nonce : Reserving(u, nonce)
    BY <1>2 DEF Reserve, ReserveNext, Reserving, Eligible
  <2> DEFINE n == Len(ledger) + 1
  <2>2. /\ DOMAIN ledger' = DOMAIN ledger \cup {n} /\ n \notin DOMAIN ledger
        /\ \A j \in DOMAIN ledger : ledger'[j] = ledger[j]
        /\ ledger'[n].session = None
    BY <1>1, <2>1 DEF Reserving, Reservation
  <2>3. Started(ledger') = Started(ledger)
    BY <2>2 DEF Started
  <2> QED
    BY <2>1, <2>3 DEF Reserving
<1>3. ASSUME NEW i \in DOMAIN ledger, ReleaseUnstarted(i) \/ Observe(i)
      PROVE  UNCHANGED <<evidence, epoch>> /\ Started(ledger') = Started(ledger)
  <2>1. \A j \in DOMAIN ledger : ledger'[j].session = ledger[j].session
    BY <1>1, <1>3 DEF ReleaseUnstarted, Observe, ObserveOperation, Records
  <2>2. DOMAIN ledger' = DOMAIN ledger /\ UNCHANGED <<evidence, epoch>>
    BY <1>1, <1>3 DEF ReleaseUnstarted, Observe, ObserveOperation
  <2> QED
    BY <2>1, <2>2 DEF Started
<1> QED
  BY <1>2, <1>3, RunningFits DEF Next

\* A release gives back a record without session, observations or evidence,
\* and so takes nothing of the encoding.
LEMMA ReleaseKeepsSize ==
    ASSUME IInv, NEW i \in DOMAIN ledger, ReleaseUnstarted(i)
    PROVE  Journal!Encodable(ledger') <=> Journal!Encodable(ledger)
<1>1. ledger \in Seq(Records) /\ \A j \in DOMAIN ledger : ledger[j] \in Records
  BY DEF IInv, TypeOK
<1>2. ledger' = [ledger EXCEPT ![i] = [ledger[i] EXCEPT !.phase = "released"]]
  BY <1>1 DEF ReleaseUnstarted
<1>3. DOMAIN ledger' = DOMAIN ledger
  BY <1>2
<1>4. \A j \in DOMAIN ledger :
          /\ ledger'[j].unit = ledger[j].unit /\ ledger'[j].session = ledger[j].session
          /\ ledger'[j].dependencies = ledger[j].dependencies
          /\ ledger'[j].observations = ledger[j].observations
          /\ ledger'[j].terminal = ledger[j].terminal
  BY <1>1, <1>2 DEF Records
<1>5. \A j \in DOMAIN ledger : Journal!RecordSize(ledger'[j]) = Journal!RecordSize(ledger[j])
  BY <1>4 DEF Journal!RecordSize
<1>6. Journal!EncodedIdentities(ledger') = Journal!EncodedIdentities(ledger)
  BY <1>3, <1>5 DEF Journal!EncodedIdentities
<1> QED
  BY <1>6 DEF Journal!Encodable

\* The size of the encoding can refuse any other step.
LEMMA SizeOutgrown ==
    ASSUME IInv, Next, Journal!Encodable(ledger), ~Journal!Encodable(ledger')
    PROVE  Releases' = Releases
<1> DEFINE ReleasedIn(l) == {k \in DOMAIN l : l[k].phase = "released"}
<1>1. ledger \in Seq(Records) /\ Len(ledger) \in Nat /\ \A j \in DOMAIN ledger : ledger[j] \in Records
  BY DEF IInv, TypeOK
<1>2. SUFFICES ReleasedIn(ledger') = ReleasedIn(ledger)
  BY DEF Releases
<1>3. CASE Reserve
  <2>1. PICK u, nonce : Reserving(u, nonce)
    BY <1>3 DEF Reserve, ReserveNext, Reserving, Eligible
  <2> DEFINE n == Len(ledger) + 1
  <2>2. /\ DOMAIN ledger' = DOMAIN ledger \cup {n} /\ n \notin DOMAIN ledger
        /\ \A j \in DOMAIN ledger : ledger'[j] = ledger[j]
        /\ ledger'[n].phase = "reserved"
    BY <1>1, <2>1 DEF Reserving, Reservation
  <2> QED
    BY <2>2
<1>4. ASSUME NEW i \in DOMAIN ledger, DOMAIN ledger' = DOMAIN ledger,
             \A j \in DOMAIN ledger : j # i => ledger'[j] = ledger[j],
             ledger[i].phase # "released", ledger'[i].phase # "released"
      PROVE  ReleasedIn(ledger') = ReleasedIn(ledger)
  BY <1>4
<1>5. ASSUME NEW i \in DOMAIN ledger, NEW s, MarkStarted(i, s), ledger[i].phase = "reserved"
      PROVE  ReleasedIn(ledger') = ReleasedIn(ledger)
  <2>1. ledger' = [ledger EXCEPT ![i] = [ledger[i] EXCEPT !.phase = "started", !.session = s]]
    BY <1>1, <1>5 DEF MarkStarted
  <2>2. ledger'[i].phase = "started"
    BY <1>1, <2>1 DEF Records
  <2> QED
    BY <1>4, <1>5, <2>1, <2>2
<1>6. ASSUME NEW i \in DOMAIN ledger, NEW r, Retire(i, r), ledger[i].phase = "started"
      PROVE  ReleasedIn(ledger') = ReleasedIn(ledger)
  <2>1. ledger' = [ledger EXCEPT ![i] = [ledger[i] EXCEPT !.phase = "completed", !.terminal = r]]
    BY <1>1, <1>6 DEF Retire
  <2>2. ledger'[i].phase = "completed"
    BY <1>1, <2>1 DEF Records
  <2> QED
    BY <1>4, <1>6, <2>1, <2>2
<1>7. ASSUME NEW i \in DOMAIN ledger, NEW x, ObserveOperation(i, x)
      PROVE  ReleasedIn(ledger') = ReleasedIn(ledger)
  <2>1. /\ ledger' = [ledger EXCEPT ![i] = [ledger[i] EXCEPT !.observations = @ \cup {x}]]
        /\ ledger[i].phase = "started"
    BY <1>1, <1>7 DEF ObserveOperation, InPhase
  <2>2. ledger'[i].phase = "started"
    BY <1>1, <2>1 DEF Records
  <2> QED
    BY <1>4, <2>1, <2>2
<1>8. ASSUME NEW i \in DOMAIN ledger, Start(i)
      PROVE  ReleasedIn(ledger') = ReleasedIn(ledger)
  BY <1>5, <1>8 DEF Start, StartConstruction, StartCheck, StartOperation, InPhase
<1>9. ASSUME NEW i \in DOMAIN ledger, Finish(i)
      PROVE  ReleasedIn(ledger') = ReleasedIn(ledger)
  BY <1>6, <1>9 DEF Finish, CompleteConstruction, CompleteCheck, CompleteOperation, InPhase
<1> HIDE DEF ReleasedIn
<1> QED
  BY <1>3, <1>7, <1>8, <1>9, ReleaseKeepsSize DEF Next, Observe

\* An empty ledger is within any limits.
LEMMA EmptyIsStorable ==
    ASSUME ledger = <<>>
    PROVE  Storable
<1>1. Len(ledger) = 0 /\ DOMAIN ledger = {}
  OBVIOUS
<1>2. Journal!WithinLimits(ledger)
  BY <1>1, JournalAssumption DEF Journal!WithinLimits
<1>3. Journal!EncodedIdentities(ledger) = {}
  BY <1>1 DEF Journal!EncodedIdentities
<1>4. Journal!Cardinality(Journal!EncodedIdentities(ledger)) = 0
  BY <1>3, SameCardinality, FS_EmptySet
<1> QED
  BY <1>2, <1>4, JournalAssumption DEF Storable, Journal!Encodable

\* The record number is never less than the number of records.
LEMMA AlwaysBounded == Spec => []Bounded
<1>1. Init => Bounded
  <2> SUFFICES ASSUME Init PROVE Bounded
    OBVIOUS
  <2>1. Pairs(ledger) = {} /\ Len(ledger) = 0
    BY DEF Init, Pairs
  <2> QED
    BY <2>1, CountIs, FS_EmptySet DEF Bounded
<1>2. IInv /\ IInv' /\ Bounded /\ [Next]_vars => Bounded'
  <2>1. ASSUME IInv, IInv', Bounded, Next PROVE Bounded'
    <3>1. Len(ledger) \in Nat /\ Len(ledger') \in Nat
      BY <2>1 DEF IInv, TypeOK
    <3> QED
      BY <2>1, <3>1, StepCounts DEF Bounded
  <2>2. ASSUME Bounded, UNCHANGED vars PROVE Bounded'
    BY <2>2, CountIs, CountIsNext DEF Bounded, vars
  <2> QED
    BY <2>1, <2>2
<1> QED
  BY <1>1, <1>2, Inductive, PTL DEF Spec

\* No legal call leads from a run the journal stores to one it refuses to
\* store or to read back, but a call that outgrows its limits: any other step
\* of the ledger is one transition of one record, under the record number that
\* counts the transitions retained (ImplementsJournal).
THEOREM LedgerImplementsJournal == Spec => ImplementsJournal
<1> DEFINE Fits == Journal!WithinLimits(ledger)
<1>1. IInv /\ Bounded => (Fits => Journal!TopLevelShape)
  BY ShapeHolds
<1>2. Init /\ IInv /\ Bounded => Journal!JournalInit
  <2> SUFFICES ASSUME Init, IInv, Bounded PROVE Journal!JournalInit
    OBVIOUS
  <2>1. Pairs(ledger) = {} /\ ledger = <<>>
    BY DEF Init, Pairs
  <2>2. TransitionCount = 0
    BY <2>1, CountIs, FS_EmptySet
  <2>3. Storable
    BY <2>1, EmptyIsStorable
  <2> QED
    BY <1>1, <2>1, <2>2, <2>3 DEF Journal!JournalInit, Storable
<1>3. IInv /\ IInv' /\ (Fits => Journal!TopLevelShape)' /\ [Next]_vars
          => [Storable => Journal!Successor \/ OutgrowsLimits]_(Journal!journalVars)
  <2>1. ASSUME UNCHANGED vars PROVE UNCHANGED Journal!journalVars
    BY <2>1, CountIs, CountIsNext DEF vars, Journal!journalVars, Stopped
  <2>2. ASSUME IInv, IInv', Fits' => Journal!TopLevelShape', Next, Storable
        PROVE  Journal!Successor \/ OutgrowsLimits
    <3>1. CASE ~Journal!WithinLimits(ledger')
      BY <2>2, <3>1, CountsOutgrown DEF OutgrowsLimits, Storable
    <3>2. CASE ~Journal!Encodable(ledger')
      BY <2>2, <3>2, SizeOutgrown DEF OutgrowsLimits, Storable
    <3>3. CASE Journal!WithinLimits(ledger') /\ Journal!Encodable(ledger')
      BY <2>2, <3>3, StepSucceeds
    <3> QED
      BY <3>1, <3>2, <3>3
  <2> QED
    BY <2>1, <2>2
<1> QED
  BY <1>1, <1>2, <1>3, Inductive, AlwaysBounded, PTL DEF Spec, ImplementsJournal

\* A run that never outgrows the limits is one the journal stores and reads
\* back whole, record by record.
THEOREM StorableLedgerIsJournal == Spec /\ []Storable => Journal!JournalSpec
<1>1. Storable' /\ [Storable => Journal!Successor \/ OutgrowsLimits]_(Journal!journalVars) /\ Storable
          => [Journal!Successor]_(Journal!journalVars)
  BY DEF Storable, OutgrowsLimits
<1> QED
  BY <1>1, LedgerImplementsJournal, PTL DEF ImplementsJournal, Journal!JournalSpec
=============================================================================
