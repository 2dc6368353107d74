--------------------------- MODULE RunDriveProofs ---------------------------
(***************************************************************************)
(* Proofs about the durable drive, for every program, every set of         *)
(* processes and every bound: what its three stores owe each other through *)
(* kills or power losses, that every head the processes commit is a        *)
(* behaviour of the dispatch ledger, and that a command never executes     *)
(* what it has not examined the backend for; at the end, the removal that  *)
(* follows a drive.                                                        *)
(*                                                                         *)
(* Nothing is locked between a load and the commit computed from it, so    *)
(* the argument rests on two relations: the head a process holds is an     *)
(* earlier state of the visible one (Later), and what it learnt since is   *)
(* still in the stores (Knows).                                            *)
(***************************************************************************)
EXTENDS MCCommand, TLAPS, FiniteSetTheorems

\* Records of the ledger stay in their place; what started stays started, in
\* the same session, until it completes, and a completed record is final.
Later(old, new) ==
    /\ Len(old) <= Len(new)
    /\ \A i \in DOMAIN old :
         /\ new[i].unit = old[i].unit
         /\ old[i].phase = "started" =>
               /\ new[i].phase \in {"started", "completed"}
               /\ new[i].session = old[i].session
         /\ old[i].phase = "completed" =>
               /\ new[i].phase = "completed"
               /\ new[i].session = old[i].session /\ new[i].terminal = old[i].terminal

\* One dispatch is in flight at a time, and it is numbered by its nonce.
RunShape(run) ==
    /\ run \in Seq(Ledger!Records) /\ Len(run) <= MaxRecords
    /\ \A i \in DOMAIN run : run[i].nonce = i
    /\ \A i, k \in ActiveRecords(run) : i = k

\* A failure stops the run before anything else is reserved.
HeadOK ==
    /\ RunShape(head) /\ Ledger!IInv
    /\ ActiveRecords(head) # {} => ~Failed(EvidenceOf(head))

Waiting == {"reserved", "admitted", "attempted", "leased", "effect_admitted"}
Running == {"started", "returned", "proved", "projected", "driving", "resuming", "concluded"}
ForUnit == {"admitted", "attempted", "started", "returned", "proved", "projected"}
ForOperation == {"leased", "effect_admitted", "driving", "resuming", "concluded"}

Places == (1..MaxRecords) \X Sessions

\* What a construction or a check may return; it does not depend on the unit.
UnitVerdicts == UNION {UnitResults(u) : u \in Units}

LocalStates ==
    [pc : {"idle", "loaded"} \cup Waiting \cup Running, run : Seq(Ledger!Records),
     session : Sessions \cup {None}, result : UnitVerdicts \cup {None}]

\* A stored result names the session it was returned in.
StoredOK ==
    \A e \in stored : e.kind = "result" =>
        /\ e = Proof(e.dispatch, e.session, e.result)
        /\ e.result \in UnitVerdicts /\ e.result.session = e.session

Shape ==
    /\ ctl \in [Controllers -> LocalStates]
    /\ effects \in [Places -> Stages]
    /\ head \in heads /\ StoredOK

\* Nothing of the journal or the evidence store is lost: no power loss is left,
\* or nobody is killed in the middle of a write.
Untorn ==
    \/ losses = MaxLosses
    \/ kills = MaxKills /\ heads = {head} /\ loose = {}

\* The dispatch selected in a run is active, in that phase.
InHandOf(run, phase) ==
    Selected(run) \in ActiveRecords(run) /\ run[Selected(run)].phase = phase

\* What the stores still hold for a process in local state l.
Holds(l) ==
    LET own == Selected(l.run) unit == l.run[own].unit IN
    /\ l.pc # "idle" => RunShape(l.run) /\ Later(l.run, head)
    /\ l.pc = "loaded" => HasWork(l.run)
    /\ l.pc \in Waiting => InHandOf(l.run, "reserved")
    /\ l.pc \in Running => InHandOf(l.run, "started") /\ l.run[own].session = l.session
    /\ l.pc \in ForUnit => l.session \in Sessions /\ unit \notin Operations
    /\ l.pc \in ForOperation => l.session \in Sessions /\ unit \in Operations
    /\ l.pc = "attempted" => Attempt(own, l.session) \in stored
    /\ l.pc \in ForOperation \ {"leased"} => effects[<<own, l.session>>] # "absent"
    /\ l.pc \in {"returned", "proved", "projected"} =>
         l.result \in UnitVerdicts /\ l.result.session = l.session
    /\ l.pc \in {"proved", "projected"} => Proof(own, l.session, l.result) \in stored
    /\ l.pc = "projected" => own \in artifacts

Knows(c) == Holds(ctl[c])

Kept == Resumable /\ EffectsOwned /\ ArtifactsBacked

IInv == Shape /\ Untorn /\ HeadOK /\ Kept /\ \A c \in Controllers : Knows(c)

-----------------------------------------------------------------------------
(***************************************************************************)
(* The ledger is an instance: what it says of the program is what the      *)
(* drive says of it, and its assumptions follow from those of the drive.   *)
(***************************************************************************)

\* Both speak of the same units, nodes and results.
LEMMA SameProgram ==
    /\ Ledger!Units = Units
    /\ \A u : Ledger!Members(u) = Members(u)
    /\ Ledger!Nodes = Nodes
    /\ \A u : Ledger!External(u) = External(u)
    /\ Ledger!AllResults = AllResults
    /\ \A u : Ledger!Results(u) = Results(u)
    /\ \A u : Ledger!UnitResults(u) = UnitResults(u)
    /\ \A u : Ledger!OperationResults(u) = OperationResults(u)
    /\ \A r : Ledger!Succeeded(r) = Succeeded(r)
<1>1. Ledger!Units = Units
  BY DEF Units, Ledger!Units
<1>2. \A u : Ledger!Members(u) = Members(u)
  BY DEF Members, Ledger!Members, Lifecycle, Ledger!Lifecycle, Range, Ledger!Range
<1>3. Ledger!Nodes = Nodes
  BY <1>1, <1>2 DEF Nodes, Ledger!Nodes
<1>4. \A u : Ledger!External(u) = External(u)
  BY <1>2, <1>3 DEF External, Ledger!External
<1>5. /\ \A u : Ledger!UnitResults(u) = UnitResults(u)
      /\ \A u : Ledger!OperationResults(u) = OperationResults(u)
  BY DEF UnitResults, Ledger!UnitResults, OperationResults,
     Ledger!OperationResults, AllPassed, Ledger!AllPassed, FailedLast, Ledger!FailedLast
<1>6. \A u : Ledger!Results(u) = Results(u)
  BY <1>5 DEF Results, Ledger!Results
<1>7. Ledger!AllResults = AllResults
  BY <1>1, <1>6 DEF AllResults, Ledger!AllResults
<1>8. \A r : Ledger!Succeeded(r) = Succeeded(r)
  BY DEF Ledger!Succeeded, Succeeded
<1> QED
  BY <1>1, <1>2, <1>3, <1>4, <1>5, <1>6, <1>7, <1>8

\* They derive the same statuses from the same evidence.
LEMMA SameStatus ==
    \A ev : Ledger!ReadyUnits(ev) = ReadyUnits(ev) /\ Ledger!Failed(ev) = Failed(ev)
<1>1. \A ev : Ledger!Idle(ev) = Idle(ev) /\ Ledger!Evidenced(ev) = Evidenced(ev)
  BY SameProgram DEF Idle, Ledger!Idle, Evidenced, Ledger!Evidenced
<1>2. \A u, r, f : Ledger!Returned(u, r, f) = Returned(u, r, f)
  BY DEF Returned, Ledger!Returned
<1>3. \A u, r : Ledger!SatisfiedBy(u, r) = SatisfiedBy(u, r)
  BY <1>2, SameProgram DEF SatisfiedBy, Ledger!SatisfiedBy
<1>4. \A ev : Ledger!SatisfiedNodes(ev) = SatisfiedNodes(ev)
  BY <1>1, <1>3 DEF SatisfiedNodes, Ledger!SatisfiedNodes
<1>5. \A ev : Ledger!FailedUnits(ev) = FailedUnits(ev)
  BY <1>1, SameProgram DEF FailedUnits, Ledger!FailedUnits
<1>6. \A ev : Ledger!FailedNodes(ev) = FailedNodes(ev)
  BY <1>2, <1>5 DEF FailedNodes, Ledger!FailedNodes
<1> QED
  BY <1>1, <1>4, <1>6, SameProgram
  DEF ReadyUnits, Ledger!ReadyUnits, Failed, Ledger!Failed

\* ProgramAssumption, as the ledger asks it.
LEMMA LedgerProgram ==
    /\ Constructions \cap Checks = {}
    /\ Constructions \cap Operations = {}
    /\ Checks \cap Operations = {}
    /\ Retained \cap UNION {Ledger!Members(u) : u \in Ledger!Units} = {}
    /\ \A u, v \in Ledger!Units : u # v => Ledger!Members(u) \cap Ledger!Members(v) = {}
    /\ BuildOf \in [Checks -> Constructions]
    /\ \A c \in Checks : <<BuildOf[c], c>> \in Edges
    /\ \A o \in Operations : Before[o] \in Seq(Ledger!Nodes) /\ After[o] \in Seq(Ledger!Nodes)
    /\ \A o \in Operations : o \notin Ledger!Lifecycle(o)
    /\ None \notin Sessions
  BY SameProgram, ProgramAssumption DEF Ledger!Lifecycle, Lifecycle, Ledger!Range, Range

\* ResultAssumption, as the ledger asks it.
LEMMA LedgerResults == None \notin Ledger!AllResults
  BY SameProgram, ResultAssumption

\* DispatchAssumption: capacities of one, and the order of the identities.
LEMMA LedgerPolicy ==
    /\ 1 \in Nat \ {0}
    /\ 1 \in Nat \ {0}
    /\ Rank \in [Ledger!Units -> Nat]
    /\ \A u, v \in Ledger!Units : Rank[u] = Rank[v] => u = v
    /\ MaxRecords \in Nat
  BY SameProgram, DriveAssumption

\* What was proved of the ledger holds of the head while it is driven.
LEMMA LedgerStep ==
    ASSUME Ledger!IInv, [Ledger!Next]_(Ledger!vars)
    PROVE  Ledger!IInv'
  BY Ledger!NextPreserves, LedgerProgram, LedgerResults, LedgerPolicy

-----------------------------------------------------------------------------
(***************************************************************************)
(* Runs as values.                                                         *)
(***************************************************************************)

\* The dispatch in hand is the only active one.
LEMMA SelectedIs ==
    ASSUME NEW run, NEW i \in ActiveRecords(run), i \in Nat,
           \A j, k \in ActiveRecords(run) : j = k
    PROVE  Selected(run) = i
<1>1. \A k \in ActiveRecords(run) : k = i
  OBVIOUS
<1>2. \E j \in ActiveRecords(run) : \A k \in ActiveRecords(run) : j <= k
  BY <1>1
<1> QED
  BY <1>1, <1>2 DEF Selected

Unique(run) == \A i, k \in CompletedRecords(run) : run[i].unit = run[k].unit => i = k

\* The evidence of a unit is the result of its completed record.
LEMMA EvidenceAt ==
    ASSUME NEW run, Unique(run), NEW i \in CompletedRecords(run), run[i].unit \in Units
    PROVE  EvidenceOf(run)[run[i].unit] = run[i].terminal
<1>1. PICK u \in Units : u = run[i].unit
  OBVIOUS
<1>2. \E k \in CompletedRecords(run) : run[k].unit = u
  BY <1>1
<1>3. (CHOOSE k \in CompletedRecords(run) : run[k].unit = u) = i
  BY <1>1, <1>2 DEF Unique
<1> QED
  BY <1>1, <1>2, <1>3 DEF EvidenceOf

\* A unit without a completed record has none.
LEMMA EvidenceNot ==
    ASSUME NEW run, NEW u \in Units, \A i \in CompletedRecords(run) : run[i].unit # u
    PROVE  EvidenceOf(run)[u] = None
  BY DEF EvidenceOf

\* Neither evidence nor epoch changes while the completed records stay.
LEMMA EvidenceStays ==
    ASSUME NEW old, NEW new, Unique(old),
           CompletedRecords(new) = CompletedRecords(old),
           \A i \in CompletedRecords(old) :
              new[i].unit = old[i].unit /\ new[i].terminal = old[i].terminal
    PROVE  EvidenceOf(new) = EvidenceOf(old) /\ EpochOf(new) = EpochOf(old)
<1>1. Unique(new)
  BY DEF Unique
<1>2. ASSUME NEW u \in Units PROVE EvidenceOf(new)[u] = EvidenceOf(old)[u]
  <2>1. CASE \E i \in CompletedRecords(old) : old[i].unit = u
    <3>1. PICK i \in CompletedRecords(old) : old[i].unit = u
      BY <2>1
    <3>2. EvidenceOf(old)[u] = old[i].terminal
      BY <3>1, EvidenceAt
    <3>3. EvidenceOf(new)[u] = new[i].terminal
      BY <1>1, <3>1, EvidenceAt
    <3> QED
      BY <3>2, <3>3
  <2>2. CASE \A i \in CompletedRecords(old) : old[i].unit # u
    <3>1. EvidenceOf(old)[u] = None
      BY <2>2, EvidenceNot
    <3>2. EvidenceOf(new)[u] = None
      BY <2>2, EvidenceNot
    <3> QED
      BY <3>1, <3>2
  <2> QED
    BY <2>1, <2>2
<1>3. EvidenceOf(new) = EvidenceOf(old)
  <2>1. \A run : EvidenceOf(run) = [u \in Units |-> EvidenceOf(run)[u]]
    BY DEF EvidenceOf
  <2> HIDE DEF EvidenceOf
  <2> QED
    BY <1>2, <2>1
<1>4. EpochOf(new) = EpochOf(old)
  BY DEF EpochOf
<1> QED
  BY <1>3, <1>4

\* The run is as before, but for the result of one unit.
Gains(old, new, u, result) ==
    /\ EvidenceOf(new) = [EvidenceOf(old) EXCEPT ![u] = result]
    /\ u \in Operations /\ Succeeded(result) => EpochOf(new) = EpochOf(old) \cup {u}
    /\ ~(u \in Operations /\ Succeeded(result)) => EpochOf(new) = EpochOf(old)

\* A record that completes gives its unit the evidence it carries.
LEMMA EvidenceGains ==
    ASSUME NEW old, NEW new, NEW i, NEW u \in Units, NEW result,
           /\ Unique(old) /\ i \notin CompletedRecords(old)
           /\ CompletedRecords(new) = CompletedRecords(old) \cup {i}
           /\ \A k \in CompletedRecords(old) :
                 new[k].unit = old[k].unit /\ new[k].terminal = old[k].terminal
           /\ new[i].unit = u /\ new[i].terminal = result
           /\ \A k \in CompletedRecords(old) : old[k].unit # u
    PROVE  Gains(old, new, u, result)
<1>1. Unique(new)
  BY DEF Unique
<1>2. ASSUME NEW v \in Units
      PROVE  EvidenceOf(new)[v] = IF v = u THEN result ELSE EvidenceOf(old)[v]
  <2>1. CASE v = u
    BY <1>1, <2>1, EvidenceAt
  <2>2. CASE v # u /\ \E k \in CompletedRecords(old) : old[k].unit = v
    <3>1. PICK k \in CompletedRecords(old) : old[k].unit = v
      BY <2>2
    <3>2. EvidenceOf(old)[v] = old[k].terminal
      BY <3>1, EvidenceAt
    <3>3. EvidenceOf(new)[v] = new[k].terminal
      BY <1>1, <3>1, EvidenceAt
    <3> QED
      BY <2>2, <3>1, <3>2, <3>3
  <2>3. CASE v # u /\ \A k \in CompletedRecords(old) : old[k].unit # v
    <3>1. EvidenceOf(old)[v] = None
      BY <2>3, EvidenceNot
    <3>2. EvidenceOf(new)[v] = None
      BY <2>3, EvidenceNot
    <3> QED
      BY <2>3, <3>1, <3>2
  <2> QED
    BY <2>1, <2>2, <2>3
<1>3. EvidenceOf(new) = [EvidenceOf(old) EXCEPT ![u] = result]
  <2>1. \A run : EvidenceOf(run) = [v \in Units |-> EvidenceOf(run)[v]]
    BY DEF EvidenceOf
  <2> HIDE DEF EvidenceOf
  <2> QED
    BY <1>2, <2>1
<1>4. /\ u \in Operations /\ Succeeded(result) => EpochOf(new) = EpochOf(old) \cup {u}
      /\ ~(u \in Operations /\ Succeeded(result)) => EpochOf(new) = EpochOf(old)
  BY DEF EpochOf
<1> QED
  BY <1>3, <1>4 DEF Gains

-----------------------------------------------------------------------------
(***************************************************************************)
(* The five things a commit may do to the head are steps of the ledger.    *)
(***************************************************************************)

\* What the ledger's invariant says of the records of the head.
LEMMA HeadFacts ==
    ASSUME HeadOK
    PROVE  /\ head \in Seq(Ledger!Records) /\ Len(head) \in Nat /\ MaxRecords \in Nat
           /\ DOMAIN head = 1..Len(head) /\ DOMAIN head \subseteq 1..MaxRecords
           /\ \A i \in DOMAIN head :
                /\ head[i] \in Ledger!Records /\ head[i].unit \in Units
                /\ head[i].phase \in {"reserved", "started", "completed", "released"}
                /\ head[i].nonce = i
           /\ Unique(head)
<1>1. head \in Seq(Ledger!Records) /\ Len(head) \in Nat /\ DOMAIN head = 1..Len(head)
  BY DEF HeadOK, RunShape
<1>2. MaxRecords \in Nat
  BY DriveAssumption
<1>3. DOMAIN head \subseteq 1..MaxRecords
  BY <1>1, <1>2 DEF HeadOK, RunShape
<1>4. ASSUME NEW i \in DOMAIN head
      PROVE  /\ head[i] \in Ledger!Records /\ head[i].unit \in Units
             /\ head[i].phase \in {"reserved", "started", "completed", "released"}
             /\ head[i].nonce = i
  <2>1. head[i] \in Ledger!Records /\ head[i].nonce = i
    BY <1>1 DEF HeadOK, RunShape
  <2> QED
    BY <2>1, SameProgram DEF Ledger!Records, Ledger!Phases
<1>5. Unique(head)
  BY DEF HeadOK, Ledger!IInv, Ledger!UniqueExecution, Unique, CompletedRecords
<1> QED
  BY <1>1, <1>2, <1>3, <1>4, <1>5

\* The active record of the head is current, and its run has not stopped.
LEMMA ActiveFacts ==
    ASSUME HeadOK, NEW i \in ActiveRecords(head)
    PROVE  /\ i \in DOMAIN head /\ i \in 1..MaxRecords /\ i \in Nat
           /\ ActiveRecords(head) = {i} /\ Selected(head) = i
           /\ ~Ledger!Stopped
           /\ Ledger!DispatchIsCurrent(head[i])
           /\ EvidenceOf(head)[head[i].unit] = None
           /\ \A k \in CompletedRecords(head) : head[k].unit # head[i].unit
<1>1. i \in DOMAIN head /\ i \in 1..MaxRecords /\ i \in Nat
  BY HeadFacts DEF ActiveRecords
<1>2. ActiveRecords(head) = {i} /\ \A j, k \in ActiveRecords(head) : j = k
  BY DEF HeadOK, RunShape
<1>3. Selected(head) = i
  BY <1>1, <1>2, SelectedIs
<1>4. ~Ledger!Stopped
  BY SameStatus DEF HeadOK, Ledger!Stopped
<1>5. Ledger!DispatchIsCurrent(head[i])
  BY <1>1 DEF HeadOK, Ledger!IInv, Ledger!LedgerValid, Ledger!ActiveCurrent, Ledger!Active,
     ActiveRecords
<1>6. EvidenceOf(head)[head[i].unit] = None
  BY <1>5 DEF Ledger!DispatchIsCurrent, Ledger!ReadyUnits, Ledger!Idle
<1>7. ASSUME NEW k \in CompletedRecords(head), head[k].unit = head[i].unit PROVE FALSE
  <2>1. EvidenceOf(head)[head[k].unit] = head[k].terminal
    BY HeadFacts, EvidenceAt DEF CompletedRecords
  <2>2. head[k].terminal # None
    BY DEF CompletedRecords, HeadOK, Ledger!IInv, Ledger!TypeOK, Ledger!RecordShape
  <2> QED
    BY <1>6, <1>7, <2>1, <2>2
<1> QED
  BY <1>1, <1>2, <1>3, <1>4, <1>5, <1>6, <1>7

\* The build of a current check is retained by its dispatch, and succeeded.
LEMMA BuildIsRetained ==
    ASSUME HeadOK, NEW record, record.unit \in Checks, Ledger!DispatchIsCurrent(record)
    PROVE  /\ Ledger!CheckedBuildIsRetained(record)
           /\ Succeeded(EvidenceOf(head)[BuildOf[record.unit]])
<1> DEFINE ev == EvidenceOf(head)
           b == BuildOf[record.unit]
<1>1. /\ b \in Constructions /\ b \in Units /\ record.unit \in Units
      /\ <<b, record.unit>> \in Edges /\ b # record.unit
      /\ b \notin Operations /\ record.unit \notin Operations
  BY ProgramAssumption DEF Units
<1>2. Members(b) = {b} /\ Members(record.unit) = {record.unit}
  BY <1>1 DEF Members
<1>3. b \in Nodes /\ b \notin Retained
  BY <1>1, <1>2, ProgramAssumption DEF Nodes
<1>4. b \in External(record.unit)
  BY <1>1, <1>2, <1>3 DEF External
<1>5. Ledger!Owner(b) = b
  BY <1>1, <1>2, SameProgram, LedgerProgram DEF Ledger!Owner
<1>6. record.dependencies = Ledger!Dependencies(ev, record.unit)
  BY DEF Ledger!DispatchIsCurrent
<1>7. record.dependencies[b] = ev[b]
  BY <1>3, <1>4, <1>5, <1>6, SameProgram DEF Ledger!Dependencies
<1>8. Ledger!External(record.unit) \subseteq Ledger!SatisfiedNodes(ev)
  BY DEF Ledger!DispatchIsCurrent, Ledger!ReadyUnits
<1>9. PICK u \in Units : ev[u] # None /\ b \in Ledger!SatisfiedBy(u, ev[u])
  BY <1>3, <1>4, <1>8, SameProgram DEF Ledger!SatisfiedNodes, Ledger!Evidenced
<1>10. b \in Members(u)
  <2>1. ev[u] \in Ledger!Results(u)
    BY <1>9, SameProgram DEF HeadOK, Ledger!IInv, Ledger!TypeOK, Ledger!EvidenceType, Ledger!Evidenced
  <2> QED
    BY <1>9, <2>1, SameProgram, Ledger!SatisfiedByMembers, LedgerProgram, LedgerResults, LedgerPolicy
<1>11. u = b
  BY <1>1, <1>2, <1>9, <1>10, ProgramAssumption
<1>12. Succeeded(ev[b])
  BY <1>1, <1>9, <1>11, SameProgram DEF Ledger!SatisfiedBy
<1> QED
  BY <1>7, <1>12 DEF Ledger!CheckedBuildIsRetained

\* A record of the head is replaced by one with its unit and nonce: what has
\* to be shown of any of the four transitions.
LEMMA Replaces ==
    ASSUME HeadOK, NEW i \in ActiveRecords(head), NEW r,
           head' = [head EXCEPT ![i] = r],
           r.unit = head[i].unit, r.nonce = i,
           head[i].phase = "started" =>
              r.phase \in {"started", "completed"} /\ r.session = head[i].session,
           r.phase \in {"reserved", "started"} => EvidenceOf(head') = EvidenceOf(head),
           Ledger!Next
    PROVE  HeadOK' /\ Later(head, head')
<1>1. Ledger!IInv'
  BY LedgerStep DEF HeadOK
<1>2. head' \in Seq(Ledger!Records)
  BY <1>1 DEF Ledger!IInv, Ledger!TypeOK
<1>3. /\ DOMAIN head' = DOMAIN head /\ Len(head') = Len(head)
      /\ head'[i] = r /\ \A j \in DOMAIN head : j # i => head'[j] = head[j]
  BY HeadFacts, ActiveFacts
<1>4. ActiveRecords(head') \subseteq {i}
      /\ (i \in ActiveRecords(head') => r.phase \in {"reserved", "started"})
  BY <1>3, ActiveFacts DEF ActiveRecords
<1>5. RunShape(head')
  <2>1. \A j \in DOMAIN head' : head'[j].nonce = j
    BY <1>3, HeadFacts
  <2>2. \A j, k \in ActiveRecords(head') : j = k
    BY <1>4
  <2>3. Len(head') <= MaxRecords
    BY <1>3 DEF HeadOK, RunShape
  <2> QED
    BY <1>2, <2>1, <2>2, <2>3 DEF RunShape
<1>6. ActiveRecords(head') # {} => ~Failed(EvidenceOf(head'))
  BY <1>4 DEF HeadOK
<1>7. Later(head, head')
  BY <1>3, HeadFacts, ActiveFacts DEF Later, ActiveRecords
<1> QED
  BY <1>1, <1>5, <1>6, <1>7 DEF HeadOK

\* A record that neither was nor becomes completed leaves the evidence alone.
LEMMA EvidenceRests ==
    ASSUME HeadOK, NEW i \in ActiveRecords(head), NEW r, r.phase # "completed",
           head' = [head EXCEPT ![i] = r]
    PROVE  EvidenceOf(head') = EvidenceOf(head) /\ EpochOf(head') = EpochOf(head)
<1>1. head[i].phase # "completed" /\ i \in DOMAIN head
  BY DEF ActiveRecords
<1>2. /\ DOMAIN head' = DOMAIN head
      /\ head'[i] = r /\ \A j \in DOMAIN head : j # i => head'[j] = head[j]
  BY <1>1, HeadFacts
<1>3. CompletedRecords(head') = CompletedRecords(head)
  BY <1>1, <1>2 DEF CompletedRecords
<1>4. \A k \in CompletedRecords(head) : head'[k] = head[k]
  BY <1>1, <1>2 DEF CompletedRecords
<1> QED
  BY <1>3, <1>4, HeadFacts, EvidenceStays

\* A record that completes gives evidence to a unit that had none.
LEMMA EvidenceCompleted ==
    ASSUME HeadOK, NEW i \in ActiveRecords(head), NEW r, NEW result, NEW u \in Units,
           /\ r.phase = "completed" /\ r.unit = u /\ r.terminal = result
           /\ head[i].unit = u /\ head' = [head EXCEPT ![i] = r]
    PROVE  Gains(head, head', u, result)
<1>1. head[i].phase # "completed" /\ i \in DOMAIN head
  BY DEF ActiveRecords
<1>2. /\ DOMAIN head' = DOMAIN head
      /\ head'[i] = r /\ \A j \in DOMAIN head : j # i => head'[j] = head[j]
  BY <1>1, HeadFacts
<1>3. CompletedRecords(head') = CompletedRecords(head) \cup {i} /\ i \notin CompletedRecords(head)
  BY <1>1, <1>2 DEF CompletedRecords
<1>4. \A k \in CompletedRecords(head) : head'[k] = head[k]
  BY <1>1, <1>2 DEF CompletedRecords
<1>5. \A k \in CompletedRecords(head) : head[k].unit # u
  BY <1>1, HeadFacts, ActiveFacts
<1>6. head'[i].unit = u /\ head'[i].terminal = result
  BY <1>1, <1>2
<1>7. PICK old : old = head
  OBVIOUS
<1>8. PICK new : new = head'
  OBVIOUS
<1>9. /\ Unique(old) /\ i \notin CompletedRecords(old)
      /\ CompletedRecords(new) = CompletedRecords(old) \cup {i}
      /\ \A k \in CompletedRecords(old) :
            new[k].unit = old[k].unit /\ new[k].terminal = old[k].terminal
      /\ new[i].unit = u /\ new[i].terminal = result
      /\ \A k \in CompletedRecords(old) : old[k].unit # u
  BY <1>3, <1>4, <1>5, <1>6, <1>7, <1>8, HeadFacts, ZenonT(30)
<1>10. Gains(old, new, u, result)
  BY <1>9, EvidenceGains
<1> QED
  BY <1>7, <1>8, <1>10

\* A reservation is given back: release_unstarted.
LEMMA ReleaseTurns ==
    ASSUME HeadOK, NEW i \in ActiveRecords(head), head[i].phase = "reserved",
           head' = Released(head, i)
    PROVE  Ledger!Next /\ HeadOK' /\ Later(head, head')
<1>1. PICK r : r = [head[i] EXCEPT !.phase = "released"]
  OBVIOUS
<1>2. head' = [head EXCEPT ![i] = r]
  BY <1>1 DEF Released
<1>3. /\ i \in DOMAIN head /\ head[i] \in Ledger!Records /\ head[i].nonce = i
      /\ i \in 1..MaxRecords
  BY ActiveFacts, HeadFacts
<1>4. r.unit = head[i].unit /\ r.nonce = i /\ r.phase = "released"
  BY <1>1, <1>3 DEF Ledger!Records
<1>5. EvidenceOf(head') = EvidenceOf(head) /\ EpochOf(head') = EpochOf(head)
  BY <1>2, <1>4, EvidenceRests
<1>6. Ledger!Releases < MaxRecords
  <2> DEFINE S == {k \in DOMAIN head : head[k].phase = "released"}
  <2>1. S \subseteq (1..MaxRecords) \ {i}
    BY <1>3, HeadFacts
  <2>2. IsFiniteSet(1..MaxRecords) /\ Cardinality(1..MaxRecords) = MaxRecords /\ MaxRecords \in Nat
    BY FS_Interval, HeadFacts
  <2>3. /\ IsFiniteSet((1..MaxRecords) \ {i})
        /\ Cardinality((1..MaxRecords) \ {i}) = MaxRecords - 1
    BY <1>3, <2>2, FS_RemoveElement
  <2>4. Cardinality(S) \in Nat /\ Cardinality(S) <= MaxRecords - 1
    BY <2>1, <2>3, FS_Subset, FS_CardinalityType
  <2>5. Ledger!Releases = Cardinality(S)
    BY DEF Ledger!Releases, Ledger!Cardinality, Cardinality
  <2> QED
    BY <2>2, <2>4, <2>5
<1>7. Ledger!ReleaseUnstarted(i)
  BY <1>3, <1>5, <1>6 DEF Ledger!ReleaseUnstarted, Ledger!InPhase, Released
<1>8. Ledger!Next
  BY <1>3, <1>7 DEF Ledger!Next
<1> QED
  BY <1>2, <1>4, <1>5, <1>8, Replaces

\* A reservation is started under an admitted session.
LEMMA StartTurns ==
    ASSUME HeadOK, NEW i \in ActiveRecords(head), head[i].phase = "reserved",
           NEW s \in Sessions, head' = Started(head, i, s)
    PROVE  Ledger!Next /\ HeadOK' /\ Later(head, head')
<1>1. PICK r : r = [head[i] EXCEPT !.phase = "started", !.session = s]
  OBVIOUS
<1>2. head' = [head EXCEPT ![i] = r]
  BY <1>1 DEF Started
<1>3. /\ i \in DOMAIN head /\ head[i] \in Ledger!Records /\ head[i].nonce = i
      /\ head[i].unit \in Units /\ ~Ledger!Stopped /\ Ledger!DispatchIsCurrent(head[i])
  BY ActiveFacts, HeadFacts
<1>4. r.unit = head[i].unit /\ r.nonce = i /\ r.phase = "started"
  BY <1>1, <1>3 DEF Ledger!Records
<1>5. EvidenceOf(head') = EvidenceOf(head) /\ EpochOf(head') = EpochOf(head)
  BY <1>2, <1>4, EvidenceRests
<1>6. Ledger!MarkStarted(i, s)
  BY <1>5 DEF Ledger!MarkStarted, Started
<1>7. CASE head[i].unit \in Constructions
  <2>1. Ledger!InputsCurrent(head[i].unit)
    BY <1>7 DEF Ledger!InputsCurrent, NoInputs
  <2>2. Ledger!StartConstruction(i, s)
    BY <1>3, <1>6, <1>7, <2>1 DEF Ledger!StartConstruction, Ledger!InPhase
  <2> QED
    BY <1>2, <1>3, <1>4, <1>5, <2>2, Replaces DEF Ledger!Next, Ledger!Start
<1>8. CASE head[i].unit \in Checks
  <2>1. Ledger!CheckedBuildIsRetained(head[i])
    BY <1>3, <1>8, BuildIsRetained
  <2>2. Ledger!StartCheck(i, s)
    BY <1>3, <1>6, <1>8, <2>1 DEF Ledger!StartCheck, Ledger!InPhase
  <2> QED
    BY <1>2, <1>3, <1>4, <1>5, <2>2, Replaces DEF Ledger!Next, Ledger!Start
<1>9. CASE head[i].unit \in Operations
  <2>1. Ledger!StartOperation(i, s)
    BY <1>3, <1>6, <1>9 DEF Ledger!StartOperation, Ledger!InPhase
  <2> QED
    BY <1>2, <1>3, <1>4, <1>5, <2>1, Replaces DEF Ledger!Next, Ledger!Start
<1> QED
  BY <1>3, <1>7, <1>8, <1>9 DEF Units

\* A result ends the dispatch of a construction or a check.
LEMMA FinishTurns ==
    ASSUME HeadOK, NEW i \in ActiveRecords(head), head[i].phase = "started",
           head[i].unit \notin Operations,
           NEW result \in UnitVerdicts, result.session = head[i].session,
           head' = Completed(head, i, result)
    PROVE  Ledger!Next /\ HeadOK' /\ Later(head, head')
<1>1. PICK r : r = [head[i] EXCEPT !.phase = "completed", !.terminal = result]
  OBVIOUS
<1>2. head' = [head EXCEPT ![i] = r]
  BY <1>1 DEF Completed
<1>3. /\ i \in DOMAIN head /\ head[i] \in Ledger!Records /\ head[i].nonce = i
      /\ head[i].unit \in Units /\ Ledger!DispatchIsCurrent(head[i])
  BY ActiveFacts, HeadFacts
<1>4. /\ r.unit = head[i].unit /\ r.nonce = i /\ r.phase = "completed"
      /\ r.session = head[i].session /\ r.terminal = result
  BY <1>1, <1>3 DEF Ledger!Records
<1>5. PICK u \in Units : u = head[i].unit
  BY <1>3
<1>6. Ledger!Retire(i, result) /\ UNCHANGED EpochOf(head)
  <2>1. Gains(head, head', u, result)
    BY <1>2, <1>4, <1>5, EvidenceCompleted
  <2> QED
    BY <1>5, <2>1 DEF Gains, Ledger!Retire, Completed
<1>7. result \in Ledger!UnitResults(head[i].unit) /\ result \in Ledger!Results(head[i].unit)
  BY SameProgram DEF UnitVerdicts, UnitResults, Ledger!Results
<1>8. CASE head[i].unit \in Constructions
  <2>1. Ledger!InputsCurrent(head[i].unit)
    BY <1>8 DEF Ledger!InputsCurrent, NoInputs
  <2>2. Ledger!CompleteConstruction(i, result)
    BY <1>3, <1>6, <1>7, <1>8, <2>1 DEF Ledger!CompleteConstruction, Ledger!InPhase
  <2>3. Ledger!Next
    BY <1>3, <1>7, <2>2 DEF Ledger!Next, Ledger!Finish
  <2> QED
    BY <1>2, <1>4, <2>3, Replaces
<1>9. CASE head[i].unit \in Checks
  <2>1. /\ Ledger!CheckedBuildIsRetained(head[i])
        /\ Ledger!Succeeded(EvidenceOf(head)[BuildOf[head[i].unit]])
    BY <1>3, <1>9, BuildIsRetained, SameProgram
  <2>2. Ledger!CompleteCheck(i, result)
    BY <1>3, <1>6, <1>7, <1>9, <2>1 DEF Ledger!CompleteCheck, Ledger!InPhase
  <2>3. Ledger!Next
    BY <1>3, <1>7, <2>2 DEF Ledger!Next, Ledger!Finish
  <2> QED
    BY <1>2, <1>4, <2>3, Replaces
<1> QED
  BY <1>3, <1>8, <1>9 DEF Units

\* So does the terminal outcome of an effect attempt.
LEMMA ConcludeTurns ==
    ASSUME HeadOK, NEW i \in ActiveRecords(head), head[i].phase = "started",
           head[i].unit \in Operations,
           NEW result \in OperationResults(head[i].unit), result.session = head[i].session,
           head' = Completed(head, i, result)
    PROVE  Ledger!Next /\ HeadOK' /\ Later(head, head')
<1>1. PICK r : r = [head[i] EXCEPT !.phase = "completed", !.terminal = result]
  OBVIOUS
<1>2. head' = [head EXCEPT ![i] = r]
  BY <1>1 DEF Completed
<1>3. /\ i \in DOMAIN head /\ head[i] \in Ledger!Records /\ head[i].nonce = i
      /\ head[i].unit \in Units /\ Ledger!DispatchIsCurrent(head[i])
  BY ActiveFacts, HeadFacts
<1>4. /\ r.unit = head[i].unit /\ r.nonce = i /\ r.phase = "completed"
      /\ r.session = head[i].session /\ r.terminal = result
  BY <1>1, <1>3 DEF Ledger!Records
<1>5. PICK u \in Units : u = head[i].unit
  BY <1>3
<1>6. /\ Ledger!Retire(i, result)
      /\ EpochOf(head') = IF Succeeded(result) THEN EpochOf(head) \cup {head[i].unit}
                          ELSE EpochOf(head)
  <2>1. Gains(head, head', u, result)
    BY <1>2, <1>4, <1>5, EvidenceCompleted
  <2> QED
    BY <1>5, <2>1 DEF Gains, Ledger!Retire, Completed
<1>7. /\ result \in Ledger!OperationResults(head[i].unit)
      /\ result \in Ledger!Results(head[i].unit)
  BY SameProgram DEF Ledger!Results
<1>8. Ledger!CompleteOperation(i, result)
  BY <1>3, <1>6, <1>7, SameProgram DEF Ledger!CompleteOperation, Ledger!InPhase
<1>9. Ledger!Next
  BY <1>3, <1>7, <1>8 DEF Ledger!Next, Ledger!Finish
<1> QED
  BY <1>2, <1>4, <1>9, Replaces

\* An uncertain outcome is added to the observations of its dispatch.
LEMMA ObserveTurns ==
    ASSUME HeadOK, NEW i \in ActiveRecords(head), head[i].phase = "started",
           head[i].unit \in Operations,
           NEW result, result.outcome \in UncertainOutcomes \ head[i].observations,
           head' = Observed(head, i, result)
    PROVE  Ledger!Next /\ HeadOK' /\ Later(head, head')
<1>1. PICK r : r = [head[i] EXCEPT !.observations = @ \cup {result.outcome}]
  OBVIOUS
<1>2. head' = [head EXCEPT ![i] = r]
  BY <1>1 DEF Observed
<1>3. /\ i \in DOMAIN head /\ head[i] \in Ledger!Records /\ head[i].nonce = i
      /\ head[i].unit \in Units /\ Ledger!DispatchIsCurrent(head[i])
  BY ActiveFacts, HeadFacts
<1>4. /\ r.unit = head[i].unit /\ r.nonce = i /\ r.phase = "started"
      /\ r.session = head[i].session
  BY <1>1, <1>3 DEF Ledger!Records
<1>5. EvidenceOf(head') = EvidenceOf(head) /\ EpochOf(head') = EpochOf(head)
  BY <1>2, <1>4, EvidenceRests
<1>6. result.outcome \in Ledger!UncertainOutcomes
  BY DEF UncertainOutcomes, Ledger!UncertainOutcomes
<1>7. Ledger!ObserveOperation(i, result.outcome)
  BY <1>3, <1>5, <1>6 DEF Ledger!ObserveOperation, Ledger!InPhase, Observed
<1>8. Ledger!Next
  BY <1>3, <1>6, <1>7 DEF Ledger!Next, Ledger!Observe
<1> QED
  BY <1>2, <1>4, <1>5, <1>8, Replaces

\* What a process reads of its copy of the head is what the ledger says.
LEMMA CopyIsLedger ==
    /\ Run(head)!Eligible = Ledger!Eligible
    /\ \A u, n : Run(head)!Reservation(u, n) = Ledger!Reservation(u, n)
    /\ Run(head)!Stopped = Ledger!Stopped
<1>1. /\ Run(head)!Units = Ledger!Units
      /\ \A u : Run(head)!Lifecycle(u) = Ledger!Lifecycle(u)
  BY DEF Run!Units, Ledger!Units, Run!Lifecycle, Ledger!Lifecycle, Run!Range, Ledger!Range
<1>2. \A u : Run(head)!Members(u) = Ledger!Members(u)
  BY <1>1 DEF Run!Members, Ledger!Members
<1>3. Run(head)!Nodes = Ledger!Nodes
  BY <1>1, <1>2 DEF Run!Nodes, Ledger!Nodes
<1>4. \A u : Run(head)!External(u) = Ledger!External(u) /\ Run(head)!Owner(u) = Ledger!Owner(u)
  BY <1>1, <1>2, <1>3 DEF Run!External, Ledger!External, Run!Owner, Ledger!Owner
<1>5. \A ev : /\ Run(head)!Idle(ev) = Ledger!Idle(ev)
              /\ Run(head)!Evidenced(ev) = Ledger!Evidenced(ev)
  BY <1>1 DEF Run!Idle, Ledger!Idle, Run!Evidenced, Ledger!Evidenced
<1>6. /\ \A u, r, f : Run(head)!Returned(u, r, f) = Ledger!Returned(u, r, f)
      /\ \A r : Run(head)!Succeeded(r) = Ledger!Succeeded(r)
  BY DEF Run!Returned, Ledger!Returned, Run!Succeeded, Ledger!Succeeded
<1>7. \A u, r : Run(head)!SatisfiedBy(u, r) = Ledger!SatisfiedBy(u, r)
  BY <1>2, <1>6 DEF Run!SatisfiedBy, Ledger!SatisfiedBy
<1>8. \A ev : Run(head)!SatisfiedNodes(ev) = Ledger!SatisfiedNodes(ev)
  BY <1>5, <1>7 DEF Run!SatisfiedNodes, Ledger!SatisfiedNodes
<1>9. \A ev : Run(head)!ReadyUnits(ev) = Ledger!ReadyUnits(ev)
  BY <1>4, <1>5, <1>8 DEF Run!ReadyUnits, Ledger!ReadyUnits
<1>10. \A ev : Run(head)!FailedUnits(ev) = Ledger!FailedUnits(ev)
  BY <1>5, <1>6 DEF Run!FailedUnits, Ledger!FailedUnits
<1>11. \A ev : Run(head)!Failed(ev) = Ledger!Failed(ev)
  BY <1>6, <1>10 DEF Run!Failed, Ledger!Failed, Run!FailedNodes, Ledger!FailedNodes
<1>12. \A u : Run(head)!ActiveOfKind(u) = Ledger!ActiveOfKind(u)
  <2>1. \A u : Run(head)!KindOf(u) = Ledger!KindOf(u)
    BY DEF Run!KindOf, Ledger!KindOf
  <2>2. \A r : Run(head)!Active(r) = Ledger!Active(r)
    BY DEF Run!Active, Ledger!Active
  <2>3. ASSUME NEW u PROVE Run(head)!ActiveOfKind(u) = Ledger!ActiveOfKind(u)
    BY <2>1, <2>2 DEF Run!ActiveOfKind, Ledger!ActiveOfKind
  <2> QED
    BY <2>3
<1>13. \A u : Run(head)!CapacityAvailable(u) = Ledger!CapacityAvailable(u)
  <2>1. \A S : Run(head)!Cardinality(S) = Ledger!Cardinality(S)
    BY DEF Run!Cardinality, Ledger!Cardinality
  <2>2. \A u : Run(head)!Capacity(u) = Ledger!Capacity(u)
    BY DEF Run!Capacity, Ledger!Capacity
  <2> QED
    BY <1>12, <2>1, <2>2 DEF Run!CapacityAvailable, Ledger!CapacityAvailable
<1>14. \A u : Run(head)!OverlapsActive(u) = Ledger!OverlapsActive(u)
  BY <1>2 DEF Run!OverlapsActive, Ledger!OverlapsActive, Run!ActiveUnits, Ledger!ActiveUnits,
     Run!Active, Ledger!Active
<1>15. Run(head)!Eligible = Ledger!Eligible
  BY <1>9, <1>13, <1>14 DEF Run!Eligible, Ledger!Eligible
<1>16. \A u, n : Run(head)!Reservation(u, n) = Ledger!Reservation(u, n)
  BY <1>4 DEF Run!Reservation, Ledger!Reservation, Run!Dependencies, Ledger!Dependencies
<1>17. Run(head)!Stopped = Ledger!Stopped
  BY <1>11 DEF Run!Stopped, Ledger!Stopped
<1> QED
  BY <1>15, <1>16, <1>17

\* The first ready unit in identity order is reserved: reserve_next.
LEMMA ReserveTurns ==
    ASSUME HeadOK, ActiveRecords(head) = {}, HasWork(head), Len(head) < MaxRecords,
           head' = Reserved(head)
    PROVE  /\ Ledger!Next /\ HeadOK' /\ Later(head, head')
           /\ InHandOf(head', "reserved")
           /\ \A i \in DOMAIN head' : \/ head'[i].phase = "reserved"
                                      \/ i \in DOMAIN head /\ head'[i] = head[i]
<1> DEFINE n == Len(head) + 1
<1>1. ~Ledger!Stopped /\ ReadyUnits(EvidenceOf(head)) # {} /\ ~Failed(EvidenceOf(head))
  <2>1. ~Run(head)!Stopped /\ ReadyUnits(EvidenceOf(head)) # {}
    BY DEF HasWork
  <2>2. ~Ledger!Stopped
    BY <2>1, CopyIsLedger
  <2> QED
    BY <2>1, <2>2, SameStatus DEF Ledger!Stopped
<1>2. \A i \in DOMAIN head : ~Ledger!Active(head[i])
  BY DEF ActiveRecords, Ledger!Active
<1>3. Ledger!Eligible = ReadyUnits(EvidenceOf(head))
  <2>1. \A u : Ledger!ActiveOfKind(u) = {} /\ Ledger!ActiveUnits = {}
    BY <1>2 DEF Ledger!ActiveOfKind, Ledger!ActiveUnits
  <2>2. Ledger!Cardinality({}) = 0
    BY FS_EmptySet DEF Ledger!Cardinality, Cardinality
  <2>3. \A u : Ledger!CapacityAvailable(u) /\ ~Ledger!OverlapsActive(u)
    BY <2>1, <2>2 DEF Ledger!CapacityAvailable, Ledger!Capacity, Ledger!OverlapsActive
  <2> QED
    BY <2>3, SameStatus DEF Ledger!Eligible
<1>4. Ledger!Eligible \subseteq Units /\ Ledger!Eligible # {}
  BY <1>1, <1>3 DEF ReadyUnits, Idle
<1>5. \E u \in Ledger!Eligible : \A v \in Ledger!Eligible : Rank[u] <= Rank[v]
  <2> DEFINE f == [u \in Ledger!Eligible |-> Rank[u]]
  <2>1. f \in [Ledger!Eligible -> Nat]
    BY <1>4, DriveAssumption
  <2>2. \E u \in Ledger!Eligible : \A v \in Ledger!Eligible : f[u] <= f[v]
    BY <1>4, <2>1, Ledger!LeastOf, LedgerProgram, LedgerResults, LedgerPolicy
  <2> QED
    BY <2>2
<1>6. PICK u \in Ledger!Eligible : /\ \A v \in Ledger!Eligible : Rank[u] <= Rank[v]
                                   /\ head' = Append(head, Ledger!Reservation(u, n))
  BY <1>5, CopyIsLedger DEF Reserved
<1>7. PICK r : r = Ledger!Reservation(u, n)
  OBVIOUS
<1>8. r.unit = u /\ r.nonce = n /\ r.phase = "reserved"
  BY <1>7 DEF Ledger!Reservation
<1>9. /\ head \in Seq(Ledger!Records) /\ Len(head) \in Nat /\ DOMAIN head = 1..Len(head)
      /\ n \in 1..MaxRecords /\ n \in Nat /\ n \notin DOMAIN head
  BY HeadFacts
<1>10. /\ DOMAIN head' = DOMAIN head \cup {n} /\ Len(head') = n
       /\ head'[n] = r /\ \A i \in DOMAIN head : head'[i] = head[i]
  BY <1>6, <1>7, <1>9
<1>11. /\ CompletedRecords(head') = CompletedRecords(head)
       /\ \A i \in CompletedRecords(head) : head'[i] = head[i]
  BY <1>8, <1>9, <1>10 DEF CompletedRecords
<1>12. EvidenceOf(head') = EvidenceOf(head) /\ EpochOf(head') = EpochOf(head)
  BY <1>11, HeadFacts, EvidenceStays
<1>13. ~Ledger!NonceUsed(n)
  BY <1>9, HeadFacts DEF Ledger!NonceUsed
<1>14. Ledger!ReserveNext(n)
  BY <1>1, <1>6, <1>12, <1>13 DEF Ledger!ReserveNext
<1>15. Ledger!Next
  BY <1>9, <1>14 DEF Ledger!Next, Ledger!Reserve
<1>16. Ledger!IInv'
  BY <1>15, LedgerStep DEF HeadOK
<1>17. ActiveRecords(head') = {n}
  BY <1>2, <1>8, <1>10 DEF ActiveRecords, Ledger!Active
<1>18. RunShape(head')
  <2>1. head' \in Seq(Ledger!Records)
    BY <1>16 DEF Ledger!IInv, Ledger!TypeOK
  <2>2. \A i \in DOMAIN head' : head'[i].nonce = i
    BY <1>8, <1>10, HeadFacts
  <2>3. Len(head') <= MaxRecords
    BY <1>9, <1>10
  <2> QED
    BY <1>17, <2>1, <2>2, <2>3 DEF RunShape
<1>19. HeadOK'
  BY <1>1, <1>12, <1>16, <1>18 DEF HeadOK
<1>20. Later(head, head')
  BY <1>9, <1>10, HeadFacts DEF Later
<1>21. InHandOf(head', "reserved")
  <2>1. Selected(head') = n
    BY <1>9, <1>17, SelectedIs
  <2> QED
    BY <1>8, <1>10, <1>17, <2>1 DEF InHandOf
<1> QED
  BY <1>8, <1>10, <1>15, <1>19, <1>20, <1>21

-----------------------------------------------------------------------------
(***************************************************************************)
(* What a step of one process leaves to the others.                        *)
(***************************************************************************)

\* A run is a later state of itself.
LEMMA LaterSelf ==
    ASSUME NEW run, RunShape(run)
    PROVE  Later(run, run)
  BY DEF RunShape, Later

\* What was learnt of an earlier head holds of every later one.
LEMMA LaterTransitive ==
    ASSUME NEW a, NEW b, NEW d, RunShape(a), RunShape(b), RunShape(d),
           Later(a, b), Later(b, d)
    PROVE  Later(a, d)
<1>1. /\ Len(a) \in Nat /\ Len(b) \in Nat /\ Len(d) \in Nat
      /\ DOMAIN a = 1..Len(a) /\ DOMAIN b = 1..Len(b)
  BY DEF RunShape
<1>2. Len(a) <= Len(d) /\ DOMAIN a \subseteq DOMAIN b
  BY <1>1 DEF Later
<1> QED
  BY <1>2 DEF Later

\* The dispatch in hand has a place among the effect attempts.
LEMMA OwnPlace ==
    ASSUME NEW run, RunShape(run), NEW phase, InHandOf(run, phase)
    PROVE  /\ Selected(run) \in DOMAIN run /\ Selected(run) \in 1..MaxRecords
           /\ Selected(run) \in Nat /\ ActiveRecords(run) = {Selected(run)}
           /\ run[Selected(run)] \in Ledger!Records /\ run[Selected(run)].unit \in Units
<1>1. Selected(run) \in DOMAIN run
  BY DEF InHandOf, ActiveRecords
<1>2. run \in Seq(Ledger!Records) /\ Len(run) \in Nat /\ Len(run) <= MaxRecords /\ MaxRecords \in Nat
  BY DriveAssumption DEF RunShape
<1>3. DOMAIN run = 1..Len(run) /\ run[Selected(run)] \in Ledger!Records
  BY <1>1, <1>2
<1>4. run[Selected(run)].unit \in Units
  BY <1>3, SameProgram DEF Ledger!Records
<1>5. ActiveRecords(run) = {Selected(run)}
  BY DEF InHandOf, RunShape
<1> QED
  BY <1>1, <1>2, <1>3, <1>4, <1>5

\* Nothing a process knows is taken back while the stores only grow.
LEMMA Remembers ==
    ASSUME HeadOK, HeadOK', NEW l, Holds(l),
           Later(head, head'), stored \subseteq stored', artifacts \subseteq artifacts',
           \A p \in Places : effects[p] # "absent" => effects'[p] # "absent"
    PROVE  Holds(l)'
<1>1. l.pc # "idle" => RunShape(l.run) /\ Later(l.run, head')
  BY LaterTransitive DEF Holds, HeadOK
<1>2. l.pc \in ForOperation \ {"leased"} => effects'[<<Selected(l.run), l.session>>] # "absent"
  <2> SUFFICES ASSUME l.pc \in ForOperation \ {"leased"}
               PROVE  effects'[<<Selected(l.run), l.session>>] # "absent"
    OBVIOUS
  <2>1. effects[<<Selected(l.run), l.session>>] # "absent" /\ l.session \in Sessions
    BY DEF Holds
  <2>2. \E phase : InHandOf(l.run, phase)
    BY DEF Holds, ForOperation, Waiting, Running
  <2>3. <<Selected(l.run), l.session>> \in Places
    BY <1>1, <2>1, <2>2, OwnPlace DEF Places, ForOperation
  <2> QED
    BY <2>1, <2>3
<1>3. l.pc = "attempted" => Attempt(Selected(l.run), l.session) \in stored'
  BY DEF Holds
<1>4. l.pc \in {"proved", "projected"} => Proof(Selected(l.run), l.session, l.result) \in stored'
  BY DEF Holds
<1>5. l.pc = "projected" => Selected(l.run) \in artifacts'
  BY DEF Holds
<1> QED
  BY <1>1, <1>2, <1>3, <1>4, <1>5 DEF Holds

\* Nothing is promised of a process that rests.
LEMMA IdleKnows ==
    ASSUME NEW l, l.pc = "idle"
    PROVE  Holds(l)'
  BY DEF Holds, Waiting, Running, ForUnit, ForOperation

\* What a step of c must show: it changes nobody else's state, moves the head as
\* the ledger allows, and takes nothing away.
Turn(c) ==
    /\ ctl' \in [Controllers -> LocalStates]
    /\ \A d \in Controllers \ {c} : ctl'[d] = ctl[d]
    /\ head' = head \/ (HeadOK' /\ Later(head, head') /\ Ledger!Next)
    /\ head' \in heads' /\ Untorn'
    /\ stored \subseteq stored' /\ StoredOK' /\ artifacts \subseteq artifacts'
    /\ effects' \in [Places -> Stages]
    /\ \A p \in Places : effects[p] # "absent" => effects'[p] # "absent"
    /\ Kept' /\ Knows(c)'

\* The ledger stands still while the head does.
LEMMA HeadRests ==
    ASSUME HeadOK, head' = head
    PROVE  HeadOK' /\ Later(head, head')
<1>1. Ledger!IInv'
  <2>1. UNCHANGED Ledger!vars
    BY DEF Ledger!vars
  <2> QED
    BY <2>1, LedgerStep DEF HeadOK
<1>2. RunShape(head') /\ (ActiveRecords(head') # {} => ~Failed(EvidenceOf(head')))
  BY DEF HeadOK
<1>3. Later(head, head')
  BY LaterSelf DEF HeadOK
<1> QED
  BY <1>1, <1>2, <1>3 DEF HeadOK

\* Such a step preserves the invariant.
LEMMA TurnPreserves ==
    ASSUME IInv, NEW c \in Controllers, Turn(c)
    PROVE  IInv' /\ (head' = head \/ Ledger!Next)
<1>1. HeadOK' /\ Later(head, head')
  BY HeadRests DEF Turn, IInv
<1>2. ASSUME NEW d \in Controllers PROVE Knows(d)'
  <2>1. CASE d = c
    BY <2>1 DEF Turn
  <2>2. CASE d # c
    <3>1. PICK l : l = ctl[d]
      OBVIOUS
    <3>2. Holds(l)'
      BY <1>1, <3>1, Remembers DEF Turn, IInv, Knows
    <3> QED
      BY <2>2, <3>1, <3>2 DEF Turn, Knows
  <2> QED
    BY <2>1, <2>2
<1>3. Shape'
  BY DEF Turn, Shape
<1> QED
  BY <1>1, <1>2, <1>3 DEF Turn, IInv

\* No write is torn: either nothing can be lost any more, or nobody was killed.
LEMMA StaysUntorn ==
    ASSUME Untorn, losses' = losses,
           \/ kills < MaxKills
           \/ /\ kills' = kills /\ loose' \in {loose, {}}
              /\ heads' = {head'} \/ UNCHANGED <<head, heads>>
    PROVE  Untorn'
<1>1. MaxKills \in Nat
  BY DriveAssumption
<1>2. CASE kills < MaxKills
  <2>1. kills # MaxKills
    BY <1>1, <1>2
  <2> QED
    BY <2>1 DEF Untorn
<1>3. CASE ~(kills < MaxKills)
  BY <1>3 DEF Untorn
<1> QED
  BY <1>2, <1>3

-----------------------------------------------------------------------------
(***************************************************************************)
(* What the stores owe each other, store by store.                         *)
(***************************************************************************)

\* While all four rest, so does what relates them.
LEMMA KeptRests ==
    ASSUME Kept, UNCHANGED <<head, stored, artifacts, effects>>
    PROVE  Kept'
  BY DEF Kept, Resumable, Rehydrates, EffectsOwned, ArtifactsBacked

\* Evidence is added, and an artifact only with the evidence for it.
LEMMA KeptWithMore ==
    ASSUME Kept, UNCHANGED <<head, effects>>,
           stored \subseteq stored', artifacts \subseteq artifacts',
           \A i \in artifacts' \ artifacts : \E e \in stored :
              e.kind = "result" /\ e.dispatch = i /\ Succeeded(e.result)
    PROVE  Kept'
<1>1. Resumable'
  BY DEF Kept, Resumable, Rehydrates
<1>2. EffectsOwned'
  BY DEF Kept, EffectsOwned
<1>3. ArtifactsBacked'
  <2>1. \A i \in artifacts' : \E e \in stored :
           e.kind = "result" /\ e.dispatch = i /\ Succeeded(e.result)
    BY DEF Kept, ArtifactsBacked
  <2>2. \A i \in artifacts' : \E e \in stored' :
           e.kind = "result" /\ e.dispatch = i /\ Succeeded(e.result)
    BY <2>1
  <2>3. \A i \in CompletedRecords(head') :
          head'[i].unit \in Constructions /\ Succeeded(head'[i].terminal) => i \in artifacts'
    BY DEF Kept, ArtifactsBacked
  <2> QED
    BY <2>2, <2>3 DEF ArtifactsBacked
<1> QED
  BY <1>1, <1>2, <1>3 DEF Kept

\* A dispatch that started has a place among the effect attempts.
LEMMA CompletedPlace ==
    ASSUME HeadOK, NEW i \in DOMAIN head, head[i].phase \in {"started", "completed"}
    PROVE  <<i, head[i].session>> \in Places
<1>1. head[i] \in Ledger!Records /\ Ledger!RecordShape(head[i]) /\ i \in 1..MaxRecords
  BY HeadFacts DEF HeadOK, Ledger!IInv, Ledger!TypeOK
<1>2. head[i].session \in Sessions
  BY <1>1 DEF Ledger!Records, Ledger!RecordShape
<1> QED
  BY <1>1, <1>2 DEF Places

\* An effect attempt moves on that is not sealed; once it began its dispatch
\* must have started under its session.
LEMMA KeptWithEffect ==
    ASSUME Kept, HeadOK, effects \in [Places -> Stages], UNCHANGED <<head, stored, artifacts>>,
           NEW p \in Places, NEW stage, effects' = [effects EXCEPT ![p] = stage],
           effects[p] \notin Sealed, stage # "absent",
           \/ stage = "admitted"
           \/ /\ p[1] \in DOMAIN head /\ head[p[1]].phase \in {"started", "completed"}
              /\ head[p[1]].session = p[2]
    PROVE  Kept'
<1>1. \A q \in Places : effects'[q] = IF q = p THEN stage ELSE effects[q]
  OBVIOUS
<1>2. ASSUME NEW i \in CompletedRecords(head), head[i].unit \in Operations
      PROVE  effects'[<<i, head[i].session>>] = StageOf(head[i].terminal.outcome)
  <2>1. effects[<<i, head[i].session>>] = StageOf(head[i].terminal.outcome)
    BY <1>2 DEF Kept, Resumable, Rehydrates
  <2>2. effects[<<i, head[i].session>>] \in Sealed
    BY <2>1 DEF StageOf, Sealed
  <2>3. <<i, head[i].session>> \in Places
    BY <1>2, CompletedPlace DEF CompletedRecords
  <2> QED
    BY <1>1, <2>1, <2>2, <2>3
<1>3. Rehydrates(head)'
  BY <1>2 DEF Kept, Resumable, Rehydrates
<1>4. ASSUME NEW i \in DOMAIN head, head[i].phase = "started", head[i].unit \in Operations
      PROVE  effects'[<<i, head[i].session>>] # "absent"
  <2>1. effects[<<i, head[i].session>>] # "absent"
    BY <1>4 DEF Kept, Resumable
  <2>2. <<i, head[i].session>> \in Places
    BY <1>4, CompletedPlace
  <2> QED
    BY <1>1, <2>1, <2>2
<1>5. Resumable'
  BY <1>3, <1>4 DEF Kept, Resumable
<1>6. EffectsOwned'
  <2> SUFFICES ASSUME NEW i \in 1..MaxRecords, NEW s \in Sessions,
                      effects'[<<i, s>>] \notin {"absent", "admitted"}
               PROVE  /\ i \in DOMAIN head
                      /\ head[i].phase \in {"started", "completed"} /\ head[i].session = s
    BY DEF EffectsOwned
  <2>1. <<i, s>> \in Places
    BY DEF Places
  <2>2. CASE <<i, s>> = p
    BY <1>1, <2>1, <2>2
  <2>3. CASE <<i, s>> # p
    BY <1>1, <2>1, <2>3 DEF Kept, EffectsOwned
  <2> QED
    BY <2>2, <2>3
<1>7. ArtifactsBacked'
  BY DEF Kept, ArtifactsBacked
<1> QED
  BY <1>5, <1>6, <1>7 DEF Kept

\* The records of the next head are numbered from one, too.
LEMMA HeadDomain ==
    ASSUME HeadOK'
    PROVE  /\ head' \in Seq(Ledger!Records) /\ Len(head') \in Nat
           /\ DOMAIN head' = 1..Len(head')
<1>1. head' \in Seq(Ledger!Records)
  BY DEF HeadOK, RunShape
<1> QED
  BY <1>1

\* The head moves on: what newly completed is proved, and what newly started
\* can be recovered.
LEMMA KeptWithHead ==
    ASSUME Kept, HeadOK, HeadOK', Later(head, head'), UNCHANGED <<stored, artifacts, effects>>,
           \A i \in DOMAIN head' : head'[i].phase = "completed" =>
              \/ i \in CompletedRecords(head)
              \/ /\ IF head'[i].unit \in Operations
                    THEN effects[<<i, head'[i].session>>] = StageOf(head'[i].terminal.outcome)
                    ELSE Proof(i, head'[i].session, head'[i].terminal) \in stored
                 /\ head'[i].unit \in Constructions /\ Succeeded(head'[i].terminal) =>
                       i \in artifacts,
           \A i \in DOMAIN head' : head'[i].phase = "started" =>
              \/ i \in DOMAIN head /\ head[i].phase = "started"
              \/ IF head'[i].unit \in Operations
                 THEN effects[<<i, head'[i].session>>] # "absent"
                 ELSE Attempt(i, head'[i].session) \in stored
    PROVE  Kept'
<1>1. ASSUME NEW i \in CompletedRecords(head)
      PROVE  /\ i \in CompletedRecords(head') /\ head'[i].unit = head[i].unit
             /\ head'[i].session = head[i].session /\ head'[i].terminal = head[i].terminal
  BY HeadFacts, HeadDomain DEF Later, CompletedRecords
<1>2. Rehydrates(head)'
  <2> SUFFICES ASSUME NEW i \in CompletedRecords(head')
               PROVE  IF head'[i].unit \in Operations
                      THEN effects[<<i, head'[i].session>>] = StageOf(head'[i].terminal.outcome)
                      ELSE Proof(i, head'[i].session, head'[i].terminal) \in stored
    BY DEF Rehydrates
  <2>1. CASE i \in CompletedRecords(head)
    BY <1>1, <2>1 DEF Kept, Resumable, Rehydrates
  <2>2. CASE i \notin CompletedRecords(head)
    BY <2>2 DEF CompletedRecords
  <2> QED
    BY <2>1, <2>2
<1>3. Resumable'
  <2> SUFFICES ASSUME NEW i \in DOMAIN head', head'[i].phase = "started"
               PROVE  IF head'[i].unit \in Operations
                      THEN effects[<<i, head'[i].session>>] # "absent"
                      ELSE Attempt(i, head'[i].session) \in stored
    BY <1>2 DEF Resumable
  <2>1. CASE i \in DOMAIN head /\ head[i].phase = "started"
    <3>1. head'[i].unit = head[i].unit /\ head'[i].session = head[i].session
      BY <2>1 DEF Later
    <3> QED
      BY <2>1, <3>1 DEF Kept, Resumable
  <2>2. CASE ~(i \in DOMAIN head /\ head[i].phase = "started")
    BY <2>2
  <2> QED
    BY <2>1, <2>2
<1>4. EffectsOwned'
  <2> SUFFICES ASSUME NEW i \in 1..MaxRecords, NEW s \in Sessions,
                      effects[<<i, s>>] \notin {"absent", "admitted"}
               PROVE  /\ i \in DOMAIN head'
                      /\ head'[i].phase \in {"started", "completed"} /\ head'[i].session = s
    BY DEF EffectsOwned
  <2>1. i \in DOMAIN head /\ head[i].phase \in {"started", "completed"} /\ head[i].session = s
    BY DEF Kept, EffectsOwned
  <2>2. i \in DOMAIN head'
    <3>1. Len(head) \in Nat /\ Len(head') \in Nat /\ Len(head) <= Len(head')
      BY HeadFacts, HeadDomain DEF Later
    <3> QED
      BY <2>1, <3>1, HeadFacts, HeadDomain
  <2> QED
    BY <2>1, <2>2 DEF Later
<1>5. ArtifactsBacked'
  <2> SUFFICES ASSUME NEW i \in CompletedRecords(head'),
                      head'[i].unit \in Constructions, Succeeded(head'[i].terminal)
               PROVE  i \in artifacts
    BY DEF Kept, ArtifactsBacked
  <2>1. CASE i \in CompletedRecords(head)
    BY <1>1, <2>1 DEF Kept, ArtifactsBacked
  <2>2. CASE i \notin CompletedRecords(head)
    BY <2>2 DEF CompletedRecords
  <2> QED
    BY <2>1, <2>2
<1> QED
  BY <1>3, <1>4, <1>5 DEF Kept

-----------------------------------------------------------------------------
(***************************************************************************)
(* What a process computes from its copy of the head.                      *)
(***************************************************************************)

\* The dispatch just reserved is the one in hand.
LEMMA ReservedInHand ==
    ASSUME NEW run, RunShape(run), ActiveRecords(run) = {}
    PROVE  InHandOf(Reserved(run), "reserved")
<1> DEFINE n == Len(run) + 1
<1>1. PICK r : Reserved(run) = Append(run, r) /\ r.phase = "reserved"
  <2>1. PICK u : Reserved(run) = Append(run, Run(run)!Reservation(u, n))
    BY DEF Reserved
  <2>2. Run(run)!Reservation(u, n).phase = "reserved"
    BY DEF Run!Reservation
  <2> QED
    BY <2>1, <2>2
<1>2. PICK next : next = Reserved(run)
  OBVIOUS
<1>3. run \in Seq(Ledger!Records) /\ Len(run) \in Nat /\ DOMAIN run = 1..Len(run)
  BY DEF RunShape
<1>4. DOMAIN next = DOMAIN run \cup {n} /\ next[n] = r /\ \A i \in DOMAIN run : next[i] = run[i]
  BY <1>1, <1>2, <1>3
<1>5. n \in Nat /\ n \notin DOMAIN run
  BY <1>3
<1>6. ActiveRecords(next) = {n}
  BY <1>1, <1>4, <1>5 DEF ActiveRecords
<1>7. Selected(next) = n
  BY <1>5, <1>6, SelectedIs
<1> QED
  BY <1>1, <1>2, <1>4, <1>6, <1>7 DEF InHandOf

\* An active dispatch is the one in hand.
LEMMA ActiveInHand ==
    ASSUME NEW run, RunShape(run), ActiveRecords(run) # {}
    PROVE  Selected(run) \in ActiveRecords(run)
<1>1. PICK i \in ActiveRecords(run) : TRUE
  OBVIOUS
<1>2. i \in Nat
  BY DEF RunShape, ActiveRecords
<1> QED
  BY <1>2, SelectedIs DEF RunShape

\* Starting it keeps it in hand.
LEMMA StartedInHand ==
    ASSUME NEW run, RunShape(run), InHandOf(run, "reserved"), NEW s
    PROVE  LET next == Started(run, Selected(run), s) IN
           /\ InHandOf(next, "started") /\ Selected(next) = Selected(run)
           /\ next[Selected(run)].session = s
           /\ next[Selected(run)].unit = run[Selected(run)].unit
<1>1. PICK next : next = Started(run, Selected(run), s)
  OBVIOUS
<1>2. PICK i : i = Selected(run)
  OBVIOUS
<1>3. /\ i \in DOMAIN run /\ i \in Nat /\ ActiveRecords(run) = {i} /\ run[i] \in Ledger!Records
      /\ run \in Seq(Ledger!Records)
  BY <1>2, OwnPlace DEF RunShape
<1>4. /\ DOMAIN next = DOMAIN run /\ \A k \in DOMAIN run : k # i => next[k] = run[k]
      /\ next[i] = [run[i] EXCEPT !.phase = "started", !.session = s]
  BY <1>1, <1>2, <1>3 DEF Started
<1>5. next[i].phase = "started" /\ next[i].session = s /\ next[i].unit = run[i].unit
  BY <1>3, <1>4 DEF Ledger!Records
<1>6. ActiveRecords(next) = {i}
  BY <1>3, <1>4, <1>5 DEF ActiveRecords
<1>7. Selected(next) = i
  BY <1>3, <1>6, SelectedIs
<1> QED
  BY <1>1, <1>2, <1>5, <1>6, <1>7 DEF InHandOf

\* The started dispatch in hand is started in the head, or completed by another
\* process, in the same session.
LEMMA InHandInHead ==
    ASSUME HeadOK, NEW run, RunShape(run), Later(run, head), InHandOf(run, "started")
    PROVE  LET own == Selected(run) IN
           /\ own \in DOMAIN head /\ head[own].phase \in {"started", "completed"}
           /\ head[own].session = run[own].session /\ head[own].unit = run[own].unit
<1>1. Selected(run) \in DOMAIN run /\ Len(run) \in Nat /\ DOMAIN run = 1..Len(run)
  BY OwnPlace DEF RunShape
<1>2. Len(run) <= Len(head) /\ Selected(run) \in DOMAIN head
  BY <1>1, HeadFacts DEF Later
<1> QED
  BY <1>1, <1>2 DEF Later, InHandOf

-----------------------------------------------------------------------------
(***************************************************************************)
(* The kinds of step.                                                      *)
(***************************************************************************)

\* A process moves without writing anything.
LEMMA LocalStep ==
    ASSUME IInv, NEW c \in Controllers, NEW l \in LocalStates, ctl' = [ctl EXCEPT ![c] = l],
           UNCHANGED <<Journal, Evidence, effects, losses>>,
           kills' = kills \/ kills < MaxKills, Holds(l)'
    PROVE  IInv' /\ (head' = head \/ Ledger!Next)
<1>1. /\ ctl' \in [Controllers -> LocalStates] /\ ctl'[c] = l
      /\ \A d \in Controllers \ {c} : ctl'[d] = ctl[d]
  BY DEF IInv, Shape
<1>2. Knows(c)'
  BY <1>1 DEF Knows
<1>3. Kept'
  BY KeptRests DEF IInv, Evidence, Journal
<1>4. Untorn'
  BY StaysUntorn DEF IInv, Evidence, Journal
<1>5. Shape'
  BY <1>1 DEF IInv, Shape, Evidence, Journal, StoredOK
<1>6. Turn(c)
  BY <1>1, <1>2, <1>3, <1>4, <1>5 DEF Turn, Shape, Evidence, Journal
<1> QED
  BY <1>6, TurnPreserves

\* A process at rest is a local state.
LEMMA NowhereRests == Nowhere \in LocalStates /\ Nowhere.pc = "idle"
  BY DEF Nowhere, LocalStates

\* It leaves, or is killed.
LEMMA LeaveStep ==
    ASSUME IInv, NEW c \in Controllers, Leave(c),
           UNCHANGED <<Journal, Evidence, effects, losses>>,
           kills' = kills \/ kills < MaxKills
    PROVE  IInv' /\ (head' = head \/ Ledger!Next)
<1>1. PICK l \in LocalStates : l = Nowhere /\ l.pc = "idle"
  BY NowhereRests
<1>2. ctl' = [ctl EXCEPT ![c] = l]
  BY <1>1 DEF Leave
<1>3. Holds(l)'
  BY <1>1, IdleKnows
<1> QED
  BY <1>2, <1>3, LocalStep

\* A commit is followed by a step of the process, by its death, or by nothing:
\* it is enough to look at a head that is what the process loaded.
LEMMA CommitStep ==
    ASSUME IInv, NEW c \in Controllers, NEW next, NEW l,
           Commit(c, next, ctl' = [ctl EXCEPT ![c] = l]),
           UNCHANGED <<Evidence, effects, losses>>,
           head = ctl[c].run /\ head' = next =>
              Ledger!Next /\ HeadOK' /\ Later(head, head') /\ Kept',
           HeadOK' /\ head' = next => l \in LocalStates /\ Holds(l)'
    PROVE  IInv' /\ (head' = head \/ Ledger!Next)
<1>1. CASE /\ head \in {ctl[c].run, next} /\ head' = next
           /\ \/ heads' = {next} /\ kills' = kills /\ ctl' = [ctl EXCEPT ![c] = l]
              \/ heads' = heads \cup {next} /\ Dies(c)
  <2>1. head' = head \/ (HeadOK' /\ Later(head, head') /\ Ledger!Next)
    BY <1>1
  <2>2. HeadOK'
    BY <2>1, HeadRests DEF IInv
  <2>3. Kept'
    BY <1>1, KeptRests DEF IInv, Evidence
  <2>4. PICK k \in LocalStates : ctl' = [ctl EXCEPT ![c] = k] /\ (k = l \/ k.pc = "idle")
    BY <1>1, <2>2, NowhereRests DEF Dies, Leave
  <2>5. Holds(k)'
    BY <1>1, <2>2, <2>4, IdleKnows
  <2>6. /\ ctl' \in [Controllers -> LocalStates] /\ ctl'[c] = k
        /\ \A d \in Controllers \ {c} : ctl'[d] = ctl[d]
    BY <2>4 DEF IInv, Shape
  <2>7. Knows(c)'
    BY <2>5, <2>6 DEF Knows
  <2>8. head' \in heads' /\ StoredOK' /\ effects' \in [Places -> Stages]
    BY <1>1 DEF IInv, Shape, StoredOK, Evidence
  <2>9. Untorn'
    BY <1>1, StaysUntorn DEF IInv, Evidence, Dies
  <2>10. Turn(c)
    BY <2>1, <2>3, <2>6, <2>7, <2>8, <2>9 DEF Turn, Evidence
  <2> QED
    BY <2>10, TurnPreserves
<1>2. CASE Leave(c) /\ UNCHANGED <<Journal, kills>>
  BY <1>2, LeaveStep
<1> QED
  BY <1>1, <1>2 DEF Commit

\* An evidence record is found, written, written and left unsynchronized by a
\* process that dies, or refused.
LEMMA PublishStep ==
    ASSUME IInv, NEW c \in Controllers, NEW item, NEW l \in LocalStates, NEW pc,
           Publish(c, item, pc), UNCHANGED <<Journal, artifacts, effects, losses>>,
           l = [ctl[c] EXCEPT !.pc = pc],
           item.kind = "result" =>
              /\ item = Proof(item.dispatch, item.session, item.result)
              /\ item.result \in UnitVerdicts /\ item.result.session = item.session,
           HeadOK' /\ head' = head /\ item \in stored' => Holds(l)'
    PROVE  IInv' /\ (head' = head \/ Ledger!Next)
<1>1. CASE /\ stored' = stored \cup {item}
           /\ \/ /\ loose' \in {loose, {}} /\ kills' = kills /\ ctl' = [ctl EXCEPT ![c] = l]
              \/ Dies(c)
  <2>1. HeadOK'
    BY HeadRests DEF IInv, Journal
  <2>2. StoredOK'
    BY <1>1 DEF IInv, Shape, StoredOK
  <2>3. Kept'
    BY <1>1, KeptWithMore DEF IInv, Journal
  <2>4. PICK k \in LocalStates : ctl' = [ctl EXCEPT ![c] = k] /\ (k = l \/ k.pc = "idle")
    BY <1>1, NowhereRests DEF Dies, Leave
  <2>5. Holds(k)'
    BY <1>1, <2>1, <2>4, IdleKnows DEF Journal
  <2>6. /\ ctl' \in [Controllers -> LocalStates] /\ ctl'[c] = k
        /\ \A d \in Controllers \ {c} : ctl'[d] = ctl[d]
    BY <2>4 DEF IInv, Shape
  <2>7. Knows(c)'
    BY <2>5, <2>6 DEF Knows
  <2>8. head' \in heads' /\ effects' \in [Places -> Stages]
    BY DEF IInv, Shape, Journal
  <2>9. Untorn'
    BY <1>1, StaysUntorn DEF IInv, Journal, Dies
  <2>10. Turn(c)
    BY <1>1, <2>2, <2>3, <2>6, <2>7, <2>8, <2>9 DEF Turn, Journal
  <2> QED
    BY <2>10, TurnPreserves
<1>2. CASE Leave(c) /\ UNCHANGED <<stored, loose, kills>>
  BY <1>2, LeaveStep DEF Evidence
<1>3. CASE item \in stored /\ Goto(c, pc) /\ UNCHANGED <<stored, loose, lease, kills>>
  BY <1>1, <1>3 DEF Goto
<1>4. CASE /\ stored' = stored \cup {item} /\ loose' = {}
           /\ Goto(c, pc) /\ UNCHANGED <<lease, kills>>
  BY <1>1, <1>4 DEF Goto
<1> QED
  BY <1>1, <1>2, <1>3, <1>4 DEF Publish

\* An effect attempt that is not sealed moves on.
LEMMA EffectStep ==
    ASSUME IInv, NEW c \in Controllers, NEW l \in LocalStates, ctl' = [ctl EXCEPT ![c] = l],
           UNCHANGED <<Journal, Evidence, kills, losses>>,
           NEW p \in Places, NEW stage \in Stages, effects' = [effects EXCEPT ![p] = stage],
           effects[p] \notin Sealed, stage # "absent",
           \/ stage = "admitted"
           \/ /\ p[1] \in DOMAIN head /\ head[p[1]].phase \in {"started", "completed"}
              /\ head[p[1]].session = p[2],
           Holds(l)'
    PROVE  IInv' /\ (head' = head \/ Ledger!Next)
<1>1. /\ ctl' \in [Controllers -> LocalStates] /\ ctl'[c] = l
      /\ \A d \in Controllers \ {c} : ctl'[d] = ctl[d]
  BY DEF IInv, Shape
<1>2. Knows(c)'
  BY <1>1 DEF Knows
<1>3. Kept'
  BY KeptWithEffect DEF IInv, Evidence, Journal, Shape
<1>4. Untorn'
  BY StaysUntorn DEF IInv, Evidence, Journal
<1>5. head' \in heads' /\ StoredOK'
  BY DEF IInv, Shape, Journal, Evidence, StoredOK
<1>6. effects' \in [Places -> Stages] /\ \A q \in Places : effects[q] # "absent" => effects'[q] # "absent"
  BY DEF IInv, Shape
<1>7. Turn(c)
  BY <1>1, <1>2, <1>3, <1>4, <1>5, <1>6 DEF Turn, Evidence, Journal
<1> QED
  BY <1>7, TurnPreserves

-----------------------------------------------------------------------------
(***************************************************************************)
(* Loading and reserving.                                                  *)
(***************************************************************************)

\* What the invariant says of a process that works on a dispatch.
LEMMA Working ==
    ASSUME IInv, NEW c \in Controllers, ctl[c].pc # "idle"
    PROVE  /\ ctl \in [Controllers -> LocalStates] /\ ctl[c] \in LocalStates
           /\ HeadOK /\ Holds(ctl[c])
           /\ RunShape(ctl[c].run) /\ Later(ctl[c].run, head)
  BY DEF IInv, Shape, Knows, Holds

\* The head is loaded with its work.
LEMMA LoadStep ==
    ASSUME IInv, NEW c \in Controllers, Load(c)
    PROVE  IInv' /\ (head' = head \/ Ledger!Next)
<1>1. PICK run : run = head
  OBVIOUS
<1>2. PICK l : l = [Nowhere EXCEPT !.pc = "loaded", !.run = run]
  OBVIOUS
<1>3. l.pc = "loaded" /\ l.run = run /\ l \in LocalStates
  BY <1>1, <1>2 DEF Nowhere, LocalStates, IInv, HeadOK, RunShape
<1>4. HasWork(run) /\ RunShape(run) /\ Later(run, head')
  BY <1>1, LaterSelf DEF Load, IInv, HeadOK, Journal
<1>5. Holds(l)'
  BY <1>3, <1>4 DEF Holds, Waiting, Running, ForUnit, ForOperation
<1>6. ctl' = [ctl EXCEPT ![c] = l]
  BY <1>1, <1>2 DEF Load
<1> QED
  BY <1>3, <1>5, <1>6, LocalStep DEF Load

\* The reservation computed from the loaded head is appended to it.
LEMMA ReserveStep ==
    ASSUME IInv, NEW c \in Controllers, Reserve(c)
    PROVE  IInv' /\ (head' = head \/ Ledger!Next)
<1>1. PICK l : l = ctl[c]
  OBVIOUS
<1>2. PICK next : next = Reserved(l.run)
  OBVIOUS
<1>3. PICK k : k = [l EXCEPT !.pc = "reserved", !.run = next]
  OBVIOUS
<1>4. l.pc = "loaded" /\ ActiveRecords(l.run) = {} /\ Len(l.run) < MaxRecords
  BY <1>1 DEF Reserve, At
<1>5. /\ ctl \in [Controllers -> LocalStates] /\ l \in LocalStates
      /\ HeadOK /\ RunShape(l.run) /\ HasWork(l.run)
  BY <1>1, <1>4, Working DEF Holds
<1>6. k.pc = "reserved" /\ k.run = next
  BY <1>3, <1>5 DEF LocalStates
<1>7. Commit(c, next, ctl' = [ctl EXCEPT ![c] = k])
  <2>1. [ctl EXCEPT ![c].pc = "reserved", ![c].run = next] = [ctl EXCEPT ![c] = k]
    BY <1>1, <1>3, <1>5 DEF LocalStates
  <2> QED
    BY <1>1, <1>2, <2>1 DEF Reserve, Commit
<1>8. InHandOf(next, "reserved")
  BY <1>2, <1>4, <1>5, ReservedInHand
<1>9. ASSUME HeadOK', head' = next PROVE k \in LocalStates /\ Holds(k)'
  <2>1. RunShape(next) /\ Later(next, head')
    BY <1>9, LaterSelf DEF HeadOK
  <2>2. k \in LocalStates
    BY <1>3, <1>5, <2>1 DEF LocalStates, Waiting, RunShape
  <2> QED
    BY <1>6, <1>8, <2>1, <2>2 DEF Holds, Waiting, Running, ForUnit, ForOperation
<1>10. ASSUME head = ctl[c].run, head' = next
       PROVE  Ledger!Next /\ HeadOK' /\ Later(head, head') /\ Kept'
  <2>1. /\ ActiveRecords(head) = {} /\ HasWork(head) /\ Len(head) < MaxRecords
        /\ head' = Reserved(head)
    BY <1>1, <1>2, <1>4, <1>5, <1>10
  <2>2. /\ Ledger!Next /\ HeadOK' /\ Later(head, head')
        /\ \A i \in DOMAIN head' : \/ head'[i].phase = "reserved"
                                   \/ i \in DOMAIN head /\ head'[i] = head[i]
    BY <1>5, <2>1, ReserveTurns
  <2>3. /\ \A i \in DOMAIN head' : head'[i].phase = "completed" => i \in CompletedRecords(head)
        /\ \A i \in DOMAIN head' : head'[i].phase = "started" =>
              i \in DOMAIN head /\ head[i].phase = "started"
    BY <2>2 DEF CompletedRecords
  <2>4. Kept'
    BY <1>5, <2>2, <2>3, KeptWithHead DEF IInv, Reserve, Evidence
  <2> QED
    BY <2>2, <2>4
<1> QED
  BY <1>7, <1>9, <1>10, CommitStep DEF Reserve

\* A reservation nobody started is given back.
LEMMA GiveBackStep ==
    ASSUME IInv, NEW c \in Controllers, ctl[c].pc # "idle",
           InHandOf(ctl[c].run, "reserved"), GiveBack(c),
           UNCHANGED <<Evidence, effects, losses>>
    PROVE  IInv' /\ (head' = head \/ Ledger!Next)
<1>1. PICK run : run = ctl[c].run
  OBVIOUS
<1>2. PICK i : i = Selected(run)
  OBVIOUS
<1>3. PICK next : next = Released(run, i)
  OBVIOUS
<1>4. PICK k \in LocalStates : k = Nowhere /\ k.pc = "idle"
  BY NowhereRests
<1>5. Commit(c, next, ctl' = [ctl EXCEPT ![c] = k])
  BY <1>1, <1>2, <1>3, <1>4 DEF GiveBack, Commit, Leave, Own
<1>6. ASSUME head = run, head' = next
      PROVE  Ledger!Next /\ HeadOK' /\ Later(head, head') /\ Kept'
  <2>1. HeadOK /\ i \in ActiveRecords(head) /\ head[i].phase = "reserved"
    BY <1>1, <1>2, <1>6, Working DEF InHandOf
  <2>2. head' = Released(head, i)
    BY <1>3, <1>6
  <2>3. Ledger!Next /\ HeadOK' /\ Later(head, head')
    BY <2>1, <2>2, ReleaseTurns
  <2>4. \A j \in DOMAIN head' : /\ j \in DOMAIN head
                                /\ head'[j] = head[j] \/ head'[j].phase = "released"
    <3>1. DOMAIN head' = DOMAIN head /\ \A j \in DOMAIN head : j # i => head'[j] = head[j]
      BY <2>1, <2>2, HeadFacts DEF Released
    <3>2. i \in DOMAIN head /\ head[i] \in Ledger!Records
      BY <2>1, HeadFacts DEF ActiveRecords
    <3>3. head'[i].phase = "released"
      BY <2>1, <2>2, <3>2, HeadFacts DEF Released, Ledger!Records
    <3> QED
      BY <3>1, <3>3
  <2>5. Kept'
    BY <2>1, <2>3, <2>4, KeptWithHead DEF IInv, Evidence, CompletedRecords
  <2> QED
    BY <2>3, <2>5
<1>7. Holds(k)'
  BY <1>4, IdleKnows
<1> QED
  BY <1>1, <1>5, <1>6, <1>7, CommitStep

\* A resumed run gives back the reservation it finds.
LEMMA ReleaseReservedStep ==
    ASSUME IInv, NEW c \in Controllers, ReleaseReserved(c)
    PROVE  IInv' /\ (head' = head \/ Ledger!Next)
<1>1. PICK run : run = ctl[c].run
  OBVIOUS
<1>2. ctl[c].pc = "loaded" /\ ActiveRecords(run) # {} /\ run[Selected(run)].phase = "reserved"
  BY <1>1 DEF ReleaseReserved, At, Own
<1>3. RunShape(run)
  BY <1>1, <1>2, Working
<1>4. InHandOf(run, "reserved")
  BY <1>2, <1>3, ActiveInHand DEF InHandOf
<1> QED
  BY <1>1, <1>2, <1>4, GiveBackStep DEF ReleaseReserved

-----------------------------------------------------------------------------
(***************************************************************************)
(* Constructions and checks.                                               *)
(***************************************************************************)

\* A session is bound to the reserved dispatch.
LEMMA AdmitStep ==
    ASSUME IInv, NEW c \in Controllers, NEW s \in Sessions, Admit(c, s)
    PROVE  IInv' /\ (head' = head \/ Ledger!Next)
<1>1. PICK l : l = ctl[c]
  OBVIOUS
<1>2. PICK k : k = [l EXCEPT !.pc = "admitted", !.session = s]
  OBVIOUS
<1>3. l.pc = "reserved" /\ l.run[Selected(l.run)].unit \notin Operations
  BY <1>1 DEF Admit, At, Unit, Own
<1>4. /\ ctl \in [Controllers -> LocalStates] /\ l \in LocalStates
      /\ HeadOK /\ RunShape(l.run) /\ Later(l.run, head) /\ InHandOf(l.run, "reserved")
  BY <1>1, <1>3, Working DEF Holds, Waiting
<1>5. k.pc = "admitted" /\ k.run = l.run /\ k.session = s /\ k \in LocalStates
  BY <1>2, <1>4 DEF LocalStates, Waiting
<1>6. ctl' = [ctl EXCEPT ![c] = k]
  BY <1>1, <1>2, <1>4 DEF Admit, LocalStates
<1>7. Later(l.run, head')
  BY <1>4 DEF Admit, Journal
<1>8. Holds(k)'
  BY <1>3, <1>4, <1>5, <1>7 DEF Holds, Waiting, Running, ForUnit, ForOperation
<1> QED
  BY <1>5, <1>6, <1>8, LocalStep DEF Admit

\* The attempt is published before anything refers to it.
LEMMA PublishAttemptStep ==
    ASSUME IInv, NEW c \in Controllers, PublishAttempt(c)
    PROVE  IInv' /\ (head' = head \/ Ledger!Next)
<1>1. PICK l : l = ctl[c]
  OBVIOUS
<1>2. PICK k : k = [l EXCEPT !.pc = "attempted"]
  OBVIOUS
<1>3. PICK item : item = Attempt(Selected(l.run), l.session)
  OBVIOUS
<1>4. l.pc = "admitted"
  BY <1>1 DEF PublishAttempt, At
<1>5. /\ ctl \in [Controllers -> LocalStates] /\ l \in LocalStates
      /\ HeadOK /\ RunShape(l.run) /\ Later(l.run, head) /\ InHandOf(l.run, "reserved")
      /\ l.session \in Sessions /\ l.run[Selected(l.run)].unit \notin Operations
  BY <1>1, <1>4, Working DEF Holds, Waiting, ForUnit
<1>6. k.pc = "attempted" /\ k.run = l.run /\ k.session = l.session /\ k \in LocalStates
  BY <1>2, <1>5 DEF LocalStates, Waiting
<1>7. Publish(c, item, "attempted")
  BY <1>1, <1>3 DEF PublishAttempt, Own
<1>8. item.kind # "result"
  BY <1>3 DEF Attempt
<1>9. ASSUME head' = head, item \in stored' PROVE Holds(k)'
  <2>1. Later(k.run, head') /\ Attempt(Selected(k.run), k.session) \in stored'
    BY <1>3, <1>5, <1>6, <1>9
  <2> QED
    BY <1>5, <1>6, <2>1 DEF Holds, Waiting, Running, ForUnit, ForOperation
<1> QED
  BY <1>1, <1>2, <1>6, <1>7, <1>8, <1>9, PublishStep DEF PublishAttempt

\* The head starts a dispatch whose evidence can be found: the commit that a
\* construction, a check and an operation have in common.
LEMMA StartCommit ==
    ASSUME IInv, NEW c \in Controllers, NEW l, l = ctl[c], l.pc # "idle",
           InHandOf(l.run, "reserved"), l.session \in Sessions,
           NEW next, next = Started(l.run, Selected(l.run), l.session),
           head = l.run, head' = next, UNCHANGED <<Evidence, effects>>,
           IF l.run[Selected(l.run)].unit \in Operations
           THEN effects[<<Selected(l.run), l.session>>] # "absent"
           ELSE Attempt(Selected(l.run), l.session) \in stored
    PROVE  Ledger!Next /\ HeadOK' /\ Later(head, head') /\ Kept'
<1>1. PICK i : i = Selected(l.run)
  OBVIOUS
<1>2. PICK s \in Sessions : s = l.session
  OBVIOUS
<1>3. HeadOK /\ i \in ActiveRecords(head) /\ head[i].phase = "reserved" /\ head' = Started(head, i, s)
  BY <1>1, <1>2, Working DEF InHandOf
<1>4. Ledger!Next /\ HeadOK' /\ Later(head, head')
  BY <1>3, StartTurns
<1>5. i \in DOMAIN head /\ head[i] \in Ledger!Records
  BY <1>3, HeadFacts DEF ActiveRecords
<1>6. /\ DOMAIN head' = DOMAIN head /\ \A j \in DOMAIN head : j # i => head'[j] = head[j]
      /\ head'[i].phase = "started" /\ head'[i].session = s /\ head'[i].unit = head[i].unit
  BY <1>3, <1>5, HeadFacts DEF Started, Ledger!Records
<1>7. \A j \in DOMAIN head' : head'[j].phase = "completed" => j \in CompletedRecords(head)
  BY <1>6 DEF CompletedRecords
<1>8. \A j \in DOMAIN head' : head'[j].phase = "started" =>
         \/ j \in DOMAIN head /\ head[j].phase = "started"
         \/ IF head'[j].unit \in Operations
            THEN effects[<<j, head'[j].session>>] # "absent"
            ELSE Attempt(j, head'[j].session) \in stored
  BY <1>1, <1>2, <1>6
<1>9. Kept'
  BY <1>3, <1>4, <1>7, <1>8, KeptWithHead DEF IInv, Evidence
<1> QED
  BY <1>4, <1>9

\* A construction or a check starts after its attempt is published.
LEMMA StartUnitStep ==
    ASSUME IInv, NEW c \in Controllers, StartUnit(c)
    PROVE  IInv' /\ (head' = head \/ Ledger!Next)
<1>1. PICK l : l = ctl[c]
  OBVIOUS
<1>2. PICK next : next = Started(l.run, Selected(l.run), l.session)
  OBVIOUS
<1>3. PICK k : k = [l EXCEPT !.pc = "started", !.run = next]
  OBVIOUS
<1>4. l.pc = "attempted"
  BY <1>1 DEF StartUnit, At
<1>5. /\ ctl \in [Controllers -> LocalStates] /\ l \in LocalStates
      /\ HeadOK /\ RunShape(l.run) /\ InHandOf(l.run, "reserved")
      /\ l.session \in Sessions /\ l.run[Selected(l.run)].unit \notin Operations
      /\ Attempt(Selected(l.run), l.session) \in stored
  BY <1>1, <1>4, Working DEF Holds, Waiting, ForUnit
<1>6. k.pc = "started" /\ k.run = next /\ k.session = l.session
  BY <1>3, <1>5 DEF LocalStates
<1>7. Commit(c, next, ctl' = [ctl EXCEPT ![c] = k])
  <2>1. [ctl EXCEPT ![c].pc = "started", ![c].run = next] = [ctl EXCEPT ![c] = k]
    BY <1>1, <1>3, <1>5 DEF LocalStates
  <2> QED
    BY <1>1, <1>2, <2>1 DEF StartUnit, Commit, Own
<1>8. /\ InHandOf(next, "started") /\ next[Selected(next)].session = l.session
      /\ next[Selected(next)].unit \notin Operations
  BY <1>2, <1>5, StartedInHand
<1>9. ASSUME HeadOK', head' = next PROVE k \in LocalStates /\ Holds(k)'
  <2>1. RunShape(next) /\ Later(next, head')
    BY <1>9, LaterSelf DEF HeadOK
  <2>2. k \in LocalStates
    BY <1>3, <1>5, <2>1 DEF LocalStates, Running, RunShape
  <2> QED
    BY <1>5, <1>6, <1>8, <2>1, <2>2 DEF Holds, Waiting, Running, ForUnit, ForOperation
<1>10. ASSUME head = ctl[c].run, head' = next
       PROVE  Ledger!Next /\ HeadOK' /\ Later(head, head') /\ Kept'
  BY <1>1, <1>2, <1>4, <1>5, <1>10, StartCommit DEF StartUnit
<1> QED
  BY <1>7, <1>9, <1>10, CommitStep DEF StartUnit

\* A driver returns a result of its session.
LEMMA ExecuteStep ==
    ASSUME IInv, NEW c \in Controllers, NEW result, Execute(c, result)
    PROVE  IInv' /\ (head' = head \/ Ledger!Next)
<1>1. PICK l : l = ctl[c]
  OBVIOUS
<1>2. PICK k : k = [l EXCEPT !.pc = "returned", !.result = result]
  OBVIOUS
<1>3. l.pc = "started" /\ result.session = l.session
  BY <1>1 DEF Execute, At
<1>4. /\ ctl \in [Controllers -> LocalStates] /\ l \in LocalStates
      /\ HeadOK /\ RunShape(l.run) /\ Later(l.run, head) /\ InHandOf(l.run, "started")
      /\ l.run[Selected(l.run)].session = l.session
      /\ l.session \in Sessions /\ l.run[Selected(l.run)].unit \notin Operations
  BY <1>1, <1>3, Working DEF Holds, Running, ForUnit
<1>5. result \in UnitVerdicts
  <2>1. result \in UnitResults(l.run[Selected(l.run)].unit)
    BY <1>1 DEF Execute, Unit, Own
  <2>2. l.run[Selected(l.run)].unit \in Units
    BY <1>4, OwnPlace
  <2> QED
    BY <2>1, <2>2 DEF UnitVerdicts
<1>6. /\ k.pc = "returned" /\ k.run = l.run /\ k.session = l.session /\ k.result = result
      /\ k \in LocalStates
  BY <1>2, <1>4, <1>5 DEF LocalStates, Running
<1>7. ctl' = [ctl EXCEPT ![c] = k]
  BY <1>1, <1>2, <1>4 DEF Execute, LocalStates
<1>8. Later(l.run, head')
  BY <1>4 DEF Execute, Journal
<1>9. Holds(k)'
  BY <1>3, <1>4, <1>5, <1>6, <1>8 DEF Holds, Waiting, Running, ForUnit, ForOperation
<1> QED
  BY <1>6, <1>7, <1>9, LocalStep DEF Execute

\* Its result is published.
LEMMA PublishProofStep ==
    ASSUME IInv, NEW c \in Controllers, PublishProof(c)
    PROVE  IInv' /\ (head' = head \/ Ledger!Next)
<1>1. PICK l : l = ctl[c]
  OBVIOUS
<1>2. PICK k : k = [l EXCEPT !.pc = "proved"]
  OBVIOUS
<1>3. PICK item : item = Proof(Selected(l.run), l.session, l.result)
  OBVIOUS
<1>4. l.pc = "returned"
  BY <1>1 DEF PublishProof, At
<1>5. /\ ctl \in [Controllers -> LocalStates] /\ l \in LocalStates
      /\ HeadOK /\ RunShape(l.run) /\ Later(l.run, head) /\ InHandOf(l.run, "started")
      /\ l.run[Selected(l.run)].session = l.session
      /\ l.session \in Sessions /\ l.run[Selected(l.run)].unit \notin Operations
      /\ l.result \in UnitVerdicts /\ l.result.session = l.session
  BY <1>1, <1>4, Working DEF Holds, Running, ForUnit
<1>6. /\ k.pc = "proved" /\ k.run = l.run /\ k.session = l.session /\ k.result = l.result
      /\ k \in LocalStates
  BY <1>2, <1>5 DEF LocalStates, Running
<1>7. Publish(c, item, "proved")
  BY <1>1, <1>3 DEF PublishProof, Own
<1>8. /\ item = Proof(item.dispatch, item.session, item.result)
      /\ item.result \in UnitVerdicts /\ item.result.session = item.session
  BY <1>3, <1>5 DEF Proof
<1>9. ASSUME head' = head, item \in stored' PROVE Holds(k)'
  <2>1. Later(k.run, head') /\ Proof(Selected(k.run), k.session, k.result) \in stored'
    BY <1>3, <1>5, <1>6, <1>9
  <2> QED
    BY <1>5, <1>6, <2>1 DEF Holds, Waiting, Running, ForUnit, ForOperation
<1> QED
  BY <1>1, <1>2, <1>6, <1>7, <1>8, <1>9, PublishStep DEF PublishProof

\* A proved artifact is given its public name.
LEMMA ProjectArtifactStep ==
    ASSUME IInv, NEW c \in Controllers, ProjectArtifact(c)
    PROVE  IInv' /\ (head' = head \/ Ledger!Next)
<1>1. PICK l : l = ctl[c]
  OBVIOUS
<1>2. PICK k : k = [l EXCEPT !.pc = "projected"]
  OBVIOUS
<1>3. PICK i : i = Selected(l.run)
  OBVIOUS
<1>4. /\ l.pc = "proved" /\ Succeeded(l.result) /\ artifacts' = artifacts \cup {i}
      /\ ctl' = [ctl EXCEPT ![c].pc = "projected"]
  BY <1>1, <1>3 DEF ProjectArtifact, At, NeedsArtifact, Own, Goto
<1>5. /\ ctl \in [Controllers -> LocalStates] /\ l \in LocalStates
      /\ HeadOK /\ RunShape(l.run) /\ Later(l.run, head) /\ InHandOf(l.run, "started")
      /\ l.run[i].session = l.session
      /\ l.session \in Sessions /\ l.run[i].unit \notin Operations
      /\ l.result \in UnitVerdicts /\ l.result.session = l.session
      /\ Proof(i, l.session, l.result) \in stored
  BY <1>1, <1>3, <1>4, Working DEF Holds, Running, ForUnit
<1>6. /\ k.pc = "projected" /\ k.run = l.run /\ k.session = l.session /\ k.result = l.result
      /\ k \in LocalStates
  BY <1>2, <1>5 DEF LocalStates, Running
<1>7. /\ ctl' \in [Controllers -> LocalStates] /\ ctl'[c] = k
      /\ \A d \in Controllers \ {c} : ctl'[d] = ctl[d]
  BY <1>1, <1>2, <1>4, <1>5, <1>6 DEF LocalStates
<1>8. Later(l.run, head') /\ Proof(i, l.session, l.result) \in stored' /\ i \in artifacts'
  BY <1>4, <1>5 DEF ProjectArtifact, Journal
<1>9. Knows(c)'
  <2>1. Holds(k)'
    BY <1>3, <1>5, <1>6, <1>8 DEF Holds, Waiting, Running, ForUnit, ForOperation
  <2> QED
    BY <1>7, <2>1 DEF Knows
<1>10. Kept'
  <2>1. \A j \in artifacts' \ artifacts : \E e \in stored :
           e.kind = "result" /\ e.dispatch = j /\ Succeeded(e.result)
    BY <1>4, <1>5 DEF Proof
  <2>2. artifacts \subseteq artifacts'
    BY <1>4
  <2> QED
    BY <2>1, <2>2, KeptWithMore DEF IInv, ProjectArtifact, Journal
<1>11. Untorn'
  BY StaysUntorn DEF IInv, ProjectArtifact, Journal
<1>12. head' \in heads' /\ StoredOK' /\ effects' \in [Places -> Stages]
  BY DEF IInv, Shape, StoredOK, ProjectArtifact, Journal
<1>13. Turn(c)
  BY <1>4, <1>7, <1>9, <1>10, <1>11, <1>12 DEF Turn, ProjectArtifact, Journal
<1> QED
  BY <1>13, TurnPreserves

\* A proved dispatch completes; a successful construction after its artifact
\* has the public name.
LEMMA FinishUnitStep ==
    ASSUME IInv, NEW c \in Controllers, FinishUnit(c)
    PROVE  IInv' /\ (head' = head \/ Ledger!Next)
<1>1. PICK l : l = ctl[c]
  OBVIOUS
<1>2. PICK i : i = Selected(l.run)
  OBVIOUS
<1>3. PICK next : next = Completed(l.run, i, l.result)
  OBVIOUS
<1>4. PICK k \in LocalStates : k = Nowhere /\ k.pc = "idle"
  BY NowhereRests
<1>5. Commit(c, next, ctl' = [ctl EXCEPT ![c] = k])
  BY <1>1, <1>2, <1>3, <1>4 DEF FinishUnit, Commit, Leave, Own
<1>6. /\ l.pc \in {"proved", "projected"}
      /\ l.pc = "proved" => ~(l.run[i].unit \in Constructions /\ Succeeded(l.result))
  BY <1>1, <1>2 DEF FinishUnit, At, NeedsArtifact, Unit, Own
<1>7. /\ HeadOK /\ RunShape(l.run) /\ InHandOf(l.run, "started")
      /\ l.run[i].session = l.session /\ l.run[i].unit \notin Operations
      /\ l.result \in UnitVerdicts /\ l.result.session = l.session
      /\ Proof(i, l.session, l.result) \in stored
      /\ l.pc = "projected" => i \in artifacts
  BY <1>1, <1>2, <1>6, Working DEF Holds, Running, ForUnit
<1>8. ASSUME head = ctl[c].run, head' = next
      PROVE  Ledger!Next /\ HeadOK' /\ Later(head, head') /\ Kept'
  <2>1. PICK result \in UnitVerdicts : result = l.result
    BY <1>7
  <2>2. /\ i \in ActiveRecords(head) /\ head[i].phase = "started"
        /\ head[i].unit \notin Operations /\ result.session = head[i].session
        /\ head' = Completed(head, i, result)
    BY <1>1, <1>2, <1>3, <1>7, <1>8, <2>1 DEF InHandOf
  <2>3. Ledger!Next /\ HeadOK' /\ Later(head, head')
    BY <1>7, <2>2, FinishTurns
  <2>4. i \in DOMAIN head /\ head[i] \in Ledger!Records
    BY <1>7, <2>2, HeadFacts DEF ActiveRecords
  <2>5. /\ DOMAIN head' = DOMAIN head /\ \A j \in DOMAIN head : j # i => head'[j] = head[j]
        /\ head'[i].phase = "completed" /\ head'[i].terminal = result
        /\ head'[i].session = head[i].session /\ head'[i].unit = head[i].unit
    BY <1>7, <2>2, <2>4, HeadFacts DEF Completed, Ledger!Records
  <2>6. /\ Proof(i, head'[i].session, head'[i].terminal) \in stored
        /\ head'[i].unit \in Constructions /\ Succeeded(head'[i].terminal) => i \in artifacts
    BY <1>1, <1>6, <1>7, <1>8, <2>1, <2>5
  <2>7. \A j \in DOMAIN head' : head'[j].phase = "completed" =>
           j \in CompletedRecords(head) \/ j = i
    BY <2>5 DEF CompletedRecords
  <2>8. \A j \in DOMAIN head' : head'[j].phase = "started" =>
           j \in DOMAIN head /\ head[j].phase = "started"
    BY <2>5
  <2>9. Kept'
    BY <1>7, <2>2, <2>3, <2>5, <2>6, <2>7, <2>8, KeptWithHead DEF IInv, FinishUnit, Evidence
  <2> QED
    BY <2>3, <2>9
<1>9. Holds(k)'
  BY <1>4, IdleKnows
<1> QED
  BY <1>5, <1>8, <1>9, CommitStep DEF FinishUnit

\* A started dispatch is found again: the process holds what its record says.
LEMMA FoundStarted ==
    ASSUME IInv, NEW c \in Controllers, StartedUnit(c)
    PROVE  /\ ctl[c].pc # "idle" /\ InHandOf(ctl[c].run, "started")
           /\ SessionOf(c) = ctl[c].run[Selected(ctl[c].run)].session
           /\ SessionOf(c) \in Sessions
<1>1. PICK run : run = ctl[c].run
  OBVIOUS
<1>2. /\ ctl[c].pc = "loaded" /\ ActiveRecords(run) # {}
      /\ run[Selected(run)].phase = "started"
  BY <1>1 DEF StartedUnit, At, Own
<1>3. RunShape(run) /\ Later(run, head) /\ HeadOK
  BY <1>1, <1>2, Working
<1>4. InHandOf(run, "started")
  BY <1>2, <1>3, ActiveInHand DEF InHandOf
<1>5. LET own == Selected(run) IN
      /\ own \in DOMAIN head /\ head[own].phase \in {"started", "completed"}
      /\ head[own].session = run[own].session
  BY <1>3, <1>4, InHandInHead
<1>6. run[Selected(run)].session \in Sessions
  BY <1>3, <1>5, CompletedPlace DEF Places
<1> QED
  BY <1>1, <1>2, <1>4, <1>6 DEF SessionOf, Own

\* Terminal evidence found under the started session is a proof of it.
LEMMA RecoverProofStep ==
    ASSUME IInv, NEW c \in Controllers, RecoverProof(c)
    PROVE  IInv' /\ (head' = head \/ Ledger!Next)
<1>1. PICK l : l = ctl[c]
  OBVIOUS
<1>2. PICK i : i = Selected(l.run)
  OBVIOUS
<1>3. PICK s : s = SessionOf(c)
  OBVIOUS
<1>4. /\ l.pc # "idle" /\ InHandOf(l.run, "started") /\ s = l.run[i].session /\ s \in Sessions
  BY <1>1, <1>2, <1>3, FoundStarted DEF RecoverProof
<1>5. /\ ctl \in [Controllers -> LocalStates] /\ l \in LocalStates
      /\ HeadOK /\ RunShape(l.run) /\ Later(l.run, head)
  BY <1>1, <1>4, Working
<1>6. PICK e \in stored :
         /\ e.kind = "result" /\ e.dispatch = i /\ e.session = s
         /\ ctl' = [ctl EXCEPT ![c].pc = "proved", ![c].session = e.session, ![c].result = e.result]
  BY <1>1, <1>2, <1>3 DEF RecoverProof, Proofs, Own
<1>7. e = Proof(i, s, e.result) /\ e.result \in UnitVerdicts /\ e.result.session = s
  BY <1>6 DEF IInv, Shape, StoredOK
<1>8. PICK k : k = [l EXCEPT !.pc = "proved", !.session = e.session, !.result = e.result]
  OBVIOUS
<1>9. /\ k.pc = "proved" /\ k.run = l.run /\ k.session = s /\ k.result = e.result
      /\ k \in LocalStates
  BY <1>4, <1>5, <1>6, <1>7, <1>8 DEF LocalStates, Running
<1>10. ctl' = [ctl EXCEPT ![c] = k]
  BY <1>1, <1>5, <1>6, <1>8 DEF LocalStates
<1>11. Later(l.run, head') /\ Proof(i, s, e.result) \in stored'
  BY <1>5, <1>6, <1>7 DEF RecoverProof, Journal, Evidence
<1>12. l.run[i].unit \notin Operations
  BY <1>1, <1>2 DEF RecoverProof, Unit, Own
<1>13. Holds(k)'
  BY <1>2, <1>4, <1>5, <1>7, <1>9, <1>11, <1>12
  DEF Holds, Waiting, Running, ForUnit, ForOperation
<1> QED
  BY <1>9, <1>10, <1>13, LocalStep DEF RecoverProof

\* Without it the started session is resumed from its attempt.
LEMMA RecoverAttemptStep ==
    ASSUME IInv, NEW c \in Controllers, RecoverAttempt(c)
    PROVE  IInv' /\ (head' = head \/ Ledger!Next)
<1>1. PICK l : l = ctl[c]
  OBVIOUS
<1>2. PICK i : i = Selected(l.run)
  OBVIOUS
<1>3. PICK s : s = SessionOf(c)
  OBVIOUS
<1>4. /\ l.pc # "idle" /\ InHandOf(l.run, "started") /\ s = l.run[i].session /\ s \in Sessions
  BY <1>1, <1>2, <1>3, FoundStarted DEF RecoverAttempt
<1>5. /\ ctl \in [Controllers -> LocalStates] /\ l \in LocalStates
      /\ HeadOK /\ RunShape(l.run) /\ Later(l.run, head)
  BY <1>1, <1>4, Working
<1>6. PICK k : k = [l EXCEPT !.pc = "started", !.session = s]
  OBVIOUS
<1>7. k.pc = "started" /\ k.run = l.run /\ k.session = s /\ k \in LocalStates
  BY <1>4, <1>5, <1>6 DEF LocalStates, Running
<1>8. ctl' = [ctl EXCEPT ![c] = k]
  BY <1>1, <1>3, <1>5, <1>6 DEF LocalStates, RecoverAttempt
<1>9. Later(l.run, head')
  BY <1>5 DEF RecoverAttempt, Journal
<1>10. l.run[i].unit \notin Operations
  BY <1>1, <1>2 DEF RecoverAttempt, Unit, Own
<1>11. Holds(k)'
  BY <1>2, <1>4, <1>5, <1>7, <1>9, <1>10 DEF Holds, Waiting, Running, ForUnit, ForOperation
<1> QED
  BY <1>7, <1>8, <1>11, LocalStep DEF RecoverAttempt

-----------------------------------------------------------------------------
(***************************************************************************)
(* Operations.                                                             *)
(***************************************************************************)

\* The target lease is acquired for the reserved operation.
LEMMA AcquireDriversStep ==
    ASSUME IInv, NEW c \in Controllers, NEW s \in Sessions, AcquireDrivers(c, s)
    PROVE  IInv' /\ (head' = head \/ Ledger!Next)
<1>1. PICK l : l = ctl[c]
  OBVIOUS
<1>2. PICK k : k = [l EXCEPT !.pc = "leased", !.session = s]
  OBVIOUS
<1>3. l.pc = "reserved" /\ l.run[Selected(l.run)].unit \in Operations
  BY <1>1 DEF AcquireDrivers, At, Unit, Own
<1>4. /\ ctl \in [Controllers -> LocalStates] /\ l \in LocalStates
      /\ HeadOK /\ RunShape(l.run) /\ Later(l.run, head) /\ InHandOf(l.run, "reserved")
  BY <1>1, <1>3, Working DEF Holds, Waiting
<1>5. k.pc = "leased" /\ k.run = l.run /\ k.session = s /\ k \in LocalStates
  BY <1>2, <1>4 DEF LocalStates, Waiting
<1>6. ctl' = [ctl EXCEPT ![c] = k]
  BY <1>1, <1>2, <1>4 DEF AcquireDrivers, LocalStates
<1>7. Later(l.run, head')
  BY <1>4 DEF AcquireDrivers, Journal
<1>8. Holds(k)'
  BY <1>3, <1>4, <1>5, <1>7 DEF Holds, Waiting, Running, ForUnit, ForOperation
<1> QED
  BY <1>5, <1>6, <1>8, LocalStep DEF AcquireDrivers

\* The lease is taken, and the reservation given back.
LEMMA LeaseUnavailableStep ==
    ASSUME IInv, NEW c \in Controllers, LeaseUnavailable(c)
    PROVE  IInv' /\ (head' = head \/ Ledger!Next)
<1>1. ctl[c].pc = "reserved"
  BY DEF LeaseUnavailable, At
<1>2. InHandOf(ctl[c].run, "reserved")
  BY <1>1, Working DEF Holds, Waiting
<1> QED
  BY <1>1, <1>2, GiveBackStep DEF LeaseUnavailable

\* The effect attempt is admitted before the operation starts.
LEMMA AdmitEffectStep ==
    ASSUME IInv, NEW c \in Controllers, AdmitEffect(c)
    PROVE  IInv' /\ (head' = head \/ Ledger!Next)
<1>1. PICK l : l = ctl[c]
  OBVIOUS
<1>2. PICK i : i = Selected(l.run)
  OBVIOUS
<1>3. PICK k : k = [l EXCEPT !.pc = "effect_admitted"]
  OBVIOUS
<1>4. l.pc = "leased"
  BY <1>1 DEF AdmitEffect, At
<1>5. /\ ctl \in [Controllers -> LocalStates] /\ l \in LocalStates
      /\ HeadOK /\ RunShape(l.run) /\ Later(l.run, head) /\ InHandOf(l.run, "reserved")
      /\ l.session \in Sessions /\ l.run[i].unit \in Operations
  BY <1>1, <1>2, <1>4, Working DEF Holds, Waiting, ForOperation
<1>6. PICK p \in Places : p = <<i, l.session>>
  BY <1>2, <1>5, OwnPlace DEF Places
<1>7. CASE Leave(c) /\ UNCHANGED effects
  BY <1>7, LeaveStep DEF AdmitEffect
<1>8. CASE /\ Stage(c) \in {"absent", "admitted"} /\ SetStage(c, "admitted")
           /\ Goto(c, "effect_admitted")
  <2>1. effects[p] \notin Sealed /\ effects' = [effects EXCEPT ![p] = "admitted"]
    BY <1>1, <1>2, <1>6, <1>8 DEF Stage, SetStage, Own, Sealed
  <2>2. ctl' = [ctl EXCEPT ![c] = k]
    BY <1>1, <1>3, <1>8 DEF Goto
  <2>3. k.pc = "effect_admitted" /\ k.run = l.run /\ k.session = l.session /\ k \in LocalStates
    BY <1>3, <1>5 DEF LocalStates, Waiting
  <2>4. effects'[<<i, l.session>>] # "absent"
    BY <1>6, <2>1 DEF IInv, Shape
  <2>5. Later(l.run, head')
    BY <1>5 DEF AdmitEffect, Journal
  <2>6. Holds(k)'
    BY <1>2, <1>5, <2>3, <2>4, <2>5 DEF Holds, Waiting, Running, ForUnit, ForOperation
  <2> QED
    BY <2>1, <2>2, <2>3, <2>6, EffectStep DEF AdmitEffect, Stages
<1> QED
  BY <1>7, <1>8 DEF AdmitEffect

\* An operation starts after its effect attempt is admitted.
LEMMA StartOperationStep ==
    ASSUME IInv, NEW c \in Controllers, StartOperation(c)
    PROVE  IInv' /\ (head' = head \/ Ledger!Next)
<1>1. PICK l : l = ctl[c]
  OBVIOUS
<1>2. PICK next : next = Started(l.run, Selected(l.run), l.session)
  OBVIOUS
<1>3. PICK k : k = [l EXCEPT !.pc = "driving", !.run = next]
  OBVIOUS
<1>4. l.pc = "effect_admitted"
  BY <1>1 DEF StartOperation, At
<1>5. /\ ctl \in [Controllers -> LocalStates] /\ l \in LocalStates
      /\ HeadOK /\ RunShape(l.run) /\ InHandOf(l.run, "reserved")
      /\ l.session \in Sessions /\ l.run[Selected(l.run)].unit \in Operations
      /\ effects[<<Selected(l.run), l.session>>] # "absent"
  BY <1>1, <1>4, Working DEF Holds, Waiting, ForOperation
<1>6. k.pc = "driving" /\ k.run = next /\ k.session = l.session
  BY <1>3, <1>5 DEF LocalStates
<1>7. Commit(c, next, ctl' = [ctl EXCEPT ![c] = k])
  <2>1. [ctl EXCEPT ![c].pc = "driving", ![c].run = next] = [ctl EXCEPT ![c] = k]
    BY <1>1, <1>3, <1>5 DEF LocalStates
  <2> QED
    BY <1>1, <1>2, <2>1 DEF StartOperation, Commit, Own
<1>8. /\ InHandOf(next, "started") /\ next[Selected(next)].session = l.session
      /\ next[Selected(next)].unit \in Operations
      /\ effects[<<Selected(next), l.session>>] # "absent"
  BY <1>2, <1>5, StartedInHand
<1>9. ASSUME HeadOK', head' = next PROVE k \in LocalStates /\ Holds(k)'
  <2>1. RunShape(next) /\ Later(next, head')
    BY <1>9, LaterSelf DEF HeadOK
  <2>2. k \in LocalStates
    BY <1>3, <1>5, <2>1 DEF LocalStates, Running, RunShape
  <2>3. effects'[<<Selected(next), l.session>>] # "absent"
    BY <1>8 DEF StartOperation
  <2> QED
    BY <1>5, <1>6, <1>8, <2>1, <2>2, <2>3 DEF Holds, Waiting, Running, ForUnit, ForOperation
<1>10. ASSUME head = ctl[c].run, head' = next
       PROVE  Ledger!Next /\ HeadOK' /\ Later(head, head') /\ Kept'
  BY <1>1, <1>2, <1>4, <1>5, <1>10, StartCommit DEF StartOperation
<1> QED
  BY <1>7, <1>9, <1>10, CommitStep DEF StartOperation

\* A started operation is found again by the effect attempt of its session.
LEMMA ResumeOperationStep ==
    ASSUME IInv, NEW c \in Controllers, ResumeOperation(c)
    PROVE  IInv' /\ (head' = head \/ Ledger!Next)
<1>1. PICK l : l = ctl[c]
  OBVIOUS
<1>2. PICK i : i = Selected(l.run)
  OBVIOUS
<1>3. PICK s : s = SessionOf(c)
  OBVIOUS
<1>4. /\ l.pc # "idle" /\ InHandOf(l.run, "started") /\ s = l.run[i].session /\ s \in Sessions
  BY <1>1, <1>2, <1>3, FoundStarted DEF ResumeOperation
<1>5. /\ ctl \in [Controllers -> LocalStates] /\ l \in LocalStates
      /\ HeadOK /\ RunShape(l.run) /\ Later(l.run, head)
  BY <1>1, <1>4, Working
<1>6. /\ effects[<<i, s>>] # "absent" /\ l.run[i].unit \in Operations
      /\ Leave(c) \/ ctl' = [ctl EXCEPT ![c].pc = "resuming", ![c].session = s]
  BY <1>1, <1>2, <1>3 DEF ResumeOperation, Recoverable, Unit, Own
<1>7. CASE Leave(c)
  BY <1>7, LeaveStep DEF ResumeOperation
<1>8. CASE ctl' = [ctl EXCEPT ![c].pc = "resuming", ![c].session = s]
  <2>1. PICK k : k = [l EXCEPT !.pc = "resuming", !.session = s]
    OBVIOUS
  <2>2. k.pc = "resuming" /\ k.run = l.run /\ k.session = s /\ k \in LocalStates
    BY <1>4, <1>5, <2>1 DEF LocalStates, Running
  <2>3. ctl' = [ctl EXCEPT ![c] = k]
    BY <1>1, <1>5, <1>8, <2>1 DEF LocalStates
  <2>4. Later(l.run, head') /\ effects'[<<i, s>>] # "absent"
    BY <1>5, <1>6 DEF ResumeOperation, Journal
  <2>5. Holds(k)'
    BY <1>2, <1>4, <1>5, <1>6, <2>2, <2>4 DEF Holds, Waiting, Running, ForUnit, ForOperation
  <2> QED
    BY <2>2, <2>3, <2>5, LocalStep DEF ResumeOperation
<1> QED
  BY <1>6, <1>7, <1>8

\* A process whose effect attempt may still move holds a started operation.
LEMMA DrivingFacts ==
    ASSUME IInv, NEW c \in Controllers, NEW l, l = ctl[c],
           l.pc \in {"driving", "resuming", "concluded"}
    PROVE  /\ ctl \in [Controllers -> LocalStates] /\ l \in LocalStates
           /\ HeadOK /\ RunShape(l.run) /\ Later(l.run, head) /\ InHandOf(l.run, "started")
           /\ l.run[Selected(l.run)].session = l.session /\ l.session \in Sessions
           /\ l.run[Selected(l.run)].unit \in Operations
           /\ <<Selected(l.run), l.session>> \in Places
           /\ effects[<<Selected(l.run), l.session>>] \in Stages \ {"absent"}
           /\ Selected(l.run) \in DOMAIN head
           /\ head[Selected(l.run)].phase \in {"started", "completed"}
           /\ head[Selected(l.run)].session = l.session
           /\ Stage(c) = effects[<<Selected(l.run), l.session>>]
<1>1. /\ ctl \in [Controllers -> LocalStates] /\ l \in LocalStates
      /\ HeadOK /\ RunShape(l.run) /\ Later(l.run, head) /\ Holds(l)
  BY Working
<1>2. /\ InHandOf(l.run, "started")
      /\ l.run[Selected(l.run)].session = l.session /\ l.session \in Sessions
      /\ l.run[Selected(l.run)].unit \in Operations
      /\ effects[<<Selected(l.run), l.session>>] # "absent"
  BY <1>1 DEF Holds, Running, ForOperation
<1>3. <<Selected(l.run), l.session>> \in Places
  BY <1>1, <1>2, OwnPlace DEF Places
<1>4. effects[<<Selected(l.run), l.session>>] \in Stages
  BY <1>3 DEF IInv, Shape
<1>5. LET own == Selected(l.run) IN
      /\ own \in DOMAIN head /\ head[own].phase \in {"started", "completed"}
      /\ head[own].session = l.run[own].session
  BY <1>1, <1>2, InHandInHead
<1>6. Stage(c) = effects[<<Selected(l.run), l.session>>]
  BY DEF Stage, Own
<1> QED
  BY <1>1, <1>2, <1>3, <1>4, <1>5, <1>6

\* An operation in hand still is after a step that leaves its attempt present.
LEMMA StillDriving ==
    ASSUME IInv, NEW c \in Controllers, NEW l, l = ctl[c],
           l.pc \in {"driving", "resuming", "concluded"},
           NEW k, k.pc \in {"driving", "resuming", "concluded"},
           k.run = l.run /\ k.session = l.session,
           head' = head, effects'[<<Selected(l.run), l.session>>] # "absent"
    PROVE  Holds(k)'
<1>1. /\ HeadOK /\ RunShape(l.run) /\ Later(l.run, head) /\ InHandOf(l.run, "started")
      /\ l.run[Selected(l.run)].session = l.session /\ l.session \in Sessions
      /\ l.run[Selected(l.run)].unit \in Operations
  BY DrivingFacts
<1>2. Later(k.run, head')
  BY <1>1
<1> QED
  BY <1>1, <1>2 DEF Holds, Waiting, Running, ForUnit, ForOperation

\* The first call of an admitted attempt.
LEMMA BeginEffectStep ==
    ASSUME IInv, NEW c \in Controllers, BeginEffect(c)
    PROVE  IInv' /\ (head' = head \/ Ledger!Next)
<1>1. PICK l : l = ctl[c]
  OBVIOUS
<1>2. l.pc \in {"driving", "resuming", "concluded"}
  BY <1>1 DEF BeginEffect, Driving, At
<1>3. PICK p \in Places : p = <<Selected(l.run), l.session>>
  BY <1>1, <1>2, DrivingFacts
<1>4. /\ effects[p] = "admitted" /\ effects' = [effects EXCEPT ![p] = "begun"]
  BY <1>1, <1>2, <1>3, DrivingFacts DEF BeginEffect, SetStage, Own
<1>5. /\ p[1] \in DOMAIN head /\ head[p[1]].phase \in {"started", "completed"}
      /\ head[p[1]].session = p[2]
  BY <1>1, <1>2, <1>3, DrivingFacts
<1>6. ctl' = [ctl EXCEPT ![c] = l] /\ l \in LocalStates
  BY <1>1, <1>2, DrivingFacts DEF BeginEffect
<1>7. effects'[p] # "absent"
  BY <1>4 DEF IInv, Shape
<1>8. head' = head
  BY DEF BeginEffect, Journal
<1>9. Holds(l)'
  BY <1>1, <1>2, <1>3, <1>7, <1>8, StillDriving
<1>10. effects[p] \notin Sealed
  BY <1>4 DEF Sealed
<1> QED
  BY <1>4, <1>5, <1>6, <1>9, <1>10, EffectStep DEF BeginEffect, Stages

\* The attempt is sealed or comes to rest; a sealed one stays as it is.
LEMMA ConcludeEffectStep ==
    ASSUME IInv, NEW c \in Controllers, NEW stage \in Stages, ConcludeEffect(c, stage)
    PROVE  IInv' /\ (head' = head \/ Ledger!Next)
<1>1. PICK l : l = ctl[c]
  OBVIOUS
<1>2. l.pc \in {"driving", "resuming", "concluded"}
  BY <1>1 DEF ConcludeEffect, Driving, At
<1>3. PICK p \in Places : p = <<Selected(l.run), l.session>>
  BY <1>1, <1>2, DrivingFacts
<1>4. Stage(c) = effects[p] /\ effects' = [effects EXCEPT ![p] = stage]
  BY <1>1, <1>2, <1>3, DrivingFacts DEF ConcludeEffect, SetStage, Own
<1>5. effects[p] \notin Sealed /\ stage # "absent"
  BY <1>4 DEF ConcludeEffect, Conclusions, Sealed
<1>6. /\ p[1] \in DOMAIN head /\ head[p[1]].phase \in {"started", "completed"}
      /\ head[p[1]].session = p[2]
  BY <1>1, <1>2, <1>3, DrivingFacts
<1>7. PICK k \in LocalStates :
         /\ ctl' = [ctl EXCEPT ![c] = k]
         /\ k = Nowhere \/ k = [l EXCEPT !.pc = "concluded"]
  <2>1. [l EXCEPT !.pc = "concluded"] \in LocalStates
    <3>1. l \in LocalStates
      BY <1>1, <1>2, DrivingFacts
    <3> QED
      BY <3>1 DEF LocalStates, Running
  <2>2. \/ ctl' = [ctl EXCEPT ![c] = Nowhere]
        \/ ctl' = [ctl EXCEPT ![c] = [l EXCEPT !.pc = "concluded"]]
    BY <1>1 DEF ConcludeEffect, Leave, Goto
  <2> QED
    BY <2>1, <2>2, NowhereRests
<1>8. effects'[p] # "absent"
  BY <1>4, <1>5 DEF IInv, Shape
<1>9. head' = head
  BY DEF ConcludeEffect, Journal
<1>10. Holds(k)'
  <2>1. CASE k = Nowhere
    BY <2>1, NowhereRests, IdleKnows
  <2>2. CASE k = [l EXCEPT !.pc = "concluded"]
    <3>1. k.pc = "concluded" /\ k.run = l.run /\ k.session = l.session
      BY <1>1, <1>2, <2>2, DrivingFacts DEF LocalStates
    <3> QED
      BY <1>1, <1>2, <1>3, <1>8, <1>9, <3>1, StillDriving
  <2> QED
    BY <1>7, <2>1, <2>2
<1> QED
  BY <1>4, <1>5, <1>6, <1>7, <1>10, EffectStep DEF ConcludeEffect

\* What an uncertain or a sealed attempt returns is a result of its operation.
LEMMA EffectResults ==
    ASSUME NEW c, Unit(c) \in Operations, ctl[c].session \in Sessions,
           Stage(c) \in {"completed", "failed"}
    PROVE  /\ EffectResult(c) \in OperationResults(Unit(c))
           /\ EffectResult(c).session = ctl[c].session
           /\ Stage(c) = StageOf(EffectResult(c).outcome)
<1>1. PICK o : o = Unit(c)
  OBVIOUS
<1>2. PICK s \in Sessions : s = ctl[c].session
  OBVIOUS
<1>3. CASE Stage(c) = "completed"
  <2>1. EffectResult(c) = [session |-> s, outcome |-> "completed",
                           before |-> AllPassed(Before[o]), after |-> AllPassed(After[o])]
    BY <1>1, <1>2, <1>3 DEF EffectResult, EffectOutcome
  <2>2. EffectResult(c) \in OperationResults(o)
    BY <2>1 DEF OperationResults
  <2> QED
    BY <1>1, <1>2, <1>3, <2>1, <2>2 DEF StageOf
<1>4. CASE Stage(c) = "failed"
  <2>1. EffectResult(c) = [session |-> s, outcome |-> "application_not_completed",
                           before |-> AllPassed(Before[o]), after |-> <<>>]
    BY <1>1, <1>2, <1>4 DEF EffectResult, EffectOutcome
  <2>2. EffectResult(c) \in OperationResults(o)
    BY <2>1 DEF OperationResults
  <2> QED
    BY <1>1, <1>2, <1>4, <2>1, <2>2 DEF StageOf
<1> QED
  BY <1>3, <1>4

\* A sealed attempt that can be reported completes its dispatch.
LEMMA SubmitTerminalStep ==
    ASSUME IInv, NEW c \in Controllers, SubmitTerminal(c)
    PROVE  IInv' /\ (head' = head \/ Ledger!Next)
<1>1. PICK l : l = ctl[c]
  OBVIOUS
<1>2. PICK i : i = Selected(l.run)
  OBVIOUS
<1>3. PICK result : result = EffectResult(c)
  OBVIOUS
<1>4. PICK next : next = Completed(l.run, i, result)
  OBVIOUS
<1>5. PICK k \in LocalStates : k = Nowhere /\ k.pc = "idle"
  BY NowhereRests
<1>6. Commit(c, next, ctl' = [ctl EXCEPT ![c] = k])
  BY <1>1, <1>2, <1>3, <1>4, <1>5 DEF SubmitTerminal, Commit, Leave, Own
<1>7. l.pc \in {"driving", "resuming", "concluded"} /\ Stage(c) \in {"completed", "failed"}
  BY <1>1 DEF SubmitTerminal, Concluded, Driving, At
<1>8. /\ HeadOK /\ InHandOf(l.run, "started") /\ l.run[i].session = l.session
      /\ l.session \in Sessions /\ l.run[i].unit \in Operations
      /\ Stage(c) = effects[<<i, l.session>>]
  BY <1>1, <1>2, <1>7, DrivingFacts
<1>9. /\ result \in OperationResults(l.run[i].unit) /\ result.session = l.session
      /\ effects[<<i, l.session>>] = StageOf(result.outcome)
  <2>1. Unit(c) = l.run[i].unit
    BY <1>1, <1>2 DEF Unit, Own
  <2> QED
    BY <1>1, <1>3, <1>7, <1>8, <2>1, EffectResults
<1>10. ASSUME head = ctl[c].run, head' = next
       PROVE  Ledger!Next /\ HeadOK' /\ Later(head, head') /\ Kept'
  <2>1. /\ i \in ActiveRecords(head) /\ head[i].phase = "started"
        /\ head[i].unit \in Operations /\ result \in OperationResults(head[i].unit)
        /\ result.session = head[i].session /\ head' = Completed(head, i, result)
    BY <1>1, <1>2, <1>4, <1>8, <1>9, <1>10 DEF InHandOf
  <2>2. Ledger!Next /\ HeadOK' /\ Later(head, head')
    BY <1>8, <2>1, ConcludeTurns
  <2>3. i \in DOMAIN head /\ head[i] \in Ledger!Records
    BY <1>8, <2>1, HeadFacts DEF ActiveRecords
  <2>4. /\ DOMAIN head' = DOMAIN head /\ \A j \in DOMAIN head : j # i => head'[j] = head[j]
        /\ head'[i].phase = "completed" /\ head'[i].terminal = result
        /\ head'[i].session = head[i].session /\ head'[i].unit = head[i].unit
    BY <1>8, <2>1, <2>3, HeadFacts DEF Completed, Ledger!Records
  <2>5. head'[i].unit \in Operations /\ head'[i].unit \notin Constructions
    BY <2>1, <2>4, ProgramAssumption
  <2>6. effects[<<i, head'[i].session>>] = StageOf(head'[i].terminal.outcome)
    BY <1>9, <2>1, <2>4
  <2>7. \A j \in DOMAIN head' : head'[j].phase = "completed" =>
           j \in CompletedRecords(head) \/ j = i
    BY <2>4 DEF CompletedRecords
  <2>8. \A j \in DOMAIN head' : head'[j].phase = "started" =>
           j \in DOMAIN head /\ head[j].phase = "started"
    BY <2>4
  <2>9. Kept'
    BY <1>8, <2>2, <2>5, <2>6, <2>7, <2>8, KeptWithHead DEF IInv, SubmitTerminal, Evidence
  <2> QED
    BY <2>2, <2>9
<1>11. Holds(k)'
  BY <1>5, IdleKnows
<1> QED
  BY <1>6, <1>10, <1>11, CommitStep DEF SubmitTerminal

\* An uncertain one is added to the observations.
LEMMA SubmitObservationStep ==
    ASSUME IInv, NEW c \in Controllers, SubmitObservation(c)
    PROVE  IInv' /\ (head' = head \/ Ledger!Next)
<1>1. PICK l : l = ctl[c]
  OBVIOUS
<1>2. PICK i : i = Selected(l.run)
  OBVIOUS
<1>3. PICK result : result = EffectResult(c)
  OBVIOUS
<1>4. PICK next : next = Observed(l.run, i, result)
  OBVIOUS
<1>5. PICK k \in LocalStates : k = Nowhere /\ k.pc = "idle"
  BY NowhereRests
<1>6. Commit(c, next, ctl' = [ctl EXCEPT ![c] = k])
  BY <1>1, <1>2, <1>3, <1>4, <1>5 DEF SubmitObservation, Commit, Leave, Own
<1>7. l.pc \in {"driving", "resuming", "concluded"} /\ Stage(c) \in Uncertain
  BY <1>1 DEF SubmitObservation, Concluded, Driving, At
<1>8. /\ HeadOK /\ InHandOf(l.run, "started") /\ l.run[i].unit \in Operations
  BY <1>1, <1>2, <1>7, DrivingFacts
<1>9. result.outcome \in UncertainOutcomes \ l.run[i].observations
  <2>1. result.outcome = EffectOutcome(Stage(c))
    BY <1>3 DEF EffectResult
  <2>2. EffectOutcome(Stage(c)) \in UncertainOutcomes
    BY <1>7 DEF EffectOutcome, Uncertain, UncertainOutcomes
  <2>3. EffectOutcome(Stage(c)) \notin l.run[i].observations
    BY <1>1, <1>2 DEF SubmitObservation, AlreadyObserved, Own
  <2> QED
    BY <2>1, <2>2, <2>3
<1>10. ASSUME head = ctl[c].run, head' = next
       PROVE  Ledger!Next /\ HeadOK' /\ Later(head, head') /\ Kept'
  <2>1. /\ i \in ActiveRecords(head) /\ head[i].phase = "started"
        /\ head[i].unit \in Operations
        /\ result.outcome \in UncertainOutcomes \ head[i].observations
        /\ head' = Observed(head, i, result)
    BY <1>1, <1>2, <1>4, <1>8, <1>9, <1>10 DEF InHandOf
  <2>2. Ledger!Next /\ HeadOK' /\ Later(head, head')
    BY <1>8, <2>1, ObserveTurns
  <2>3. i \in DOMAIN head /\ head[i] \in Ledger!Records
    BY <1>8, <2>1, HeadFacts DEF ActiveRecords
  <2>4. /\ DOMAIN head' = DOMAIN head /\ \A j \in DOMAIN head : j # i => head'[j] = head[j]
        /\ head'[i].phase = "started"
    BY <1>8, <2>1, <2>3, HeadFacts DEF Observed, Ledger!Records
  <2>5. \A j \in DOMAIN head' : head'[j].phase = "completed" => j \in CompletedRecords(head)
    BY <2>4 DEF CompletedRecords
  <2>6. \A j \in DOMAIN head' : head'[j].phase = "started" =>
           j \in DOMAIN head /\ head[j].phase = "started"
    BY <2>1, <2>3, <2>4
  <2>7. Kept'
    BY <1>8, <2>2, <2>5, <2>6, KeptWithHead DEF IInv, SubmitObservation, Evidence
  <2> QED
    BY <2>2, <2>7
<1>11. Holds(k)'
  BY <1>5, IdleKnows
<1> QED
  BY <1>6, <1>10, <1>11, CommitStep DEF SubmitObservation

-----------------------------------------------------------------------------
(***************************************************************************)
(* Faults.                                                                 *)
(***************************************************************************)

\* What is killed between two writes leaves them as they are.
LEMMA KillStep ==
    ASSUME IInv, NEW c \in Controllers, Kill(c)
    PROVE  IInv' /\ (head' = head \/ Ledger!Next)
  BY LeaveStep DEF Kill, Dies

\* A power loss finds every entry synchronized: nobody was killed before it.
LEMMA PowerLossStep ==
    ASSUME IInv, PowerLoss
    PROVE  IInv' /\ head' = head
<1>1. losses # MaxLosses
  BY DriveAssumption DEF PowerLoss
<1>2. kills = MaxKills /\ heads = {head} /\ loose = {}
  BY <1>1 DEF IInv, Untorn
<1>3. head' = head /\ heads' = {head'} /\ stored' = stored /\ loose' = {} /\ kills' = MaxKills
  BY <1>2 DEF PowerLoss
<1>4. Untorn'
  BY <1>3 DEF Untorn
<1>5. Kept'
  BY <1>3, KeptRests DEF IInv, PowerLoss
<1>6. PICK l \in LocalStates : l = Nowhere /\ l.pc = "idle"
  BY NowhereRests
<1>7. ctl' = [c \in Controllers |-> l]
  BY <1>6 DEF PowerLoss
<1>8. Shape'
  BY <1>3, <1>7 DEF IInv, Shape, StoredOK, PowerLoss
<1>9. ASSUME NEW c \in Controllers PROVE Knows(c)'
  <2>1. Holds(l)' /\ ctl'[c] = l
    BY <1>6, <1>7, IdleKnows
  <2> QED
    BY <2>1 DEF Knows
<1>10. HeadOK'
  BY <1>3, HeadRests DEF IInv
<1> QED
  BY <1>3, <1>4, <1>5, <1>8, <1>9, <1>10 DEF IInv

-----------------------------------------------------------------------------
(***************************************************************************)
(* The theorems.                                                           *)
(***************************************************************************)

\* An admitted run satisfies the invariant.
LEMMA InitEstablishes == EitherFaultInit => IInv /\ Ledger!Init
<1> SUFFICES ASSUME EitherFaultInit
             PROVE  IInv /\ Ledger!Init
  OBVIOUS
<1>1. /\ head = <<>> /\ heads = {<<>>} /\ stored = {} /\ loose = {} /\ artifacts = {}
      /\ effects = [p \in Places |-> "absent"] /\ ctl = [c \in Controllers |-> Nowhere]
      /\ losses = MaxLosses \/ kills = MaxKills
  BY DEF EitherFaultInit, JustAdmitted, Places
<1>2. CompletedRecords(head) = {} /\ ActiveRecords(head) = {}
  BY <1>1 DEF CompletedRecords, ActiveRecords
<1>3. Ledger!Init
  <2>1. EvidenceOf(head) = [u \in Units |-> None]
    BY <1>2 DEF EvidenceOf
  <2>2. EpochOf(head) = {}
    BY <1>2 DEF EpochOf
  <2> QED
    BY <1>1, <2>1, <2>2, SameProgram DEF Ledger!Init
<1>4. Ledger!IInv
  BY <1>3, Ledger!InitEstablishes, LedgerProgram, LedgerResults, LedgerPolicy
<1>5. HeadOK
  BY <1>1, <1>2, <1>4, DriveAssumption DEF HeadOK, RunShape
<1>6. Shape
  <2>1. ctl \in [Controllers -> LocalStates]
    BY <1>1, NowhereRests
  <2> QED
    BY <1>1, <2>1 DEF Shape, StoredOK, Stages
<1>7. Untorn
  BY <1>1 DEF Untorn
<1>8. Kept
  BY <1>1, <1>2 DEF Kept, Resumable, Rehydrates, EffectsOwned, ArtifactsBacked, Places
<1>9. ASSUME NEW c \in Controllers PROVE Knows(c)
  BY <1>1, NowhereRests DEF Knows, Holds, Waiting, Running, ForUnit, ForOperation
<1> QED
  BY <1>3, <1>5, <1>6, <1>7, <1>8, <1>9 DEF IInv

\* Every step preserves it, and moves the head as the ledger allows.
LEMMA NextPreserves ==
    ASSUME IInv, [Next]_vars
    PROVE  IInv' /\ (head' = head \/ Ledger!Next)
<1>1. ASSUME NEW c \in Controllers, Load(c) \/ Reserve(c) \/ ReleaseReserved(c) \/ Kill(c)
      PROVE  IInv' /\ (head' = head \/ Ledger!Next)
  BY <1>1, LoadStep, ReserveStep, ReleaseReservedStep, KillStep
<1>2. ASSUME NEW c \in Controllers, UnitStep(c)
      PROVE  IInv' /\ (head' = head \/ Ledger!Next)
  BY <1>2, AdmitStep, PublishAttemptStep, StartUnitStep, ExecuteStep, PublishProofStep,
     ProjectArtifactStep, FinishUnitStep, RecoverProofStep, RecoverAttemptStep DEF UnitStep
<1>3. ASSUME NEW c \in Controllers, OperationStep(c)
      PROVE  IInv' /\ (head' = head \/ Ledger!Next)
  <2>1. CASE ExternalResolution(c)
    BY <2>1, LeaveStep DEF ExternalResolution
  <2> QED
    BY <1>3, <2>1, AcquireDriversStep, LeaseUnavailableStep, AdmitEffectStep,
       StartOperationStep, ResumeOperationStep, BeginEffectStep, ConcludeEffectStep,
       SubmitTerminalStep, SubmitObservationStep DEF OperationStep
<1>4. CASE PowerLoss
  BY <1>4, PowerLossStep
<1>5. CASE UNCHANGED vars
  <2>1. HeadOK' /\ head' = head
    BY <1>5, HeadRests DEF IInv, vars
  <2>2. Kept'
    BY <1>5, KeptRests DEF IInv, vars
  <2>3. Shape' /\ Untorn'
    BY <1>5 DEF IInv, Shape, StoredOK, Untorn, vars
  <2>4. ASSUME NEW c \in Controllers PROVE Knows(c)'
    <3>1. PICK l : l = ctl[c]
      OBVIOUS
    <3>2. Holds(l) /\ ctl'[c] = l /\ Later(head, head')
      BY <1>5, <3>1, HeadRests DEF IInv, Knows, vars
    <3>3. Holds(l)'
      BY <1>5, <2>1, <3>2, Remembers DEF IInv, vars
    <3> QED
      BY <3>2, <3>3 DEF Knows
  <2> QED
    BY <2>1, <2>2, <2>3, <2>4 DEF IInv
<1> QED
  BY <1>1, <1>2, <1>3, <1>4, <1>5 DEF Next, Step

\* The invariant holds in every behaviour with one kind of fault.
THEOREM Inductive == EitherFaultSpec => []IInv
<1>1. EitherFaultInit => IInv
  BY InitEstablishes
<1>2. IInv /\ [Next]_vars => IInv'
  BY NextPreserves
<1> QED
  BY <1>1, <1>2, PTL DEF EitherFaultSpec

\* Whatever interleaves and whoever dies, the run can be loaded, and what it
\* left active be recovered (Resumable of RunDrive).
THEOREM AlwaysResumable == EitherFaultSpec => []Resumable
<1>1. IInv => Resumable
  BY DEF IInv, Kept
<1> QED
  BY <1>1, Inductive, PTL

\* "Both commits precede every physical effect": an attempt that began belongs
\* to the session its dispatch started under (EffectsOwned of RunDrive).
THEOREM CommitsPrecedeEffects == EitherFaultSpec => []EffectsOwned
<1>1. IInv => EffectsOwned
  BY DEF IInv, Kept
<1> QED
  BY <1>1, Inductive, PTL

\* Public artifact names and successful constructions have the evidence they
\* claim (ArtifactsBacked of RunDrive).
THEOREM ArtifactsAreProved == EitherFaultSpec => []ArtifactsBacked
<1>1. IInv => ArtifactsBacked
  BY DEF IInv, Kept
<1> QED
  BY <1>1, Inductive, PTL

\* Every step of the drive, however stale the copy it was computed from, is a
\* step of the dispatch ledger or leaves the head alone.
THEOREM DriveImplementsDispatch == EitherFaultSpec => ImplementsDispatch
<1>1. EitherFaultInit => Ledger!Init
  BY InitEstablishes
<1>2. IInv /\ [Next]_vars => [Ledger!Next]_(Ledger!vars)
  <2> SUFFICES ASSUME IInv, [Next]_vars
               PROVE  [Ledger!Next]_(Ledger!vars)
    OBVIOUS
  <2>1. head' = head \/ Ledger!Next
    BY NextPreserves
  <2>2. head' = head => UNCHANGED Ledger!vars
    BY DEF Ledger!vars
  <2> QED
    BY <2>1, <2>2
<1> QED
  BY <1>1, <1>2, Inductive, PTL DEF EitherFaultSpec, ImplementsDispatch, Ledger!Spec

-----------------------------------------------------------------------------
(***************************************************************************)
(* The command around the drive: the scope it was opened with covers       *)
(* whatever its drive comes to execute.  Units leave the set of what is    *)
(* due and never return to it (Due), and a command without a scope stays   *)
(* behind an operation that rests for good (Halted).                       *)
(***************************************************************************)

\* Stages a driver may still act in, and stages at which it never will.
Executable == {"admitted", "begun", "withheld"}
Halting == {"unresolved", "failed", "lost"}

\* Evidence is only added; what may be executed was never past that, and what
\* rests for good rests.
Onward ==
    /\ stored \subseteq stored'
    /\ \A p \in Places :
         /\ effects'[p] \in Executable => effects[p] \in Executable \cup {"absent"}
         /\ effects[p] \in Halting => effects'[p] = effects[p]

\* Every record of the head is still there after a step of the ledger.
LEMMA HeadMoves ==
    ASSUME HeadOK, HeadOK', head' = head \/ Ledger!Next
    PROVE  Later(head, head')
<1>1. CASE head' = head
  BY <1>1, HeadRests
<1>2. CASE Ledger!Next
  <2>1. ASSUME NEW i \in DOMAIN head
        PROVE  /\ i \in DOMAIN head'
               /\ Ledger!SameAuthority(head[i], head'[i]) /\ Ledger!Advances(head[i], head'[i])
    BY <1>2, Ledger!RecordsAdvance, LedgerProgram, LedgerResults, LedgerPolicy
       DEF HeadOK, Ledger!IInv
  <2>2. Len(head) <= Len(head')
    <3>1. Len(head) \in Nat /\ DOMAIN head = 1..Len(head)
      BY HeadFacts
    <3>2. Len(head') \in Nat /\ DOMAIN head' = 1..Len(head')
      BY HeadDomain
    <3>3. Len(head) # 0 => Len(head) \in DOMAIN head
      BY <3>1
    <3> QED
      BY <2>1, <3>1, <3>2, <3>3
  <2>3. ASSUME NEW i \in DOMAIN head
        PROVE  /\ head'[i].unit = head[i].unit
               /\ head[i].phase = "started" =>
                     /\ head'[i].phase \in {"started", "completed"}
                     /\ head'[i].session = head[i].session
               /\ head[i].phase = "completed" =>
                     /\ head'[i].phase = "completed"
                     /\ head'[i].session = head[i].session
                     /\ head'[i].terminal = head[i].terminal
    <3>1. head[i].phase \in {"started", "completed"} => head[i].session # None
      BY ProgramAssumption DEF HeadOK, Ledger!IInv, Ledger!TypeOK, Ledger!RecordShape
    <3>2. head[i].phase = "completed" => head[i].terminal # None
      BY DEF HeadOK, Ledger!IInv, Ledger!TypeOK, Ledger!RecordShape
    <3> QED
      BY <2>1, <3>1, <3>2 DEF Ledger!SameAuthority, Ledger!Advances, Ledger!Forward
  <2> QED
    BY <2>2, <2>3 DEF Later
<1> QED
  BY <1>1, <1>2

\* A step of one process moves the stores on.
LEMMA StepOnward ==
    ASSUME IInv, NEW c \in Controllers, Step(c)
    PROVE  Onward
<1>1. CASE stored \subseteq stored' /\ UNCHANGED effects
  BY <1>1 DEF Onward, Executable
<1>2. CASE AdmitEffect(c) \/ BeginEffect(c) \/ \E stage \in Stages : ConcludeEffect(c, stage)
  <2>1. PICK p : p = <<Own(c), ctl[c].session>>
    OBVIOUS
  <2>2. \/ UNCHANGED effects
        \/ \E stage : /\ effects' = [effects EXCEPT ![p] = stage]
                      /\ \/ stage = "admitted" /\ effects[p] \in {"absent", "admitted"}
                         \/ stage = "begun" /\ effects[p] = "admitted"
                         \/ stage \in Conclusions(effects[p])
    BY <1>2, <2>1 DEF AdmitEffect, BeginEffect, ConcludeEffect, SetStage, Stage
  <2>3. CASE UNCHANGED effects
    BY <1>1, <1>2, <2>3 DEF AdmitEffect, BeginEffect, ConcludeEffect, Evidence
  <2>4. ASSUME NEW stage, effects' = [effects EXCEPT ![p] = stage],
               \/ stage = "admitted" /\ effects[p] \in {"absent", "admitted"}
               \/ stage = "begun" /\ effects[p] = "admitted"
               \/ stage \in Conclusions(effects[p])
        PROVE  Onward
    <3>1. \A q \in Places : effects'[q] = IF q = p THEN stage ELSE effects[q]
      BY <2>4 DEF IInv, Shape
    <3>2. /\ stage \in Executable => effects[p] \in Executable \cup {"absent"}
          /\ effects[p] \in Halting => stage = effects[p]
      BY <2>4 DEF Conclusions, Executable, Halting
    <3>3. stored' = stored
      BY <1>2 DEF AdmitEffect, BeginEffect, ConcludeEffect, Evidence
    <3> QED
      BY <3>1, <3>2, <3>3 DEF Onward
  <2> QED
    BY <2>2, <2>3, <2>4
<1>3. ASSUME Load(c) \/ Reserve(c) \/ ReleaseReserved(c)
      PROVE  Onward
  BY <1>1, <1>3 DEF Load, Reserve, ReleaseReserved, Evidence
<1>4. ASSUME UnitStep(c) PROVE Onward
  <2>1. ASSUME NEW s \in Sessions, Admit(c, s) PROVE Onward
    BY <1>1, <2>1 DEF Admit, Evidence
  <2>2. CASE PublishAttempt(c) \/ PublishProof(c)
    BY <1>1, <2>2 DEF PublishAttempt, PublishProof, Publish
  <2>3. CASE StartUnit(c) \/ FinishUnit(c) \/ RecoverProof(c) \/ RecoverAttempt(c)
    BY <1>1, <2>3 DEF StartUnit, FinishUnit, RecoverProof, RecoverAttempt, Evidence
  <2>4. ASSUME NEW r \in AllResults, Execute(c, r) PROVE Onward
    BY <1>1, <2>4 DEF Execute, Evidence
  <2>5. CASE ProjectArtifact(c)
    BY <1>1, <2>5 DEF ProjectArtifact
  <2> QED
    BY <1>4, <2>1, <2>2, <2>3, <2>4, <2>5 DEF UnitStep
<1>5. ASSUME OperationStep(c) PROVE Onward
  <2>1. ASSUME NEW s \in Sessions, AcquireDrivers(c, s) PROVE Onward
    BY <1>1, <2>1 DEF AcquireDrivers, Evidence
  <2>2. CASE LeaseUnavailable(c) \/ StartOperation(c) \/ ResumeOperation(c)
    BY <1>1, <2>2 DEF LeaseUnavailable, StartOperation, ResumeOperation, Evidence
  <2>3. CASE SubmitTerminal(c) \/ SubmitObservation(c) \/ ExternalResolution(c)
    BY <1>1, <2>3 DEF SubmitTerminal, SubmitObservation, ExternalResolution, Evidence
  <2> QED
    BY <1>2, <1>5, <2>1, <2>2, <2>3 DEF OperationStep
<1> QED
  BY <1>3, <1>4, <1>5 DEF Step

UnitIn(run) == run[Selected(run)].unit

\* How the state of a process may change in its own step.
Moves(old, new) ==
    \/ new.pc = "idle"
    \/ old.pc = "idle" /\ new.pc = "loaded" /\ new.run = head /\ HasWork(head)
    \/ old.pc = "loaded" /\ ActiveRecords(old.run) = {} /\ new.run = head'
       /\ new.pc = "reserved" /\ InHandOf(new.run, "reserved")
    \/ old.pc \in Waiting /\ InHandOf(old.run, "reserved")
       /\ UnitIn(new.run) = UnitIn(old.run)
    \/ old.pc # "idle" /\ new.run = old.run /\ new.pc \notin Waiting \cup {"started"}

\* Starting leaves the unit in hand as it is.
LEMMA StartMoves ==
    ASSUME IInv, NEW c \in Controllers, NEW l \in LocalStates, l = ctl[c],
           l.pc \in {"attempted", "effect_admitted"}, NEW pc,
           LET next == Started(l.run, Own(c), l.session) IN
             Commit(c, next, /\ ctl' = [ctl EXCEPT ![c].pc = pc, ![c].run = next]
                             /\ UNCHANGED lease)
    PROVE  Moves(l, ctl'[c])
<1>1. PICK next : next = Started(l.run, Selected(l.run), l.session)
  OBVIOUS
<1>2. /\ ctl \in [Controllers -> LocalStates]
      /\ RunShape(l.run) /\ InHandOf(l.run, "reserved")
  BY Working DEF Holds, Waiting
<1>3. UnitIn(next) = UnitIn(l.run)
  BY <1>1, <1>2, StartedInHand DEF UnitIn
<1>4. \/ ctl' = [ctl EXCEPT ![c].pc = pc, ![c].run = next]
      \/ ctl' = [ctl EXCEPT ![c] = Nowhere]
  BY <1>1 DEF Commit, Dies, Leave, Own
<1>5. ctl'[c].run = next \/ ctl'[c].pc = "idle"
  BY <1>2, <1>4, NowhereRests DEF LocalStates
<1> QED
  BY <1>2, <1>3, <1>5 DEF Moves, Waiting

\* A step is one of these, or the recovery of a retained attempt.
LEMMA HandMoves ==
    ASSUME IInv, NEW c \in Controllers, Step(c)
    PROVE  /\ \A d \in Controllers \ {c} : ctl'[d] = ctl[d]
           /\ Moves(ctl[c], ctl'[c]) \/ RecoverAttempt(c)
<1>1. PICK l \in LocalStates : l = ctl[c]
  BY DEF IInv, Shape
<1>2. ctl \in [Controllers -> LocalStates] /\ Nowhere \in LocalStates /\ Nowhere.pc = "idle"
  BY NowhereRests DEF IInv, Shape
<1> DEFINE Good == /\ \A d \in Controllers \ {c} : ctl'[d] = ctl[d]
                   /\ Moves(l, ctl'[c]) \/ RecoverAttempt(c)
<1> SUFFICES Good
  BY <1>1
<1> HIDE DEF Good
<1>3. ASSUME Leave(c) PROVE Good
  <2>1. ctl' = [ctl EXCEPT ![c] = Nowhere]
    BY <1>3 DEF Leave
  <2>2. ctl'[c].pc = "idle"
    BY <1>2, <2>1
  <2> QED
    BY <1>1, <1>2, <2>1, <2>2 DEF Moves, Good
<1>4. l.pc \in Waiting => InHandOf(l.run, "reserved")
  BY <1>1, Working DEF Holds, Waiting
<1>5. CASE Load(c)
  <2>1. l.pc = "idle" /\ HasWork(head) /\ ctl' = [ctl EXCEPT ![c] = [Nowhere EXCEPT !.pc = "loaded", !.run = head]]
    BY <1>1, <1>5 DEF Load, At
  <2>2. ctl'[c].pc = "loaded" /\ ctl'[c].run = head
    BY <1>2, <2>1 DEF LocalStates
  <2> QED
    BY <1>1, <1>2, <2>1, <2>2 DEF Moves, Good
<1>6. CASE Reserve(c)
  <2>1. PICK next : next = Reserved(l.run)
    OBVIOUS
  <2>2. l.pc = "loaded" /\ ActiveRecords(l.run) = {} /\ RunShape(l.run)
    BY <1>1, <1>6, Working DEF Reserve, At
  <2>3. InHandOf(next, "reserved")
    BY <2>1, <2>2, ReservedInHand
  <2>4. \/ Leave(c)
        \/ head' = next /\ ctl' = [ctl EXCEPT ![c].pc = "reserved", ![c].run = next]
    BY <1>1, <1>6, <2>1 DEF Reserve, Commit, Dies
  <2>5. ASSUME head' = next, ctl' = [ctl EXCEPT ![c].pc = "reserved", ![c].run = next]
        PROVE  Good
    <3>1. ctl'[c].pc = "reserved" /\ ctl'[c].run = next
      BY <1>2, <2>5 DEF LocalStates
    <3> QED
      BY <1>1, <1>2, <2>2, <2>3, <2>5, <3>1 DEF Moves, Good
  <2> QED
    BY <1>3, <2>4, <2>5
<1>7. CASE ReleaseReserved(c)
  BY <1>3, <1>7 DEF ReleaseReserved, GiveBack, Commit, Dies
<1>8. CASE UnitStep(c)
  <2>1. ASSUME NEW s \in Sessions, Admit(c, s) PROVE Good
    <3>1. PICK k : k = [l EXCEPT !.pc = "admitted", !.session = s]
      OBVIOUS
    <3>2. l.pc = "reserved" /\ ctl' = [ctl EXCEPT ![c] = k] /\ k.run = l.run
      BY <1>1, <1>2, <2>1, <3>1 DEF Admit, At, LocalStates
    <3> QED
      BY <1>1, <1>2, <1>4, <3>2 DEF Moves, Good, Waiting
  <2>2. CASE PublishAttempt(c)
    <3>1. PICK k : k = [l EXCEPT !.pc = "attempted"]
      OBVIOUS
    <3>2. /\ l.pc = "admitted" /\ k.run = l.run /\ k.pc = "attempted" /\ (Leave(c) \/ ctl' = [ctl EXCEPT ![c] = k])
      BY <1>1, <1>2, <2>2, <3>1 DEF PublishAttempt, At, Publish, Goto, Dies, LocalStates
    <3> QED
      BY <1>1, <1>2, <1>3, <1>4, <3>2 DEF Moves, Good, Waiting
  <2>3. CASE StartUnit(c)
    <3>1. l.pc = "attempted"
      BY <1>1, <2>3 DEF StartUnit, At
    <3>2. Moves(l, ctl'[c])
      BY <1>1, <2>3, <3>1, StartMoves DEF StartUnit
    <3>3. \A d \in Controllers \ {c} : ctl'[d] = ctl[d]
      BY <1>2, <2>3 DEF StartUnit, Commit, Dies, Leave
    <3> QED
      BY <1>1, <3>2, <3>3 DEF Good
  <2>4. ASSUME NEW r \in AllResults, Execute(c, r) PROVE Good
    <3>1. PICK k : k = [l EXCEPT !.pc = "returned", !.result = r]
      OBVIOUS
    <3>2. l.pc # "idle" /\ ctl' = [ctl EXCEPT ![c] = k] /\ k.run = l.run /\ k.pc = "returned"
      BY <1>1, <1>2, <2>4, <3>1 DEF Execute, At, LocalStates
    <3> QED
      BY <1>1, <1>2, <3>2 DEF Moves, Good, Waiting
  <2>5. CASE PublishProof(c)
    <3>1. PICK k : k = [l EXCEPT !.pc = "proved"]
      OBVIOUS
    <3>2. /\ l.pc # "idle" /\ k.run = l.run /\ k.pc = "proved"
          /\ Leave(c) \/ ctl' = [ctl EXCEPT ![c] = k]
      BY <1>1, <1>2, <2>5, <3>1 DEF PublishProof, At, Publish, Goto, Dies, LocalStates
    <3> QED
      BY <1>1, <1>2, <1>3, <1>4, <3>2 DEF Moves, Good, Waiting
  <2>6. CASE ProjectArtifact(c)
    <3>1. PICK k : k = [l EXCEPT !.pc = "projected"]
      OBVIOUS
    <3>2. l.pc # "idle" /\ ctl' = [ctl EXCEPT ![c] = k] /\ k.run = l.run /\ k.pc = "projected"
      BY <1>1, <1>2, <2>6, <3>1 DEF ProjectArtifact, At, Goto, LocalStates
    <3> QED
      BY <1>1, <1>2, <3>2 DEF Moves, Good, Waiting
  <2>7. CASE FinishUnit(c)
    BY <1>3, <2>7 DEF FinishUnit, Commit, Dies
  <2>8. CASE RecoverProof(c)
    <3>1. PICK e : ctl' = [ctl EXCEPT ![c].pc = "proved", ![c].session = e.session, ![c].result = e.result]
      BY <2>8 DEF RecoverProof
    <3>2. PICK k : k = [l EXCEPT !.pc = "proved", !.session = e.session, !.result = e.result]
      OBVIOUS
    <3>3. l.pc # "idle" /\ ctl' = [ctl EXCEPT ![c] = k] /\ k.run = l.run /\ k.pc = "proved"
      BY <1>1, <1>2, <2>8, <3>1, <3>2 DEF RecoverProof, StartedUnit, At, LocalStates
    <3> QED
      BY <1>1, <1>2, <3>3 DEF Moves, Good, Waiting
  <2>9. CASE RecoverAttempt(c)
    BY <1>2, <2>9 DEF RecoverAttempt, Good
  <2> QED
    BY <1>8, <2>1, <2>2, <2>3, <2>4, <2>5, <2>6, <2>7, <2>8, <2>9 DEF UnitStep
<1>9. CASE OperationStep(c)
  <2>1. ASSUME NEW s \in Sessions, AcquireDrivers(c, s) PROVE Good
    <3>1. PICK k : k = [l EXCEPT !.pc = "leased", !.session = s]
      OBVIOUS
    <3>2. l.pc = "reserved" /\ ctl' = [ctl EXCEPT ![c] = k] /\ k.run = l.run
      BY <1>1, <1>2, <2>1, <3>1 DEF AcquireDrivers, At, LocalStates
    <3> QED
      BY <1>1, <1>2, <1>4, <3>2 DEF Moves, Good, Waiting
  <2>2. CASE LeaseUnavailable(c)
    BY <1>3, <2>2 DEF LeaseUnavailable, GiveBack, Commit, Dies
  <2>3. CASE AdmitEffect(c)
    <3>1. PICK k : k = [l EXCEPT !.pc = "effect_admitted"]
      OBVIOUS
    <3>2. /\ l.pc = "leased" /\ k.run = l.run
          /\ Leave(c) \/ ctl' = [ctl EXCEPT ![c] = k]
      BY <1>1, <1>2, <2>3, <3>1 DEF AdmitEffect, Goto, At, LocalStates
    <3> QED
      BY <1>1, <1>2, <1>3, <1>4, <3>2 DEF Moves, Good, Waiting
  <2>4. CASE StartOperation(c)
    <3>1. l.pc = "effect_admitted"
      BY <1>1, <2>4 DEF StartOperation, At
    <3>2. Moves(l, ctl'[c])
      BY <1>1, <2>4, <3>1, StartMoves DEF StartOperation
    <3>3. \A d \in Controllers \ {c} : ctl'[d] = ctl[d]
      BY <1>2, <2>4 DEF StartOperation, Commit, Dies, Leave
    <3> QED
      BY <1>1, <3>2, <3>3 DEF Good
  <2>5. CASE ResumeOperation(c)
    <3>1. PICK k : k = [l EXCEPT !.pc = "resuming", !.session = SessionOf(c)]
      OBVIOUS
    <3>2. /\ l.pc # "idle" /\ k.run = l.run /\ k.pc = "resuming"
          /\ Leave(c) \/ ctl' = [ctl EXCEPT ![c] = k]
      BY <1>1, <1>2, <2>5, <3>1 DEF ResumeOperation, StartedUnit, At, LocalStates
    <3> QED
      BY <1>1, <1>2, <1>3, <3>2 DEF Moves, Good, Waiting
  <2>6. CASE BeginEffect(c)
    <3>1. ctl' = [ctl EXCEPT ![c] = l] /\ l.pc \notin Waiting \cup {"started", "idle"}
      BY <1>1, <1>2, <2>6 DEF BeginEffect, Driving, At, Waiting
    <3> QED
      BY <1>1, <1>2, <3>1 DEF Moves, Good
  <2>7. ASSUME NEW stage \in Stages, ConcludeEffect(c, stage) PROVE Good
    <3>1. PICK k : k = [l EXCEPT !.pc = "concluded"]
      OBVIOUS
    <3>2. /\ l.pc # "idle" /\ k.run = l.run /\ k.pc = "concluded"
          /\ Leave(c) \/ ctl' = [ctl EXCEPT ![c] = k]
      BY <1>1, <1>2, <2>7, <3>1 DEF ConcludeEffect, Driving, At, Goto, LocalStates
    <3> QED
      BY <1>1, <1>2, <1>3, <3>2 DEF Moves, Good, Waiting
  <2>8. CASE SubmitTerminal(c) \/ SubmitObservation(c) \/ ExternalResolution(c)
    BY <1>3, <2>8 DEF SubmitTerminal, SubmitObservation, ExternalResolution, Commit, Dies
  <2> QED
    BY <1>9, <2>1, <2>2, <2>3, <2>4, <2>5, <2>6, <2>7, <2>8 DEF OperationStep
<1> QED
  BY <1>5, <1>6, <1>7, <1>8, <1>9 DEF Step

-----------------------------------------------------------------------------
\* What a started dispatch may still execute.
MayExecute(i) ==
    IF head[i].unit \in Operations THEN effects[<<i, head[i].session>>] \in Executable
    ELSE Proofs(i, head[i].session) = {}

Spent(i) ==
    \/ head[i].phase = "completed"
    \/ head[i].phase = "started" /\ ~MayExecute(i)

\* The units of which something may still be executed.
Due == {u \in Units : \A i \in DOMAIN head : head[i].unit = u => ~Spent(i)}

\* The scope of a command covers what is due and what it is about to start.
Ample(c) ==
    /\ KindsOfUnits(Due) \subseteq scope[c]
    /\ ctl[c].pc \in Waiting \cup {"started"} => KindsOf(UnitIn(ctl[c].run)) \subseteq scope[c]

\* An operation that rests for good, until its dispatch is completed as failed.
Halted(run) ==
    \E i \in DOMAIN run :
        /\ run[i].unit \in Operations /\ run[i].phase = "started"
        /\ effects[<<i, run[i].session>>] \in Halting

\* Nothing more is executed: whoever loads the head finds it halted.
Over == Halted(head) \/ Failed(EvidenceOf(head))

Blocked(c) == Over /\ (ctl[c].pc = "idle" \/ Halted(ctl[c].run))

Kinds == {"construction", "check", "lifecycle"}

CoverInv ==
    /\ IInv
    /\ scope \in [Controllers -> SUBSET Kinds]
    /\ \A c \in Controllers :
         /\ c \notin open => ctl[c].pc = "idle"
         /\ c \in open \ observed => Ample(c) \/ Blocked(c)

\* What is past execution stays so.
LEMMA DueShrinks ==
    ASSUME IInv, HeadOK', Later(head, head'), Onward
    PROVE  Due' \subseteq Due
<1>1. ASSUME NEW i \in DOMAIN head, Spent(i)
      PROVE  i \in DOMAIN head' /\ head'[i].unit = head[i].unit /\ Spent(i)'
  <2>1. i \in DOMAIN head' /\ head'[i].unit = head[i].unit
    BY HeadFacts, HeadDomain DEF IInv, Later
  <2>2. CASE head'[i].phase = "completed"
    BY <2>1, <2>2 DEF Spent
  <2>3. CASE head'[i].phase # "completed"
    <3>1. /\ head[i].phase = "started" /\ ~MayExecute(i)
          /\ head'[i].phase = "started" /\ head'[i].session = head[i].session
      BY <1>1, <2>3 DEF Later, Spent
    <3>2. CASE head[i].unit \in Operations
      <4>1. PICK p \in Places : p = <<i, head[i].session>>
        BY <3>1, CompletedPlace DEF IInv
      <4>2. effects[p] # "absent" /\ effects[p] \notin Executable
        BY <3>1, <3>2, <4>1 DEF IInv, Kept, Resumable, MayExecute
      <4>3. effects'[p] \notin Executable
        BY <4>2 DEF Onward
      <4> QED
        BY <2>1, <3>1, <3>2, <4>1, <4>3 DEF Spent, MayExecute
    <3>3. CASE head[i].unit \notin Operations
      BY <2>1, <3>1, <3>3 DEF Spent, MayExecute, Proofs, Onward
    <3> QED
      BY <3>2, <3>3
  <2> QED
    BY <2>1, <2>2, <2>3
<1> QED
  BY <1>1 DEF Due

\* Kinds of fewer units are fewer kinds.
LEMMA FewerKinds ==
    ASSUME NEW few, NEW many, few \subseteq many
    PROVE  KindsOfUnits(few) \subseteq KindsOfUnits(many)
  BY DEF KindsOfUnits

\* A failure is never taken back.
LEMMA FailedStays ==
    ASSUME HeadOK, HeadOK', Later(head, head'), Failed(EvidenceOf(head))
    PROVE  Failed(EvidenceOf(head'))
<1>1. PICK u \in Units : EvidenceOf(head)[u] # None /\ ~Succeeded(EvidenceOf(head)[u])
  BY DEF Failed, FailedNodes, FailedUnits, Evidenced
<1>2. PICK i \in CompletedRecords(head) : head[i].unit = u
  BY <1>1, EvidenceNot
<1>3. EvidenceOf(head)[u] = head[i].terminal
  BY <1>2, HeadFacts, EvidenceAt
<1>4. /\ i \in CompletedRecords(head') /\ head'[i].unit = u /\ head'[i].terminal = head[i].terminal
  BY <1>2, HeadFacts, HeadDomain DEF Later, CompletedRecords
<1>5. Unique(head')
  BY DEF HeadOK, Ledger!IInv, Ledger!UniqueExecution, Unique, CompletedRecords
<1>6. EvidenceOf(head')[u] = head[i].terminal
  BY <1>4, <1>5, EvidenceAt
<1>7. u \in FailedUnits(EvidenceOf(head'))
  BY <1>1, <1>3, <1>6 DEF FailedUnits, Evidenced
<1> QED
  BY <1>7 DEF Failed, FailedNodes

\* A halted operation halts the run until it has failed it.
LEMMA OverStays ==
    ASSUME IInv, IInv', Later(head, head'), Onward, Over
    PROVE  Over'
<1>1. HeadOK /\ HeadOK'
  BY DEF IInv
<1>2. CASE Failed(EvidenceOf(head))
  BY <1>1, <1>2, FailedStays DEF Over
<1>3. CASE Halted(head)
  <2>1. PICK i \in DOMAIN head : /\ head[i].unit \in Operations /\ head[i].phase = "started"
                                 /\ effects[<<i, head[i].session>>] \in Halting
    BY <1>3 DEF Halted
  <2>2. PICK s : s = head[i].session
    OBVIOUS
  <2>3. effects'[<<i, s>>] = effects[<<i, s>>]
    BY <1>1, <2>1, <2>2, CompletedPlace DEF Onward
  <2>4. /\ i \in DOMAIN head' /\ head'[i].unit = head[i].unit /\ head'[i].session = s
        /\ head'[i].phase \in {"started", "completed"}
    BY <1>1, <2>1, <2>2, HeadFacts, HeadDomain DEF Later
  <2>5. CASE head'[i].phase = "started"
    <3>1. Halted(head)'
      BY <2>1, <2>2, <2>3, <2>4, <2>5 DEF Halted
    <3> QED
      BY <3>1 DEF Over
  <2>6. CASE head'[i].phase = "completed"
    <3>1. i \in CompletedRecords(head')
      BY <2>4, <2>6 DEF CompletedRecords
    <3>2. effects'[<<i, s>>] = StageOf(head'[i].terminal.outcome)
      BY <2>1, <2>4, <3>1 DEF IInv, Kept, Resumable, Rehydrates
    <3>3. head'[i].terminal.outcome # "completed"
      BY <2>1, <2>2, <2>3, <3>2 DEF StageOf, Halting
    <3>4. PICK u \in Units : u = head'[i].unit
      BY <2>1, <2>4 DEF Units
    <3>5. Unique(head')
      BY <1>1 DEF HeadOK, Ledger!IInv, Ledger!UniqueExecution, Unique, CompletedRecords
    <3>6. EvidenceOf(head')[u] = head'[i].terminal
      BY <3>1, <3>4, <3>5, EvidenceAt
    <3>7. head'[i].terminal \in Results(u) /\ head'[i].terminal # None
      <4>1. head'[i].terminal # None
        BY <1>1, <2>4, <2>6 DEF HeadOK, Ledger!IInv, Ledger!TypeOK, Ledger!RecordShape
      <4>2. \A v \in Units : EvidenceOf(head')[v] # None => EvidenceOf(head')[v] \in Results(v)
        BY <1>1, SameProgram
           DEF HeadOK, Ledger!IInv, Ledger!TypeOK, Ledger!EvidenceType, Ledger!Evidenced
      <4> QED
        BY <3>6, <4>1, <4>2
    <3>8. ~Succeeded(head'[i].terminal)
      <4>1. head'[i].terminal \in OperationResults(u)
        BY <2>1, <2>4, <3>4, <3>7 DEF Results
      <4>2. head'[i].terminal.outcome # "succeeded"
        BY <4>1 DEF OperationResults
      <4> QED
        BY <3>3, <4>2 DEF Succeeded
    <3>9. u \in FailedUnits(EvidenceOf(head'))
      BY <3>6, <3>7, <3>8 DEF FailedUnits, Evidenced
    <3> QED
      BY <3>9 DEF Over, Failed, FailedNodes
  <2> QED
    BY <2>4, <2>5, <2>6
<1> QED
  BY <1>2, <1>3 DEF Over

-----------------------------------------------------------------------------
\* What another process does leaves a covered command covered.
LEMMA AmpleStays ==
    ASSUME NEW d \in Controllers, Ample(d), Due' \subseteq Due,
           scope'[d] = scope[d], ctl'[d] = ctl[d]
    PROVE  Ample(d)'
<1>1. KindsOfUnits(Due') \subseteq scope'[d]
  BY FewerKinds DEF Ample
<1> QED
  BY <1>1 DEF Ample

\* A process in hand of a halted operation stays so.
LEMMA HaltedStays ==
    ASSUME HeadOK, NEW run, RunShape(run), Later(run, head), Onward, Halted(run)
    PROVE  Halted(run)'
<1>1. PICK i \in DOMAIN run : /\ run[i].unit \in Operations /\ run[i].phase = "started"
                              /\ effects[<<i, run[i].session>>] \in Halting
  BY DEF Halted
<1>2. Len(run) \in Nat /\ DOMAIN run = 1..Len(run)
  BY DEF RunShape
<1>3. /\ i \in DOMAIN head /\ head[i].phase \in {"started", "completed"}
      /\ head[i].session = run[i].session
  BY <1>1, <1>2, HeadFacts DEF Later
<1>4. <<i, run[i].session>> \in Places
  BY <1>3, CompletedPlace
<1>5. effects'[<<i, run[i].session>>] = effects[<<i, run[i].session>>]
  BY <1>1, <1>4 DEF Onward
<1> QED
  BY <1>1, <1>5 DEF Halted

\* What another process does leaves a blocked command blocked.
LEMMA BlockedStays ==
    ASSUME IInv, IInv', Later(head, head'), Onward,
           NEW d \in Controllers, Blocked(d), ctl'[d] = ctl[d]
    PROVE  Blocked(d)'
<1>1. Over'
  BY OverStays DEF Blocked
<1>2. PICK l : l = ctl[d]
  OBVIOUS
<1>3. CASE l.pc = "idle"
  BY <1>1, <1>2, <1>3 DEF Blocked
<1>4. CASE l.pc # "idle"
  <2>1. HeadOK /\ RunShape(l.run) /\ Later(l.run, head)
    BY <1>2, <1>4, Working
  <2>2. Halted(l.run)'
    BY <1>2, <1>4, <2>1, HaltedStays DEF Blocked
  <2> QED
    BY <1>1, <1>2, <2>2 DEF Blocked
<1> QED
  BY <1>3, <1>4

\* The operation in hand is the halted one.
LEMMA HaltedInHand ==
    ASSUME NEW run, RunShape(run), Halted(run)
    PROVE  /\ InHandOf(run, "started") /\ UnitIn(run) \in Operations
           /\ effects[<<Selected(run), run[Selected(run)].session>>] \in Halting
<1>1. PICK i \in DOMAIN run : /\ run[i].unit \in Operations /\ run[i].phase = "started"
                              /\ effects[<<i, run[i].session>>] \in Halting
  BY DEF Halted
<1>2. i \in ActiveRecords(run) /\ i \in Nat
  BY <1>1 DEF ActiveRecords, RunShape
<1>3. Selected(run) = i
  BY <1>2, SelectedIs DEF RunShape
<1> QED
  BY <1>1, <1>2, <1>3 DEF InHandOf, UnitIn

\* A run that has work has not ended.
LEMMA WorkIsOpen ==
    ASSUME HeadOK, HasWork(head)
    PROVE  ~Complete(EvidenceOf(head)) /\ ~Failed(EvidenceOf(head))
<1>1. ~Failed(EvidenceOf(head))
  <2>1. CASE ActiveRecords(head) # {}
    BY <2>1 DEF HeadOK
  <2>2. CASE ~Run(head)!Stopped
    BY <2>2, CopyIsLedger, SameStatus DEF Ledger!Stopped
  <2> QED
    BY <2>1, <2>2 DEF HasWork
<1>2. PICK u \in Units : EvidenceOf(head)[u] = None
  <2>1. CASE ActiveRecords(head) # {}
    <3>1. PICK i \in ActiveRecords(head) : TRUE
      BY <2>1
    <3> QED
      BY <3>1, ActiveFacts, HeadFacts
  <2>2. CASE ReadyUnits(EvidenceOf(head)) # {}
    BY <2>2 DEF ReadyUnits, Idle
  <2> QED
    BY <2>1, <2>2 DEF HasWork
<1>3. u \in Nodes /\ u \in Members(u) /\ u \notin Retained
  BY ProgramAssumption DEF Nodes, Members
<1>4. ASSUME u \in SatisfiedNodes(EvidenceOf(head)) PROVE FALSE
  <2>1. Ledger!EvidenceType(EvidenceOf(head))
    BY DEF HeadOK, Ledger!IInv, Ledger!TypeOK
  <2>2. PICK v \in Units : /\ EvidenceOf(head)[v] # None
                           /\ u \in SatisfiedBy(v, EvidenceOf(head)[v])
    BY <1>3, <1>4 DEF SatisfiedNodes, Evidenced
  <2>3. EvidenceOf(head)[v] \in Ledger!Results(v)
    BY <2>1, <2>2, SameProgram DEF Ledger!EvidenceType, Ledger!Evidenced
  <2>4. u \in Members(v)
    <3>1. Ledger!SatisfiedBy(v, EvidenceOf(head)[v]) = SatisfiedBy(v, EvidenceOf(head)[v])
      BY SameProgram DEF Ledger!SatisfiedBy, SatisfiedBy, Ledger!Returned, Returned
    <3>2. Ledger!SatisfiedBy(v, EvidenceOf(head)[v]) \subseteq Ledger!Members(v)
      BY <2>2, <2>3, SameProgram, Ledger!SatisfiedByMembers, LedgerProgram, LedgerResults,
         LedgerPolicy
    <3> QED
      BY <2>2, <3>1, <3>2, SameProgram
  <2> QED
    BY <1>2, <1>3, <2>2, <2>4, ProgramAssumption
<1> QED
  BY <1>1, <1>3, <1>4 DEF Complete

\* A unit in flight is due until its dispatch is spent.
LEMMA ActiveIsDue ==
    HeadOK => \A i \in ActiveRecords(head) : ~Spent(i) => head[i].unit \in Due
<1> SUFFICES ASSUME HeadOK, NEW i \in ActiveRecords(head), ~Spent(i)
             PROVE  head[i].unit \in Due
  OBVIOUS
<1>1. /\ i \in DOMAIN head /\ head[i].unit \in Units /\ ActiveRecords(head) = {i}
      /\ \A k \in CompletedRecords(head) : head[k].unit # head[i].unit
  BY ActiveFacts, HeadFacts
<1>2. ASSUME NEW k \in DOMAIN head, head[k].unit = head[i].unit, Spent(k) PROVE FALSE
  <2>1. head[k].phase # "completed"
    BY <1>1, <1>2 DEF CompletedRecords
  <2>2. k \in ActiveRecords(head)
    BY <1>2, <2>1 DEF Spent, ActiveRecords
  <2> QED
    BY <1>1, <1>2, <2>2
<1> QED
  BY <1>1, <1>2 DEF Due

\* The same of the next state.
LEMMA NextIsDue ==
    ASSUME HeadOK', NEW i \in ActiveRecords(head'), ~Spent(i)'
    PROVE  head'[i].unit \in Due'
<1>1. i \in DOMAIN head' /\ i \in Nat /\ head'[i].unit \in Units
  <2>1. i \in DOMAIN head' /\ i \in Nat /\ head'[i] \in Ledger!Records
    BY HeadDomain DEF ActiveRecords
  <2> QED
    BY <2>1, SameProgram DEF Ledger!Records
<1>2. \A k \in ActiveRecords(head') : k = i
  BY DEF HeadOK, RunShape
<1>3. EvidenceOf(head')[head'[i].unit] = None
  BY DEF HeadOK, Ledger!IInv, Ledger!LedgerValid, Ledger!ActiveCurrent, Ledger!Active,
     ActiveRecords, Ledger!DispatchIsCurrent, Ledger!ReadyUnits, Ledger!Idle
<1>4. ASSUME NEW k \in CompletedRecords(head'), head'[k].unit = head'[i].unit PROVE FALSE
  <2>1. Unique(head')
    BY DEF HeadOK, Ledger!IInv, Ledger!UniqueExecution, Unique, CompletedRecords
  <2>2. EvidenceOf(head')[head'[k].unit] = head'[k].terminal
    BY <1>1, <1>4, <2>1, EvidenceAt
  <2>3. head'[k].terminal # None
    BY DEF CompletedRecords, HeadOK, Ledger!IInv, Ledger!TypeOK, Ledger!RecordShape
  <2> QED
    BY <1>3, <1>4, <2>2, <2>3
<1>5. ASSUME NEW k \in DOMAIN head', head'[k].unit = head'[i].unit, Spent(k)' PROVE FALSE
  <2>1. k \notin CompletedRecords(head')
    BY <1>4, <1>5
  <2>2. k \in ActiveRecords(head')
    BY <1>5, <2>1 DEF Spent, CompletedRecords, ActiveRecords
  <2> QED
    BY <1>2, <1>5, <2>2
<1> QED
  BY <1>1, <1>5 DEF Due

\* A started dispatch of the copy in hand is started in the head, if its effect
\* attempt is not sealed or it has no proof.
LEMMA UnspentInHand ==
    ASSUME IInv, NEW run, RunShape(run), Later(run, head), InHandOf(run, "started"),
           LET own == Selected(run) session == run[own].session IN
           IF UnitIn(run) \in Operations THEN effects[<<own, session>>] \in Executable
           ELSE Proofs(own, session) = {}
    PROVE  UnitIn(run) \in Due
<1>1. PICK i : i = Selected(run)
  OBVIOUS
<1>2. HeadOK
  BY DEF IInv
<1>3. /\ i \in DOMAIN head /\ head[i].phase \in {"started", "completed"}
      /\ head[i].session = run[i].session /\ head[i].unit = run[i].unit
  BY <1>1, <1>2, InHandInHead
<1>4. MayExecute(i)
  BY <1>1, <1>3 DEF MayExecute, UnitIn
<1>5. head[i].phase # "completed"
  <2> SUFFICES ASSUME i \in CompletedRecords(head) PROVE FALSE
    BY <1>3 DEF CompletedRecords
  <2>1. CASE head[i].unit \in Operations
    <3>1. effects[<<i, head[i].session>>] = StageOf(head[i].terminal.outcome)
      BY <2>1 DEF IInv, Kept, Resumable, Rehydrates
    <3> QED
      BY <1>4, <2>1, <3>1 DEF MayExecute, StageOf, Executable
  <2>2. CASE head[i].unit \notin Operations
    <3>1. Proof(i, head[i].session, head[i].terminal) \in stored
      BY <2>2 DEF IInv, Kept, Resumable, Rehydrates
    <3> QED
      BY <1>4, <2>2, <3>1 DEF MayExecute, Proofs, Proof
  <2> QED
    BY <2>1, <2>2
<1>6. i \in ActiveRecords(head) /\ ~Spent(i)
  BY <1>3, <1>4, <1>5 DEF ActiveRecords, Spent
<1> QED
  BY <1>1, <1>2, <1>3, <1>6, ActiveIsDue DEF UnitIn

\* The kinds of a unit that is due are covered.
LEMMA DueIsCovered ==
    ASSUME NEW c, Ample(c), NEW u \in Due
    PROVE  KindsOf(u) \subseteq scope[c]
  BY DEF Ample, KindsOfUnits

\* The step of a covered command leaves it covered.
LEMMA AmpleMoves ==
    ASSUME IInv, HeadOK', Later(head, head'), Onward,
           NEW c \in Controllers, Step(c), Ample(c), scope'[c] = scope[c]
    PROVE  Ample(c)'
<1>1. KindsOfUnits(Due') \subseteq scope'[c]
  BY DueShrinks, FewerKinds DEF Ample
<1>2. PICK l : l = ctl[c]
  OBVIOUS
<1>3. PICK k : k = ctl'[c]
  OBVIOUS
<1>4. ASSUME k.pc \in Waiting \cup {"started"}
      PROVE  KindsOf(UnitIn(k.run)) \subseteq scope'[c]
  <2>1. CASE l.pc \in Waiting /\ UnitIn(k.run) = UnitIn(l.run)
    BY <1>2, <2>1 DEF Ample
  <2>2. CASE k.run = head' /\ InHandOf(k.run, "reserved")
    <3>1. PICK i : i = Selected(k.run)
      OBVIOUS
    <3>2. i \in ActiveRecords(head') /\ head'[i].phase = "reserved"
      BY <2>2, <3>1 DEF InHandOf
    <3>3. ~Spent(i)'
      BY <3>2 DEF Spent
    <3>4. head'[i].unit \in Due'
      BY <3>2, <3>3, NextIsDue
    <3> QED
      BY <1>1, <2>2, <3>1, <3>4 DEF UnitIn, KindsOfUnits
  <2>3. CASE RecoverAttempt(c)
    <3>1. /\ StartedUnit(c) /\ Unit(c) \notin Operations
          /\ Proofs(Own(c), SessionOf(c)) = {}
      BY <2>3 DEF RecoverAttempt
    <3>2. l.pc # "idle" /\ InHandOf(l.run, "started")
      BY <1>2, <3>1, FoundStarted
    <3>3. /\ ctl \in [Controllers -> LocalStates]
          /\ RunShape(l.run) /\ Later(l.run, head)
      BY <1>2, <3>2, Working
    <3>4. UnitIn(l.run) \in Due
      BY <1>2, <3>1, <3>2, <3>3, UnspentInHand DEF UnitIn, Unit, Own, SessionOf
    <3>5. k.run = l.run
      BY <1>2, <1>3, <2>3, <3>3 DEF RecoverAttempt, LocalStates
    <3> QED
      BY <3>4, <3>5, DueIsCovered
  <2>4. Moves(l, k) \/ RecoverAttempt(c)
    BY <1>2, <1>3, HandMoves
  <2> QED
    BY <1>4, <2>1, <2>2, <2>3, <2>4 DEF Moves, Waiting
<1> QED
  BY <1>1, <1>3, <1>4 DEF Ample

\* A process that finds the run halted executes nothing of it.
LEMMA BlockedMoves ==
    ASSUME IInv, IInv', Later(head, head'), Onward,
           NEW c \in Controllers, Step(c), Blocked(c)
    PROVE  Blocked(c)'
<1>1. Over'
  BY OverStays DEF Blocked
<1>2. HeadOK
  BY DEF IInv
<1>3. PICK l : l = ctl[c]
  OBVIOUS
<1>4. PICK k : k = ctl'[c]
  OBVIOUS
<1>5. k.pc = "idle" \/ Halted(k.run)'
  <2>1. CASE l.pc = "idle" /\ k.run = head /\ HasWork(head)
    <3>1. PICK run : run = head
      OBVIOUS
    <3>2. Halted(run) /\ RunShape(run) /\ Later(run, head)
      BY <1>2, <2>1, <3>1, WorkIsOpen, LaterSelf DEF Blocked, Over, HeadOK
    <3>3. Halted(run)'
      BY <1>2, <3>2, HaltedStays
    <3> QED
      BY <2>1, <3>1, <3>3
  <2>2. ASSUME l.pc # "idle" PROVE Halted(l.run) /\ Halted(l.run)' /\ InHandOf(l.run, "started")
                                  /\ UnitIn(l.run) \in Operations
    <3>1. Halted(l.run)
      BY <1>3, <2>2 DEF Blocked
    <3>2. RunShape(l.run) /\ Later(l.run, head)
      BY <1>3, <2>2, Working
    <3>3. Halted(l.run)'
      BY <1>2, <3>1, <3>2, HaltedStays
    <3> QED
      BY <3>1, <3>2, <3>3, HaltedInHand
  <2>3. ~RecoverAttempt(c)
    BY <1>3, <2>2, FoundStarted DEF RecoverAttempt, UnitIn, Unit, Own
  <2>4. Moves(l, k)
    BY <1>3, <1>4, <2>3, HandMoves
  <2>5. CASE l.pc # "idle" /\ k.run = l.run
    BY <2>2, <2>5
  <2>6. l.pc = "loaded" => ActiveRecords(l.run) # {}
    BY <2>2 DEF InHandOf
  <2>7. l.pc \in Waiting => ~InHandOf(l.run, "reserved")
    BY <2>2 DEF InHandOf, Waiting
  <2> QED
    BY <2>1, <2>4, <2>5, <2>6, <2>7 DEF Moves
<1> QED
  BY <1>1, <1>4, <1>5 DEF Blocked

\* A scope is a set of the three kinds of execution.
LEMMA KindsAreKinds == \A units : KindsOfUnits(units) \subseteq Kinds
<1>1. \A u : KindsOf(u) \subseteq Kinds
  BY DEF KindsOf, Kinds
<1> QED
  BY <1>1 DEF KindsOfUnits

\* The scope a resume computes is one, too.
LEMMA ResumeScopeIsKinds == ResumeScope(head) \subseteq Kinds
<1>1. \A u : KindsOf(u) \subseteq Kinds
  BY DEF KindsOf, Kinds
<1>2. \A i \in StartedRecords(head) : ScopeOfStarted(head, i) \subseteq Kinds
  BY <1>1 DEF ScopeOfStarted
<1>3. RemainingScope(head) \subseteq Kinds
  BY <1>2, KindsAreKinds DEF RemainingScope
<1> QED
  BY <1>3 DEF ResumeScope

\* The remaining scope covers what is due.
LEMMA RemainingCovers ==
    ASSUME IInv
    PROVE  KindsOfUnits(Due) \subseteq RemainingScope(head)
<1> SUFFICES ASSUME NEW u \in Due PROVE KindsOf(u) \subseteq RemainingScope(head)
  BY DEF KindsOfUnits
<1> DEFINE owned == {head[i].unit : i \in StartedRecords(head) \cup CompletedRecords(head)}
<1>1. CASE u \notin owned
  <2>1. u \in Units \ owned
    BY <1>1 DEF Due
  <2>2. KindsOf(u) \subseteq KindsOfUnits(Units \ owned)
    BY <2>1 DEF KindsOfUnits
  <2> QED
    BY <2>2 DEF RemainingScope
<1>2. CASE u \in owned
  <2>1. PICK i \in StartedRecords(head) \cup CompletedRecords(head) : head[i].unit = u
    BY <1>2
  <2>2. i \in DOMAIN head /\ ~Spent(i)
    BY <2>1 DEF Due, StartedRecords, CompletedRecords
  <2>3. head[i].phase = "started" /\ MayExecute(i) /\ i \in StartedRecords(head)
    BY <2>1, <2>2 DEF Spent, StartedRecords, CompletedRecords
  <2>4. ScopeOfStarted(head, i) = KindsOf(u)
    <3>1. CASE u \in Operations
      BY <2>1, <2>3, <3>1 DEF ScopeOfStarted, MayExecute, Executable
    <3>2. CASE u \notin Operations
      <4>1. Attempt(i, head[i].session) \in stored
        BY <2>1, <2>2, <2>3, <3>2 DEF IInv, Kept, Resumable
      <4> QED
        BY <2>1, <2>3, <3>2, <4>1 DEF ScopeOfStarted, MayExecute
    <3> QED
      BY <3>1, <3>2
  <2> QED
    BY <2>3, <2>4 DEF RemainingScope
<1> QED
  BY <1>1, <1>2

\* A command that finds no observation covers what it resumes, or is blocked.
LEMMA ResumeCovers ==
    ASSUME IInv, scope \in [Controllers -> SUBSET Kinds],
           NEW c \in Controllers, Resume(c), ctl[c].pc = "idle", ~HasObservation(head)
    PROVE  Ample(c)' \/ Blocked(c)'
<1>1. UNCHANGED <<head, stored, effects, ctl>> /\ HasWork(head) /\ scope'[c] = ResumeScope(head)
  BY DEF Resume, vars
<1>2. ~Complete(EvidenceOf(head)) /\ ~Failed(EvidenceOf(head))
  BY <1>1, WorkIsOpen DEF IInv
<1>3. CASE \E i \in StartedRecords(head) : Blocks(head, i)
  <2>1. Halted(head)
    BY <1>3 DEF Blocks, HasObservation, StartedRecords, Halted, Halting
  <2>2. Blocked(c)
    BY <2>1 DEF Blocked, Over
  <2>3. Halted(head)' /\ ctl'[c].pc = "idle"
    BY <1>1, <2>1 DEF Halted
  <2> QED
    BY <2>3 DEF Blocked, Over
<1>4. CASE ~\E i \in StartedRecords(head) : Blocks(head, i)
  <2>1. scope'[c] = RemainingScope(head)
    BY <1>1, <1>2, <1>4 DEF ResumeScope
  <2>2. Due' = Due
    BY <1>1 DEF Due, Spent, MayExecute, Proofs
  <2>3. KindsOfUnits(Due') \subseteq scope'[c]
    BY <2>1, <2>2, RemainingCovers
  <2>4. ctl'[c].pc = "idle"
    BY <1>1
  <2> QED
    BY <2>3, <2>4 DEF Ample, Waiting
<1> QED
  BY <1>3, <1>4

\* A process that executes something is covered.
LEMMA Covered == CoverInv => ScopeCoversFresh
<1> SUFFICES ASSUME CoverInv, NEW c \in Controllers \ observed
             PROVE  Executing(c) \subseteq scope[c]
  BY DEF ScopeCoversFresh
<1>1. PICK l : l = ctl[c]
  OBVIOUS
<1>2. IInv /\ c \in Controllers
  BY DEF CoverInv
<1>3. CASE ~(At(c, "started") \/ (Driving(c) /\ Stage(c) \in {"admitted", "begun"}))
  BY <1>3 DEF Executing
<1>4. CASE At(c, "started") \/ (Driving(c) /\ Stage(c) \in {"admitted", "begun"})
  <2>1. l.pc \in {"started", "driving", "resuming"}
    BY <1>1, <1>4 DEF At, Driving
  <2>2. c \in open \ observed
    BY <1>1, <2>1 DEF CoverInv
  <2>3. Unit(c) = UnitIn(l.run)
    BY <1>1 DEF Unit, UnitIn, Own
  <2>4. Executing(c) = KindsOf(UnitIn(l.run))
    BY <1>4, <2>3 DEF Executing
  <2>5. RunShape(l.run) /\ Later(l.run, head) /\ Holds(l)
    BY <1>1, <1>2, <2>1, Working
  <2>6. CASE l.pc = "started"
    <3>1. UnitIn(l.run) \notin Operations
      BY <2>5, <2>6 DEF Holds, ForUnit, UnitIn
    <3>2. ~Blocked(c)
      <4>1. ASSUME Halted(l.run) PROVE FALSE
        BY <2>5, <3>1, <4>1, HaltedInHand
      <4> QED
        BY <1>1, <2>1, <4>1 DEF Blocked
    <3>3. Ample(c)
      BY <2>2, <3>2 DEF CoverInv
    <3> QED
      BY <1>1, <2>4, <2>6, <3>3 DEF Ample
  <2>7. CASE l.pc \in {"driving", "resuming"} /\ Stage(c) \in {"admitted", "begun"}
    <3>1. /\ InHandOf(l.run, "started") /\ UnitIn(l.run) \in Operations
          /\ l.run[Selected(l.run)].session = l.session
          /\ effects[<<Selected(l.run), l.session>>] \in {"admitted", "begun"}
      BY <1>1, <1>2, <2>7, DrivingFacts DEF UnitIn
    <3>2. ~Blocked(c)
      <4>1. ASSUME Halted(l.run) PROVE FALSE
        BY <2>5, <3>1, <4>1, HaltedInHand DEF Halting
      <4> QED
        BY <1>1, <2>1, <4>1 DEF Blocked
    <3>3. Ample(c)
      BY <2>2, <3>2 DEF CoverInv
    <3>4. UnitIn(l.run) \in Due
      BY <1>2, <2>5, <3>1, UnspentInHand DEF Executable
    <3> QED
      BY <2>4, <3>3, <3>4, DueIsCovered
  <2> QED
    BY <1>1, <1>4, <2>6, <2>7 DEF At, Driving
<1> QED
  BY <1>3, <1>4

\* What a step of a command does to the command of another process.
LEMMA OthersStay ==
    ASSUME IInv, IInv', Later(head, head'), Onward, NEW d \in Controllers,
           Ample(d) \/ Blocked(d), ctl'[d] = ctl[d], scope'[d] = scope[d]
    PROVE  Ample(d)' \/ Blocked(d)'
<1>1. HeadOK'
  BY DEF IInv
<1>2. Due' \subseteq Due
  BY <1>1, DueShrinks
<1> QED
  BY <1>2, AmpleStays, BlockedStays

\* The drive of an open command goes on under the scope it was opened with.
LEMMA AdvanceCovers ==
    ASSUME CoverInv, NEW c \in Controllers, Advance(c)
    PROVE  CoverInv'
<1>1. IInv /\ HeadOK /\ Step(c) /\ UNCHANGED <<scope, observed>>
  BY DEF CoverInv, IInv, Advance
<1>2. IInv' /\ (head' = head \/ Ledger!Next)
  BY <1>1, NextPreserves DEF Next
<1>3. HeadOK'
  BY <1>2 DEF IInv
<1>4. Later(head, head')
  BY <1>1, <1>2, <1>3, HeadMoves
<1>5. Onward
  BY <1>1, StepOnward
<1>6. \A d \in Controllers \ {c} : ctl'[d] = ctl[d]
  BY <1>1, HandMoves
<1>7. ASSUME NEW d \in Controllers
      PROVE  /\ d \notin open' => ctl'[d].pc = "idle"
             /\ d \in open' \ observed' => Ample(d)' \/ Blocked(d)'
  <2>1. CASE d = c
    <3>1. c \notin open' => ctl'[c].pc = "idle"
      BY DEF Advance, GoesOn
    <3>2. ASSUME c \in open' \ observed' PROVE Ample(c)' \/ Blocked(c)'
      <4>1. Ample(c) \/ Blocked(c)
        BY <1>1, <3>2 DEF CoverInv, Advance
      <4>2. ASSUME Ample(c) PROVE Ample(c)'
        BY <1>1, <1>3, <1>4, <1>5, <4>2, AmpleMoves
      <4>3. ASSUME Blocked(c) PROVE Blocked(c)'
        BY <1>1, <1>2, <1>4, <1>5, <4>3, BlockedMoves
      <4> QED
        BY <4>1, <4>2, <4>3
    <3> QED
      BY <2>1, <3>1, <3>2
  <2>2. CASE d # c
    <3>1. ctl'[d] = ctl[d] /\ (d \in open' <=> d \in open)
      BY <1>6, <2>2 DEF Advance
    <3>2. ASSUME d \in open' \ observed' PROVE Ample(d)' \/ Blocked(d)'
      <4>1. Ample(d) \/ Blocked(d)
        BY <1>1, <3>1, <3>2 DEF CoverInv
      <4> QED
        BY <1>1, <1>2, <1>4, <1>5, <3>1, <4>1, OthersStay
    <3> QED
      BY <3>1, <3>2 DEF CoverInv
  <2> QED
    BY <2>1, <2>2
<1> QED
  BY <1>1, <1>2, <1>7 DEF CoverInv

\* Every step of a command preserves the invariant.
LEMMA CoverStep == CoverInv /\ [CommandNext]_commandVars => CoverInv'
<1> SUFFICES ASSUME CoverInv, [CommandNext]_commandVars
             PROVE  CoverInv'
  OBVIOUS
<1>1. IInv
  BY DEF CoverInv
\* Where the stores stay as they are, so does every process but perhaps one.
<1>2. ASSUME UNCHANGED <<head, stored, effects>>, IInv', scope' \in [Controllers -> SUBSET Kinds],
             NEW d \in Controllers, d \in open \ observed,
             ctl'[d] = ctl[d], scope'[d] = scope[d]
      PROVE  Ample(d)' \/ Blocked(d)'
  <2>1. Later(head, head')
    BY <1>1, <1>2, HeadRests DEF IInv
  <2>2. Onward
    BY <1>2 DEF Onward, Executable
  <2>3. Ample(d) \/ Blocked(d)
    BY <1>2 DEF CoverInv
  <2> QED
    BY <1>1, <1>2, <2>1, <2>2, <2>3, OthersStay
<1>3. ASSUME NEW c \in Controllers, Resume(c) PROVE CoverInv'
  <2>1. IInv'
    BY <1>1, <1>3, NextPreserves DEF Resume
  <2>2. /\ UNCHANGED <<head, stored, effects, ctl>> /\ c \notin open /\ open' = open \cup {c}
        /\ scope' = [scope EXCEPT ![c] = ResumeScope(head)]
    BY <1>3 DEF Resume, vars
  <2>3. scope' \in [Controllers -> SUBSET Kinds]
    BY <2>2, ResumeScopeIsKinds DEF CoverInv
  <2>4. ASSUME NEW d \in Controllers
        PROVE  /\ d \notin open' => ctl'[d].pc = "idle"
               /\ d \in open' \ observed' => Ample(d)' \/ Blocked(d)'
    <3>1. d \notin open' => ctl'[d].pc = "idle"
      BY <2>2 DEF CoverInv
    <3>2. ASSUME d = c, d \notin observed' PROVE Ample(d)' \/ Blocked(d)'
      <4>1. ~HasObservation(head)
        BY <1>3, <3>2 DEF Resume
      <4>2. ctl[c].pc = "idle" /\ scope \in [Controllers -> SUBSET Kinds]
        BY <2>2 DEF CoverInv
      <4> QED
        BY <1>1, <1>3, <3>2, <4>1, <4>2, ResumeCovers
    <3>3. ASSUME d # c, d \in open' \ observed' PROVE Ample(d)' \/ Blocked(d)'
      <4>1. d \in open \ observed
        BY <1>3, <2>2, <3>3 DEF Resume
      <4>2. ctl'[d] = ctl[d] /\ scope'[d] = scope[d]
        BY <2>2, <3>3 DEF CoverInv
      <4> QED
        BY <1>2, <2>1, <2>2, <2>3, <4>1, <4>2
    <3> QED
      BY <3>1, <3>2, <3>3
  <2> QED
    BY <2>1, <2>3, <2>4 DEF CoverInv
<1>4. ASSUME NEW c \in Controllers, Advance(c) PROVE CoverInv'
  BY <1>4, AdvanceCovers
<1>5. ASSUME NEW c \in Controllers, Return(c) \/ CommandKill(c) PROVE CoverInv'
  <2>1. /\ UNCHANGED <<head, stored, effects, scope, observed>> /\ open' = open \ {c}
        /\ ctl'[c].pc = "idle" /\ \A d \in Controllers \ {c} : ctl'[d] = ctl[d]
    <3>1. CASE Return(c)
      BY <3>1 DEF Return, vars, At
    <3>2. CASE CommandKill(c)
      <4>1. ctl \in [Controllers -> LocalStates] /\ Nowhere.pc = "idle"
        BY <1>1, NowhereRests DEF IInv, Shape
      <4> QED
        BY <3>2, <4>1 DEF CommandKill, Kill, Dies, Leave, Journal, Evidence
    <3> QED
      BY <1>5, <3>1, <3>2
  <2>2. IInv'
    <3>1. CASE Return(c)
      BY <1>1, <3>1, NextPreserves DEF Return
    <3>2. CASE CommandKill(c)
      BY <1>1, <3>2, KillStep DEF CommandKill
    <3> QED
      BY <1>5, <3>1, <3>2
  <2>3. scope' \in [Controllers -> SUBSET Kinds]
    BY <2>1 DEF CoverInv
  <2>4. ASSUME NEW d \in Controllers
        PROVE  /\ d \notin open' => ctl'[d].pc = "idle"
               /\ d \in open' \ observed' => Ample(d)' \/ Blocked(d)'
    <3>1. d \notin open' => ctl'[d].pc = "idle"
      BY <2>1 DEF CoverInv
    <3>2. ASSUME d \in open' \ observed' PROVE Ample(d)' \/ Blocked(d)'
      <4>1. d \in open \ observed /\ d # c /\ ctl'[d] = ctl[d] /\ scope'[d] = scope[d]
        BY <2>1, <3>2
      <4> QED
        BY <1>2, <2>1, <2>2, <2>3, <4>1
    <3> QED
      BY <3>1, <3>2
  <2> QED
    BY <2>2, <2>3, <2>4 DEF CoverInv
<1>6. CASE CommandPowerLoss
  <2>1. IInv'
    BY <1>1, <1>6, PowerLossStep DEF CommandPowerLoss
  <2>2. open' = {} /\ scope' = scope /\ ctl' = [c \in Controllers |-> Nowhere]
    BY <1>6 DEF CommandPowerLoss, PowerLoss
  <2> QED
    BY <2>1, <2>2, NowhereRests DEF CoverInv
<1>7. CASE UNCHANGED commandVars
  <2>1. UNCHANGED <<head, stored, effects, ctl, open, scope, observed>> /\ UNCHANGED vars
    BY <1>7 DEF commandVars, vars
  <2>2. IInv'
    BY <1>1, <2>1, NextPreserves
  <2>3. scope' \in [Controllers -> SUBSET Kinds]
    BY <2>1 DEF CoverInv
  <2>4. ASSUME NEW d \in Controllers
        PROVE  /\ d \notin open' => ctl'[d].pc = "idle"
               /\ d \in open' \ observed' => Ample(d)' \/ Blocked(d)'
    <3>1. d \notin open' => ctl'[d].pc = "idle"
      BY <2>1 DEF CoverInv
    <3>2. d \in open' \ observed' => Ample(d)' \/ Blocked(d)'
      BY <1>2, <2>1, <2>2, <2>3
    <3> QED
      BY <3>1, <3>2
  <2> QED
    BY <2>2, <2>3, <2>4 DEF CoverInv
<1> QED
  BY <1>3, <1>4, <1>5, <1>6, <1>7 DEF CommandNext

\* The command that admitted the run examined every kind the program has.
LEMMA StarterCovers ==
    ASSUME MaxKills = 0 \/ MaxLosses = 0, CommandInit
    PROVE  CoverInv
<1>1. EitherFaultInit
  BY DEF CommandInit, Init, EitherFaultInit
<1>2. IInv
  BY <1>1, InitEstablishes
<1>3. PICK starter \in Controllers :
         /\ open = {starter}
         /\ scope = [c \in Controllers |-> IF c = starter THEN ProgramScope ELSE {}]
  BY DEF CommandInit
<1>4. scope \in [Controllers -> SUBSET Kinds]
  BY <1>3, KindsAreKinds DEF ProgramScope
<1>5. \A c \in Controllers : ctl[c].pc = "idle"
  BY NowhereRests DEF CommandInit, Init, JustAdmitted
<1>6. Ample(starter)
  <2>1. Due \subseteq Units
    BY DEF Due
  <2>2. KindsOfUnits(Due) \subseteq scope[starter]
    BY <1>3, <2>1, FewerKinds DEF ProgramScope
  <2> QED
    BY <1>5, <2>2 DEF Ample, Waiting
<1> QED
  BY <1>2, <1>3, <1>4, <1>5, <1>6 DEF CoverInv

\* Whatever a command comes to execute in its drive, it has examined the
\* backend for, unless it resumed at an observed operation: the scope computed
\* from one look at the stores stays enough while others write to them, are
\* killed, or all lose power.
THEOREM ScopeAlwaysCovers ==
    ASSUME MaxKills = 0 \/ MaxLosses = 0
    PROVE  CommandSpec => []ScopeCoversFresh
<1>1. CommandInit => CoverInv
  BY StarterCovers
<1> QED
  BY <1>1, CoverStep, Covered, PTL DEF CommandSpec

-----------------------------------------------------------------------------
(***************************************************************************)
(* The removal of the private directories of a completed run, for any      *)
(* number of cleaners and of dispatches.  What a run checks about a        *)
(* finished sweep says nothing of one under way: the invariant adds what   *)
(* each cleaner has settled so far, and that a run it may clean never      *)
(* changes its records again, so that the plan it once made stays right.   *)
(***************************************************************************)
Phases == {"reserved", "started", "completed", "failed", "released"}

Sweeping == {"scan", "remove", "prune"}

DispatchRecords == [unit : Cleanup!Units, phase : Phases]

SweepStates ==
    [pc : {"idle", "sweep", "finished"} \cup Sweeping,
     todo : SUBSET Cleanup!Private, failures : SUBSET Cleanup!Private]

\* The bound is a number, and everything is what it looks like.
CleanupTypes ==
    /\ ledger \in Seq(DispatchRecords) /\ Len(ledger) <= MaxDispatches
    /\ MaxDispatches \in Nat
    /\ dirs \in [Cleanup!Private -> {"absent", "empty", "filled"}]
    /\ cleaner \in [Cleaners -> SweepStates]

ActiveDispatches == Cleanup!InPhase("reserved") \cup Cleanup!InPhase("started")

\* One dispatch is reserved or started at a time, of a unit yet to complete.
OneAtATime ==
    \A d \in ActiveDispatches :
        /\ \A e \in ActiveDispatches : e = d
        /\ \A e \in Cleanup!InPhase("completed") : ledger[e].unit # ledger[d].unit

\* What is there has its journal directory; what replaced a leaf replaced an
\* emptied one.
DirectoriesBacked ==
    /\ \A x \in Cleanup!Private :
          Cleanup!Nested(x[1]) /\ dirs[x] # "absent" => x[1] \in journals
    /\ \A x \in blocked : x \in Cleanup!Private /\ dirs[x] = "empty"

\* A target needs no more of a sweep.
Gone(x) == x[2] \in late \/ (dirs[x] = "absent" /\ x \notin blocked)

\* What a cleaner knows: it works for a completed run, and every target is still
\* to do, a failure it keeps, or gone.
SweepOK(c) ==
    /\ ~Cleanup!At(c, "idle") => Cleanup!Eligible /\ cleaner[c].todo \subseteq Cleanup!Targets
    /\ ~Cleanup!At(c, "idle") =>
          \A x \in Cleanup!Targets : x \in cleaner[c].todo \cup cleaner[c].failures \/ Gone(x)
    /\ cleaner[c].pc \in Sweeping => cleaner[c].todo # {}
    /\ Cleanup!At(c, "prune") => Gone(Cleanup!Target(c))
    /\ Cleanup!At(c, "finished") => cleaner[c].todo = {}

CleanupInv ==
    CleanupTypes /\ OneAtATime /\ DirectoriesBacked /\ \A c \in Cleaners : SweepOK(c)

-----------------------------------------------------------------------------
\* Dispatches are numbered within the bound and are of units of the run.
LEMMA LedgerFacts ==
    ASSUME CleanupTypes
    PROVE  /\ DOMAIN ledger \subseteq Cleanup!Dispatches
           /\ \A d \in DOMAIN ledger :
                 ledger[d] \in DispatchRecords /\ ledger[d].unit \in Cleanup!Units
<1>1. DOMAIN ledger = 1..Len(ledger) /\ Len(ledger) \in Nat /\ Len(ledger) <= MaxDispatches
  BY DEF CleanupTypes
<1>2. \A d \in DOMAIN ledger : ledger[d] \in DispatchRecords
  BY DEF CleanupTypes
<1> QED
  BY <1>1, <1>2 DEF CleanupTypes, Cleanup!Dispatches, DispatchRecords

\* A phase changes, and nothing else of the ledger.
LEMMA PhaseTypes ==
    ASSUME CleanupTypes, NEW d \in DOMAIN ledger, NEW phase \in Phases,
           Cleanup!SetPhase(d, phase)
    PROVE  /\ ledger' \in Seq(DispatchRecords) /\ Len(ledger') <= MaxDispatches
           /\ DOMAIN ledger' = DOMAIN ledger
           /\ \A e \in DOMAIN ledger : ledger'[e].unit = ledger[e].unit
           /\ ledger'[d].phase = phase
           /\ \A e \in DOMAIN ledger : e # d => ledger'[e] = ledger[e]
<1>1. ledger[d] \in DispatchRecords
  BY LedgerFacts
<1>2. ledger' = [ledger EXCEPT ![d].phase = phase]
  BY DEF Cleanup!SetPhase
<1>3. ledger'[d] = [ledger[d] EXCEPT !.phase = phase]
  BY <1>2 DEF CleanupTypes
<1>4. /\ ledger'[d] \in DispatchRecords /\ ledger'[d].unit = ledger[d].unit
      /\ ledger'[d].phase = phase
  BY <1>1, <1>3 DEF DispatchRecords
<1>5. DOMAIN ledger' = DOMAIN ledger /\ \A e \in DOMAIN ledger : e # d => ledger'[e] = ledger[e]
  BY <1>2
<1>6. ledger' \in Seq(DispatchRecords) /\ Len(ledger') = Len(ledger)
  <2>1. ledger' = [ledger EXCEPT ![d] = ledger'[d]]
    BY <1>2, <1>3
  <2> QED
    BY <1>4, <2>1 DEF CleanupTypes
<1> QED
  BY <1>4, <1>5, <1>6 DEF CleanupTypes

\* The targets are leaves of completed dispatches.
LEMMA TargetsArePrivate ==
    ASSUME CleanupTypes
    PROVE  /\ Cleanup!Targets \subseteq Cleanup!Private
           /\ \A x \in Cleanup!Targets : x[2] \in Cleanup!InPhase("completed")
<1>1. \A d \in DOMAIN ledger : ledger[d].unit \in Cleanup!Units /\ d \in Cleanup!Dispatches
  BY LedgerFacts
<1>2. ASSUME NEW x \in Cleanup!Targets
      PROVE  x \in Cleanup!Private /\ x[2] \in Cleanup!InPhase("completed")
  <2>1. PICK d \in Cleanup!InPhase("completed") : x \in Cleanup!ClassesOf(ledger[d].unit) \X {d}
    BY DEF Cleanup!Targets
  <2>2. x = <<x[1], d>> /\ x[1] \in Cleanup!ClassesOf(ledger[d].unit) /\ x[2] = d
    BY <2>1
  <2>3. d \in Cleanup!Dispatches /\ x[1] \in Cleanup!Classes
    BY <1>1, <2>2 DEF Cleanup!InPhase, Cleanup!Classes
  <2> QED
    BY <2>1, <2>2, <2>3 DEF Cleanup!Private
<1> QED
  BY <1>2

\* A completed run has nothing reserved or started.
LEMMA NothingActive ==
    ASSUME CleanupTypes, OneAtATime, Cleanup!Eligible
    PROVE  ActiveDispatches = {}
<1> SUFFICES ASSUME NEW d \in ActiveDispatches PROVE FALSE
  OBVIOUS
<1>1. ledger[d].unit \in Cleanup!Units
  BY LedgerFacts DEF ActiveDispatches, Cleanup!InPhase
<1> QED
  BY <1>1 DEF Cleanup!Eligible, Cleanup!RunComplete, OneAtATime

\* So its records are final, and what is to be removed is settled.
LEMMA CompletedRests ==
    ASSUME CleanupTypes, OneAtATime, Cleanup!Eligible, Cleanup!Next
    PROVE  ledger' = ledger
<1>1. ActiveDispatches = {}
  BY NothingActive
<1>2. \A u \in Cleanup!Units : ~Cleanup!Reserve(u)
  BY DEF Cleanup!Reserve, Cleanup!Eligible, Cleanup!RunComplete
<1>3. \A d \in DOMAIN ledger : Cleanup!RunStep(d) => ledger' = ledger
  BY <1>1 DEF Cleanup!RunStep, Cleanup!RealizeInputs, Cleanup!ReleaseReserved,
     Cleanup!Execute, Cleanup!Stop, Cleanup!Retire, Cleanup!Write, ActiveDispatches
<1> QED
  BY <1>2, <1>3 DEF Cleanup!Next, Cleanup!Begin, Cleanup!CleanerStep, Cleanup!Kill,
     Cleanup!Open, Cleanup!Empty, Cleanup!RemoveDirectory, Cleanup!Prune,
     Cleanup!Finish, Cleanup!Substitute, Cleanup!Repair

-----------------------------------------------------------------------------
\* Each step keeps the types.
LEMMA TypesStep ==
    ASSUME CleanupInv, Cleanup!Next
    PROVE  CleanupTypes'
<1> USE DEF CleanupInv
<1>1. ASSUME NEW u \in Cleanup!Units, Cleanup!Reserve(u) PROVE CleanupTypes'
  <2>1. [unit |-> u, phase |-> "reserved"] \in DispatchRecords
    BY DEF DispatchRecords, Phases
  <2> QED
    BY <1>1, <2>1 DEF Cleanup!Reserve, CleanupTypes
<1>2. ASSUME NEW d \in DOMAIN ledger, Cleanup!RunStep(d) PROVE CleanupTypes'
  <2>1. CASE Cleanup!RealizeInputs(d)
    BY <2>1 DEF Cleanup!RealizeInputs, Cleanup!Fill, CleanupTypes
  <2>2. CASE \/ Cleanup!ReleaseReserved(d) \/ Cleanup!Execute(d)
             \/ \E phase \in {"completed", "failed"} : Cleanup!Retire(d, phase)
    <3>1. PICK phase \in Phases : Cleanup!SetPhase(d, phase)
      BY <2>2 DEF Cleanup!ReleaseReserved, Cleanup!Execute, Cleanup!Retire, Phases
    <3>2. dirs' = dirs /\ cleaner' = cleaner
      BY <2>2 DEF Cleanup!ReleaseReserved, Cleanup!Execute, Cleanup!Retire
    <3> QED
      BY <1>2, <3>1, <3>2, PhaseTypes DEF CleanupTypes
  <2>3. CASE \E class \in Cleanup!Classes : Cleanup!Write(<<class, d>>)
    BY <2>3 DEF Cleanup!Write, Cleanup!Fill, CleanupTypes
  <2>4. CASE Cleanup!Stop(d)
    BY <2>4 DEF Cleanup!Stop, CleanupTypes
  <2> QED
    BY <1>2, <2>1, <2>2, <2>3, <2>4 DEF Cleanup!RunStep
<1>3. ASSUME NEW c \in Cleaners,
             Cleanup!Begin(c) \/ Cleanup!CleanerStep(c) \/ Cleanup!Kill(c)
      PROVE  CleanupTypes'
  <2>1. Cleanup!Targets \subseteq Cleanup!Private
    BY TargetsArePrivate
  <2>2. cleaner[c].todo # {} => Cleanup!Target(c) \in cleaner[c].todo
    BY DEF Cleanup!Target
  <2>3. cleaner[c] \in SweepStates /\ cleaner \in [Cleaners -> SweepStates]
    BY DEF CleanupTypes
  <2>4. cleaner[c].pc \in Sweeping => Cleanup!Target(c) \in Cleanup!Private
    BY <1>3, <2>2, <2>3 DEF SweepOK, SweepStates
  <2>5. cleaner' \in [Cleaners -> SweepStates]
    <3>1. PICK r : cleaner' = [cleaner EXCEPT ![c] = r] /\ r \in SweepStates
      <4>1. CASE Cleanup!Begin(c) \/ Cleanup!Kill(c)
        <5>1. /\ Cleanup!Resting \in SweepStates
              /\ [Cleanup!Resting EXCEPT !.pc = "sweep", !.todo = Cleanup!Targets] \in SweepStates
          BY <2>1 DEF Cleanup!Resting, SweepStates
        <5> QED
          BY <4>1, <5>1 DEF Cleanup!Begin, Cleanup!Kill
      <4>2. ASSUME NEW pc \in {"idle", "sweep", "finished"} \cup Sweeping, Cleanup!Goto(c, pc)
            PROVE  \E r : cleaner' = [cleaner EXCEPT ![c] = r] /\ r \in SweepStates
        <5>1. [cleaner[c] EXCEPT !.pc = pc] \in SweepStates
          BY <2>3 DEF SweepStates
        <5> QED
          BY <4>2, <5>1 DEF Cleanup!Goto
      <4>3. ASSUME Cleanup!Cleaned(c)
            PROVE  \E r : cleaner' = [cleaner EXCEPT ![c] = r] /\ r \in SweepStates
        <5>1. [cleaner[c] EXCEPT !.pc = "sweep", !.todo = @ \ {Cleanup!Target(c)}] \in SweepStates
          BY <2>3 DEF SweepStates
        <5> QED
          BY <4>3, <5>1 DEF Cleanup!Cleaned
      <4>4. ASSUME Cleanup!Refused(c), Cleanup!Target(c) \in Cleanup!Private
            PROVE  \E r : cleaner' = [cleaner EXCEPT ![c] = r] /\ r \in SweepStates
        <5>1. [cleaner[c] EXCEPT !.pc = "sweep", !.todo = @ \ {Cleanup!Target(c)},
                                 !.failures = @ \cup {Cleanup!Target(c)}] \in SweepStates
          BY <2>3, <4>4 DEF SweepStates
        <5> QED
          BY <4>4, <5>1 DEF Cleanup!Refused
      <4>5. CASE Cleanup!Open(c)
        BY <2>2, <2>3, <4>2, <4>3, <4>4, <4>5 DEF Cleanup!Open, SweepStates, Sweeping
      <4>6. CASE Cleanup!Empty(c) \/ Cleanup!RemoveDirectory(c)
        BY <2>4, <4>2, <4>4, <4>6 DEF Cleanup!Empty, Cleanup!RemoveDirectory, Sweeping,
           Cleanup!At
      <4>7. CASE Cleanup!Prune(c) \/ Cleanup!Finish(c)
        BY <4>2, <4>3, <4>7 DEF Cleanup!Prune, Cleanup!Finish
      <4> QED
        BY <1>3, <4>1, <4>5, <4>6, <4>7 DEF Cleanup!CleanerStep
    <3> QED
      BY <2>3, <3>1
  <2>6. dirs' \in [Cleanup!Private -> {"absent", "empty", "filled"}]
    BY <1>3 DEF Cleanup!Begin, Cleanup!Kill, Cleanup!CleanerStep, Cleanup!Open,
       Cleanup!Empty, Cleanup!RemoveDirectory, Cleanup!Prune, Cleanup!Finish,
       CleanupTypes
  <2>7. ledger' = ledger
    BY <1>3 DEF Cleanup!Begin, Cleanup!Kill, Cleanup!CleanerStep, Cleanup!Open,
       Cleanup!Empty, Cleanup!RemoveDirectory, Cleanup!Prune, Cleanup!Finish
  <2> QED
    BY <2>5, <2>6, <2>7 DEF CleanupTypes
<1>4. ASSUME NEW x \in Cleanup!Private, Cleanup!Substitute(x) \/ Cleanup!Repair(x)
      PROVE  CleanupTypes'
  BY <1>4 DEF Cleanup!Substitute, Cleanup!Repair, CleanupTypes
<1> QED
  BY <1>1, <1>2, <1>3, <1>4 DEF Cleanup!Next

\* A unit is reserved when nothing is active, and not again once completed.
LEMMA SerialStep ==
    ASSUME CleanupInv, Cleanup!Next
    PROVE  OneAtATime'
<1> USE DEF CleanupInv
<1>1. ASSUME NEW u \in Cleanup!Units, Cleanup!Reserve(u) PROVE OneAtATime'
  <2> DEFINE n == Len(ledger) + 1
  <2>1. /\ DOMAIN ledger' = DOMAIN ledger \cup {n} /\ n \notin DOMAIN ledger
        /\ ledger'[n].unit = u /\ ledger'[n].phase = "reserved"
        /\ \A d \in DOMAIN ledger : ledger'[d] = ledger[d]
    BY <1>1 DEF Cleanup!Reserve, CleanupTypes
  <2>2. ActiveDispatches' = {n} /\ Cleanup!InPhase("completed")' = Cleanup!InPhase("completed")
    BY <1>1, <2>1 DEF Cleanup!Reserve, ActiveDispatches, Cleanup!InPhase
  <2>3. \A d \in Cleanup!InPhase("completed") : ledger'[d].unit # u
    BY <1>1, <2>1 DEF Cleanup!Reserve, Cleanup!InPhase
  <2> QED
    BY <2>1, <2>2, <2>3 DEF OneAtATime
<1>2. ASSUME NEW d \in ActiveDispatches, NEW phase \in Phases, Cleanup!SetPhase(d, phase)
      PROVE  OneAtATime'
  <2>1. d \in DOMAIN ledger
    BY <1>2 DEF ActiveDispatches, Cleanup!InPhase
  <2>2. /\ DOMAIN ledger' = DOMAIN ledger /\ ledger'[d].phase = phase
        /\ \A e \in DOMAIN ledger : ledger'[e].unit = ledger[e].unit
        /\ \A e \in DOMAIN ledger : e # d => ledger'[e] = ledger[e]
    BY <1>2, <2>1, PhaseTypes
  <2>3. ActiveDispatches' \subseteq {d}
    BY <1>2, <2>2 DEF ActiveDispatches, Cleanup!InPhase, OneAtATime
  <2>4. Cleanup!InPhase("completed")' \subseteq Cleanup!InPhase("completed") \cup {d}
    BY <2>2 DEF Cleanup!InPhase
  <2>5. ~(d \in ActiveDispatches' /\ d \in Cleanup!InPhase("completed")')
    BY DEF ActiveDispatches, Cleanup!InPhase
  <2> QED
    BY <1>2, <2>1, <2>2, <2>3, <2>4, <2>5 DEF OneAtATime, Cleanup!InPhase
<1>3. ASSUME NEW d \in DOMAIN ledger, Cleanup!RunStep(d), ledger' # ledger
      PROVE  d \in ActiveDispatches /\ \E phase \in Phases : Cleanup!SetPhase(d, phase)
  BY <1>3 DEF Cleanup!RunStep, Cleanup!RealizeInputs, Cleanup!ReleaseReserved,
     Cleanup!Execute, Cleanup!Stop, Cleanup!Retire, Cleanup!Write, ActiveDispatches,
     Phases
<1>4. ASSUME ledger' = ledger PROVE OneAtATime'
  BY <1>4 DEF OneAtATime, ActiveDispatches, Cleanup!InPhase
<1>5. ASSUME NEW c \in Cleaners,
             Cleanup!Begin(c) \/ Cleanup!CleanerStep(c) \/ Cleanup!Kill(c)
      PROVE  ledger' = ledger
  BY <1>5 DEF Cleanup!Begin, Cleanup!Kill, Cleanup!CleanerStep, Cleanup!Open,
     Cleanup!Empty, Cleanup!RemoveDirectory, Cleanup!Prune, Cleanup!Finish
<1>6. ASSUME NEW x \in Cleanup!Private, Cleanup!Substitute(x) \/ Cleanup!Repair(x)
      PROVE  ledger' = ledger
  BY <1>6 DEF Cleanup!Substitute, Cleanup!Repair
<1> QED
  BY <1>1, <1>2, <1>3, <1>4, <1>5, <1>6 DEF Cleanup!Next

\* A journal directory goes only when nothing is left in it.
LEMMA BackedStep ==
    ASSUME CleanupInv, Cleanup!Next
    PROVE  DirectoriesBacked'
<1> USE DEF CleanupInv, DirectoriesBacked
<1>1. dirs \in [Cleanup!Private -> {"absent", "empty", "filled"}]
  BY DEF CleanupTypes
<1>2. ASSUME NEW x, Cleanup!Fill(x), UNCHANGED blocked PROVE DirectoriesBacked'
  BY <1>1, <1>2 DEF Cleanup!Fill
<1>3. ASSUME UNCHANGED <<dirs, journals, blocked>> PROVE DirectoriesBacked'
  BY <1>3
<1>4. ASSUME NEW d \in DOMAIN ledger, Cleanup!RunStep(d) PROVE DirectoriesBacked'
  BY <1>2, <1>3, <1>4 DEF Cleanup!RunStep, Cleanup!RealizeInputs,
     Cleanup!ReleaseReserved, Cleanup!Execute, Cleanup!Stop, Cleanup!Retire,
     Cleanup!Write
<1>5. ASSUME NEW c \in Cleaners, Cleanup!CleanerStep(c) PROVE DirectoriesBacked'
  <2>1. CASE Cleanup!Open(c) \/ Cleanup!Finish(c)
    BY <1>3, <2>1 DEF Cleanup!Open, Cleanup!Finish
  <2>2. CASE Cleanup!Empty(c)
    BY <1>1, <2>2 DEF Cleanup!Empty
  <2>3. CASE Cleanup!RemoveDirectory(c)
    BY <1>1, <2>3 DEF Cleanup!RemoveDirectory
  <2>4. CASE Cleanup!Prune(c)
    <3> DEFINE class == Cleanup!Target(c)[1]
    <3>1. dirs' = dirs /\ blocked' = blocked
      BY <2>4 DEF Cleanup!Prune
    <3>2. ASSUME NEW x \in Cleanup!Private, Cleanup!Nested(x[1]), dirs[x] # "absent"
          PROVE  x[1] \in journals'
      <4>1. x[1] \in journals
        BY <3>2
      <4>2. x = <<x[1], x[2]>> /\ x[2] \in Cleanup!Dispatches
        BY DEF Cleanup!Private
      <4> QED
        BY <2>4, <3>2, <4>1, <4>2 DEF Cleanup!Prune
    <3> QED
      BY <3>1, <3>2
  <2> QED
    BY <1>5, <2>1, <2>2, <2>3, <2>4 DEF Cleanup!CleanerStep
<1>6. ASSUME NEW x \in Cleanup!Private, Cleanup!Substitute(x) \/ Cleanup!Repair(x)
      PROVE  DirectoriesBacked'
  BY <1>6 DEF Cleanup!Substitute, Cleanup!Repair
<1> QED
  BY <1>3, <1>4, <1>5, <1>6 DEF Cleanup!Next, Cleanup!Reserve, Cleanup!Begin,
     Cleanup!Kill

-----------------------------------------------------------------------------
\* What is gone stays gone, unless a process that lags behind writes it.
LEMMA GoneStays ==
    ASSUME CleanupInv, Cleanup!Next, Cleanup!Eligible, NEW x \in Cleanup!Private, Gone(x)
    PROVE  Gone(x)'
<1> USE DEF CleanupInv, Gone
<1>1. dirs \in [Cleanup!Private -> {"absent", "empty", "filled"}]
  BY DEF CleanupTypes
<1>2. ASSUME late \subseteq late', dirs'[x] = dirs[x], x \in blocked' => x \in blocked
      PROVE  Gone(x)'
  BY <1>2
<1>3. ASSUME NEW d \in DOMAIN ledger, Cleanup!RunStep(d) PROVE Gone(x)'
  <2>1. ~Cleanup!RealizeInputs(d)
    BY NothingActive DEF Cleanup!RealizeInputs, ActiveDispatches
  <2>2. ASSUME NEW class, Cleanup!Write(<<class, d>>) PROVE Gone(x)'
    <3>1. late' = late \cup {d} /\ blocked' = blocked
      BY <2>2 DEF Cleanup!Write, Cleanup!Eligible
    <3>2. x[2] = d \/ dirs'[x] = dirs[x]
      BY <1>1, <2>2 DEF Cleanup!Write, Cleanup!Fill
    <3> QED
      BY <3>1, <3>2
  <2> QED
    BY <1>2, <1>3, <2>1, <2>2 DEF Cleanup!RunStep, Cleanup!ReleaseReserved,
       Cleanup!Execute, Cleanup!Stop, Cleanup!Retire
<1>4. ASSUME NEW c \in Cleaners, Cleanup!CleanerStep(c) PROVE Gone(x)'
  BY <1>1, <1>4 DEF Cleanup!CleanerStep, Cleanup!Open, Cleanup!Empty,
     Cleanup!RemoveDirectory, Cleanup!Prune, Cleanup!Finish
<1>5. ASSUME NEW y \in Cleanup!Private, Cleanup!Substitute(y) \/ Cleanup!Repair(y)
      PROVE  Gone(x)'
  BY <1>5 DEF Cleanup!Substitute, Cleanup!Repair
<1> QED
  BY <1>2, <1>3, <1>4, <1>5 DEF Cleanup!Next, Cleanup!Reserve, Cleanup!Begin,
     Cleanup!Kill

\* A completed run and its targets stay as they are.
LEMMA TargetsStay ==
    ASSUME CleanupInv, Cleanup!Next, Cleanup!Eligible
    PROVE  Cleanup!Eligible' /\ Cleanup!Targets' = Cleanup!Targets
  BY CompletedRests DEF CleanupInv, Cleanup!Eligible, Cleanup!RunComplete,
     Cleanup!RunFailed, Cleanup!InPhase, Cleanup!Targets

\* A cleaner that does not move still knows what it knew.
LEMMA OthersKnow ==
    ASSUME CleanupInv, Cleanup!Next, NEW c \in Cleaners, cleaner'[c] = cleaner[c]
    PROVE  SweepOK(c)'
<1> USE DEF CleanupInv
<1>1. CASE Cleanup!At(c, "idle")
  BY <1>1 DEF SweepOK, Cleanup!At, Sweeping
<1>2. CASE ~Cleanup!At(c, "idle")
  <2>1. Cleanup!Eligible /\ SweepOK(c)
    BY <1>2 DEF SweepOK
  <2>2. /\ Cleanup!Eligible' /\ Cleanup!Targets' = Cleanup!Targets
        /\ Cleanup!Targets \subseteq Cleanup!Private
    BY <2>1, TargetsStay, TargetsArePrivate
  <2>3. \A x \in Cleanup!Targets : Gone(x) => Gone(x)'
    BY <2>1, <2>2, GoneStays
  <2>4. Cleanup!Target(c)' = Cleanup!Target(c)
    BY DEF Cleanup!Target
  <2>5. Cleanup!At(c, "prune") => Cleanup!Target(c) \in Cleanup!Targets
    BY <2>1 DEF SweepOK, Cleanup!Target, Cleanup!At, Sweeping
  <2> QED
    BY <2>1, <2>2, <2>3, <2>4, <2>5 DEF SweepOK, Cleanup!At
<1> QED
  BY <1>1, <1>2

\* A cleaner that moves is right in what it notes.
LEMMA MoverKnows ==
    ASSUME CleanupInv, Cleanup!Next, NEW c \in Cleaners,
           Cleanup!Begin(c) \/ Cleanup!CleanerStep(c) \/ Cleanup!Kill(c)
    PROVE  SweepOK(c)'
<1> USE DEF CleanupInv
<1> DEFINE x == Cleanup!Target(c)
           now == cleaner[c]
           then == cleaner'[c]
<1>1. SweepOK(c) /\ now \in SweepStates /\ cleaner \in [Cleaners -> SweepStates]
  BY DEF CleanupTypes
<1>2. CASE Cleanup!Kill(c)
  <2>1. then = Cleanup!Resting
    BY <1>1, <1>2 DEF Cleanup!Kill
  <2> QED
    BY <2>1 DEF SweepOK, Cleanup!At, Cleanup!Resting, Sweeping
<1>3. CASE Cleanup!Begin(c)
  <2>1. then.pc = "sweep" /\ then.todo = Cleanup!Targets /\ Cleanup!Eligible
    BY <1>1, <1>3 DEF Cleanup!Begin, Cleanup!Resting
  <2>2. Cleanup!Eligible' /\ Cleanup!Targets' = Cleanup!Targets
    BY <2>1, TargetsStay
  <2> QED
    BY <2>1, <2>2 DEF SweepOK, Cleanup!At, Sweeping
<1>4. CASE Cleanup!CleanerStep(c)
  <2>1. ~Cleanup!At(c, "idle") /\ Cleanup!Eligible
    BY <1>1, <1>4 DEF Cleanup!CleanerStep, Cleanup!Open, Cleanup!Empty,
       Cleanup!RemoveDirectory, Cleanup!Prune, Cleanup!Finish, Cleanup!At, SweepOK
  <2>2. /\ Cleanup!Eligible' /\ Cleanup!Targets' = Cleanup!Targets
        /\ Cleanup!Targets \subseteq Cleanup!Private
    BY <2>1, TargetsStay, TargetsArePrivate
  <2>3. \A y \in Cleanup!Targets : Gone(y) => Gone(y)'
    BY <2>1, <2>2, GoneStays
  <2>4. now.todo # {} => x \in now.todo /\ x \in Cleanup!Targets
    BY <1>1, <2>1 DEF SweepOK, Cleanup!Target
  <2>5. /\ now.todo \subseteq Cleanup!Targets
        /\ \A y \in Cleanup!Targets : y \in now.todo \cup now.failures \/ Gone(y)
    BY <1>1, <2>1 DEF SweepOK
  <2>6. ASSUME Cleanup!Refused(c), now.todo # {} PROVE SweepOK(c)'
    <3>1. then.pc = "sweep" /\ then.todo = now.todo \ {x} /\ then.failures = now.failures \cup {x}
      BY <1>1, <2>6 DEF Cleanup!Refused, SweepStates
    <3> QED
      BY <2>2, <2>3, <2>5, <3>1 DEF SweepOK, Cleanup!At, Sweeping
  <2>7. ASSUME Cleanup!Cleaned(c), now.todo # {}, Gone(x) PROVE SweepOK(c)'
    <3>1. then.pc = "sweep" /\ then.todo = now.todo \ {x} /\ then.failures = now.failures
      BY <1>1, <2>7 DEF Cleanup!Cleaned, SweepStates
    <3> QED
      BY <2>2, <2>3, <2>5, <2>7, <3>1 DEF SweepOK, Cleanup!At, Sweeping
  <2>8. ASSUME NEW pc \in Sweeping \ {"prune"}, Cleanup!Goto(c, pc), now.todo # {}
        PROVE  SweepOK(c)'
    <3>1. then.pc = pc /\ then.todo = now.todo /\ then.failures = now.failures
      BY <1>1, <2>8 DEF Cleanup!Goto, SweepStates
    <3> QED
      BY <2>2, <2>3, <2>5, <2>8, <3>1 DEF SweepOK, Cleanup!At, Sweeping
  <2>9. ASSUME Cleanup!Goto(c, "prune"), now.todo # {}, dirs'[x] = "absent", x \notin blocked'
        PROVE  SweepOK(c)'
    <3>1. then.pc = "prune" /\ then.todo = now.todo /\ then.failures = now.failures
      BY <1>1, <2>9 DEF Cleanup!Goto, SweepStates
    <3>2. Cleanup!Target(c)' = x
      BY <3>1 DEF Cleanup!Target
    <3> QED
      BY <2>2, <2>3, <2>5, <2>9, <3>1, <3>2 DEF SweepOK, Cleanup!At, Sweeping, Gone
  <2>10. CASE Cleanup!Open(c)
    <3>1. now.todo # {} /\ blocked' = blocked /\ dirs' = dirs /\ late' = late
      BY <2>10 DEF Cleanup!Open
    <3>2. CASE x \in blocked /\ Cleanup!Refused(c)
      BY <2>6, <3>1, <3>2
    <3>3. CASE x \notin blocked /\ Cleanup!Goto(c, IF dirs[x] = "absent" THEN "prune" ELSE "scan")
      <4>1. CASE dirs[x] = "absent"
        BY <2>9, <3>1, <3>3, <4>1
      <4>2. CASE dirs[x] # "absent"
        BY <2>8, <3>1, <3>3, <4>2 DEF Sweeping
      <4> QED
        BY <4>1, <4>2
    <3>4. CASE Cleanup!Nested(x[1]) /\ x[1] \notin journals /\ Cleanup!Cleaned(c)
      <4>1. Gone(x)
        BY <2>2, <2>4, <3>1, <3>4 DEF Gone, DirectoriesBacked
      <4> QED
        BY <2>7, <3>1, <3>4, <4>1
    <3> QED
      BY <2>10, <3>2, <3>3, <3>4 DEF Cleanup!Open
  <2>11. CASE Cleanup!Empty(c)
    <3>1. now.todo # {} /\ (Cleanup!Refused(c) \/ Cleanup!Goto(c, "remove"))
      BY <1>1, <2>11 DEF Cleanup!Empty, SweepOK, Cleanup!At, Sweeping
    <3> QED
      BY <2>6, <2>8, <3>1 DEF Sweeping
  <2>12. CASE Cleanup!RemoveDirectory(c)
    <3>1. now.todo # {}
      BY <1>1, <2>12 DEF Cleanup!RemoveDirectory, SweepOK, Cleanup!At, Sweeping
    <3>2. CASE Cleanup!Refused(c)
      BY <2>6, <3>1, <3>2
    <3>3. CASE x \notin blocked /\ dirs' = [dirs EXCEPT ![x] = "absent"] /\ Cleanup!Goto(c, "prune")
      <4>1. dirs'[x] = "absent" /\ x \notin blocked'
        BY <2>2, <2>4, <2>12, <3>1, <3>3 DEF CleanupTypes, Cleanup!RemoveDirectory
      <4> QED
        BY <2>9, <3>1, <3>3, <4>1
    <3> QED
      BY <2>12, <3>2, <3>3 DEF Cleanup!RemoveDirectory
  <2>13. CASE Cleanup!Prune(c)
    <3>1. now.todo # {} /\ Gone(x) /\ Cleanup!Cleaned(c)
      BY <1>1, <2>13 DEF Cleanup!Prune, SweepOK, Cleanup!At, Sweeping
    <3> QED
      BY <2>7, <3>1
  <2>14. CASE Cleanup!Finish(c)
    <3>1. /\ then.pc = "finished" /\ then.todo = now.todo /\ now.todo = {}
          /\ then.failures = now.failures
      BY <1>1, <2>14 DEF Cleanup!Finish, Cleanup!Goto, SweepStates
    <3> QED
      BY <2>2, <2>3, <2>5, <3>1 DEF SweepOK, Cleanup!At, Sweeping
  <2> QED
    BY <1>4, <2>10, <2>11, <2>12, <2>13, <2>14 DEF Cleanup!CleanerStep
<1> QED
  BY <1>2, <1>3, <1>4

\* So every cleaner is right in what it notes.
LEMMA SweepsStep ==
    ASSUME CleanupInv, Cleanup!Next, NEW c \in Cleaners
    PROVE  SweepOK(c)'
<1>1. ASSUME NEW e \in Cleaners, e # c,
             Cleanup!Begin(e) \/ Cleanup!CleanerStep(e) \/ Cleanup!Kill(e)
      PROVE  cleaner'[c] = cleaner[c]
  BY <1>1 DEF Cleanup!Begin, Cleanup!Kill, Cleanup!CleanerStep, Cleanup!Open,
     Cleanup!Empty, Cleanup!RemoveDirectory, Cleanup!Prune, Cleanup!Finish,
     Cleanup!Goto, Cleanup!Cleaned, Cleanup!Refused, CleanupInv, CleanupTypes
<1>2. ASSUME NEW d \in DOMAIN ledger, Cleanup!RunStep(d) PROVE cleaner' = cleaner
  BY <1>2 DEF Cleanup!RunStep, Cleanup!RealizeInputs, Cleanup!ReleaseReserved,
     Cleanup!Execute, Cleanup!Stop, Cleanup!Retire, Cleanup!Write
<1>3. cleaner'[c] = cleaner[c] \/ Cleanup!Begin(c) \/ Cleanup!CleanerStep(c) \/ Cleanup!Kill(c)
  BY <1>1, <1>2 DEF Cleanup!Next, Cleanup!Reserve, Cleanup!Substitute, Cleanup!Repair
<1> QED
  BY <1>3, OthersKnow, MoverKnows

-----------------------------------------------------------------------------
\* Nothing runs and nothing is there at the start.
LEMMA InitCleanup ==
    ASSUME Cleanup!Init, MaxDispatches \in Nat
    PROVE  CleanupInv
<1>1. ledger = <<>> /\ DOMAIN ledger = {} /\ Len(ledger) = 0
  BY DEF Cleanup!Init
<1>2. CleanupTypes
  BY <1>1 DEF Cleanup!Init, CleanupTypes, SweepStates, Cleanup!Resting
<1> QED
  BY <1>1, <1>2 DEF Cleanup!Init, CleanupInv, OneAtATime, ActiveDispatches,
     Cleanup!InPhase, DirectoriesBacked, SweepOK, Cleanup!At, Cleanup!Resting, Sweeping

\* Each step, and stuttering, preserves the invariant.
LEMMA CleanupStep ==
    ASSUME CleanupInv, [Cleanup!Next]_(Cleanup!vars)
    PROVE  CleanupInv'
<1>1. CASE Cleanup!Next
  BY <1>1, TypesStep, SerialStep, BackedStep, SweepsStep DEF CleanupInv
<1>2. CASE UNCHANGED Cleanup!vars
  BY <1>2 DEF Cleanup!vars, CleanupInv, CleanupTypes, OneAtATime, ActiveDispatches,
     Cleanup!InPhase, DirectoriesBacked, SweepOK, Cleanup!At, Gone, Cleanup!Target,
     Cleanup!Targets, Cleanup!Eligible, Cleanup!RunComplete, Cleanup!RunFailed
<1> QED
  BY <1>1, <1>2

\* The inductive invariant of the removal of private realizations, for any
\* number of cleaners, units, dispatches, kills and replaced leaves.
THEOREM CleanupInvariance ==
    ASSUME MaxDispatches \in Nat
    PROVE  Cleanup!Spec => []CleanupInv
BY InitCleanup, CleanupStep, PTL DEF Cleanup!Spec

\* A sweep that kept no failure left nothing of the plan behind, whichever of
\* several cleaners removed it.
THEOREM SweepIsComplete ==
    ASSUME MaxDispatches \in Nat
    PROVE  Cleanup!Spec => []Cleanup!CompleteIsClean
<1>1. CleanupInv => Cleanup!CompleteIsClean
  BY DEF CleanupInv, Cleanup!CompleteIsClean, SweepOK, Cleanup!At, Gone
<1> QED
  BY <1>1, CleanupInvariance, PTL

\* Nothing is removed but the leaves of completed dispatches of a run that
\* completed without failure.
THEOREM OthersAreRetained ==
    ASSUME MaxDispatches \in Nat
    PROVE  Cleanup!Spec => Cleanup!OnlyCompletedRemoved
<1> DEFINE Spared(x) ==
         /\ dirs[x] # "absent" /\ dirs'[x] # dirs[x] /\ dirs'[x] # "filled" =>
              Cleanup!Eligible /\ x[2] \in Cleanup!InPhase("completed")
         /\ Cleanup!Nested(x[1]) /\ dirs'[x] # "absent" => x[1] \in journals'
<1>1. ASSUME CleanupInv, DirectoriesBacked', Cleanup!Next, NEW x \in Cleanup!Private
      PROVE  Spared(x)
  <2> USE DEF CleanupInv
  <2>1. dirs \in [Cleanup!Private -> {"absent", "empty", "filled"}]
    BY <1>1 DEF CleanupTypes
  <2>2. ASSUME NEW c \in Cleaners, Cleanup!At(c, "scan") \/ Cleanup!At(c, "remove")
        PROVE  Cleanup!Eligible /\ Cleanup!Target(c) \in Cleanup!Targets
    BY <1>1, <2>2 DEF SweepOK, Cleanup!At, Sweeping, Cleanup!Target
  <2>3. ASSUME NEW c \in Cleaners, Cleanup!CleanerStep(c), dirs'[x] # dirs[x]
        PROVE  Cleanup!Eligible /\ x[2] \in Cleanup!InPhase("completed")
    <3>1. (Cleanup!Empty(c) \/ Cleanup!RemoveDirectory(c)) /\ x = Cleanup!Target(c)
      BY <2>1, <2>3 DEF Cleanup!CleanerStep, Cleanup!Open, Cleanup!Empty,
         Cleanup!RemoveDirectory, Cleanup!Prune, Cleanup!Finish
    <3>2. Cleanup!At(c, "scan") \/ Cleanup!At(c, "remove")
      BY <3>1 DEF Cleanup!Empty, Cleanup!RemoveDirectory
    <3> QED
      BY <1>1, <2>2, <3>1, <3>2, TargetsArePrivate
  <2>4. ASSUME NEW d \in DOMAIN ledger, Cleanup!RunStep(d), dirs'[x] # dirs[x]
        PROVE  dirs'[x] = "filled"
    BY <2>1, <2>4 DEF Cleanup!RunStep, Cleanup!RealizeInputs, Cleanup!ReleaseReserved,
       Cleanup!Execute, Cleanup!Stop, Cleanup!Retire, Cleanup!Write, Cleanup!Fill
  <2>5. dirs[x] # "absent" /\ dirs'[x] # dirs[x] /\ dirs'[x] # "filled" =>
              Cleanup!Eligible /\ x[2] \in Cleanup!InPhase("completed")
    BY <1>1, <2>3, <2>4 DEF Cleanup!Next, Cleanup!Reserve, Cleanup!Begin, Cleanup!Kill,
       Cleanup!Substitute, Cleanup!Repair
  <2> QED
    BY <1>1, <2>5 DEF DirectoriesBacked
<1>2. CleanupInv /\ CleanupInv' /\ [Cleanup!Next]_(Cleanup!vars)
          => [\A x \in Cleanup!Private : Spared(x)]_(Cleanup!vars)
  BY <1>1 DEF CleanupInv
<1> QED
  BY <1>2, CleanupInvariance, PTL DEF Cleanup!Spec, Cleanup!OnlyCompletedRemoved

-----------------------------------------------------------------------------
(* The removal in the command as a whole.                                   *)

\* The removal of private realizations does its own steps, or rests.
LEMMA CleanupRuns == PartSpec => Cleanup!Spec
<1>1. PartInit => Cleanup!Init
  BY DEF PartInit
<1>2. [PartNext]_sumVars => [Cleanup!Next]_(Cleanup!vars)
  BY DEF PartNext, sumVars, cleanupVars, Cleanup!vars
<1> QED
  BY <1>1, <1>2, PTL DEF PartSpec, Cleanup!Spec

\* A sweep without failures left no leaf of its plan behind.
THEOREM CompleteLeavesNothing == PartSpec => []CompleteIsClean
<1>1. Cleanup!Spec => []Cleanup!CompleteIsClean
  BY SweepIsComplete, CommandAssumption
<1> QED
  BY <1>1, CleanupRuns, PTL DEF CompleteIsClean

\* Incomplete and failed runs keep their realizations, and so do dispatches that
\* were released.
THEOREM RemovesOnlyCompleted == PartSpec => OnlyCompletedRemoved
<1>1. Cleanup!Spec => Cleanup!OnlyCompletedRemoved
  BY OthersAreRetained, CommandAssumption
<1> QED
  BY <1>1, CleanupRuns, PTL DEF OnlyCompletedRemoved

=============================================================================
