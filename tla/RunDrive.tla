------------------------------ MODULE RunDrive ------------------------------
(***************************************************************************)
(* A durable transaction run driven by several processes, one advancement  *)
(* at a time (src/run_advance.cpp, src/run_drive.cpp): load the head of    *)
(* the run journal, reconcile the dispatch it left active, or else reserve *)
(* one ready unit and execute it.                                          *)
(*                                                                         *)
(* Nothing but the stores connects the processes.  There is no lock on the *)
(* run: an append is accepted when it follows the head the controller      *)
(* loaded, or is that very successor already.  Three stores are written at *)
(* different moments, the run journal, the evidence store and the effect   *)
(* journals, and a process may be killed between any two writes or inside  *)
(* one, after the new name is visible and before it is synchronized.       *)
(*                                                                         *)
(* The ledger of Dispatch is here a value that is copied, extended and     *)
(* appended; its evidence and its epoch are what rehydration derives from  *)
(* it.  One effect attempt is reduced to what OperationContract leaves to  *)
(* tell apart.                                                             *)
(***************************************************************************)
EXTENDS Progression

CONSTANTS
    Controllers,  \* processes that start or resume the run
    Rank,         \* [Units -> Nat]: the order of the primary identities
    Nobody,       \* no controller holds the target lease
    MaxRecords,   \* bound: dispatches reserved
    MaxKills,     \* bound: kills and errors of controllers
    MaxLosses     \* bound: power losses

ASSUME DriveAssumption ==
    /\ Rank \in [Units -> Nat]
    /\ \A u, v \in Units : Rank[u] = Rank[v] => u = v
    /\ Nobody \notin Controllers
    /\ MaxRecords \in Nat /\ MaxKills \in Nat /\ MaxLosses \in Nat

VARIABLES
    head,       \* the run the visible journal head holds: a ledger
    heads,      \* the heads a power loss may leave
    stored,     \* evidence store: attempts and results that can be loaded
    loose,      \* those among them whose directory entry is not synchronized
    artifacts,  \* dispatches whose artifact has its public name
    effects,    \* [dispatch, session] -> stage of its effect attempt
    lease,      \* holder of the target-mutation lease
    ctl,        \* [Controllers -> local state]
    kills, losses

vars == <<head, heads, stored, loose, artifacts, effects, lease, ctl, kills, losses>>

(***************************************************************************)
(* A run as its ledger.                                                    *)
(***************************************************************************)
CompletedRecords(run) == {i \in DOMAIN run : run[i].phase = "completed"}

EvidenceOf(run) ==
    [u \in Units |->
        IF \E i \in CompletedRecords(run) : run[i].unit = u
        THEN run[CHOOSE i \in CompletedRecords(run) : run[i].unit = u].terminal
        ELSE None]

EpochOf(run) ==
    {run[i].unit : i \in {k \in CompletedRecords(run) :
                            run[k].unit \in Operations /\ Succeeded(run[k].terminal)}}

NoInputs   == [c \in Constructions |-> {}]
NoRewrites == [o \in Operations |-> {}]

Run(run) == INSTANCE Dispatch WITH
    ledger <- run, evidence <- EvidenceOf(run), epoch <- EpochOf(run),
    Nonces <- 1..MaxRecords, ConstructionCapacity <- 1, CheckCapacity <- 1,
    RetainedInputs <- NoInputs, Rewrites <- NoRewrites, MaxReleases <- MaxRecords

ActiveRecords(run) == {i \in DOMAIN run : run[i].phase \in {"reserved", "started"}}

\* The dispatch an advancement works on: it reconciles the first active one.
Selected(run) == CHOOSE i \in ActiveRecords(run) : \A k \in ActiveRecords(run) : i <= k

\* The nonce is derived from the head, so equal heads reserve equal dispatches.
Reserved(run) ==
    LET u == CHOOSE v \in Run(run)!Eligible : \A w \in Run(run)!Eligible : Rank[v] <= Rank[w]
    IN  Append(run, Run(run)!Reservation(u, Len(run) + 1))

Released(run, i)  == [run EXCEPT ![i].phase = "released"]
Started(run, i, session) ==
    [run EXCEPT ![i].phase = "started", ![i].session = session]
Completed(run, i, result) == [run EXCEPT ![i].phase = "completed", ![i].terminal = result]
Observed(run, i, result) == [run EXCEPT ![i].observations = @ \cup {result.outcome}]

-----------------------------------------------------------------------------
Nowhere == [pc |-> "idle", run |-> <<>>, session |-> None, result |-> None]

\* unresolved     the journal ends where only others can tell what happened
\* withheld       the application is open, and only its owner can resolve it
\* indeterminate  the publication may have happened, which the state will tell
Stages == {"absent", "admitted", "begun", "unresolved", "withheld", "indeterminate",
           "completed", "failed", "lost"}
Sealed == {"completed", "failed", "lost"}
Uncertain == {"unresolved", "indeterminate", "lost"}

JustAdmitted ==
    /\ head = <<>> /\ heads = {<<>>}
    /\ stored = {} /\ loose = {} /\ artifacts = {}
    /\ effects = [p \in (1..MaxRecords) \X Sessions |-> "absent"]
    /\ lease = Nobody
    /\ ctl = [c \in Controllers |-> Nowhere]

Init == JustAdmitted /\ kills = 0 /\ losses = 0

At(c, pc) == ctl[c].pc = pc

\* The dispatch in hand, its unit and the attempt session bound to it.
Own(c)  == Selected(ctl[c].run)
Unit(c) == ctl[c].run[Own(c)].unit

Goto(c, pc) == ctl' = [ctl EXCEPT ![c].pc = pc]

FreeLease(c) == lease' = IF lease = c THEN Nobody ELSE lease

\* An advancement ends, by returning or by throwing, and drops its drivers.
Leave(c) == ctl' = [ctl EXCEPT ![c] = Nowhere] /\ FreeLease(c)

Dies(c) == kills < MaxKills /\ kills' = kills + 1 /\ Leave(c)

Evidence == <<stored, loose, artifacts>>
Journal  == <<head, heads>>

\* A slip in Commit.
CommitBlindly(c, next, Then) ==
    /\ head' = next /\ heads' = {next} /\ Then /\ UNCHANGED kills

(***************************************************************************)
(* commit_transaction_run_successor.  Then says what follows a synchronous *)
(* append; the alternatives are a kill before the last synchronization and *)
(* a head that has moved elsewhere.                                        *)
(***************************************************************************)
Commit(c, next, Then) ==
    \/ /\ head \in {ctl[c].run, next}
       /\ head' = next /\ heads' = {next}
       /\ Then
       /\ UNCHANGED kills
    \/ /\ head \in {ctl[c].run, next}
       /\ head' = next /\ heads' = heads \cup {next}
       /\ Dies(c)
    \/ /\ head \notin {ctl[c].run, next}
       /\ Leave(c)
       /\ UNCHANGED <<Journal, kills>>

(***************************************************************************)
(* publish of the evidence store, under its lock: an equal record is       *)
(* returned as it is found, another one under the same key is a conflict.  *)
(***************************************************************************)
SameKey(item) ==
    {e \in stored : e.kind = item.kind /\ e.dispatch = item.dispatch /\ e.session = item.session}

Publish(c, item, pc) ==
    \/ /\ item \in stored
       /\ Goto(c, pc)
       /\ UNCHANGED <<stored, loose, lease, kills>>
    \/ /\ SameKey(item) = {}
       /\ stored' = stored \cup {item} /\ loose' = {}
       /\ Goto(c, pc)
       /\ UNCHANGED <<lease, kills>>
    \/ /\ SameKey(item) = {}
       /\ stored' = stored \cup {item} /\ loose' = loose \cup {item}
       /\ Dies(c)
    \/ /\ SameKey(item) \ {item} # {}
       /\ Leave(c)
       /\ UNCHANGED <<stored, loose, kills>>

Attempt(i, session) == [kind |-> "attempt", dispatch |-> i, session |-> session, result |-> None]
Proof(i, session, result) ==
    [kind |-> "result", dispatch |-> i, session |-> session, result |-> result]

Proofs(i, session) == {e \in stored : e.kind = "result" /\ e.dispatch = i /\ e.session = session}

-----------------------------------------------------------------------------
(***************************************************************************)
(* Loading the head replays every completed dispatch from its evidence; a  *)
(* piece that is missing or different makes the load throw.                *)
(***************************************************************************)
StageOf(outcome) ==
    CASE outcome = "completed"         -> "completed"
      [] outcome = "outer_lease_lost"  -> "lost"
      [] OTHER                         -> "failed"

Rehydrates(run) ==
    \A i \in CompletedRecords(run) :
        IF run[i].unit \in Operations
        THEN effects[<<i, run[i].session>>] = StageOf(run[i].terminal.outcome)
        ELSE Proof(i, run[i].session, run[i].terminal) \in stored

HasWork(run) ==
    \/ ActiveRecords(run) # {}
    \/ ~Run(run)!Stopped /\ ReadyUnits(EvidenceOf(run)) # {}

Load(c) ==
    /\ At(c, "idle")
    /\ Rehydrates(head) /\ HasWork(head)
    /\ ctl' = [ctl EXCEPT ![c] = [Nowhere EXCEPT !.pc = "loaded", !.run = head]]
    /\ UNCHANGED <<Journal, Evidence, effects, lease, kills, losses>>

Reserve(c) ==
    /\ At(c, "loaded") /\ ActiveRecords(ctl[c].run) = {}
    /\ Len(ctl[c].run) < MaxRecords
    /\ LET next == Reserved(ctl[c].run) IN
       Commit(c, next, /\ ctl' = [ctl EXCEPT ![c].pc = "reserved", ![c].run = next]
                       /\ UNCHANGED lease)
    /\ UNCHANGED <<Evidence, effects, losses>>

\* reconcile_reserved_dispatch_durable, and the way out of a fresh operation
\* that finds the target lease taken.
GiveBack(c) == Commit(c, Released(ctl[c].run, Own(c)), Leave(c))

ReleaseReserved(c) ==
    /\ At(c, "loaded") /\ ActiveRecords(ctl[c].run) # {}
    /\ ctl[c].run[Own(c)].phase = "reserved"
    /\ GiveBack(c)
    /\ UNCHANGED <<Evidence, effects, losses>>

-----------------------------------------------------------------------------
(***************************************************************************)
(* Constructions and checks.                                               *)
(***************************************************************************)
Admit(c, session) ==
    /\ At(c, "reserved") /\ Unit(c) \notin Operations
    /\ ctl' = [ctl EXCEPT ![c].pc = "admitted", ![c].session = session]
    /\ UNCHANGED <<Journal, Evidence, effects, lease, kills, losses>>

\* A slip in PublishAttempt.
AttemptUnpublished(c) ==
    /\ At(c, "admitted")
    /\ Goto(c, "attempted")
    /\ UNCHANGED <<Journal, Evidence, effects, lease, kills, losses>>

PublishAttempt(c) ==
    /\ At(c, "admitted")
    /\ Publish(c, Attempt(Own(c), ctl[c].session), "attempted")
    /\ UNCHANGED <<Journal, artifacts, effects, losses>>

StartUnit(c) ==
    /\ At(c, "attempted")
    /\ LET next == Started(ctl[c].run, Own(c), ctl[c].session) IN
       Commit(c, next, /\ ctl' = [ctl EXCEPT ![c].pc = "started", ![c].run = next]
                       /\ UNCHANGED lease)
    /\ UNCHANGED <<Evidence, effects, losses>>

\* A driver may never return; a kill covers that.
Execute(c, result) ==
    /\ At(c, "started") /\ Unit(c) \notin Operations
    /\ result \in UnitResults(Unit(c)) /\ result.session = ctl[c].session
    /\ ctl' = [ctl EXCEPT ![c].pc = "returned", ![c].result = result]
    /\ UNCHANGED <<Journal, Evidence, effects, lease, kills, losses>>

PublishProof(c) ==
    /\ At(c, "returned")
    /\ Publish(c, Proof(Own(c), ctl[c].session, ctl[c].result), "proved")
    /\ UNCHANGED <<Journal, artifacts, effects, losses>>

NeedsArtifact(c) == Unit(c) \in Constructions /\ Succeeded(ctl[c].result)

ProjectArtifact(c) ==
    /\ At(c, "proved") /\ NeedsArtifact(c)
    /\ artifacts' = artifacts \cup {Own(c)}
    /\ Goto(c, "projected")
    /\ UNCHANGED <<Journal, stored, loose, effects, lease, kills, losses>>

\* A slip in FinishUnit.
FinishUnprojected(c) ==
    /\ At(c, "proved")
    /\ Commit(c, Completed(ctl[c].run, Own(c), ctl[c].result), Leave(c))
    /\ UNCHANGED <<Evidence, effects, losses>>

FinishUnit(c) ==
    /\ At(c, "projected") \/ (At(c, "proved") /\ ~NeedsArtifact(c))
    /\ Commit(c, Completed(ctl[c].run, Own(c), ctl[c].result), Leave(c))
    /\ UNCHANGED <<Evidence, effects, losses>>

StartedUnit(c) ==
    /\ At(c, "loaded") /\ ActiveRecords(ctl[c].run) # {}
    /\ ctl[c].run[Own(c)].phase = "started"

SessionOf(c) == ctl[c].run[Own(c)].session

\* Terminal evidence is preferred, and retires the dispatch without a driver.
RecoverProof(c) ==
    /\ StartedUnit(c) /\ Unit(c) \notin Operations
    /\ \E e \in Proofs(Own(c), SessionOf(c)) :
         ctl' = [ctl EXCEPT ![c].pc = "proved", ![c].session = e.session, ![c].result = e.result]
    /\ UNCHANGED <<Journal, Evidence, effects, lease, kills, losses>>

\* Without it the retained attempt is executed again, in the same session.
RecoverAttempt(c) ==
    /\ StartedUnit(c) /\ Unit(c) \notin Operations
    /\ Proofs(Own(c), SessionOf(c)) = {}
    /\ Attempt(Own(c), SessionOf(c)) \in stored
    /\ ctl' = [ctl EXCEPT ![c].pc = "started", ![c].session = SessionOf(c)]
    /\ UNCHANGED <<Journal, Evidence, effects, lease, kills, losses>>

-----------------------------------------------------------------------------
(***************************************************************************)
(* Operations.  The drivers carry the target lease until they are dropped. *)
(***************************************************************************)
AcquireDrivers(c, session) ==
    /\ At(c, "reserved") /\ Unit(c) \in Operations
    /\ lease = Nobody
    /\ lease' = c
    /\ ctl' = [ctl EXCEPT ![c].pc = "leased", ![c].session = session]
    /\ UNCHANGED <<Journal, Evidence, effects, kills, losses>>

LeaseUnavailable(c) ==
    /\ At(c, "reserved") /\ Unit(c) \in Operations
    /\ lease # Nobody
    /\ GiveBack(c)
    /\ UNCHANGED <<Evidence, effects, losses>>

Stage(c) == effects[<<Own(c), ctl[c].session>>]

SetStage(c, stage) == effects' = [effects EXCEPT ![<<Own(c), ctl[c].session>>] = stage]

AdmitEffect(c) ==
    /\ At(c, "leased")
    /\ \/ Stage(c) \in {"absent", "admitted"} /\ SetStage(c, "admitted")
          /\ Goto(c, "effect_admitted") /\ UNCHANGED lease
       \/ Stage(c) \notin {"absent", "admitted"} /\ Leave(c) /\ UNCHANGED effects
    /\ UNCHANGED <<Journal, Evidence, kills, losses>>

\* A slip in StartOperation.
BeginWithoutStart(c) ==
    /\ At(c, "effect_admitted")
    /\ Goto(c, "driving")
    /\ UNCHANGED <<Journal, Evidence, effects, lease, kills, losses>>

StartOperation(c) ==
    /\ At(c, "effect_admitted")
    /\ LET next == Started(ctl[c].run, Own(c), ctl[c].session) IN
       Commit(c, next, /\ ctl' = [ctl EXCEPT ![c].pc = "driving", ![c].run = next]
                       /\ UNCHANGED lease)
    /\ UNCHANGED <<Evidence, effects, losses>>

\* A slip in Recoverable.
RecoverableOnceBegun(stage) == stage \notin {"absent", "admitted"}

Recoverable(stage) == stage # "absent"

\* Recovery loads the effect journal first and asks for drivers second.
NeedsDrivers(stage) == stage \notin {"unresolved", "failed", "lost"}

ResumeOperation(c) ==
    /\ StartedUnit(c) /\ Unit(c) \in Operations
    /\ LET stage == effects[<<Own(c), SessionOf(c)>>] IN
       /\ Recoverable(stage)
       /\ \/ NeedsDrivers(stage) /\ lease = Nobody /\ lease' = c
             /\ ctl' = [ctl EXCEPT ![c].pc = "resuming", ![c].session = SessionOf(c)]
          \/ NeedsDrivers(stage) /\ lease # Nobody /\ Leave(c)
          \/ ~NeedsDrivers(stage) /\ UNCHANGED lease
             /\ ctl' = [ctl EXCEPT ![c].pc = "resuming", ![c].session = SessionOf(c)]
    /\ UNCHANGED <<Journal, Evidence, effects, kills, losses>>

Driving(c) == At(c, "driving") \/ At(c, "resuming")

BeginEffect(c) ==
    /\ Driving(c) /\ Stage(c) = "admitted"
    /\ SetStage(c, "begun")
    /\ UNCHANGED <<Journal, Evidence, lease, ctl, kills, losses>>

\* The remaining calls return and the attempt is sealed, or it rests: for good
\* where nobody else can tell how a program or the application ended, and until
\* a later read of the state confirms a publication whose outcome is not known.
Conclusions(stage) ==
    CASE stage = "begun"         -> Stages \ {"absent", "admitted", "begun"}
      [] stage = "indeterminate" -> {"completed", "indeterminate"}
      [] stage \in {"unresolved", "withheld"} -> {stage}
      [] OTHER                   -> {}

\* A resumed attempt that learns nothing new reports no result.
NothingLearnt(c, stage) ==
    At(c, "resuming") /\ (stage \in {"unresolved", "withheld"} \/ stage = Stage(c))

ConcludeEffect(c, stage) ==
    /\ Driving(c)
    /\ stage \in Conclusions(Stage(c))
    /\ stage = "withheld" => At(c, "resuming")
    /\ SetStage(c, stage)
    /\ IF NothingLearnt(c, stage) THEN Leave(c) ELSE Goto(c, "concluded") /\ UNCHANGED lease
    /\ UNCHANGED <<Journal, Evidence, kills, losses>>

EffectOutcome(stage) ==
    CASE stage = "completed"     -> "completed"
      [] stage = "failed"        -> "application_not_completed"
      [] stage = "lost"          -> "outer_lease_lost"
      [] stage = "indeterminate" -> "state_publication_indeterminate"
      [] OTHER                   -> "application_resolution_required"

\* An attempt that fails here does so at its application.
EffectResult(c) ==
    [session |-> ctl[c].session, outcome |-> EffectOutcome(Stage(c)),
     before  |-> AllPassed(Before[Unit(c)]),
     after   |-> IF Stage(c) = "completed" THEN AllPassed(After[Unit(c)]) ELSE <<>>]

Concluded(c) == At(c, "concluded") \/ (Driving(c) /\ Stage(c) \in Sealed)

SubmitTerminal(c) ==
    /\ Concluded(c)
    /\ Stage(c) \in {"completed", "failed"}
    /\ Commit(c, Completed(ctl[c].run, Own(c), EffectResult(c)), Leave(c))
    /\ UNCHANGED <<Evidence, effects, losses>>

\* An uncertain result is observed once; after that it is left to external
\* resolution.
AlreadyObserved(c) == EffectOutcome(Stage(c)) \in ctl[c].run[Own(c)].observations

SubmitObservation(c) ==
    /\ Concluded(c)
    /\ Stage(c) \in Uncertain /\ ~AlreadyObserved(c)
    /\ Commit(c, Observed(ctl[c].run, Own(c), EffectResult(c)), Leave(c))
    /\ UNCHANGED <<Evidence, effects, losses>>

ExternalResolution(c) ==
    /\ Concluded(c)
    /\ Stage(c) \in Uncertain /\ AlreadyObserved(c)
    /\ Leave(c)
    /\ UNCHANGED <<Journal, Evidence, effects, kills, losses>>

-----------------------------------------------------------------------------
Kill(c) ==
    /\ ~At(c, "idle")
    /\ Dies(c)
    /\ UNCHANGED <<Journal, Evidence, effects, losses>>

\* Every process is gone, with any choice of the entries not synchronized.
PowerLoss ==
    /\ losses < MaxLosses
    /\ losses' = losses + 1
    /\ head' \in heads /\ heads' = {head'}
    /\ \E gone \in SUBSET loose : stored' = stored \ gone
    /\ loose' = {}
    /\ ctl' = [c \in Controllers |-> Nowhere]
    /\ lease' = Nobody
    /\ UNCHANGED <<artifacts, effects, kills>>

UnitStep(c) ==
    \/ \E s \in Sessions : Admit(c, s)
    \/ PublishAttempt(c) \/ StartUnit(c)
    \/ \E r \in AllResults : Execute(c, r)
    \/ PublishProof(c) \/ ProjectArtifact(c) \/ FinishUnit(c)
    \/ RecoverProof(c) \/ RecoverAttempt(c)

OperationStep(c) ==
    \/ \E s \in Sessions : AcquireDrivers(c, s)
    \/ LeaseUnavailable(c) \/ AdmitEffect(c) \/ StartOperation(c)
    \/ ResumeOperation(c) \/ BeginEffect(c)
    \/ \E stage \in Stages : ConcludeEffect(c, stage)
    \/ SubmitTerminal(c) \/ SubmitObservation(c) \/ ExternalResolution(c)

Step(c) == Load(c) \/ Reserve(c) \/ ReleaseReserved(c) \/ UnitStep(c) \/ OperationStep(c)

Next == \/ \E c \in Controllers : Step(c) \/ Kill(c)
        \/ PowerLoss

Spec == Init /\ [][Next]_vars

(***************************************************************************)
(* Processes are killed, or power is lost, but not both in one behaviour.  *)
(* A file system that may keep a later synchronized change of another      *)
(* directory without an earlier rename lets the two together break what is *)
(* stated below: see MCDriveTorn.cfg.                                      *)
(***************************************************************************)
EitherFaultInit ==
    /\ JustAdmitted
    /\ \/ kills = 0 /\ losses = MaxLosses
       \/ kills = MaxKills /\ losses = 0

EitherFaultSpec == EitherFaultInit /\ [][Next]_vars

-----------------------------------------------------------------------------
Items == {Attempt(i, s) : i \in 1..MaxRecords, s \in Sessions}
         \cup {Proof(i, r.session, r) : i \in 1..MaxRecords, r \in AllResults}

TypeOK ==
    /\ Run(head)!TypeOK /\ head \in heads
    /\ loose \subseteq stored /\ stored \subseteq Items
    /\ artifacts \subseteq 1..MaxRecords
    /\ effects \in [(1..MaxRecords) \X Sessions -> Stages]
    /\ lease \in Controllers \cup {Nobody}
    /\ \A c \in Controllers : Run(ctl[c].run)!TypeOK
    /\ kills \in 0..MaxKills /\ losses \in 0..MaxLosses

(***************************************************************************)
(* However the processes interleave and die, every head they commit is a   *)
(* behaviour of the ledger of Dispatch: no step computed from a stale copy *)
(* is ever a step the ledger would refuse.                                 *)
(* The limits of the journal play no part in that: a head here is within   *)
(* them.                                                                   *)
(***************************************************************************)
Ledger == INSTANCE DispatchProofs WITH
    ledger <- head, evidence <- EvidenceOf(head), epoch <- EpochOf(head),
    Nonces <- 1..MaxRecords, ConstructionCapacity <- 1, CheckCapacity <- 1,
    RetainedInputs <- NoInputs, Rewrites <- NoRewrites, MaxReleases <- MaxRecords,
    MaxDispatchCount <- MaxRecords, MaxMemberCount <- 0, MaxDependencyCount <- 0,
    MaxObservationCount <- 0, RecordOverhead <- 0, MaxEncodingSize <- 0

ImplementsDispatch == Ledger!Spec

(***************************************************************************)
(* The run can always be loaded and what it left active recovered: every   *)
(* completed dispatch has exactly the evidence its record names, a started *)
(* construction or check has its attempt, and a started operation has its  *)
(* effect journal, whichever controller wrote which of them.               *)
(***************************************************************************)
Resumable ==
    /\ Rehydrates(head)
    /\ \A i \in DOMAIN head : head[i].phase = "started" =>
         IF head[i].unit \in Operations THEN effects[<<i, head[i].session>>] # "absent"
         ELSE Attempt(i, head[i].session) \in stored

(***************************************************************************)
(* "Both commits precede every physical effect" (pkgctl_orchestration.7    *)
(* line 911): an effect attempt that began belongs to the session its      *)
(* dispatch started under, never to a reserved or released dispatch, so    *)
(* the next dispatch of the unit cannot repeat the effects.                *)
(***************************************************************************)
EffectsOwned ==
    \A i \in 1..MaxRecords, s \in Sessions :
        effects[<<i, s>>] \notin {"absent", "admitted"} =>
            /\ i \in DOMAIN head
            /\ head[i].phase \in {"started", "completed"} /\ head[i].session = s

(***************************************************************************)
(* A public artifact name is given only to what terminal evidence already  *)
(* proves, and a construction retires as a success only after it has it.   *)
(***************************************************************************)
ArtifactsBacked ==
    /\ \A i \in artifacts : \E e \in stored :
         e.kind = "result" /\ e.dispatch = i /\ Succeeded(e.result)
    /\ \A i \in CompletedRecords(head) :
         head[i].unit \in Constructions /\ Succeeded(head[i].terminal) => i \in artifacts

(***************************************************************************)
(* A run that is resumed settles: it completes, or it stops at a failure   *)
(* with nothing left in flight, or it rests at an operation whose outcome  *)
(* needs external resolution.  No crash leaves it with a dispatch that     *)
(* nothing can finish.                                                     *)
(***************************************************************************)
Unresolvable(i) ==
    /\ head[i].unit \in Operations /\ head[i].phase = "started"
    /\ effects[<<i, head[i].session>>] \in Uncertain \cup {"withheld"}

Settled ==
    \/ ~HasWork(head) /\ (Complete(EvidenceOf(head)) \/ Failed(EvidenceOf(head)))
    \/ \E i \in ActiveRecords(head) : Unresolvable(i)

Settles == <>[]Settled

=============================================================================
