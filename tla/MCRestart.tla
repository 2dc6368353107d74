------------------------------ MODULE MCRestart -----------------------------
(***************************************************************************)
(* The parts of the program that survive kills and power losses by what    *)
(* they keep on disk, each by itself: a journal, the evidence store, the   *)
(* evidence and admission of a command, and an effect attempt with its     *)
(* own journal.  A behaviour is one of one part; the others rest.          *)
(* Processes are interchangeable, and so are names and contents.           *)
(***************************************************************************)
EXTENDS JournalStore, TLC

CONSTANTS
    Names, Contents, Roots, Absent, MaxHostFaults,
    Controllers, None, BeforeTotal, AfterTotal, MaxCrashes, MaxRevocations

VARIABLES
    part,
    files, doubled, synced, evidenceLock, publisher, clients, published, torn,
    publications, powerLosses,
    hostFiles, hostDoubled, hostSynced, admitted, artifacts, commands, hasty, faults,
    journal, bodies, owner, canonical, lease, drivers, crashes, revocations,
    begun, succeeded, promoted

evidenceVars == <<files, doubled, synced, evidenceLock, publisher, clients, published,
                  torn, publications, powerLosses>>
hostVars == <<hostFiles, hostDoubled, hostSynced, admitted, artifacts, commands, hasty,
              faults>>
effectVars == <<journal, bodies, owner, canonical, lease, drivers, crashes, revocations,
                begun, succeeded, promoted>>

\* The instances bring the theorems of the parts with their definitions.
Evidence == INSTANCE EvidenceStoreProofs WITH
    Keys <- Names, Values <- Contents, safe <- synced, lockFile <- evidenceLock,
    writer <- publisher, ctl <- clients, kept <- published,
    stops <- publications, losses <- powerLosses,
    MaxStops <- 1, MaxLosses <- 1

Host == INSTANCE CommandHostProofs WITH
    Hosts <- Processes, Nonces <- Names, Transactions <- Contents,
    MaxFaults <- MaxHostFaults,
    files <- hostFiles, doubled <- hostDoubled, safe <- hostSynced, ctl <- commands

Effect == INSTANCE EffectAttemptProofs WITH ctl <- drivers

\* What the parts ask of their constants.
ASSUME RestartAssumption ==
    /\ Evidence!Sentinels
    /\ BeforeTotal \in Nat /\ AfterTotal \in Nat
    /\ MaxCrashes \in Nat /\ MaxRevocations \in Nat
    /\ Nobody \notin Controllers
    /\ None \notin Effect!LifecycleResults \cup Effect!ApplicationOutcomes
                   \cup Effect!PublicationOutcomes \cup Effect!Verdicts \cup Effect!Records

-----------------------------------------------------------------------------
\* The parts other than x rest.
Rest(x) ==
    /\ IF x = "journal"  THEN TRUE ELSE UNCHANGED vars
    /\ IF x = "evidence" THEN TRUE ELSE UNCHANGED evidenceVars
    /\ IF x = "host"     THEN TRUE ELSE UNCHANGED hostVars
    /\ IF x = "effect"   THEN TRUE ELSE UNCHANGED effectVars
    /\ UNCHANGED part

RestartInit ==
    /\ part \in {"journal", "evidence", "host", "effect"}
    /\ Init /\ Evidence!Init /\ Host!HostInit /\ Effect!Init

RestartNext ==
    \/ part = "journal"  /\ Next          /\ Rest("journal")
    \/ part = "evidence" /\ Evidence!Next /\ Rest("evidence")
    \/ part = "host"     /\ Host!HostNext /\ Rest("host")
    \/ part = "effect"   /\ Effect!Next   /\ Rest("effect")

RestartSpec ==
    RestartInit /\ [][RestartNext]_<<part, vars, evidenceVars, hostVars, effectVars>>

RestartSymmetry ==
    Permutations(Processes) \cup Permutations(Branches) \cup Permutations(Names)
    \cup Permutations(Contents) \cup Permutations(Roots)

-----------------------------------------------------------------------------
(* The properties of the instances, which their modules explain; those of   *)
(* JournalStore are checked under their own names.                          *)

\* EvidenceStore: no power loss leaves an index without its object.
IndexBacked == Evidence!IndexBacked

\* EvidenceStore: an unlocked reader returns what a locked one would have.
LoadsAreCurrent == Evidence!ReadsAreCurrent

\* EvidenceStore: the store of immutable files is a write-once map.
ImplementsWriteOnce == Evidence!ImplementsWriteOnce

\* CommandHost: an admitted run can be resumed, from the evidence of its nonce.
AdmittedAreRetained == Host!AdmittedAreRetained

\* CommandHost: all artifacts of a run are projected below one root.
Unredirected == Host!Unredirected

\* EffectAttempt: what the effect journal names is retained before it names it.
BodiesCoverJournal == Effect!BodiesCoverJournal

\* EffectAttempt: across crashes and lost leases no physical step is repeated.
ImplementsContract == Effect!ImplementsContract

=============================================================================
