---------------------------- MODULE CommandHost ----------------------------
(***************************************************************************)
(* The command around a run: execute_transaction_run of                    *)
(* cli/run_command.cpp with launch_transaction_run of src/run_launch.cpp.  *)
(*                                                                         *)
(* A fresh run composes its transaction from the live catalog and state,   *)
(* which may differ every time; it retains what it composed as command     *)
(* evidence under the nonce the caller chose, and then admits the run      *)
(* journal, whose identity is that transaction and nonce.  A resumed run   *)
(* recomposes from the evidence.  No lock is held across these steps, the  *)
(* directory of the evidence has none of its own, and the two stores are   *)
(* synchronized separately.                                                *)
(***************************************************************************)
EXTENDS ImmutableFiles, Naturals

CONSTANTS
    Hosts,          \* processes
    Nonces,
    Transactions,   \* what the live inputs may compose
    Roots,          \* artifact roots a caller may name
    MaxFaults       \* bound: kills and power losses

VARIABLES
    admitted,    \* journals, [nonce, transaction], that exist
    artifacts,   \* [journal, root] of the artifacts projected
    ctl,         \* [Hosts -> local state]
    hasty,       \* history: nonces whose evidence was relied on unsynchronized
    faults

hostVars == <<directory, admitted, artifacts, ctl, hasty, faults>>

Idle == [pc |-> "idle"]

At(c, pc) == ctl[c].pc = pc

Goto(c, pc) == ctl' = [ctl EXCEPT ![c].pc = pc]

\* The command ends, whether it is done or refused.
End(c) == ctl' = [ctl EXCEPT ![c] = Idle]

Evidence(c) ==
    [name |-> ctl[c].nonce,
     content |-> [transaction |-> ctl[c].transaction, root |-> ctl[c].root]]

Journal(c) == [nonce |-> ctl[c].nonce, transaction |-> ctl[c].transaction]

Durable(file) == file \in safe.files /\ file.name \notin safe.doubled

HostInit ==
    /\ Empty
    /\ admitted = {} /\ artifacts = {} /\ hasty = {} /\ faults = 0
    /\ ctl = [c \in Hosts |-> Idle]

-----------------------------------------------------------------------------
Composed(c, intent, n, t, r) ==
    ctl' = [ctl EXCEPT ![c] = [pc |-> "composed", intent |-> intent, nonce |-> n,
                               transaction |-> t, root |-> r]]

Start(c) ==
    /\ At(c, "idle")
    /\ \E n \in Nonces, t \in Transactions, r \in Roots : Composed(c, "start", n, t, r)
    /\ UNCHANGED <<directory, admitted, artifacts, hasty, faults>>

\* A slip in Resume.
ResumeRedirected(c) ==
    /\ At(c, "idle")
    /\ \E f \in files, r \in Roots :
         /\ Readable(f.name)
         /\ Composed(c, "resume", f.name, f.content.transaction, r)
    /\ UNCHANGED <<directory, admitted, artifacts, hasty, faults>>

\* Evidence that is absent or unreadable, or that names another artifact
\* root, ends the command.
Resume(c) ==
    /\ At(c, "idle")
    /\ \E f \in files :
         /\ Readable(f.name)
         /\ Composed(c, "resume", f.name, f.content.transaction, f.content.root)
    /\ UNCHANGED <<directory, admitted, artifacts, hasty, faults>>

\* A fresh run needs a journal that does not exist, a resumed one its own.
CheckAdmission(c) ==
    /\ At(c, "composed")
    /\ IF (ctl[c].intent = "start") = (Journal(c) \in admitted)
       THEN End(c)
       ELSE Goto(c, IF ctl[c].intent = "start" THEN "retain" ELSE "driving")
    /\ UNCHANGED <<directory, admitted, artifacts, hasty, faults>>

-----------------------------------------------------------------------------
(***************************************************************************)
(* command_evidence_store::retain                                          *)
(***************************************************************************)
Rely(c) ==
    hasty' = IF Durable(Evidence(c)) THEN hasty ELSE hasty \cup {ctl[c].nonce}

\* Evidence that is there already is adopted if it is the same, and refused
\* otherwise or while its writer has not taken its temporary name away.
Retain(c) ==
    /\ At(c, "retain")
    /\ CASE Holds(Evidence(c))   -> Rely(c) /\ Goto(c, "launch")
         [] ~Listed(Evidence(c)) -> UNCHANGED hasty /\ Goto(c, "write")
         [] OTHER                -> UNCHANGED hasty /\ End(c)
    /\ UNCHANGED <<directory, admitted, artifacts, faults>>

\* The link fails if another command has published under the nonce meanwhile;
\* the same evidence is accepted then, too, and synchronized.
Link(c) ==
    /\ At(c, "write")
    /\ CASE ~Listed(Evidence(c)) -> LinkFile(Evidence(c)) /\ Goto(c, "linked")
         [] Holds(Evidence(c))   -> UNCHANGED directory /\ Goto(c, "unlinked")
         [] OTHER                -> UNCHANGED directory /\ End(c)
    /\ UNCHANGED <<admitted, artifacts, hasty, faults>>

Unlink(c) ==
    /\ At(c, "linked")
    /\ UnlinkTemporary(Evidence(c))
    /\ Goto(c, "unlinked")
    /\ UNCHANGED <<admitted, artifacts, hasty, faults>>

\* A slip in Sync.
ProceedUnsynced(c) ==
    /\ At(c, "unlinked")
    /\ Goto(c, "launch")
    /\ UNCHANGED <<directory, admitted, artifacts, hasty, faults>>

Sync(c) ==
    /\ At(c, "unlinked")
    /\ SyncDirectory
    /\ Goto(c, "launch")
    /\ UNCHANGED <<admitted, artifacts, hasty, faults>>

-----------------------------------------------------------------------------
(***************************************************************************)
(* launch_transaction_run: the run is admitted, or found admitted by a     *)
(* command that overtook this one, and then driven.  A command whose       *)
(* append comes after the run has already advanced is refused and ends.    *)
(***************************************************************************)
Admission(c) == admitted' = admitted \cup {Journal(c)}

Launch(c) ==
    /\ At(c, "launch")
    /\ Admission(c)
    /\ Goto(c, "driving")
    /\ UNCHANGED <<directory, artifacts, hasty, faults>>

\* The drive projects an artifact below the root of this command.
Project(c) ==
    /\ At(c, "driving")
    /\ artifacts' = artifacts \cup {[journal |-> Journal(c), root |-> ctl[c].root]}
    /\ UNCHANGED <<directory, admitted, ctl, hasty, faults>>

Return(c) ==
    /\ At(c, "driving") /\ End(c)
    /\ UNCHANGED <<directory, admitted, artifacts, hasty, faults>>

HostStep(c) ==
    \/ Start(c) \/ Resume(c) \/ CheckAdmission(c)
    \/ Retain(c) \/ Link(c) \/ Unlink(c) \/ Sync(c)
    \/ Launch(c) \/ Project(c) \/ Return(c)

Fault == faults < MaxFaults /\ faults' = faults + 1

\* An exception while the evidence is published takes the temporary away.
HostError(c) ==
    /\ Fault
    /\ At(c, "linked") /\ UnlinkTemporary(Evidence(c))
    /\ End(c)
    /\ UNCHANGED <<admitted, artifacts, hasty>>

HostKill(c) ==
    /\ Fault
    /\ ~At(c, "idle") /\ End(c)
    /\ UNCHANGED <<directory, admitted, artifacts, hasty>>

\* The run journal and the artifacts are synchronized before they are relied
\* on (JournalStore); the evidence directory keeps any choice of its changes.
HostPowerLoss ==
    /\ Fault
    /\ LosePower
    /\ ctl' = [c \in Hosts |-> Idle]
    /\ UNCHANGED <<admitted, artifacts, hasty>>

HostNext ==
    \/ \E c \in Hosts : HostStep(c) \/ HostError(c) \/ HostKill(c)
    \/ HostPowerLoss

HostSpec == HostInit /\ [][HostNext]_hostVars

-----------------------------------------------------------------------------
(***************************************************************************)
(* Whatever is admitted can be resumed: the evidence of its nonce names    *)
(* its transaction, can be read, and no power loss takes it away.  So a    *)
(* nonce never names two runs, although nothing locks it.  Excepted are    *)
(* nonces whose evidence a command relied on before its writer had         *)
(* synchronized it: read_optional cannot tell.                             *)
(***************************************************************************)
AdmittedAreRetained ==
    \A j \in admitted : j.nonce \in hasty \/
        \E f \in files : f.name = j.nonce /\ f.content.transaction = j.transaction
                         /\ Readable(f.name) /\ Durable(f)

(***************************************************************************)
(* "Frontend kind and artifact-root coordinate are retained in command     *)
(* evidence; resume refuses ... artifact-root redirection before durable   *)
(* advancement" (README 125-127): the artifacts of a run are all projected *)
(* below one root, whoever starts or resumes it.                           *)
(***************************************************************************)
Unredirected ==
    \A a, b \in artifacts : a.journal = b.journal => a.root = b.root

=============================================================================
