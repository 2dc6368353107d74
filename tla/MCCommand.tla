------------------------------ MODULE MCCommand -----------------------------
(***************************************************************************)
(* What a command does around a drive: before it, the scope of backends it *)
(* examines, with the drive itself; after it, the removal of the private   *)
(* realizations of a completed run.  The two share no state: a behaviour   *)
(* is one of one of them, while the other rests.                           *)
(***************************************************************************)
EXTENDS MCCommandScope

CONSTANTS Cleaners, Builds, BuildClasses, MaxDispatches, MaxFaults

VARIABLES part, ledger, executors, dirs, journals, sealed, blocked, late, cleaner, faults

cleanupVars == <<ledger, executors, dirs, journals, sealed, blocked, late, cleaner, faults>>

sumVars == <<part, commandVars, cleanupVars>>

NoOperations == {}

Cleanup == INSTANCE RunCleanup WITH Operations <- NoOperations

\* What the removal asks of its bound.
ASSUME CommandAssumption == MaxDispatches \in Nat

-----------------------------------------------------------------------------
PartInit == part \in {"drive", "cleanup"} /\ CommandInit /\ Cleanup!Init

PartNext ==
    \/ part = "drive" /\ CommandNext /\ UNCHANGED <<part, cleanupVars>>
    \/ part = "cleanup" /\ Cleanup!Next /\ UNCHANGED <<part, commandVars>>

InDrive(A) == part = "drive" /\ A /\ UNCHANGED <<part, cleanupVars>>
InCleanup(A) == part = "cleanup" /\ A /\ UNCHANGED <<part, commandVars>>

PartSpec == PartInit /\ [][PartNext]_sumVars

\* FairCommandSpec of CommandScope or FairSpec of RunCleanup.
FairPartSpec ==
    /\ PartSpec
    /\ \A c \in Controllers :
         WF_sumVars(InDrive(Resume(c))) /\ SF_sumVars(InDrive(Advance(c)))
    /\ \A c \in Cleaners :
         /\ WF_sumVars(InCleanup(Cleanup!Begin(c)))
         /\ WF_sumVars(InCleanup(Cleanup!CleanerStep(c)))
    /\ \A d \in Cleanup!Dispatches : WF_sumVars(InCleanup(Cleanup!Stop(d)))
    /\ \A x \in Cleanup!Private : WF_sumVars(InCleanup(Cleanup!Repair(x)))

-----------------------------------------------------------------------------
(* The properties of the instances, which their modules explain.            *)

\* RunDrive and CommandScope: a run that is resumed settles.
CommandsSettle == (part = "drive") => Settles

\* RunCleanup: a sweep without failures has removed every leaf of the plan.
CompleteIsClean == Cleanup!CompleteIsClean

\* RunCleanup: only realizations of completed dispatches are ever removed.
OnlyCompletedRemoved == Cleanup!OnlyCompletedRemoved

\* RunCleanup: a completed run that is resumed again and again ends up clean.
Converges == (part = "cleanup") => Cleanup!Converges

=============================================================================
