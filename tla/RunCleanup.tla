----------------------------- MODULE RunCleanup -----------------------------
(***************************************************************************)
(* Disposal of the private directories a completed run leaves behind       *)
(* (src/run_cleanup.cpp), together with the two places that fill them:     *)
(* the realization of installed inputs before a dispatch starts            *)
(* (src/run_resource.cpp) and the execution of a started dispatch.         *)
(*                                                                         *)
(* A directory is known by its class and its dispatch.  It lies below      *)
(* <class root>/<journal>, except a lifecycle session, which is a leaf of  *)
(* its root.  Nothing is discovered: the cleaner derives what it removes   *)
(* from the run journal alone.  Several commands may clean one run, and a  *)
(* process that still executes a dispatch others have retired may write    *)
(* while they do.                                                          *)
(***************************************************************************)
EXTENDS Naturals, Sequences

CONSTANTS
    Cleaners,        \* commands that end in cleanup
    Builds,          \* construction units
    Operations,      \* operation units, with one lifecycle program each
    BuildClasses,    \* directories a construction fills: the installed inputs,
                     \* and the session and output directories, which are alike
    MaxDispatches,   \* bound: dispatches reserved
    MaxFaults        \* bound: kills, and leaves replaced by something else

Units == Builds \cup Operations

VARIABLES
    ledger,     \* the dispatches in order: [unit, phase]
    executors,  \* dispatches some process is executing
    dirs,       \* [private directory -> its state]
    journals,   \* classes that hold a directory of this journal
    sealed,     \* directories made read-only by what filled them
    blocked,    \* directories replaced by something that is none
    late,       \* dispatches written to after the run completed
    cleaner,    \* [Cleaners -> local state]
    faults

vars == <<ledger, executors, dirs, journals, sealed, blocked, late, cleaner, faults>>

-----------------------------------------------------------------------------
Dispatches == 1..MaxDispatches

ClassesOf(u) ==
    IF u \in Builds THEN BuildClasses ELSE {"lifecycle_session"}

Classes == UNION {ClassesOf(u) : u \in Units}
Nested(class) == class # "lifecycle_session"

Private == Classes \X Dispatches

InPhase(phase) == {d \in DOMAIN ledger : ledger[d].phase = phase}

\* record.failed() or stopped(), and record.complete().
RunFailed   == InPhase("failed") # {}
RunComplete == \A u \in Units : \E d \in InPhase("completed") : ledger[d].unit = u

Eligible == RunComplete /\ ~RunFailed

\* A slip in Targets.
TargetsOfEveryDispatch ==
    UNION {ClassesOf(ledger[d].unit) \X {d} : d \in DOMAIN ledger}

\* transaction_run_cleanup_plan::make: the leaves of completed dispatches.
Targets == UNION {ClassesOf(ledger[d].unit) \X {d} : d \in InPhase("completed")}

Resting == [pc |-> "idle", todo |-> {}, failures |-> {}]

Init ==
    /\ ledger = <<>> /\ executors = {}
    /\ dirs = [x \in Private |-> "absent"]
    /\ journals = {} /\ sealed = {} /\ blocked = {} /\ late = {}
    /\ cleaner = [c \in Cleaners |-> Resting]
    /\ faults = 0

-----------------------------------------------------------------------------
(***************************************************************************)
(* The run, as far as it fills directories.                                *)
(***************************************************************************)
Reserve(u) ==
    /\ Len(ledger) < MaxDispatches /\ ~RunFailed
    /\ InPhase("reserved") \cup InPhase("started") = {}
    /\ \A d \in InPhase("completed") : ledger[d].unit # u
    /\ ledger' = Append(ledger, [unit |-> u, phase |-> "reserved"])
    /\ UNCHANGED <<executors, dirs, journals, sealed, blocked, late, cleaner, faults>>

\* A directory comes to hold something and is sealed; one that is not sealed
\* would only be easier to remove.
Fill(x) ==
    /\ x \notin blocked
    /\ dirs' = [dirs EXCEPT ![x] = "filled"]
    /\ journals' = IF Nested(x[1]) THEN journals \cup {x[1]} ELSE journals
    /\ sealed' = sealed \cup {x}

\* The session source realizes installed inputs while the dispatch is only
\* reserved.
RealizeInputs(d) ==
    /\ d \in InPhase("reserved") /\ ledger[d].unit \in Builds
    /\ dirs[<<"installed_resource", d>>] = "absent"
    /\ Fill(<<"installed_resource", d>>)
    /\ UNCHANGED <<ledger, executors, blocked, late, cleaner, faults>>

SetPhase(d, phase) == ledger' = [ledger EXCEPT ![d].phase = phase]

\* The process ended before the start: the next command gives the unit back.
ReleaseReserved(d) ==
    /\ d \in InPhase("reserved")
    /\ SetPhase(d, "released")
    /\ UNCHANGED <<executors, dirs, journals, sealed, blocked, late, cleaner, faults>>

\* The start, or the execution of a started dispatch again by another process.
Execute(d) ==
    /\ d \in InPhase("reserved") \cup InPhase("started") /\ d \notin executors
    /\ SetPhase(d, "started")
    /\ executors' = executors \cup {d}
    /\ UNCHANGED <<dirs, journals, sealed, blocked, late, cleaner, faults>>

Write(x) ==
    /\ x[2] \in executors /\ x[1] \in ClassesOf(ledger[x[2]].unit) \ {"installed_resource"}
    /\ dirs[x] # "filled"
    /\ Fill(x)
    /\ late' = IF RunComplete THEN late \cup {x[2]} ELSE late
    /\ UNCHANGED <<ledger, executors, blocked, cleaner, faults>>

Retire(d, phase) ==
    /\ d \in InPhase("started")
    /\ SetPhase(d, phase)
    /\ UNCHANGED <<executors, dirs, journals, sealed, blocked, late, cleaner, faults>>

Stop(d) ==
    /\ d \in executors
    /\ executors' = executors \ {d}
    /\ UNCHANGED <<ledger, dirs, journals, sealed, blocked, late, cleaner, faults>>

RunStep(d) ==
    \/ RealizeInputs(d) \/ ReleaseReserved(d) \/ Execute(d) \/ Stop(d)
    \/ \E phase \in {"completed", "failed"} : Retire(d, phase)
    \/ \E class \in Classes : Write(<<class, d>>)

-----------------------------------------------------------------------------
(***************************************************************************)
(* cleanup_transaction_run_private_realizations: the targets one by one, a *)
(* failure is kept and does not stop the sweep.  The order of the targets  *)
(* is the same for every cleaner.                                          *)
(***************************************************************************)
At(c, pc) == cleaner[c].pc = pc

Goto(c, pc) == cleaner' = [cleaner EXCEPT ![c].pc = pc]

Begin(c) ==
    /\ At(c, "idle") \/ At(c, "finished")
    /\ Eligible
    /\ cleaner' = [cleaner EXCEPT ![c] = [Resting EXCEPT !.pc = "sweep", !.todo = Targets]]
    /\ UNCHANGED <<ledger, executors, dirs, journals, sealed, blocked, late, faults>>

Target(c) == CHOOSE x \in cleaner[c].todo : TRUE

Cleaned(c) ==
    cleaner' = [cleaner EXCEPT ![c].pc = "sweep", ![c].todo = @ \ {Target(c)}]

\* A slip in Refused.
RefusedUnrecorded(c) == Cleaned(c)

Refused(c) ==
    cleaner' = [cleaner EXCEPT ![c].pc = "sweep", ![c].todo = @ \ {Target(c)},
                               ![c].failures = @ \cup {Target(c)}]

\* A slip in MakeRemovable.
OpenAsItIs(x) == UNCHANGED sealed

MakeRemovable(x) == sealed' = sealed \ {x}

\* A target without its journal directory is already gone; one that is not a
\* directory is refused; an opened directory is made removable.
Open(c) ==
    /\ At(c, "sweep") /\ cleaner[c].todo # {}
    /\ LET x == Target(c) IN
       \/ x \in blocked /\ Refused(c) /\ UNCHANGED sealed
       \/ /\ x \notin blocked /\ (Nested(x[1]) => x[1] \in journals)
          /\ Goto(c, IF dirs[x] = "absent" THEN "prune" ELSE "scan")
          /\ MakeRemovable(x)
       \/ Nested(x[1]) /\ x[1] \notin journals /\ Cleaned(c) /\ UNCHANGED sealed
    /\ UNCHANGED <<ledger, executors, dirs, journals, blocked, late, faults>>

\* remove_directory_contents: what another cleaner removed first is no error.
Empty(c) ==
    /\ At(c, "scan")
    /\ LET x == Target(c) IN
       IF dirs[x] = "filled" /\ x \in sealed
       THEN Refused(c) /\ UNCHANGED dirs
       ELSE /\ dirs' = IF dirs[x] = "filled" THEN [dirs EXCEPT ![x] = "empty"] ELSE dirs
            /\ Goto(c, "remove")
    /\ UNCHANGED <<ledger, executors, journals, sealed, blocked, late, faults>>

\* The directory may have been filled again, or replaced, since it was read.
RemoveDirectory(c) ==
    /\ At(c, "remove")
    /\ LET x == Target(c) IN
       IF dirs[x] = "filled" \/ x \in blocked
       THEN Refused(c) /\ UNCHANGED dirs
       ELSE dirs' = [dirs EXCEPT ![x] = "absent"] /\ Goto(c, "prune")
    /\ UNCHANGED <<ledger, executors, journals, sealed, blocked, late, faults>>

\* The journal directory goes with its last leaf and is left otherwise.
Prune(c) ==
    /\ At(c, "prune")
    /\ LET class == Target(c)[1] IN
       journals' = IF \E d \in Dispatches : dirs[<<class, d>>] # "absent"
                                            \/ <<class, d>> \in blocked
                   THEN journals ELSE journals \ {class}
    /\ Cleaned(c)
    /\ UNCHANGED <<ledger, executors, dirs, sealed, blocked, late, faults>>

Finish(c) ==
    /\ At(c, "sweep") /\ cleaner[c].todo = {}
    /\ Goto(c, "finished")
    /\ UNCHANGED <<ledger, executors, dirs, journals, sealed, blocked, late, faults>>

Kill(c) ==
    /\ ~At(c, "idle") /\ ~At(c, "finished")
    /\ faults < MaxFaults /\ faults' = faults + 1
    /\ cleaner' = [cleaner EXCEPT ![c] = Resting]
    /\ UNCHANGED <<ledger, executors, dirs, journals, sealed, blocked, late>>

CleanerStep(c) ==
    \/ Open(c) \/ Empty(c) \/ RemoveDirectory(c) \/ Prune(c) \/ Finish(c)

\* A leaf is replaced by something that is not a directory, and put back.
Substitute(x) ==
    /\ faults < MaxFaults /\ faults' = faults + 1
    /\ dirs[x] = "empty" /\ blocked' = blocked \cup {x}
    /\ UNCHANGED <<ledger, executors, dirs, journals, sealed, late, cleaner>>

Repair(x) ==
    /\ x \in blocked /\ blocked' = blocked \ {x}
    /\ UNCHANGED <<ledger, executors, dirs, journals, sealed, late, cleaner, faults>>

Next ==
    \/ \E u \in Units : Reserve(u)
    \/ \E d \in DOMAIN ledger : RunStep(d)
    \/ \E c \in Cleaners : Begin(c) \/ CleanerStep(c) \/ Kill(c)
    \/ \E x \in Private : Substitute(x) \/ Repair(x)

Spec == Init /\ [][Next]_vars

(***************************************************************************)
(* Fairness: a completed run is resumed again and again, an execution ends *)
(* and the operator puts right what was substituted.                       *)
(***************************************************************************)
FairSpec ==
    /\ Spec
    /\ \A c \in Cleaners : WF_vars(Begin(c)) /\ WF_vars(CleanerStep(c))
    /\ \A d \in Dispatches : WF_vars(Stop(d))
    /\ \A x \in Private : WF_vars(Repair(x))

-----------------------------------------------------------------------------
(***************************************************************************)
(* What a sweep reports is what it did: a result without failures means    *)
(* that every leaf of the plan is gone, whichever of several cleaners      *)
(* removed it, unless a process that lagged behind wrote it again after    *)
(* the run had completed (transaction_run_cleanup_result::complete).       *)
(***************************************************************************)
CompleteIsClean ==
    \A c \in Cleaners : At(c, "finished") /\ cleaner[c].failures = {} =>
        \A x \in Targets : x[2] \in late \/ (dirs[x] = "absent" /\ x \notin blocked)

(***************************************************************************)
(* "Incomplete and failed runs retain their realizations for restart or    *)
(* diagnosis" (README 185-186): nothing is removed but the leaves of       *)
(* completed dispatches of a run that completed without failure, and no    *)
(* journal directory goes while it holds anything.                         *)
(***************************************************************************)
OnlyCompletedRemoved ==
    [][\A x \in Private :
         /\ dirs[x] # "absent" /\ dirs'[x] # dirs[x] /\ dirs'[x] # "filled" =>
              Eligible /\ x[2] \in InPhase("completed")
         /\ Nested(x[1]) /\ dirs'[x] # "absent" => x[1] \in journals']_vars

(***************************************************************************)
(* A partial sweep is finished by the next resume: once the run completed, *)
(* every leaf of its completed dispatches is gone for good, through        *)
(* refusals, kills and writers that lag behind.                            *)
(***************************************************************************)
Converges == <>[](Eligible => \A x \in Targets : dirs[x] = "absent")

(***************************************************************************)
(* "Released reservations own no disposable execution tree" (README        *)
(* 184-185), which is why they project no cleanup target.                  *)
(***************************************************************************)
ReleasedOwnNothing ==
    \A d \in InPhase("released"), class \in Classes : dirs[<<class, d>>] = "absent"

=============================================================================
