---------------------------- MODULE CommandScope ----------------------------
(***************************************************************************)
(* The command that owns a drive (cli/run_command.cpp,                     *)
(* src/run_runtime.cpp).  Before a command drives the run it derives, from *)
(* the head and the stores, the kinds of process execution that can still  *)
(* be needed; credentials, interpreter and backend are examined for those  *)
(* kinds only, and a command that needs none drives without a backend.     *)
(*                                                                         *)
(* The scope is computed once and the drive that follows may take many     *)
(* steps, so it must cover whatever those steps can come to execute.       *)
(***************************************************************************)
EXTENDS RunDrive

VARIABLES
    open,      \* controllers that run a command
    scope,     \* [Controllers -> kinds of execution it examined the backend for]
    observed   \* controllers whose command found an observed operation

commandVars == <<vars, open, scope, observed>>

KindsOf(u) ==
    CASE u \in Constructions -> {"construction"}
      [] u \in Checks        -> {"check"}
      [] OTHER               -> IF Lifecycle(u) = {} THEN {} ELSE {"lifecycle"}

KindsOfUnits(units) == UNION {KindsOf(u) : u \in units}

\* native_transaction_execution_scopes, for a start.
ProgramScope == KindsOfUnits(Units)

StartedRecords(run) == {i \in DOMAIN run : run[i].phase = "started"}

HasObservation(run) == \E i \in StartedRecords(run) : run[i].observations # {}

(***************************************************************************)
(* What a started dispatch may still execute.  A begun effect stands here  *)
(* for every stage between the first intent and the seal, so lifecycle     *)
(* work is taken to remain in it.                                          *)
(***************************************************************************)
ScopeOfStarted(run, i) ==
    LET u == run[i].unit
        s == run[i].session
    IN  IF u \in Operations
        THEN IF effects[<<i, s>>] \in {"admitted", "begun", "withheld"}
             THEN KindsOf(u) ELSE {}
        ELSE IF Proofs(i, s) = {} /\ Attempt(i, s) \in stored THEN KindsOf(u) ELSE {}

\* A started operation whose outcome is observed, or whose effect journal says
\* that it stops the run or waits for external resolution.
Blocks(run, i) ==
    /\ run[i].unit \in Operations
    /\ \/ run[i].observations # {}
       \/ effects[<<i, run[i].session>>] \in {"unresolved", "failed", "lost"}

\* A slip in RemainingScope.
RemainingScopeOwningReserved(run) ==
    LET owned == {run[i].unit : i \in ActiveRecords(run) \cup CompletedRecords(run)}
    IN  KindsOfUnits(Units \ owned)
        \cup UNION {ScopeOfStarted(run, i) : i \in StartedRecords(run)}

RemainingScope(run) ==
    LET owned == {run[i].unit : i \in StartedRecords(run) \cup CompletedRecords(run)}
    IN  KindsOfUnits(Units \ owned)
        \cup UNION {ScopeOfStarted(run, i) : i \in StartedRecords(run)}

ResumeScope(run) ==
    IF \/ Complete(EvidenceOf(run)) \/ Failed(EvidenceOf(run))
       \/ \E i \in StartedRecords(run) : Blocks(run, i)
    THEN {}
    ELSE RemainingScope(run)

-----------------------------------------------------------------------------
\* The process that admitted the run drives it with the program's scope.
CommandInit ==
    /\ Init
    /\ \E starter \in Controllers :
         /\ open = {starter}
         /\ scope = [c \in Controllers |-> IF c = starter THEN ProgramScope ELSE {}]
    /\ observed = {}

\* A resume whose preflight fails ends here and changes nothing.
Resume(c) ==
    /\ c \notin open /\ open' = open \cup {c}
    /\ Rehydrates(head) /\ HasWork(head)
    /\ scope' = [scope EXCEPT ![c] = ResumeScope(head)]
    /\ observed' = IF HasObservation(head) THEN observed \cup {c} ELSE observed \ {c}
    /\ UNCHANGED vars

(***************************************************************************)
(* classify_stop: a drive goes on after a step that released or retired    *)
(* the dispatch in hand, and stops at a failed load, an observation, an    *)
(* external resolution or a lease that cannot be had.                      *)
(***************************************************************************)
GoesOn(c) ==
    \/ ctl'[c].pc # "idle"
    \/ /\ ~At(c, "reserved") /\ ActiveRecords(ctl[c].run) # {}
       /\ Own(c) \in DOMAIN head'
       /\ head'[Own(c)].phase \in {"released", "completed"}

Advance(c) ==
    /\ c \in open
    /\ Step(c)
    /\ open' = IF GoesOn(c) THEN open ELSE open \ {c}
    /\ UNCHANGED <<scope, observed>>

\* The step limit of the drive is reached, or nothing is left to do.
Return(c) ==
    /\ c \in open /\ At(c, "idle")
    /\ open' = open \ {c}
    /\ UNCHANGED <<vars, scope, observed>>

CommandKill(c) ==
    /\ c \in open
    /\ Kill(c)
    /\ open' = open \ {c}
    /\ UNCHANGED <<scope, observed>>

CommandPowerLoss ==
    /\ PowerLoss
    /\ open' = {}
    /\ UNCHANGED <<scope, observed>>

CommandNext ==
    \/ \E c \in Controllers : Resume(c) \/ Advance(c) \/ Return(c) \/ CommandKill(c)
    \/ CommandPowerLoss

CommandSpec == CommandInit /\ [][CommandNext]_commandVars

(***************************************************************************)
(* Fairness: somebody resumes the run as long as it has work, and drivers  *)
(* return.  A command may end at any step limit, but a limit is at least   *)
(* one step (transaction_run_drive_policy::make), so commands that are run *)
(* again and again do advance: strong fairness of Advance.                 *)
(***************************************************************************)
FairCommandSpec ==
    CommandSpec
    /\ \A c \in Controllers : WF_commandVars(Resume(c)) /\ SF_commandVars(Advance(c))

-----------------------------------------------------------------------------
(***************************************************************************)
(* The processes about to be executed: a construction or check whose start *)
(* is committed, an operation whose effect is about to begin.              *)
(***************************************************************************)
Executing(c) ==
    IF At(c, "started") \/ (Driving(c) /\ Stage(c) \in {"admitted", "begun"})
    THEN KindsOf(Unit(c)) ELSE {}

(***************************************************************************)
(* "resume preflights them only for construction/check/lifecycle scopes    *)
(* that can still run ... already externally blocked durable states        *)
(* therefore reopen without proving capabilities for actuators they cannot *)
(* invoke" (DESIGN.md 463-468): whatever a command comes to execute, it    *)
(* has examined the backend for.                                           *)
(***************************************************************************)
ScopeCovers == \A c \in Controllers : Executing(c) \subseteq scope[c]

(***************************************************************************)
(* The same for every command that did not find an operation whose         *)
(* uncertain outcome was already observed: the scope computed from one     *)
(* look at the stores stays enough for every later step of the drive,      *)
(* through kills, power losses and the evidence other commands add.        *)
(***************************************************************************)
ScopeCoversFresh ==
    \A c \in Controllers \ observed : Executing(c) \subseteq scope[c]

=============================================================================
