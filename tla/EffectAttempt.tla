---------------------------- MODULE EffectAttempt ----------------------------
(***************************************************************************)
(* One durable effect attempt: an install, upgrade or removal driven       *)
(* through its lifecycle programs, the package application and the state   *)
(* publication by src/effect.cpp, journaled by src/effect_journal.cpp, and *)
(* resumed after a crash as src/effect_restart.cpp classifies it.          *)
(*                                                                         *)
(* Controllers are processes.  Each keeps the record it believes to be the *)
(* latest (view) and appends successors; the store accepts a record that   *)
(* follows its head, or that is its head already.  The package application *)
(* owner (libpkgapply), the canonical state store (libpkgstate) and the    *)
(* target lease are modelled from how this code uses them.                 *)
(***************************************************************************)
EXTENDS Integers, Sequences, SequencesExt

CONSTANTS
    Controllers,     \* processes that execute or resume the attempt
    BeforeTotal,     \* lifecycle programs before the application
    AfterTotal,      \* lifecycle programs after it
    Nobody,          \* no controller holds the target lease
    None,            \* the absent optional
    MaxCrashes,      \* bound: crashes of controllers
    MaxRevocations   \* bound: losses of a lease that is held

ASSUME EffectAssumption ==
    /\ BeforeTotal \in Nat /\ AfterTotal \in Nat
    /\ MaxCrashes \in Nat /\ MaxRevocations \in Nat
    /\ Nobody \notin Controllers

VARIABLES
    journal,      \* the store's latest record of the attempt, or None
    bodies,       \* evidence bodies retained durably, as the facts they prove
    owner,        \* libpkgapply's journal of the application
    canonical,    \* the canonical state: the expected prior, our result, or another
    lease,        \* holder of the target-mutation lease
    ctl,          \* [Controllers -> local state]
    crashes, revocations,
    begun, succeeded,   \* history: physical steps begun and known to succeed
    promoted            \* history: completed was sealed over a lease lost before its publication returned

vars == <<journal, bodies, owner, canonical, lease, ctl, crashes, revocations,
          begun, succeeded, promoted>>

Steps == BeforeTotal + AfterTotal + 2
ApplicationStep == BeforeTotal + 1

-----------------------------------------------------------------------------
(***************************************************************************)
(* Outcomes.                                                               *)
(***************************************************************************)
LifecycleResults == {"passed", "failed"}

ApplicationFailures ==
    {"precondition_refused", "failed_before_target_mutation", "failed_fully_recovered"}
ApplicationUnknown ==
    {"failed_with_partial_effects", "effects_visible_durability_unconfirmed", "indeterminate"}
ApplicationOutcomes == {"completed"} \cup ApplicationFailures \cup ApplicationUnknown

PublicationFailures == {"stale_expected_state", "request_rejected", "failed_before_publication"}
PublicationUnknown  == {"published_durability_unconfirmed", "indeterminate"}
PublicationOutcomes == {"published"} \cup PublicationFailures \cup PublicationUnknown

PublicationVerdict(outcome) ==
    CASE outcome = "published"           -> "completed"
      [] outcome \in PublicationUnknown  -> "state_publication_indeterminate"
      [] OTHER                           -> "state_publication_not_completed"

(***************************************************************************)
(* Journal records.  The record chain is linear and every record carries   *)
(* all facts so far, so equal content is equal identity.                   *)
(***************************************************************************)
Admitted ==
    [stage |-> "admitted", before |-> <<>>, application |-> None, after |-> <<>>,
     requested |-> FALSE, publication |-> None, outcome |-> None, reconciled |-> FALSE]

Intent(kind) ==
    CASE kind = "before"      -> "before_intent"
      [] kind = "application" -> "application_intent"
      [] kind = "after"       -> "after_intent"
      [] OTHER                -> "publication_intent"

BeginOf(record, kind) ==
    [record EXCEPT !.stage = Intent(kind), !.requested = @ \/ kind = "publication"]

\* The fact a returned call adds: complete_before, _application, _after, _publication.
CompleteOf(record, result) ==
    CASE record.stage = "before_intent" ->
            [record EXCEPT !.stage = "before_terminal", !.before = Append(@, result)]
      [] record.stage = "application_intent" ->
            [record EXCEPT !.stage = "application_terminal", !.application = result]
      [] record.stage = "after_intent" ->
            [record EXCEPT !.stage = "after_terminal", !.after = Append(@, result)]
      [] OTHER ->
            [record EXCEPT !.stage = "publication_terminal", !.publication = result]

SealOf(record, outcome, reconciled) ==
    [record EXCEPT !.stage = "terminal", !.outcome = outcome, !.reconciled = reconciled]

\* The body that proves the fact a call adds to a record.
BodyOf(record, result) ==
    <<record.stage,
      CASE record.stage = "before_intent" -> Len(record.before) + 1
        [] record.stage = "after_intent"  -> Len(record.after) + 1
        [] OTHER                          -> 0,
      result>>

RequestBody == <<"publication_request", 0, "request">>

\* The next call of the sequence, once every call so far returned and succeeded.
NextCall(record) ==
    IF record.application = None
    THEN IF Len(record.before) < BeforeTotal THEN "before" ELSE "application"
    ELSE IF Len(record.after) < AfterTotal THEN "after" ELSE "publication"

\* A slip in Disposition.
RetryUnfinished(record) ==
    CASE record.stage = "terminal"             -> "terminal"
      [] record.stage = "publication_intent"   -> "reconcile"
      [] record.stage = "application_intent"   -> "resume_application"
      [] record.stage = "publication_terminal" ->
            IF record.publication \in PublicationUnknown THEN "reconcile" ELSE "seal"
      [] record.stage = "application_terminal" ->
            IF record.application = "completed" THEN "continue" ELSE "seal"
      [] OTHER -> "continue"

(***************************************************************************)
(* assess_effect_restart, reduced to what the controller does next.        *)
(***************************************************************************)
Disposition(record) ==
    CASE record.stage = "terminal" -> "terminal"
      [] record.stage \in {"before_intent", "after_intent"} -> "external"
      [] record.stage = "before_terminal" ->
            IF Last(record.before) = "passed" THEN "continue" ELSE "seal"
      [] record.stage = "application_intent" -> "resume_application"
      [] record.stage = "application_terminal" ->
            CASE record.application = "completed"           -> "continue"
              [] record.application \in ApplicationFailures -> "seal"
              [] OTHER                                      -> "external"
      [] record.stage = "after_terminal" ->
            IF Last(record.after) = "passed" THEN "continue" ELSE "seal"
      [] record.stage = "publication_intent" -> "reconcile"
      [] record.stage = "publication_terminal" ->
            IF record.publication \in PublicationUnknown THEN "reconcile" ELSE "seal"
      [] OTHER -> "continue"

\* The outcome a record with definitive evidence is sealed with.
SealOutcome(record) ==
    CASE record.stage = "before_terminal"      -> "lifecycle_failed_before_application"
      [] record.stage = "application_terminal" -> "application_not_completed"
      [] record.stage = "after_terminal"       -> "lifecycle_failed_after_application"
      [] OTHER                                 -> PublicationVerdict(record.publication)

-----------------------------------------------------------------------------
(***************************************************************************)
(* Controllers.  pc names the point of the code a controller has reached:  *)
(*   loaded   a checkpoint was read; the lease is still to be acquired     *)
(*   enter    the lease is held; the checkpoint is to be compared again    *)
(*   check    about to test the lease before the next stage                *)
(*   request  about to retain the publication request                      *)
(*   intend   about to append the intent of the next call                  *)
(*   call     intent durable, about to call the authority                  *)
(*   applying the application owner is working                             *)
(*   retain   a result is in hand, its body is to be retained              *)
(*   record   the terminal fact is to be appended                          *)
(*   confirm  about to test the lease after the publication                *)
(*   reread   about to read the canonical state (reconciliation)           *)
(*   seal     about to append the terminal record                          *)
(***************************************************************************)
Resting == [pc |-> "idle", view |-> None, result |-> None, seal |-> None,
            reconciled |-> FALSE, reconciling |-> FALSE, lostFirst |-> FALSE]

At(p, pc) == ctl[p].pc = pc

Held(p) == lease = p

Goto(p, pc) == ctl' = [ctl EXCEPT ![p].pc = pc]

\* A slip in Leave.
LeaveLeakingLease(p) ==
    /\ ctl' = [ctl EXCEPT ![p] = Resting]
    /\ lease' = lease

\* A return or an exception: the process ends and its lease with it.
Leave(p) ==
    /\ ctl' = [ctl EXCEPT ![p] = Resting]
    /\ lease' = IF Held(p) THEN Nobody ELSE lease

Unaffected == UNCHANGED <<owner, canonical, begun, succeeded>>
Uncounted  == UNCHANGED <<crashes, revocations, promoted>>

\* A slip in Acceptable.
AnyRecord(p, record) == TRUE

(***************************************************************************)
(* append: a successor of the head replaces it, the head itself is         *)
(* accepted again, anything else is a store conflict.                      *)
(***************************************************************************)
Acceptable(p, record) == journal \in {ctl[p].view, record}

Start(p) ==
    /\ At(p, "idle") /\ journal = None /\ lease = Nobody
    /\ lease' = p
    /\ journal' = Admitted
    /\ ctl' = [ctl EXCEPT ![p] = [Resting EXCEPT !.pc = "check", !.view = Admitted]]
    /\ UNCHANGED bodies /\ Unaffected /\ Uncounted

(***************************************************************************)
(* Restart: read a checkpoint, acquire the lease if the work left needs    *)
(* it, and compare the checkpoint with the latest record again.            *)
(***************************************************************************)
NeedsLease(record) == Disposition(record) \in {"continue", "resume_application", "reconcile"}

Load(p) ==
    /\ At(p, "idle") /\ journal # None
    /\ Disposition(journal) \notin {"terminal", "external"}
    /\ ctl' = [ctl EXCEPT ![p] = [Resting EXCEPT
                  !.pc = IF NeedsLease(journal) THEN "loaded" ELSE "enter", !.view = journal]]
    /\ UNCHANGED <<journal, bodies, lease>> /\ Unaffected /\ Uncounted

Acquire(p) ==
    /\ At(p, "loaded") /\ lease = Nobody
    /\ lease' = p
    /\ Goto(p, "enter")
    /\ UNCHANGED <<journal, bodies>> /\ Unaffected /\ Uncounted

\* Contention returns mutation_authority_unavailable: nothing moves.
GiveUp(p) ==
    /\ At(p, "loaded") /\ lease # Nobody
    /\ Leave(p)
    /\ UNCHANGED <<journal, bodies>> /\ Unaffected /\ Uncounted

Current(p) == journal = ctl[p].view /\ (NeedsLease(ctl[p].view) => Held(p))

EnterSeal(p) ==
    /\ At(p, "enter") /\ Current(p)
    /\ Disposition(ctl[p].view) = "seal"
    /\ ctl' = [ctl EXCEPT ![p].pc = "seal", ![p].seal = SealOutcome(ctl[p].view)]
    /\ UNCHANGED <<journal, bodies, lease>> /\ Unaffected /\ Uncounted

EnterContinue(p) ==
    /\ At(p, "enter") /\ Current(p)
    /\ Disposition(ctl[p].view) = "continue"
    /\ Goto(p, "check")
    /\ UNCHANGED <<journal, bodies, lease>> /\ Unaffected /\ Uncounted

EnterReconcile(p) ==
    /\ At(p, "enter") /\ Current(p)
    /\ Disposition(ctl[p].view) = "reconcile"
    /\ ctl' = [ctl EXCEPT ![p].pc = "reread", ![p].reconciling = TRUE]
    /\ UNCHANGED <<journal, bodies, lease>> /\ Unaffected /\ Uncounted

\* An application the owner left open is resumed after a lease check; one it
\* finished is taken from its retained receipt.
EnterApplication(p) ==
    /\ At(p, "enter") /\ Current(p)
    /\ Disposition(ctl[p].view) = "resume_application"
    /\ \/ owner = "open" /\ Goto(p, "check")
       \/ /\ BodyOf(ctl[p].view, owner) \in bodies
          /\ ctl' = [ctl EXCEPT ![p].pc = "record", ![p].result = owner]
    /\ UNCHANGED <<journal, bodies, lease>> /\ Unaffected /\ Uncounted

\* No declaration, no receipt, or an owner that asks for help: external resolution.
ApplicationUnresolved(record) ==
    /\ record.stage = "application_intent"
    /\ owner # "open"
    /\ BodyOf(record, owner) \notin bodies

\* A stale checkpoint, a lost lease, or an application only the owner can resolve.
EnterRefused(p) ==
    /\ At(p, "enter")
    /\ ~Current(p) \/ ApplicationUnresolved(ctl[p].view)
    /\ Leave(p)
    /\ UNCHANGED <<journal, bodies>> /\ Unaffected /\ Uncounted

-----------------------------------------------------------------------------
(***************************************************************************)
(* The stages.                                                             *)
(***************************************************************************)
LeaseHeld(p) ==
    /\ At(p, "check") /\ Held(p)
    /\ Goto(p, CASE ctl[p].view.stage = "application_intent"   -> "applying"
                 [] NextCall(ctl[p].view) = "publication"      -> "request"
                 [] OTHER                                      -> "intend")
    /\ UNCHANGED <<journal, bodies, lease>> /\ Unaffected /\ Uncounted

\* Loss is sealed, except over an application whose end is unknown: there the
\* journal refuses the seal and the process ends.
LeaseLost(p) ==
    /\ At(p, "check") /\ ~Held(p)
    /\ IF ctl[p].view.stage = "application_intent"
       THEN Leave(p)
       ELSE /\ ctl' = [ctl EXCEPT ![p].pc = "seal", ![p].seal = "outer_lease_lost"]
            /\ UNCHANGED lease
    /\ UNCHANGED <<journal, bodies>> /\ Unaffected /\ Uncounted

RetainRequest(p) ==
    /\ At(p, "request")
    /\ bodies' = bodies \cup {RequestBody}
    /\ Goto(p, "intend")
    /\ UNCHANGED <<journal, lease>> /\ Unaffected /\ Uncounted

Intend(p) ==
    /\ At(p, "intend")
    /\ LET next == BeginOf(ctl[p].view, NextCall(ctl[p].view)) IN
         /\ Acceptable(p, next)
         /\ journal' = next
         /\ ctl' = [ctl EXCEPT ![p].pc = "call", ![p].view = next]
    /\ UNCHANGED <<bodies, lease>> /\ Unaffected /\ Uncounted

\* The authorities.  A lifecycle program runs and reports; whatever it does, it
\* has been begun.
CallLifecycle(p, result) ==
    /\ At(p, "call") /\ ctl[p].view.stage \in {"before_intent", "after_intent"}
    /\ begun' = begun + 1
    /\ succeeded' = IF result = "passed" THEN succeeded + 1 ELSE succeeded
    /\ ctl' = [ctl EXCEPT ![p].pc = "retain", ![p].result = result]
    /\ UNCHANGED <<journal, bodies, owner, canonical, lease>> /\ Uncounted

\* libpkgapply opens its own journal before it touches the target.
CallApplication(p) ==
    /\ At(p, "call") /\ ctl[p].view.stage = "application_intent"
    /\ owner' = "open"
    /\ begun' = begun + 1
    /\ Goto(p, "applying")
    /\ UNCHANGED <<journal, bodies, canonical, lease, succeeded>> /\ Uncounted

\* It may refuse without having opened one.
ApplicationRefused(p) ==
    /\ At(p, "call") /\ ctl[p].view.stage = "application_intent"
    /\ ctl' = [ctl EXCEPT ![p].pc = "retain", ![p].result = "precondition_refused"]
    /\ UNCHANGED <<journal, bodies, lease>> /\ Unaffected /\ Uncounted

ApplicationReturns(p, outcome) ==
    /\ At(p, "applying")
    /\ owner' = outcome
    /\ succeeded' = IF outcome = "completed" THEN ApplicationStep ELSE succeeded
    /\ ctl' = [ctl EXCEPT ![p].pc = "retain", ![p].result = outcome]
    /\ UNCHANGED <<journal, bodies, canonical, lease, begun>> /\ Uncounted

\* compare_and_publish: only the expected prior state is replaced.
Outcomes(changes) ==
    IF canonical # "prior" THEN {"stale_expected_state"}
    ELSE IF changes THEN {"published"} \cup PublicationUnknown
    ELSE {"request_rejected", "failed_before_publication", "indeterminate"}

CallPublication(p, changes, outcome) ==
    /\ At(p, "call") /\ ctl[p].view.stage = "publication_intent"
    /\ changes => canonical = "prior"
    /\ outcome \in Outcomes(changes)
    /\ canonical' = IF changes THEN "resulting" ELSE canonical
    /\ begun' = IF changes THEN begun + 1 ELSE begun
    /\ succeeded' = IF changes THEN succeeded + 1 ELSE succeeded
    /\ ctl' = [ctl EXCEPT ![p].pc = "retain", ![p].result = outcome,
                          ![p].lostFirst = ~Held(p)]
    /\ UNCHANGED <<journal, bodies, owner, lease>> /\ Uncounted

\* A slip in RetainBody.
RecordUnretained(p) ==
    /\ At(p, "retain") /\ ctl[p].result # "stale_expected_state"
    /\ Goto(p, "record")
    /\ UNCHANGED <<journal, bodies, lease>> /\ Unaffected /\ Uncounted

(***************************************************************************)
(* The body is retained before the journal names it.  The command's body   *)
(* store refuses a receipt whose actual prior state was not the expected   *)
(* one, so a stale publication ends the process here.                      *)
(***************************************************************************)
RetainBody(p) ==
    /\ At(p, "retain") /\ ctl[p].result # "stale_expected_state"
    /\ bodies' = bodies \cup {BodyOf(ctl[p].view, ctl[p].result)}
    /\ Goto(p, "record")
    /\ UNCHANGED <<journal, lease>> /\ Unaffected /\ Uncounted

RetainRefused(p) ==
    /\ At(p, "retain") /\ ctl[p].result = "stale_expected_state"
    /\ Leave(p)
    /\ UNCHANGED <<journal, bodies>> /\ Unaffected /\ Uncounted

\* After a fact: seal a definitive failure, return on an unknown one, test the
\* lease again after a publication (a reconciling controller does not), go on
\* otherwise.
RecordFact(p) ==
    /\ At(p, "record")
    /\ LET next == CompleteOf(ctl[p].view, ctl[p].result) IN
         /\ Acceptable(p, next)
         /\ journal' = next
         /\ CASE next.stage = "publication_terminal" /\ ~ctl[p].reconciling ->
                    /\ ctl' = [ctl EXCEPT ![p].pc = "confirm", ![p].view = next]
                    /\ UNCHANGED lease
              [] Disposition(next) = "seal" /\
                    (next.stage = "publication_terminal" => ctl[p].reconciling) ->
                    /\ ctl' = [ctl EXCEPT ![p].pc = "seal", ![p].view = next,
                                          ![p].seal = SealOutcome(next)]
                    /\ UNCHANGED lease
              [] Disposition(next) = "continue" ->
                    /\ ctl' = [ctl EXCEPT ![p].pc = "check", ![p].view = next]
                    /\ UNCHANGED lease
              [] OTHER -> Leave(p)
    /\ UNCHANGED bodies /\ Unaffected /\ Uncounted

Confirm(p) ==
    /\ At(p, "confirm")
    /\ LET verdict == PublicationVerdict(ctl[p].view.publication) IN
         CASE ~Held(p) ->
                /\ ctl' = [ctl EXCEPT ![p].pc = "seal", ![p].seal = "outer_lease_lost"]
                /\ UNCHANGED lease
           [] Held(p) /\ verdict = "state_publication_indeterminate" -> Leave(p)
           [] OTHER ->
                /\ ctl' = [ctl EXCEPT ![p].pc = "seal", ![p].seal = verdict]
                /\ UNCHANGED lease
    /\ UNCHANGED <<journal, bodies>> /\ Unaffected /\ Uncounted

\* Reconciliation: the result is there, or the prior state is and nothing was
\* answered yet, or only someone else can tell.
Reread(p) ==
    /\ At(p, "reread")
    /\ CASE canonical = "resulting" ->
              /\ ctl' = [ctl EXCEPT ![p].pc = "seal", ![p].seal = "completed", ![p].reconciled = TRUE]
              /\ UNCHANGED lease
         [] canonical = "prior" /\ ctl[p].view.stage = "publication_intent" ->
              /\ Goto(p, "call")
              /\ UNCHANGED lease
         [] OTHER -> Leave(p)
    /\ UNCHANGED <<journal, bodies>> /\ Unaffected /\ Uncounted

Seal(p) ==
    /\ At(p, "seal")
    /\ LET next == SealOf(ctl[p].view, ctl[p].seal, ctl[p].reconciled) IN
         /\ Acceptable(p, next)
         /\ journal' = next
    /\ promoted' = (promoted \/ (ctl[p].seal = "completed" /\ ctl[p].lostFirst))
    /\ Leave(p)
    /\ UNCHANGED <<bodies, crashes, revocations>> /\ Unaffected

\* A store conflict: someone else appended another successor.
Conflict(p) ==
    /\ \/ At(p, "intend") /\ ~Acceptable(p, BeginOf(ctl[p].view, NextCall(ctl[p].view)))
       \/ At(p, "record") /\ ~Acceptable(p, CompleteOf(ctl[p].view, ctl[p].result))
       \/ At(p, "seal")   /\ ~Acceptable(p, SealOf(ctl[p].view, ctl[p].seal, ctl[p].reconciled))
    /\ Leave(p)
    /\ UNCHANGED <<journal, bodies>> /\ Unaffected /\ Uncounted

-----------------------------------------------------------------------------
(***************************************************************************)
(* The environment.                                                        *)
(***************************************************************************)
Crash(p) ==
    /\ ~At(p, "idle") /\ crashes < MaxCrashes
    /\ crashes' = crashes + 1
    /\ Leave(p)
    /\ UNCHANGED <<journal, bodies, revocations, promoted>> /\ Unaffected

\* The lease is gone but its holder runs on.
Revoke ==
    /\ lease # Nobody /\ revocations < MaxRevocations
    /\ revocations' = revocations + 1
    /\ lease' = Nobody
    /\ UNCHANGED <<journal, bodies, ctl, crashes, promoted>> /\ Unaffected

\* Another transaction takes the free lease, publishes, and returns it.
OtherPublishes ==
    /\ lease = Nobody /\ canonical # "other"
    /\ canonical' = "other"
    /\ UNCHANGED <<journal, bodies, owner, lease, ctl, begun, succeeded>> /\ Uncounted

Init ==
    /\ journal = None
    /\ bodies = {}
    /\ owner = "absent"
    /\ canonical = "prior"
    /\ lease = Nobody
    /\ ctl = [p \in Controllers |-> Resting]
    /\ crashes = 0 /\ revocations = 0
    /\ begun = 0 /\ succeeded = 0
    /\ promoted = FALSE

Work(p) ==
    \/ Acquire(p) \/ GiveUp(p)
    \/ EnterSeal(p) \/ EnterContinue(p) \/ EnterReconcile(p) \/ EnterApplication(p) \/ EnterRefused(p)
    \/ LeaseHeld(p) \/ LeaseLost(p) \/ RetainRequest(p) \/ Intend(p)
    \/ \E result \in LifecycleResults : CallLifecycle(p, result)
    \/ CallApplication(p) \/ ApplicationRefused(p)
    \/ \E outcome \in ApplicationOutcomes : ApplicationReturns(p, outcome)
    \/ \E changes \in BOOLEAN, outcome \in PublicationOutcomes : CallPublication(p, changes, outcome)
    \/ RetainBody(p) \/ RetainRefused(p) \/ RecordFact(p)
    \/ Confirm(p) \/ Reread(p) \/ Seal(p) \/ Conflict(p)

Next ==
    \/ \E p \in Controllers : Start(p) \/ Load(p) \/ Work(p) \/ Crash(p)
    \/ Revoke
    \/ OtherPublishes

Spec == Init /\ [][Next]_vars

(***************************************************************************)
(* Fairness: a process runs on until it returns, and someone resumes an    *)
(* attempt that is not finished.  Crashes, revocations and other           *)
(* transactions are never forced.                                          *)
(***************************************************************************)
Fairness ==
    \A p \in Controllers :
        /\ WF_vars(Start(p) \/ Load(p))
        /\ WF_vars(Work(p))

FairSpec == Spec /\ Fairness

-----------------------------------------------------------------------------
Points == {"idle", "loaded", "enter", "check", "request", "intend", "call", "applying",
           "retain", "record", "confirm", "reread", "seal"}

Verdicts == {"completed", "outer_lease_lost", "lifecycle_failed_before_application",
             "application_not_completed", "lifecycle_failed_after_application",
             "state_publication_not_completed"}

Stages == {"admitted", "before_intent", "before_terminal", "application_intent",
           "application_terminal", "after_intent", "after_terminal",
           "publication_intent", "publication_terminal", "terminal"}

Records ==
    [stage : Stages, before : Seq(LifecycleResults),
     application : ApplicationOutcomes \cup {None}, after : Seq(LifecycleResults),
     requested : BOOLEAN, publication : PublicationOutcomes \cup {None},
     outcome : Verdicts \cup {None}, reconciled : BOOLEAN]

\* The absent optional is none of the values it stands beside.
ASSUME NoneAssumption ==
    None \notin LifecycleResults \cup ApplicationOutcomes \cup PublicationOutcomes
               \cup Verdicts \cup Records

\* Programs run in order and only a last one may have failed.
Phase(results, total) ==
    /\ results \in Seq(LifecycleResults) /\ Len(results) <= total
    /\ \A i \in DOMAIN results : i < Len(results) => results[i] = "passed"

Passed(results, total) == Len(results) = total /\ \A i \in DOMAIN results : results[i] = "passed"

(***************************************************************************)
(* The shape the journal asks of a record (validate_record_shape): facts   *)
(* come in sequence order, each on top of a complete and successful        *)
(* earlier phase, and the stage agrees with the facts.                     *)
(***************************************************************************)
RecordShape(r) ==
    /\ r.stage \in Stages
    /\ Phase(r.before, BeforeTotal) /\ Phase(r.after, AfterTotal)
    /\ r.application \in ApplicationOutcomes \cup {None}
    /\ r.publication \in PublicationOutcomes \cup {None}
    /\ r.outcome \in Verdicts \cup {None}
    /\ r.outcome # None <=> r.stage = "terminal"
    /\ r.stage = "before_intent"      => Len(r.before) < BeforeTotal /\ r.application = None
    /\ r.stage = "before_terminal"    => Len(r.before) > 0 /\ r.application = None
    /\ r.stage = "application_intent" => Passed(r.before, BeforeTotal) /\ r.application = None
    /\ r.application # None           => Passed(r.before, BeforeTotal)
    /\ r.after # <<>> \/ r.stage = "after_intent" => r.application = "completed"
    /\ r.requested => r.application = "completed" /\ Passed(r.after, AfterTotal)
    /\ r.stage \in {"publication_intent", "publication_terminal"} => r.requested
    /\ r.publication # None           => r.requested
    /\ r.outcome = "completed"        => r.publication = "published" \/ r.reconciled
    /\ r.reconciled                   => r.requested /\ r.outcome = "completed"

TypeOK ==
    /\ journal # None => RecordShape(journal)
    /\ bodies \subseteq Stages \X (0..(BeforeTotal + AfterTotal))
                         \X (LifecycleResults \cup ApplicationOutcomes \cup PublicationOutcomes)
                       \cup {RequestBody}
    /\ owner \in {"absent", "open"} \cup ApplicationOutcomes
    /\ canonical \in {"prior", "resulting", "other"}
    /\ lease \in Controllers \cup {Nobody}
    /\ \A p \in Controllers :
         /\ ctl[p].pc \in Points
         /\ ~At(p, "idle") => RecordShape(ctl[p].view)
         /\ At(p, "seal") => ctl[p].seal \in Verdicts
    /\ crashes \in 0..MaxCrashes /\ revocations \in 0..MaxRevocations
    /\ begun \in Nat /\ succeeded \in Nat

(***************************************************************************)
(* Evidence before reference: whatever the journal names can be loaded     *)
(* again after a crash, since its body was made durable before the record  *)
(* that names it (effect.cpp retains, then appends).                       *)
(***************************************************************************)
BodiesCoverJournal ==
    journal # None =>
      /\ \A i \in DOMAIN journal.before : <<"before_intent", i, journal.before[i]>> \in bodies
      /\ \A i \in DOMAIN journal.after  : <<"after_intent", i, journal.after[i]>> \in bodies
      /\ journal.application # None =>
            <<"application_intent", 0, journal.application>> \in bodies
      /\ journal.publication # None =>
            <<"publication_intent", 0, journal.publication>> \in bodies
      /\ journal.requested => RequestBody \in bodies

(***************************************************************************)
(* The journal is a log: whoever appends, even a controller that lost its  *)
(* lease, no fact another process relied on is dropped or rewritten, and   *)
(* nothing follows a terminal record.                                      *)
(***************************************************************************)
JournalMonotone ==
    [][journal # None =>
         /\ journal' # None
         /\ IsPrefix(journal.before, journal'.before)
         /\ IsPrefix(journal.after, journal'.after)
         /\ journal.application # None => journal'.application = journal.application
         /\ journal.publication # None => journal'.publication = journal.publication
         /\ journal.requested => journal'.requested
         /\ journal.stage = "terminal" => journal' = journal]_vars

(***************************************************************************)
(* The attempt implements the operation contract: across crashes, restarts *)
(* and lost leases no lifecycle program, application or publication is     *)
(* begun twice or out of order, and the sealed verdict is honest about     *)
(* whether the state was published (README: completed effects are not      *)
(* repeated).                                                              *)
(***************************************************************************)
Verdict ==
    IF journal = None \/ journal.stage # "terminal" THEN "open"
    ELSE CASE journal.outcome = "completed"        -> "completed"
           [] journal.outcome = "outer_lease_lost" -> "lost"
           [] OTHER                                -> "failed"

Contract == INSTANCE OperationContract WITH verdict <- Verdict

ImplementsContract == Contract!Spec

(***************************************************************************)
(* Several processes that resume one attempt keep the contract together,   *)
(* as long as the lease is not lost under its holder: intents are no       *)
(* mutual exclusion, the lease is.                                         *)
(***************************************************************************)
ContractUntilRevoked ==
    Contract!Init /\ [][revocations' = 0 => Contract!Next]_<<begun, succeeded, Verdict>>

(***************************************************************************)
(* Every attempt resolves: it is sealed, or it rests where the code says   *)
(* that only external resolution can tell what happened, and no controller *)
(* keeps the lease.                                                        *)
(***************************************************************************)
PublicationUnresolved(record) ==
    /\ Disposition(record) = "reconcile"
    /\ canonical # "resulting"
    /\ canonical = "prior" => record.stage = "publication_terminal"

NeedsResolution(record) ==
    \/ Disposition(record) = "external"
    \/ ApplicationUnresolved(record)
    \/ PublicationUnresolved(record)

Resolves ==
    <>[](journal # None /\ (journal.stage = "terminal" \/ NeedsResolution(journal)))

(***************************************************************************)
(* DESIGN.md 2362-2366 says that the controller checks the lease before    *)
(* every stage and again after publication and does not silently promote a *)
(* publication completed after lease loss.                                 *)
(***************************************************************************)
LeaseLossNotPromoted == ~promoted

=============================================================================
