------------------------ MODULE EffectAttemptProofs -------------------------
(***************************************************************************)
(* Proofs about an effect attempt, for every number of lifecycle programs, *)
(* controllers, crashes and revocations.                                   *)
(*                                                                         *)
(* Facts about records and the stages controllers have reached hold        *)
(* whatever happens to the lease.  The contract needs controllers that do  *)
(* not overlap: there is only one, or no lease was revoked under its       *)
(* holder.  Then whoever has entered the attempt believes what the journal *)
(* says, and the journal, the owner and the canonical state together tell  *)
(* how many physical steps were begun and succeeded.                       *)
(***************************************************************************)
EXTENDS EffectAttempt, SequenceTheorems, TLAPS

Results == LifecycleResults \cup ApplicationOutcomes \cup PublicationOutcomes

LocalStates ==
    [pc : Points, view : Records \cup {None}, result : Results \cup {None},
     seal : Verdicts \cup {None}, reconciled : BOOLEAN, reconciling : BOOLEAN,
     lostFirst : BOOLEAN]

AllPassed(results) == \A i \in DOMAIN results : results[i] = "passed"

(***************************************************************************)
(* A record holds just the facts its stage says it has.                    *)
(***************************************************************************)
Bare(r) == r.application = None /\ r.after = <<>> /\ ~r.requested /\ r.publication = None

Applied(r) == Passed(r.before, BeforeTotal) /\ r.application = "completed"

Staged(r) ==
    /\ r.stage # "terminal" => r.outcome = None /\ ~r.reconciled
    /\ r.stage = "admitted" => Bare(r) /\ r.before = <<>>
    /\ r.stage = "before_intent" =>
         Bare(r) /\ AllPassed(r.before) /\ Len(r.before) < BeforeTotal
    /\ r.stage = "before_terminal" => Bare(r) /\ Len(r.before) > 0
    /\ r.stage = "application_intent" => Bare(r) /\ Passed(r.before, BeforeTotal)
    /\ r.stage = "application_terminal" =>
         /\ Passed(r.before, BeforeTotal) /\ r.application # None
         /\ r.after = <<>> /\ ~r.requested /\ r.publication = None
    /\ r.stage = "after_intent" =>
         /\ Applied(r) /\ AllPassed(r.after) /\ Len(r.after) < AfterTotal
         /\ ~r.requested /\ r.publication = None
    /\ r.stage = "after_terminal" =>
         Applied(r) /\ Len(r.after) > 0 /\ ~r.requested /\ r.publication = None
    /\ r.stage = "publication_intent" =>
         Applied(r) /\ Passed(r.after, AfterTotal) /\ r.requested /\ r.publication = None
    /\ r.stage = "publication_terminal" =>
         Applied(r) /\ Passed(r.after, AfterTotal) /\ r.requested /\ r.publication # None

Valid(r) == r \in Records /\ RecordShape(r) /\ Staged(r)

ResultsAt(stage) ==
    CASE stage \in {"before_intent", "after_intent"} -> LifecycleResults
      [] stage = "application_intent"                -> ApplicationOutcomes
      [] OTHER                                       -> PublicationOutcomes

IntentStages == {"before_intent", "application_intent", "after_intent", "publication_intent"}

\* The view alone tells the verdict, or the lease was lost, or the result is there.
SealKnown(p) ==
    \/ /\ Disposition(ctl[p].view) = "seal" /\ ~ctl[p].reconciled
       /\ ctl[p].seal = SealOutcome(ctl[p].view)
    \/ ctl[p].seal = "outer_lease_lost" /\ ~ctl[p].reconciled
    \/ ctl[p].seal = "completed" /\ ctl[p].reconciled /\ ctl[p].view.requested

\* What a controller believes at each point it can reach.
Knows(p) ==
    /\ ~At(p, "idle") => Valid(ctl[p].view) /\ ctl[p].view.stage # "terminal"
    /\ At(p, "loaded") => NeedsLease(ctl[p].view)
    /\ At(p, "enter") => NeedsLease(ctl[p].view) \/ Disposition(ctl[p].view) = "seal"
    /\ At(p, "check") =>
         Disposition(ctl[p].view) = "continue" \/ ctl[p].view.stage = "application_intent"
    /\ At(p, "request") =>
         Disposition(ctl[p].view) = "continue" /\ NextCall(ctl[p].view) = "publication"
    /\ At(p, "intend") =>
         /\ Disposition(ctl[p].view) = "continue"
         /\ NextCall(ctl[p].view) = "publication" => RequestBody \in bodies
    /\ At(p, "call") => ctl[p].view.stage \in IntentStages
    /\ At(p, "applying") => ctl[p].view.stage = "application_intent"
    /\ ctl[p].pc \in {"retain", "record"} =>
         /\ ctl[p].view.stage \in IntentStages
         /\ ctl[p].result \in ResultsAt(ctl[p].view.stage)
    /\ At(p, "record") => BodyOf(ctl[p].view, ctl[p].result) \in bodies
    /\ At(p, "confirm") => ctl[p].view.stage = "publication_terminal"
    /\ At(p, "reread") => Disposition(ctl[p].view) = "reconcile"
    /\ At(p, "seal") => SealKnown(p)
    /\ ~At(p, "seal") => ~ctl[p].reconciled

\* What the types say of everything but the records and the controllers.
Scalars ==
    /\ bodies \subseteq Stages \X (0..(BeforeTotal + AfterTotal)) \X Results \cup {RequestBody}
    /\ owner \in {"absent", "open"} \cup ApplicationOutcomes
    /\ canonical \in {"prior", "resulting", "other"}
    /\ lease \in Controllers \cup {Nobody}
    /\ crashes \in 0..MaxCrashes /\ revocations \in 0..MaxRevocations
    /\ begun \in Nat /\ succeeded \in Nat

\* The body of every fact of r is retained.
Covered(r) ==
    /\ \A i \in DOMAIN r.before : <<"before_intent", i, r.before[i]>> \in bodies
    /\ \A i \in DOMAIN r.after  : <<"after_intent", i, r.after[i]>> \in bodies
    /\ r.application # None => <<"application_intent", 0, r.application>> \in bodies
    /\ r.publication # None => <<"publication_intent", 0, r.publication>> \in bodies
    /\ r.requested => RequestBody \in bodies

JInv ==
    /\ Scalars
    /\ journal # None => Valid(journal) /\ Covered(journal)
    /\ ctl \in [Controllers -> LocalStates]
    /\ \A p \in Controllers : Knows(p)

-----------------------------------------------------------------------------
(***************************************************************************)
(* What the contract needs.                                                *)
(***************************************************************************)

\* Controllers cannot overlap.
Alone == revocations = 0 \/ \E k : Controllers = {k}

\* p has entered the attempt and may take its physical steps.
Inside(p) == ctl[p].pc \in {"check", "request", "intend", "call", "applying", "retain",
                            "record", "confirm", "reread"}

Engaged(p) ==
    Inside(p) \/ (At(p, "enter") /\ NeedsLease(ctl[p].view)) \/ ctl[p].reconciled

Sealed(r) == SealOf(r, SealOutcome(r), FALSE)

\* How many physical steps a record without open call tells of.
DoneBefore(r) == Len(r.before)
DoneAfter(r) == ApplicationStep + Len(r.after)

\* The journal, the owner and the canonical state count the physical steps.
Counted(r) ==
    /\ r.stage \in {"admitted", "before_intent", "before_terminal"} => owner = "absent"
    /\ ~r.requested => canonical # "resulting"
    /\ r.stage = "admitted" => begun = 0 /\ succeeded = 0
    /\ r.stage = "before_intent" => begun \in {DoneBefore(r), DoneBefore(r) + 1}
    /\ r.stage = "before_terminal" =>
         begun = DoneBefore(r) /\ (Last(r.before) = "passed" => succeeded = begun)
    /\ r.stage = "application_intent" =>
         /\ begun = IF owner = "absent" THEN BeforeTotal ELSE ApplicationStep
         /\ succeeded = IF owner = "completed" THEN ApplicationStep ELSE BeforeTotal
    /\ r.stage = "application_terminal" =>
         /\ begun <= ApplicationStep
         /\ r.application = "completed" => begun = ApplicationStep /\ succeeded = begun
    /\ r.stage = "after_intent" => begun \in {DoneAfter(r), DoneAfter(r) + 1}
    /\ r.stage = "after_terminal" =>
         begun = DoneAfter(r) /\ (Last(r.after) = "passed" => succeeded = begun)
    /\ r.stage \in {"publication_intent", "publication_terminal"} =>
         /\ begun \in {Steps - 1, Steps} /\ succeeded = begun
         /\ canonical = "prior" => begun = Steps - 1
         /\ canonical = "resulting" => begun = Steps
         /\ r.publication = "published" => begun = Steps
         /\ r.publication \in PublicationFailures => begun = Steps - 1

\* What a controller inside the attempt adds to that.
Step(p) ==
    /\ Inside(p) =>
         \/ journal = ctl[p].view
         \/ At(p, "confirm") /\ journal = Sealed(ctl[p].view)
    /\ At(p, "call") =>
         /\ ctl[p].view.stage = "before_intent" =>
              begun = DoneBefore(ctl[p].view) /\ succeeded = begun
         /\ ctl[p].view.stage = "application_intent" => owner = "absent"
         /\ ctl[p].view.stage = "after_intent" =>
              begun = DoneAfter(ctl[p].view) /\ succeeded = begun
    /\ At(p, "applying") => owner = "open"
    /\ At(p, "check") /\ ctl[p].view.stage = "application_intent" => owner = "open"
    /\ ctl[p].pc \in {"retain", "record"} =>
         /\ ctl[p].view.stage = "before_intent" =>
              /\ begun = DoneBefore(ctl[p].view) + 1
              /\ ctl[p].result = "passed" => succeeded = begun
         /\ ctl[p].view.stage = "application_intent" =>
              owner = ctl[p].result \/ (owner = "absent" /\ ctl[p].result # "completed")
         /\ ctl[p].view.stage = "after_intent" =>
              /\ begun = DoneAfter(ctl[p].view) + 1
              /\ ctl[p].result = "passed" => succeeded = begun
         /\ ctl[p].view.stage = "publication_intent" =>
              /\ ctl[p].result = "published" => begun = Steps
              /\ ctl[p].result \in PublicationFailures /\ ctl[p].result # "stale_expected_state"
                   => begun = Steps - 1
    /\ At(p, "record") => ctl[p].result # "stale_expected_state"
    /\ ctl[p].reconciled => begun = Steps /\ succeeded = Steps
    /\ revocations = 0 => (Engaged(p) => Held(p))
    /\ revocations = 0 /\ At(p, "seal") => ctl[p].seal # "outer_lease_lost"

Counts ==
    /\ journal = None =>
         /\ begun = 0 /\ succeeded = 0 /\ owner = "absent" /\ canonical # "resulting"
         /\ \A p \in Controllers : At(p, "idle")
    /\ journal # None /\ journal.stage # "terminal" => Counted(journal)

Accounts == Counts /\ \A p \in Controllers : Step(p)

CInv == Alone => Accounts

-----------------------------------------------------------------------------
(***************************************************************************)
(* Results of lifecycle programs.                                          *)
(***************************************************************************)

\* One more result at the end of a sequence of results.
LEMMA AppendFacts ==
    ASSUME NEW s \in Seq(LifecycleResults), NEW x \in LifecycleResults
    PROVE  /\ Append(s, x) \in Seq(LifecycleResults)
           /\ Len(s) \in Nat /\ Len(Append(s, x)) = Len(s) + 1
           /\ DOMAIN s = 1..Len(s) /\ DOMAIN Append(s, x) = 1..(Len(s) + 1)
           /\ \A i \in 1..Len(s) : Append(s, x)[i] = s[i]
           /\ Append(s, x)[Len(s) + 1] = x /\ Last(Append(s, x)) = x
           /\ IsPrefix(s, Append(s, x)) /\ IsPrefix(s, s)
           /\ Append(s, x) # <<>>
<1>1. /\ Append(s, x) \in Seq(LifecycleResults)
      /\ Len(s) \in Nat /\ Len(Append(s, x)) = Len(s) + 1
      /\ DOMAIN s = 1..Len(s) /\ DOMAIN Append(s, x) = 1..(Len(s) + 1)
      /\ \A i \in 1..Len(s) : Append(s, x)[i] = s[i]
      /\ Append(s, x)[Len(s) + 1] = x
  BY AppendProperties, LenProperties
<1>2. Last(Append(s, x)) = x
  BY <1>1 DEF Last
<1>3. SubSeq(s, 1, Len(s)) = SubSeq(Append(s, x), 1, Len(s))
  BY <1>1
<1>4. IsPrefix(s, Append(s, x)) /\ IsPrefix(s, s)
  BY <1>1, <1>3 DEF IsPrefix
<1>5. Append(s, x) # <<>>
  BY <1>1
<1> QED
  BY <1>1, <1>2, <1>4, <1>5

\* Results that have all passed may be followed by one more.
LEMMA PhaseGrows ==
    ASSUME NEW s, NEW total \in Nat, Phase(s, total), AllPassed(s), Len(s) < total,
           NEW x \in LifecycleResults
    PROVE  /\ Phase(Append(s, x), total)
           /\ x = "passed" => AllPassed(Append(s, x))
<1>1. s \in Seq(LifecycleResults)
  BY DEF Phase
<1>2. /\ Append(s, x) \in Seq(LifecycleResults)
      /\ Len(s) \in Nat /\ Len(Append(s, x)) = Len(s) + 1
      /\ DOMAIN s = 1..Len(s) /\ DOMAIN Append(s, x) = 1..(Len(s) + 1)
      /\ \A i \in 1..Len(s) : Append(s, x)[i] = s[i]
      /\ Append(s, x)[Len(s) + 1] = x
  BY <1>1, AppendFacts
<1>3. ASSUME NEW i \in 1..(Len(s) + 1), i <= Len(s) \/ x = "passed"
      PROVE  Append(s, x)[i] = "passed"
  BY <1>2, <1>3 DEF AllPassed
<1> QED
  BY <1>2, <1>3 DEF Phase, AllPassed

\* Where the last result passed, all did.
LEMMA PhasePassed ==
    ASSUME NEW s, NEW total \in Nat, Phase(s, total), s = <<>> \/ Last(s) = "passed"
    PROVE  AllPassed(s)
<1>1. s \in Seq(LifecycleResults) /\ Len(s) \in Nat /\ DOMAIN s = 1..Len(s)
  BY LenProperties DEF Phase
<1>2. CASE s = <<>>
  BY <1>1, <1>2 DEF AllPassed
<1>3. CASE Last(s) = "passed"
  <2>1. ASSUME NEW i \in 1..Len(s) PROVE s[i] = "passed"
    BY <1>1, <1>3, <2>1 DEF Last, Phase
  <2> QED
    BY <1>1, <2>1 DEF AllPassed
<1> QED
  BY <1>2, <1>3

\* The absent optional is no result, no verdict and no record.
LEMMA NoneFacts ==
    /\ None \notin Results /\ None \notin Verdicts /\ None \notin Records
    /\ None \notin LifecycleResults /\ None \notin ApplicationOutcomes
    /\ None \notin PublicationOutcomes
  BY NoneAssumption DEF Results

-----------------------------------------------------------------------------
(***************************************************************************)
(* Records.                                                                *)
(***************************************************************************)

\* What a begun call makes of a record.
LEMMA BeginFacts ==
    ASSUME NEW r \in Records, NEW kind \in {"before", "application", "after", "publication"}
    PROVE  LET next == BeginOf(r, kind) IN
           /\ next \in Records /\ next.stage = Intent(kind)
           /\ next.before = r.before /\ next.application = r.application
           /\ next.after = r.after /\ next.publication = r.publication
           /\ next.requested = (r.requested \/ kind = "publication")
           /\ next.outcome = r.outcome /\ next.reconciled = r.reconciled
           /\ Intent(kind) \in IntentStages
           /\ Intent(kind) = "before_intent" <=> kind = "before"
           /\ Intent(kind) = "application_intent" <=> kind = "application"
           /\ Intent(kind) = "after_intent" <=> kind = "after"
           /\ Intent(kind) = "publication_intent" <=> kind = "publication"
<1>1. /\ Intent(kind) \in Stages /\ Intent(kind) \in IntentStages
      /\ Intent(kind) = "before_intent" <=> kind = "before"
      /\ Intent(kind) = "application_intent" <=> kind = "application"
      /\ Intent(kind) = "after_intent" <=> kind = "after"
      /\ Intent(kind) = "publication_intent" <=> kind = "publication"
  BY DEF Intent, IntentStages, Stages
<1> QED
  BY <1>1 DEF BeginOf, Records

\* What a returned call makes of a record.
LEMMA CompleteFacts ==
    ASSUME NEW r \in Records, r.stage \in IntentStages, NEW result \in ResultsAt(r.stage)
    PROVE  LET next == CompleteOf(r, result) IN
           /\ next \in Records
           /\ next.requested = r.requested
           /\ next.outcome = r.outcome /\ next.reconciled = r.reconciled
           /\ r.stage = "before_intent" =>
                /\ next.stage = "before_terminal" /\ next.before = Append(r.before, result)
                /\ next.application = r.application /\ next.after = r.after
                /\ next.publication = r.publication
           /\ r.stage = "application_intent" =>
                /\ next.stage = "application_terminal" /\ next.application = result
                /\ next.before = r.before /\ next.after = r.after
                /\ next.publication = r.publication
           /\ r.stage = "after_intent" =>
                /\ next.stage = "after_terminal" /\ next.after = Append(r.after, result)
                /\ next.application = r.application /\ next.before = r.before
                /\ next.publication = r.publication
           /\ r.stage = "publication_intent" =>
                /\ next.stage = "publication_terminal" /\ next.publication = result
                /\ next.before = r.before /\ next.application = r.application
                /\ next.after = r.after
<1>1. CASE r.stage = "before_intent"
  <2>1. result \in LifecycleResults /\ Append(r.before, result) \in Seq(LifecycleResults)
    BY <1>1, AppendFacts DEF ResultsAt, Records
  <2>2. CompleteOf(r, result) =
          [r EXCEPT !.stage = "before_terminal", !.before = Append(r.before, result)]
    BY <1>1 DEF CompleteOf, Records
  <2> QED
    BY <1>1, <2>1, <2>2 DEF Records, Stages
<1>2. CASE r.stage = "application_intent"
  <2>1. result \in ApplicationOutcomes
    BY <1>2 DEF ResultsAt
  <2>2. CompleteOf(r, result) =
          [r EXCEPT !.stage = "application_terminal", !.application = result]
    BY <1>2 DEF CompleteOf, Records
  <2> QED
    BY <1>2, <2>1, <2>2 DEF Records, Stages
<1>3. CASE r.stage = "after_intent"
  <2>1. result \in LifecycleResults /\ Append(r.after, result) \in Seq(LifecycleResults)
    BY <1>3, AppendFacts DEF ResultsAt, Records
  <2>2. CompleteOf(r, result) =
          [r EXCEPT !.stage = "after_terminal", !.after = Append(r.after, result)]
    BY <1>3 DEF CompleteOf, Records
  <2> QED
    BY <1>3, <2>1, <2>2 DEF Records, Stages
<1>4. CASE r.stage = "publication_intent"
  <2>1. result \in PublicationOutcomes
    BY <1>4 DEF ResultsAt
  <2>2. CompleteOf(r, result) =
          [r EXCEPT !.stage = "publication_terminal", !.publication = result]
    BY <1>4 DEF CompleteOf, Records
  <2> QED
    BY <1>4, <2>1, <2>2 DEF Records, Stages
<1> QED
  BY <1>1, <1>2, <1>3, <1>4 DEF IntentStages

\* What a seal makes of a record.
LEMMA SealFacts ==
    ASSUME NEW r \in Records, NEW outcome \in Verdicts, NEW reconciled \in BOOLEAN
    PROVE  LET next == SealOf(r, outcome, reconciled) IN
           /\ next \in Records /\ next.stage = "terminal"
           /\ next.before = r.before /\ next.application = r.application
           /\ next.after = r.after /\ next.publication = r.publication
           /\ next.requested = r.requested
           /\ next.outcome = outcome /\ next.reconciled = reconciled
  BY DEF SealOf, Records, Stages

\* What assess_effect_restart tells of a record, by its stage.
LEMMA DispositionFacts ==
    ASSUME NEW r \in Records
    PROVE  /\ Disposition(r) = "continue" <=>
                \/ r.stage = "admitted"
                \/ r.stage = "before_terminal" /\ Last(r.before) = "passed"
                \/ r.stage = "application_terminal" /\ r.application = "completed"
                \/ r.stage = "after_terminal" /\ Last(r.after) = "passed"
           /\ Disposition(r) = "seal" <=>
                \/ r.stage = "before_terminal" /\ Last(r.before) # "passed"
                \/ r.stage = "application_terminal" /\ r.application \in ApplicationFailures
                \/ r.stage = "after_terminal" /\ Last(r.after) # "passed"
                \/ r.stage = "publication_terminal" /\ r.publication \notin PublicationUnknown
           /\ Disposition(r) = "reconcile" <=>
                \/ r.stage = "publication_intent"
                \/ r.stage = "publication_terminal" /\ r.publication \in PublicationUnknown
           /\ Disposition(r) = "resume_application" <=> r.stage = "application_intent"
<1>1. r.stage \in Stages
  BY DEF Records
<1>2. "completed" \notin ApplicationFailures
  BY DEF ApplicationFailures
<1> QED
  BY <1>1, <1>2 DEF Disposition, Stages

\* It tells one of six things.
LEMMA DispositionRange ==
    ASSUME NEW r
    PROVE  Disposition(r) \in {"terminal", "external", "continue", "seal",
                              "resume_application", "reconcile"}
<1>1. CASE r.stage = "application_terminal"
  BY <1>1 DEF Disposition
<1>2. CASE r.stage # "application_terminal"
  BY <1>2 DEF Disposition
<1> QED
  BY <1>1, <1>2

\* s keeps the facts of r: what JournalMonotone says of a step.
Extends(r, s) ==
    /\ IsPrefix(r.before, s.before) /\ IsPrefix(r.after, s.after)
    /\ r.application # None => s.application = r.application
    /\ r.publication # None => s.publication = r.publication
    /\ r.requested => s.requested

\* The results of a record that may be continued have all passed.
LEMMA ContinueFacts ==
    ASSUME NEW r, Valid(r), Disposition(r) = "continue"
    PROVE  /\ r \in Records /\ NextCall(r) \in {"before", "application", "after", "publication"}
           /\ Len(r.before) \in Nat /\ Len(r.after) \in Nat
           /\ AllPassed(r.before) /\ AllPassed(r.after)
           /\ ~r.requested /\ r.publication = None /\ r.stage # "terminal"
           /\ r.outcome = None /\ ~r.reconciled
           /\ r.stage \in {"admitted", "before_terminal"} \/ Applied(r)
           /\ NextCall(r) = "before" =>
                /\ r.stage \in {"admitted", "before_terminal"} /\ Bare(r)
                /\ Len(r.before) < BeforeTotal
           /\ NextCall(r) = "application" =>
                /\ r.stage \in {"admitted", "before_terminal"} /\ Bare(r)
                /\ Len(r.before) = BeforeTotal
           /\ NextCall(r) = "after" => Applied(r) /\ Len(r.after) < AfterTotal
           /\ NextCall(r) = "publication" => Applied(r) /\ Len(r.after) = AfterTotal
<1>1. /\ r \in Records /\ RecordShape(r) /\ Staged(r)
      /\ Phase(r.before, BeforeTotal) /\ Phase(r.after, AfterTotal)
  BY DEF Valid, RecordShape
<1>2. /\ Len(r.before) \in Nat /\ Len(r.after) \in Nat
      /\ Len(r.before) <= BeforeTotal /\ Len(r.after) <= AfterTotal
  BY <1>1, LenProperties DEF Phase
<1>3. BeforeTotal \in Nat /\ AfterTotal \in Nat
  BY EffectAssumption
<1>4. CASE r.stage = "admitted"
  <2>1. Bare(r) /\ r.before = <<>> /\ r.outcome = None /\ ~r.reconciled
    BY <1>1, <1>4 DEF Staged
  <2>2. AllPassed(r.before) /\ AllPassed(r.after)
    BY <1>1, <1>3, <2>1, PhasePassed DEF Bare
  <2>3. NextCall(r) = IF Len(r.before) < BeforeTotal THEN "before" ELSE "application"
    <3>1. r.application = None
      BY <2>1 DEF Bare
    <3> QED
      BY <3>1 DEF NextCall
  <2>4. Len(r.before) = BeforeTotal \/ Len(r.before) < BeforeTotal
    BY <1>2, <1>3
  <2>5. ~r.requested /\ r.publication = None
    BY <2>1 DEF Bare
  <2> QED
    BY <1>1, <1>2, <1>4, <2>1, <2>2, <2>3, <2>4, <2>5
<1>5. CASE r.stage = "before_terminal" /\ Last(r.before) = "passed"
  <2>1. Bare(r) /\ r.outcome = None /\ ~r.reconciled
    BY <1>1, <1>5 DEF Staged
  <2>2. AllPassed(r.before) /\ AllPassed(r.after)
    BY <1>1, <1>3, <1>5, <2>1, PhasePassed DEF Bare
  <2>3. NextCall(r) = IF Len(r.before) < BeforeTotal THEN "before" ELSE "application"
    <3>1. r.application = None
      BY <2>1 DEF Bare
    <3> QED
      BY <3>1 DEF NextCall
  <2>4. Len(r.before) = BeforeTotal \/ Len(r.before) < BeforeTotal
    BY <1>2, <1>3
  <2>5. ~r.requested /\ r.publication = None
    BY <2>1 DEF Bare
  <2> QED
    BY <1>1, <1>2, <1>5, <2>1, <2>2, <2>3, <2>4, <2>5
<1>6. CASE /\ r.stage \in {"application_terminal", "after_terminal"}
           /\ r.stage = "application_terminal" => r.application = "completed"
           /\ r.stage = "after_terminal" => Last(r.after) = "passed"
  <2>1. /\ Applied(r) /\ ~r.requested /\ r.publication = None
        /\ r.stage = "application_terminal" => r.after = <<>>
        /\ r.outcome = None /\ ~r.reconciled
    BY <1>1, <1>6 DEF Staged, Applied
  <2>2. AllPassed(r.before) /\ AllPassed(r.after)
    BY <1>1, <1>3, <1>6, <2>1, PhasePassed DEF Applied, Passed, AllPassed
  <2>3. r.application # None
    BY <2>1, NoneFacts DEF Applied, ApplicationOutcomes
  <2> QED
    BY <1>1, <1>2, <1>3, <1>6, <2>1, <2>2, <2>3 DEF NextCall
<1> QED
  BY <1>1, <1>4, <1>5, <1>6, DispositionFacts

\* Beginning the next call of a record keeps it valid and keeps its facts.
LEMMA BeginValid ==
    ASSUME NEW r, Valid(r), Disposition(r) = "continue"
    PROVE  LET next == BeginOf(r, NextCall(r)) IN
           /\ Valid(next) /\ next.stage \in IntentStages /\ Extends(r, next)
           /\ next # r /\ next.stage # "terminal"
<1> DEFINE next == BeginOf(r, NextCall(r))
<1>1. /\ r \in Records /\ RecordShape(r) /\ Staged(r)
      /\ Phase(r.before, BeforeTotal) /\ Phase(r.after, AfterTotal)
  BY DEF Valid, RecordShape
<1>2. /\ NextCall(r) \in {"before", "application", "after", "publication"}
      /\ AllPassed(r.before) /\ AllPassed(r.after)
      /\ ~r.requested /\ r.publication = None /\ r.outcome = None /\ ~r.reconciled
      /\ NextCall(r) = "before" => Bare(r) /\ Len(r.before) < BeforeTotal
      /\ NextCall(r) = "application" => Bare(r) /\ Len(r.before) = BeforeTotal
      /\ NextCall(r) = "after" => Applied(r) /\ Len(r.after) < AfterTotal
      /\ NextCall(r) = "publication" => Applied(r) /\ Len(r.after) = AfterTotal
  BY ContinueFacts
<1>3. /\ next \in Records /\ next.stage = Intent(NextCall(r))
      /\ next.before = r.before /\ next.application = r.application
      /\ next.after = r.after /\ next.publication = r.publication
      /\ next.requested = (r.requested \/ NextCall(r) = "publication")
      /\ next.outcome = r.outcome /\ next.reconciled = r.reconciled
      /\ next.stage \in IntentStages
      /\ next.stage = "before_intent" <=> NextCall(r) = "before"
      /\ next.stage = "application_intent" <=> NextCall(r) = "application"
      /\ next.stage = "after_intent" <=> NextCall(r) = "after"
      /\ next.stage = "publication_intent" <=> NextCall(r) = "publication"
  BY <1>1, <1>2, BeginFacts
<1> HIDE DEF next
<1>4. next.stage \notin {"admitted", "before_terminal", "application_terminal",
                         "after_terminal", "publication_terminal", "terminal"}
  BY <1>3 DEF IntentStages
<1>5. Passed(r.before, BeforeTotal) <=> Len(r.before) = BeforeTotal
  BY <1>2 DEF Passed, AllPassed
<1>6. Passed(r.after, AfterTotal) <=> Len(r.after) = AfterTotal
  BY <1>2 DEF Passed, AllPassed
<1>7. r.application # None => Applied(r)
  BY <1>2 DEF Bare
<1>8. RecordShape(next)
  <2>1. next.stage \in Stages /\ next.application \in ApplicationOutcomes \cup {None}
        /\ next.publication = None /\ next.outcome = None
    BY <1>2, <1>3 DEF Records
  <2>2. next.outcome # "completed" /\ (next.outcome # None <=> next.stage = "terminal")
    BY <1>4, <2>1, NoneFacts DEF Verdicts
  <2>3. next.after # <<>> \/ next.stage = "after_intent" => next.application = "completed"
    BY <1>1, <1>2, <1>3 DEF Applied, RecordShape
  <2>4. next.application # None => Passed(next.before, BeforeTotal)
    BY <1>3, <1>7 DEF Applied
  <2> QED
    BY <1>1, <1>2, <1>3, <1>4, <1>5, <1>6, <2>1, <2>2, <2>3, <2>4
    DEF RecordShape, Bare, Applied
<1>9. Staged(next)
  <2>1. next.stage = "before_intent" => Bare(next) /\ AllPassed(next.before)
                                          /\ Len(next.before) < BeforeTotal
    BY <1>2, <1>3 DEF Bare
  <2>2. next.stage = "application_intent" => Bare(next) /\ Passed(next.before, BeforeTotal)
    BY <1>2, <1>3, <1>5 DEF Bare
  <2>3. next.stage = "after_intent" =>
          /\ Applied(next) /\ AllPassed(next.after) /\ Len(next.after) < AfterTotal
          /\ ~next.requested /\ next.publication = None
    BY <1>2, <1>3 DEF Applied
  <2>4. next.stage = "publication_intent" =>
          /\ Applied(next) /\ Passed(next.after, AfterTotal) /\ next.requested
          /\ next.publication = None
    BY <1>2, <1>3, <1>6 DEF Applied
  <2> QED
    BY <1>2, <1>3, <1>4, <2>1, <2>2, <2>3, <2>4 DEF Staged
<1>10. Extends(r, next)
  <2>1. IsPrefix(r.before, r.before) /\ IsPrefix(r.after, r.after)
    BY <1>1 DEF Records, IsPrefix
  <2> QED
    BY <1>3, <2>1 DEF Extends
<1>11. next # r
  <2>1. r.stage \notin IntentStages
    BY <1>1, DispositionFacts DEF IntentStages
  <2> QED
    BY <1>3, <2>1
<1>12. next.stage # "terminal"
  BY <1>4
<1> QED
  BY <1>1, <1>3, <1>8, <1>9, <1>10, <1>11, <1>12 DEF Valid, next

\* So does completing the call a record is about.
LEMMA CompleteValid ==
    ASSUME NEW r, Valid(r), r.stage \in IntentStages, NEW result \in ResultsAt(r.stage)
    PROVE  LET next == CompleteOf(r, result) IN
           /\ Valid(next) /\ next.stage \notin IntentStages \cup {"terminal"}
           /\ next # r /\ Extends(r, next)
<1> DEFINE next == CompleteOf(r, result)
<1>1. /\ r \in Records /\ RecordShape(r) /\ Staged(r)
      /\ Phase(r.before, BeforeTotal) /\ Phase(r.after, AfterTotal)
      /\ r.before \in Seq(LifecycleResults) /\ r.after \in Seq(LifecycleResults)
  BY DEF Valid, RecordShape, Records
<1>2. BeforeTotal \in Nat /\ AfterTotal \in Nat
  BY EffectAssumption
<1>3. /\ next \in Records /\ next.requested = r.requested
      /\ next.outcome = r.outcome /\ next.reconciled = r.reconciled
      /\ r.stage # "terminal" /\ r.outcome = None /\ ~r.reconciled
  BY <1>1, CompleteFacts DEF Staged, IntentStages
<1>4. None # "completed" /\ "completed" \in ApplicationOutcomes
  BY NoneFacts DEF ApplicationOutcomes
<1>5. IsPrefix(r.before, r.before) /\ IsPrefix(r.after, r.after)
  BY <1>1 DEF IsPrefix
<1>6. CASE r.stage = "before_intent"
  <2>1. /\ next.stage = "before_terminal" /\ next.before = Append(r.before, result)
        /\ next.application = r.application /\ next.after = r.after
        /\ next.publication = r.publication
        /\ Bare(r) /\ AllPassed(r.before) /\ Len(r.before) < BeforeTotal
        /\ result \in LifecycleResults
    BY <1>1, <1>6, CompleteFacts DEF Staged, ResultsAt
  <2>2. /\ Phase(next.before, BeforeTotal) /\ Len(next.before) > 0
        /\ IsPrefix(r.before, next.before)
    BY <1>1, <1>2, <2>1, PhaseGrows, AppendFacts
  <2> HIDE DEF next
  <2>3. RecordShape(next)
    BY <1>1, <1>3, <1>4, <2>1, <2>2 DEF RecordShape, Bare, Stages
  <2>4. Staged(next)
    BY <1>3, <2>1, <2>2 DEF Staged, Bare
  <2>5. Extends(r, next)
    BY <1>3, <1>5, <2>1, <2>2 DEF Extends, Bare
  <2> QED
    BY <1>3, <1>6, <2>1, <2>3, <2>4, <2>5 DEF Valid, IntentStages, next
<1>7. CASE r.stage = "application_intent"
  <2>1. /\ next.stage = "application_terminal" /\ next.application = result
        /\ next.before = r.before /\ next.after = r.after
        /\ next.publication = r.publication
        /\ Bare(r) /\ Passed(r.before, BeforeTotal) /\ result \in ApplicationOutcomes
    BY <1>1, <1>7, CompleteFacts DEF Staged, ResultsAt
  <2> HIDE DEF next
  <2>2. result # None
    BY <2>1, NoneFacts
  <2>3. RecordShape(next)
    BY <1>1, <1>3, <1>4, <2>1, <2>2 DEF RecordShape, Bare, Stages
  <2>4. Staged(next)
    BY <1>3, <2>1, <2>2 DEF Staged, Bare
  <2>5. Extends(r, next)
    BY <1>3, <1>5, <2>1 DEF Extends, Bare
  <2> QED
    BY <1>3, <1>7, <2>1, <2>3, <2>4, <2>5 DEF Valid, IntentStages, next
<1>8. CASE r.stage = "after_intent"
  <2>1. /\ next.stage = "after_terminal" /\ next.after = Append(r.after, result)
        /\ next.application = r.application /\ next.before = r.before
        /\ next.publication = r.publication
        /\ Applied(r) /\ AllPassed(r.after) /\ Len(r.after) < AfterTotal
        /\ ~r.requested /\ r.publication = None
        /\ result \in LifecycleResults
    BY <1>1, <1>8, CompleteFacts DEF Staged, ResultsAt
  <2>2. /\ Phase(next.after, AfterTotal) /\ Len(next.after) > 0
        /\ IsPrefix(r.after, next.after)
    BY <1>1, <1>2, <2>1, PhaseGrows, AppendFacts
  <2> HIDE DEF next
  <2>3. RecordShape(next)
    BY <1>1, <1>3, <1>4, <2>1, <2>2 DEF RecordShape, Applied, Stages
  <2>4. Staged(next)
    BY <1>3, <2>1, <2>2 DEF Staged, Applied
  <2>5. Extends(r, next)
    BY <1>3, <1>5, <2>1, <2>2 DEF Extends
  <2> QED
    BY <1>3, <1>8, <2>1, <2>3, <2>4, <2>5 DEF Valid, IntentStages, next
<1>9. CASE r.stage = "publication_intent"
  <2>1. /\ next.stage = "publication_terminal" /\ next.publication = result
        /\ next.before = r.before /\ next.application = r.application
        /\ next.after = r.after
        /\ Applied(r) /\ Passed(r.after, AfterTotal) /\ r.requested
        /\ r.publication = None /\ result \in PublicationOutcomes
    BY <1>1, <1>9, CompleteFacts DEF Staged, ResultsAt
  <2> HIDE DEF next
  <2>2. result # None
    BY <2>1, NoneFacts
  <2>3. RecordShape(next)
    BY <1>1, <1>3, <1>4, <2>1, <2>2 DEF RecordShape, Applied, Stages
  <2>4. Staged(next)
    BY <1>3, <2>1, <2>2 DEF Staged, Applied
  <2>5. Extends(r, next)
    BY <1>3, <1>5, <2>1 DEF Extends
  <2> QED
    BY <1>3, <1>9, <2>1, <2>3, <2>4, <2>5 DEF Valid, IntentStages, next
<1> QED
  BY <1>6, <1>7, <1>8, <1>9 DEF IntentStages

\* And so does a seal.
LEMMA SealValid ==
    ASSUME NEW r, Valid(r), r.stage # "terminal", NEW outcome \in Verdicts,
           NEW reconciled \in BOOLEAN,
           outcome = "completed" => r.publication = "published" \/ reconciled,
           reconciled => r.requested /\ outcome = "completed"
    PROVE  LET next == SealOf(r, outcome, reconciled) IN
           /\ Valid(next) /\ next.stage = "terminal" /\ next # r /\ Extends(r, next)
<1> DEFINE next == SealOf(r, outcome, reconciled)
<1>1. /\ r \in Records /\ RecordShape(r) /\ Staged(r)
      /\ r.before \in Seq(LifecycleResults) /\ r.after \in Seq(LifecycleResults)
  BY DEF Valid, RecordShape, Records
<1>2. /\ next \in Records /\ next.stage = "terminal"
      /\ next.before = r.before /\ next.application = r.application
      /\ next.after = r.after /\ next.publication = r.publication
      /\ next.requested = r.requested
      /\ next.outcome = outcome /\ next.reconciled = reconciled
  BY <1>1, SealFacts
<1> HIDE DEF next
<1>3. outcome # None
  BY NoneFacts
<1>4. RecordShape(next)
  BY <1>1, <1>2, <1>3 DEF RecordShape, Stages
<1>5. Staged(next)
  BY <1>2 DEF Staged
<1>6. Extends(r, next)
  BY <1>1, <1>2 DEF Extends, IsPrefix
<1> QED
  BY <1>2, <1>4, <1>5, <1>6 DEF Valid, next

\* What an honest seal needs: only published results are sealed as completed.
LEMMA SealOutcomeFacts ==
    ASSUME NEW r, Valid(r), Disposition(r) = "seal"
    PROVE  /\ SealOutcome(r) \in Verdicts \ {"outer_lease_lost"}
           /\ SealOutcome(r) = "completed" <=>
                r.stage = "publication_terminal" /\ r.publication = "published"
           /\ r.stage = "publication_terminal" =>
                /\ SealOutcome(r) = PublicationVerdict(r.publication)
                /\ r.publication \in {"published"} \cup PublicationFailures
<1>1. r \in Records /\ Staged(r)
  BY DEF Valid
<1>2. r.stage \in {"before_terminal", "application_terminal", "after_terminal",
                   "publication_terminal"}
  BY <1>1, DispositionFacts
<1>3. r.stage = "publication_terminal" =>
        r.publication \in {"published"} \cup PublicationFailures
  BY <1>1, DispositionFacts DEF Staged, Records, PublicationOutcomes
<1> QED
  BY <1>2, <1>3 DEF SealOutcome, PublicationVerdict, Verdicts, PublicationFailures,
     PublicationUnknown

-----------------------------------------------------------------------------
(***************************************************************************)
(* How controllers move.                                                   *)
(***************************************************************************)

OthersStay(p) == \A q \in Controllers \ {p} : ctl'[q] = ctl[q]

\* The local state of p becomes new, the others stay.
Becomes(p, new) ==
    /\ ctl' \in [Controllers -> LocalStates] /\ OthersStay(p) /\ ctl'[p] = new

\* A controller that is not idle has a valid view that is not terminal.
LEMMA Local ==
    ASSUME JInv, NEW p \in Controllers
    PROVE  /\ ctl[p] \in LocalStates
           /\ ~At(p, "idle") =>
                /\ Valid(ctl[p].view) /\ ctl[p].view \in Records
                /\ ctl[p].view.stage # "terminal"
           /\ ~At(p, "seal") => ctl[p].reconciled = FALSE
  BY DEF JInv, Knows, Valid, LocalStates

\* What the types of the controllers say follows from what they know.
LEMMA TypesFollow == JInv => TypeOK
<1> SUFFICES ASSUME JInv PROVE TypeOK
  OBVIOUS
<1>1. journal # None => RecordShape(journal)
  BY DEF JInv, Valid
<1>2. ASSUME NEW p \in Controllers
      PROVE  /\ ctl[p].pc \in Points /\ (~At(p, "idle") => RecordShape(ctl[p].view))
             /\ At(p, "seal") => ctl[p].seal \in Verdicts
  <2>1. /\ ctl[p].pc \in Points /\ (~At(p, "idle") => Valid(ctl[p].view))
        /\ At(p, "seal") => SealKnown(p)
    BY DEF JInv, Knows, LocalStates
  <2>2. ASSUME At(p, "seal") PROVE ctl[p].seal \in Verdicts
    <3>1. Disposition(ctl[p].view) = "seal" => SealOutcome(ctl[p].view) \in Verdicts
      BY <2>1, <2>2, SealOutcomeFacts DEF At
    <3> QED
      BY <2>1, <2>2, <3>1 DEF SealKnown, Verdicts
  <2> QED
    BY <2>1, <2>2 DEF Valid
<1> QED
  BY <1>1, <1>2 DEF JInv, Scalars, TypeOK, Results

\* What the journal names is retained.
LEMMA CoverFollows == JInv => BodiesCoverJournal
  BY DEF JInv, Covered, BodiesCoverJournal

\* What a controller knows it knows while others work.
LEMMA KnowsStay ==
    ASSUME NEW q \in Controllers, Knows(q), ctl'[q] = ctl[q], bodies \subseteq bodies'
    PROVE  Knows(q)'
  BY DEF Knows, At, SealKnown, NeedsLease

\* A retained fact stays retained.
LEMMA CoveredStays ==
    ASSUME NEW r, Covered(r), bodies \subseteq bodies'
    PROVE  Covered(r)'
  BY DEF Covered

\* A step of p keeps the invariant if the journal and p's knowledge stay sound.
LEMMA MovePreserves ==
    ASSUME JInv, NEW p \in Controllers, NEW new, Becomes(p, new), Knows(p)',
           Scalars', bodies \subseteq bodies',
           journal' = journal \/ (Valid(journal)' /\ Covered(journal)')
    PROVE  JInv'
<1>1. \A q \in Controllers : Knows(q)'
  BY KnowsStay DEF JInv, Becomes, OthersStay
<1>2. CASE journal' = journal
  <2>1. PICK r : r = journal
    OBVIOUS
  <2>2. r # None => Covered(r)'
    BY <2>1, CoveredStays DEF JInv
  <2>3. r # None => Valid(journal)' /\ Covered(journal)'
    BY <1>2, <2>1, <2>2 DEF JInv, Covered
  <2> QED
    BY <1>1, <1>2, <2>1, <2>3 DEF JInv, Becomes
<1>3. CASE Valid(journal)' /\ Covered(journal)'
  BY <1>1, <1>3 DEF JInv, Becomes
<1> QED
  BY <1>2, <1>3

\* The facts about a controller that leaves.
LEMMA LeaveMoves ==
    ASSUME JInv, NEW p \in Controllers, Leave(p)
    PROVE  /\ Becomes(p, Resting) /\ Knows(p)'
           /\ lease' \in Controllers \cup {Nobody}
<1>1. Resting \in LocalStates /\ Resting.pc = "idle" /\ Resting.reconciled = FALSE
  BY DEF Resting, LocalStates, Points
<1>2. Becomes(p, Resting)
  BY <1>1 DEF Leave, Becomes, OthersStay, JInv
<1>3. Knows(p)'
  BY <1>1, <1>2 DEF Becomes, Knows, At
<1> QED
  BY <1>2, <1>3 DEF Leave, JInv, Scalars

\* Leaving without an append keeps the invariant.
LEMMA LeavePreserves ==
    ASSUME JInv, NEW p \in Controllers, Leave(p), UNCHANGED <<journal, bodies>>,
           Unaffected, UNCHANGED revocations, crashes' \in 0..MaxCrashes
    PROVE  JInv'
<1>1. /\ Becomes(p, Resting) /\ Knows(p)' /\ lease' \in Controllers \cup {Nobody}
  BY LeaveMoves
<1>2. Scalars'
  BY <1>1 DEF JInv, Scalars, Unaffected
<1> QED
  BY <1>1, <1>2, MovePreserves

\* A move that neither appends nor retains keeps the invariant.
LEMMA QuietPreserves ==
    ASSUME JInv, NEW p \in Controllers, NEW new, Becomes(p, new), Knows(p)',
           UNCHANGED <<journal, bodies>>, Unaffected, Uncounted,
           lease' \in Controllers \cup {Nobody}
    PROVE  JInv'
<1>1. Scalars'
  BY DEF JInv, Scalars, Unaffected, Uncounted
<1> QED
  BY <1>1, MovePreserves

\* A change of stage.
LEMMA GotoMoves ==
    ASSUME JInv, NEW p \in Controllers, NEW pc \in Points, Goto(p, pc)
    PROVE  /\ Becomes(p, [ctl[p] EXCEPT !.pc = pc])
           /\ ctl'[p].pc = pc /\ ctl'[p].view = ctl[p].view
           /\ ctl'[p].result = ctl[p].result /\ ctl'[p].seal = ctl[p].seal
           /\ ctl'[p].reconciled = ctl[p].reconciled
<1>1. ctl[p] \in LocalStates /\ ctl \in [Controllers -> LocalStates]
  BY DEF JInv
<1>2. ctl' = [ctl EXCEPT ![p] = [ctl[p] EXCEPT !.pc = pc]]
  BY DEF Goto
<1>3. [ctl[p] EXCEPT !.pc = pc] \in LocalStates
  BY <1>1 DEF LocalStates
<1> QED
  BY <1>1, <1>2, <1>3 DEF Becomes, OthersStay, LocalStates

\* A change of stage with a result in hand.
LEMMA ResultMoves ==
    ASSUME JInv, NEW p \in Controllers, NEW pc \in Points, NEW result \in Results,
           ctl' = [ctl EXCEPT ![p].pc = pc, ![p].result = result]
    PROVE  /\ Becomes(p, [ctl[p] EXCEPT !.pc = pc, !.result = result])
           /\ ctl'[p].pc = pc /\ ctl'[p].view = ctl[p].view
           /\ ctl'[p].result = result /\ ctl'[p].seal = ctl[p].seal
           /\ ctl'[p].reconciled = ctl[p].reconciled
<1>1. ctl[p] \in LocalStates /\ ctl \in [Controllers -> LocalStates]
  BY DEF JInv
<1>2. ctl' = [ctl EXCEPT ![p] = [ctl[p] EXCEPT !.pc = pc, !.result = result]]
  BY <1>1
<1>3. [ctl[p] EXCEPT !.pc = pc, !.result = result] \in LocalStates
  BY <1>1 DEF LocalStates
<1> QED
  BY <1>1, <1>2, <1>3 DEF Becomes, OthersStay, LocalStates

\* A change of stage with a verdict to be sealed.
LEMMA SealMoves ==
    ASSUME JInv, NEW p \in Controllers, NEW seal \in Verdicts,
           ctl' = [ctl EXCEPT ![p].pc = "seal", ![p].seal = seal]
    PROVE  /\ Becomes(p, [ctl[p] EXCEPT !.pc = "seal", !.seal = seal])
           /\ ctl'[p].pc = "seal" /\ ctl'[p].view = ctl[p].view
           /\ ctl'[p].result = ctl[p].result /\ ctl'[p].seal = seal
           /\ ctl'[p].reconciled = ctl[p].reconciled
<1>1. ctl[p] \in LocalStates /\ ctl \in [Controllers -> LocalStates]
  BY DEF JInv
<1>2. ctl' = [ctl EXCEPT ![p] = [ctl[p] EXCEPT !.pc = "seal", !.seal = seal]]
  BY <1>1
<1>3. [ctl[p] EXCEPT !.pc = "seal", !.seal = seal] \in LocalStates
  BY <1>1 DEF LocalStates, Points
<1> QED
  BY <1>1, <1>2, <1>3 DEF Becomes, OthersStay, LocalStates

\* A change of stage with a new view of the journal.
LEMMA ViewMoves ==
    ASSUME JInv, NEW p \in Controllers, NEW pc \in Points, NEW view \in Records,
           ctl' = [ctl EXCEPT ![p].pc = pc, ![p].view = view]
    PROVE  /\ Becomes(p, [ctl[p] EXCEPT !.pc = pc, !.view = view])
           /\ ctl'[p].pc = pc /\ ctl'[p].view = view
           /\ ctl'[p].result = ctl[p].result /\ ctl'[p].seal = ctl[p].seal
           /\ ctl'[p].reconciled = ctl[p].reconciled
<1>1. ctl[p] \in LocalStates /\ ctl \in [Controllers -> LocalStates]
  BY DEF JInv
<1>2. ctl' = [ctl EXCEPT ![p] = [ctl[p] EXCEPT !.pc = pc, !.view = view]]
  BY <1>1
<1>3. [ctl[p] EXCEPT !.pc = pc, !.view = view] \in LocalStates
  BY <1>1 DEF LocalStates
<1> QED
  BY <1>1, <1>2, <1>3 DEF Becomes, OthersStay, LocalStates

-----------------------------------------------------------------------------
(***************************************************************************)
(* What appends retain.                                                    *)
(***************************************************************************)

\* The bodies of a begun call are those before it, and the request's.
LEMMA BeginCovered ==
    ASSUME NEW r, Valid(r), Disposition(r) = "continue", Covered(r),
           NextCall(r) = "publication" => RequestBody \in bodies
    PROVE  Covered(BeginOf(r, NextCall(r)))
<1>1. r \in Records /\ NextCall(r) \in {"before", "application", "after", "publication"}
  BY ContinueFacts
<1>2. PICK next : next = BeginOf(r, NextCall(r))
  OBVIOUS
<1>3. /\ next.before = r.before /\ next.application = r.application
      /\ next.after = r.after /\ next.publication = r.publication
      /\ next.requested = (r.requested \/ NextCall(r) = "publication")
  BY <1>1, <1>2, BeginFacts
<1>4. Covered(next)
  BY <1>3 DEF Covered
<1> QED
  BY <1>2, <1>4

\* The bodies of a completed call are those before it, and the result's.
LEMMA CompleteCovered ==
    ASSUME NEW r, Valid(r), r.stage \in IntentStages, NEW result \in ResultsAt(r.stage),
           Covered(r), BodyOf(r, result) \in bodies
    PROVE  Covered(CompleteOf(r, result))
<1>1. r \in Records /\ r.before \in Seq(LifecycleResults) /\ r.after \in Seq(LifecycleResults)
  BY DEF Valid, Records
<1>2. PICK next : next = CompleteOf(r, result)
  OBVIOUS
<1>3. next.requested = r.requested
  BY <1>1, <1>2, CompleteFacts
<1>4. CASE r.stage = "before_intent"
  <2>1. /\ next.before = Append(r.before, result) /\ next.application = r.application
        /\ next.after = r.after /\ next.publication = r.publication
        /\ result \in LifecycleResults
    BY <1>1, <1>2, <1>4, CompleteFacts DEF ResultsAt
  <2>2. BodyOf(r, result) = <<"before_intent", Len(r.before) + 1, result>>
    BY <1>4 DEF BodyOf
  <2>3. ASSUME NEW i \in DOMAIN next.before
        PROVE  <<"before_intent", i, next.before[i]>> \in bodies
    <3>1. /\ Len(r.before) \in Nat /\ DOMAIN r.before = 1..Len(r.before)
          /\ i \in 1..(Len(r.before) + 1)
          /\ i \in 1..Len(r.before) => next.before[i] = r.before[i]
          /\ next.before[Len(r.before) + 1] = result
      BY <1>1, <2>1, AppendFacts
    <3>2. i \in 1..Len(r.before) \/ i = Len(r.before) + 1
      BY <3>1
    <3> QED
      BY <2>2, <3>1, <3>2 DEF Covered
  <2>4. Covered(next)
    BY <1>3, <2>1, <2>3 DEF Covered
  <2> QED
    BY <1>2, <2>4
<1>5. CASE r.stage = "application_intent"
  <2>1. /\ next.before = r.before /\ next.application = result
        /\ next.after = r.after /\ next.publication = r.publication
    BY <1>1, <1>2, <1>5, CompleteFacts
  <2>2. BodyOf(r, result) = <<"application_intent", 0, result>>
    BY <1>5 DEF BodyOf
  <2>3. Covered(next)
    BY <1>3, <2>1, <2>2 DEF Covered
  <2> QED
    BY <1>2, <2>3
<1>6. CASE r.stage = "after_intent"
  <2>1. /\ next.after = Append(r.after, result) /\ next.application = r.application
        /\ next.before = r.before /\ next.publication = r.publication
        /\ result \in LifecycleResults
    BY <1>1, <1>2, <1>6, CompleteFacts DEF ResultsAt
  <2>2. BodyOf(r, result) = <<"after_intent", Len(r.after) + 1, result>>
    BY <1>6 DEF BodyOf
  <2>3. ASSUME NEW i \in DOMAIN next.after
        PROVE  <<"after_intent", i, next.after[i]>> \in bodies
    <3>1. /\ Len(r.after) \in Nat /\ DOMAIN r.after = 1..Len(r.after)
          /\ i \in 1..(Len(r.after) + 1)
          /\ i \in 1..Len(r.after) => next.after[i] = r.after[i]
          /\ next.after[Len(r.after) + 1] = result
      BY <1>1, <2>1, AppendFacts
    <3>2. i \in 1..Len(r.after) \/ i = Len(r.after) + 1
      BY <3>1
    <3> QED
      BY <2>2, <3>1, <3>2 DEF Covered
  <2>4. Covered(next)
    BY <1>3, <2>1, <2>3 DEF Covered
  <2> QED
    BY <1>2, <2>4
<1>7. CASE r.stage = "publication_intent"
  <2>1. /\ next.before = r.before /\ next.application = r.application
        /\ next.after = r.after /\ next.publication = result
    BY <1>1, <1>2, <1>7, CompleteFacts
  <2>2. BodyOf(r, result) = <<"publication_intent", 0, result>>
    BY <1>7 DEF BodyOf
  <2>3. Covered(next)
    BY <1>3, <2>1, <2>2 DEF Covered
  <2> QED
    BY <1>2, <2>3
<1> QED
  BY <1>4, <1>5, <1>6, <1>7 DEF IntentStages

\* A seal adds no fact.
LEMMA SealCovered ==
    ASSUME NEW r \in Records, NEW outcome \in Verdicts, NEW reconciled \in BOOLEAN, Covered(r)
    PROVE  Covered(SealOf(r, outcome, reconciled))
<1>1. PICK next : next = SealOf(r, outcome, reconciled)
  OBVIOUS
<1>2. /\ next.before = r.before /\ next.application = r.application
      /\ next.after = r.after /\ next.publication = r.publication
      /\ next.requested = r.requested
  BY <1>1, SealFacts
<1> QED
  BY <1>1, <1>2 DEF Covered

\* What an accepted append leaves in the journal is sound.
LEMMA AppendKept ==
    ASSUME JInv, NEW p \in Controllers, ~At(p, "idle"), NEW next, Acceptable(p, next),
           Valid(next), Covered(ctl[p].view) => Covered(next),
           journal' = next, UNCHANGED bodies
    PROVE  Valid(journal)' /\ Covered(journal)'
<1>1. ctl[p].view \in Records /\ next \in Records
  BY Local DEF Valid
<1>2. journal # None
  BY <1>1, NoneFacts DEF Acceptable
<1>3. Covered(next)
  BY <1>2 DEF JInv, Acceptable
<1>4. Covered(next)'
  BY <1>3 DEF Covered
<1> QED
  BY <1>4 DEF Covered

\* A verdict a controller is about to seal makes a valid record of its view.
LEMMA SealSound ==
    ASSUME JInv, NEW p \in Controllers, At(p, "seal")
    PROVE  /\ ctl[p].seal \in Verdicts /\ ctl[p].reconciled \in BOOLEAN
           /\ Valid(SealOf(ctl[p].view, ctl[p].seal, ctl[p].reconciled))
           /\ SealOf(ctl[p].view, ctl[p].seal, ctl[p].reconciled).stage = "terminal"
           /\ Extends(ctl[p].view, SealOf(ctl[p].view, ctl[p].seal, ctl[p].reconciled))
<1>1. /\ Valid(ctl[p].view) /\ ctl[p].view.stage # "terminal" /\ SealKnown(p)
      /\ ctl[p].reconciled \in BOOLEAN
  BY DEF JInv, Knows, At, LocalStates
<1>2. Disposition(ctl[p].view) = "seal" =>
        /\ SealOutcome(ctl[p].view) \in Verdicts
        /\ SealOutcome(ctl[p].view) = "completed" => ctl[p].view.publication = "published"
  BY <1>1, SealOutcomeFacts
<1>3. /\ ctl[p].seal \in Verdicts
      /\ ctl[p].seal = "completed" => ctl[p].view.publication = "published" \/ ctl[p].reconciled
      /\ ctl[p].reconciled => ctl[p].view.requested /\ ctl[p].seal = "completed"
  BY <1>1, <1>2 DEF SealKnown, Verdicts
<1> QED
  BY <1>1, <1>3, SealValid

-----------------------------------------------------------------------------
(***************************************************************************)
(* The steps of one controller.                                            *)
(***************************************************************************)

\* Nothing is journaled at the start.
LEMMA InitSound == Init => JInv
<1> SUFFICES ASSUME Init PROVE JInv
  OBVIOUS
<1>1. Resting \in LocalStates /\ Resting.pc = "idle" /\ Resting.reconciled = FALSE
  BY DEF Resting, LocalStates, Points
<1>2. Scalars
  BY EffectAssumption DEF Init, Scalars
<1>3. \A p \in Controllers : Knows(p)
  BY <1>1 DEF Init, Knows, At
<1> QED
  BY <1>1, <1>2, <1>3 DEF Init, JInv

\* The first record is valid.
LEMMA AdmittedFacts ==
    /\ Valid(Admitted) /\ Admitted.stage = "admitted" /\ Disposition(Admitted) = "continue"
    /\ Admitted.application = None /\ Admitted.publication = None /\ ~Admitted.requested
    /\ Admitted.before = <<>> /\ Admitted.after = <<>>
<1>1. /\ Admitted.stage = "admitted" /\ Admitted.application = None
      /\ Admitted.publication = None /\ Admitted.requested = FALSE
      /\ Admitted.before = <<>> /\ Admitted.after = <<>>
      /\ Admitted.outcome = None /\ Admitted.reconciled = FALSE
  BY DEF Admitted
<1>2. Admitted \in Records
  BY DEF Admitted, Records, Stages
<1>3. <<>> \in Seq(LifecycleResults) /\ Len(<<>>) = 0 /\ DOMAIN <<>> = {}
  OBVIOUS
<1>4. Phase(<<>>, BeforeTotal) /\ Phase(<<>>, AfterTotal)
  BY <1>3, EffectAssumption DEF Phase
<1>5. None # "completed"
  BY NoneFacts DEF ApplicationOutcomes
<1>6. RecordShape(Admitted)
  BY <1>1, <1>4, <1>5 DEF RecordShape, Stages
<1>7. Staged(Admitted)
  BY <1>1 DEF Staged, Bare
<1> QED
  BY <1>1, <1>2, <1>6, <1>7, DispositionFacts DEF Valid

\* The controller that admits the attempt takes the lease.
LEMMA StartStep ==
    ASSUME JInv, NEW p \in Controllers, Start(p)
    PROVE  JInv'
<1> DEFINE new == [Resting EXCEPT !.pc = "check", !.view = Admitted]
<1>1. /\ Admitted \in Records /\ Valid(Admitted) /\ Admitted.stage # "terminal"
      /\ Disposition(Admitted) = "continue"
  BY AdmittedFacts DEF Valid
<1>2. new \in LocalStates /\ new.pc = "check" /\ new.view = Admitted /\ ~new.reconciled
  BY <1>1 DEF Resting, LocalStates, Points
<1> HIDE DEF new
<1>3. Becomes(p, new)
  BY <1>2 DEF Start, Becomes, OthersStay, JInv, new
<1>4. Knows(p)'
  BY <1>1, <1>2, <1>3 DEF Becomes, Knows, At
<1>5. Scalars'
  BY DEF Start, JInv, Scalars, Unaffected, Uncounted
<1>6. Valid(journal)' /\ Covered(journal)'
  <2>1. Covered(Admitted)'
    BY AdmittedFacts DEF Covered
  <2>2. journal' = Admitted
    BY DEF Start
  <2> QED
    BY <1>1, <2>1, <2>2 DEF Covered
<1> QED
  BY <1>3, <1>4, <1>5, <1>6, MovePreserves DEF Start

\* A checkpoint that can be worked on is loaded.
LEMMA LoadStep ==
    ASSUME JInv, NEW p \in Controllers, Load(p)
    PROVE  JInv'
<1> DEFINE pc == IF NeedsLease(journal) THEN "loaded" ELSE "enter"
           new == [Resting EXCEPT !.pc = pc, !.view = journal]
<1>1. /\ journal \in Records /\ Valid(journal) /\ journal.stage # "terminal"
      /\ NeedsLease(journal) \/ Disposition(journal) = "seal"
  <2>1. Valid(journal) /\ journal \in Records /\ Disposition(journal) \notin {"terminal", "external"}
    BY DEF Load, JInv, Valid
  <2>2. journal.stage # "terminal"
    BY <2>1 DEF Disposition
  <2> QED
    BY <2>1, <2>2, DispositionRange DEF NeedsLease
<1>2. /\ new \in LocalStates /\ new.pc = pc /\ new.view = journal /\ ~new.reconciled
      /\ pc \in {"loaded", "enter"}
  BY <1>1 DEF Resting, LocalStates, Points
<1>3. Becomes(p, new)
  BY <1>2 DEF Load, Becomes, OthersStay, JInv
<1>4. pc = "loaded" => NeedsLease(journal)
  OBVIOUS
<1> HIDE DEF new, pc
<1>5. Knows(p)'
  BY <1>1, <1>2, <1>3, <1>4 DEF Becomes, Knows, At, NeedsLease
<1> QED
  BY <1>3, <1>5, QuietPreserves DEF Load, JInv, Scalars

\* The lease is taken, and the checkpoint compared again.
LEMMA AcquireStep ==
    ASSUME JInv, NEW p \in Controllers, Acquire(p)
    PROVE  JInv'
<1>1. /\ At(p, "loaded") /\ Knows(p) /\ Goto(p, "enter") /\ "enter" \in Points
  BY DEF Acquire, JInv, Points
<1>2. /\ Becomes(p, [ctl[p] EXCEPT !.pc = "enter"])
      /\ ctl'[p].pc = "enter" /\ ctl'[p].view = ctl[p].view
      /\ ctl'[p].reconciled = ctl[p].reconciled
  BY <1>1, GotoMoves
<1>3. Knows(p)'
  BY <1>1, <1>2 DEF Knows, At, NeedsLease
<1> QED
  BY <1>2, <1>3, QuietPreserves DEF Acquire

\* The four ways into the attempt.
LEMMA EnterSteps ==
    ASSUME JInv, NEW p \in Controllers,
           EnterSeal(p) \/ EnterContinue(p) \/ EnterReconcile(p) \/ EnterApplication(p)
    PROVE  JInv'
<1>1. /\ At(p, "enter") /\ Knows(p) /\ Valid(ctl[p].view) /\ ctl[p].view \in Records
      /\ ctl[p].view.stage # "terminal" /\ ctl[p].reconciled = FALSE
      /\ UNCHANGED <<journal, bodies, lease>> /\ Unaffected /\ Uncounted
      /\ ctl[p] \in LocalStates
  BY Local DEF EnterSeal, EnterContinue, EnterReconcile, EnterApplication, JInv, At
<1>2. lease' \in Controllers \cup {Nobody}
  BY <1>1 DEF JInv, Scalars
<1>3. CASE EnterSeal(p)
  <2>1. PICK outcome \in Verdicts : outcome = SealOutcome(ctl[p].view)
    BY <1>1, <1>3, SealOutcomeFacts DEF EnterSeal
  <2>2. /\ Becomes(p, [ctl[p] EXCEPT !.pc = "seal", !.seal = outcome])
        /\ ctl'[p].pc = "seal" /\ ctl'[p].view = ctl[p].view /\ ctl'[p].seal = outcome
        /\ ctl'[p].reconciled = ctl[p].reconciled
    BY <1>3, <2>1, SealMoves DEF EnterSeal
  <2>3. SealKnown(p)'
    BY <1>1, <1>3, <2>1, <2>2 DEF EnterSeal, SealKnown
  <2>4. Knows(p)'
    BY <1>1, <2>2, <2>3 DEF Knows, At
  <2> QED
    BY <1>1, <1>2, <2>2, <2>4, QuietPreserves
<1>4. CASE EnterContinue(p)
  <2>1. /\ Becomes(p, [ctl[p] EXCEPT !.pc = "check"])
        /\ ctl'[p].pc = "check" /\ ctl'[p].view = ctl[p].view
        /\ ctl'[p].reconciled = ctl[p].reconciled
    BY <1>4, GotoMoves DEF EnterContinue, Points
  <2>2. Knows(p)'
    BY <1>1, <1>4, <2>1 DEF EnterContinue, Knows, At
  <2> QED
    BY <1>1, <1>2, <2>1, <2>2, QuietPreserves
<1>5. CASE EnterReconcile(p)
  <2> DEFINE new == [ctl[p] EXCEPT !.pc = "reread", !.reconciling = TRUE]
  <2>1. ctl' = [ctl EXCEPT ![p] = new]
    BY <1>5 DEF EnterReconcile
  <2>2. /\ new \in LocalStates /\ new.pc = "reread" /\ new.view = ctl[p].view
        /\ new.reconciled = FALSE
    BY <1>1 DEF LocalStates, Points
  <2> HIDE DEF new
  <2>3. Becomes(p, new)
    BY <2>1, <2>2 DEF JInv, Becomes, OthersStay
  <2>4. Knows(p)'
    BY <1>1, <1>5, <2>2, <2>3 DEF EnterReconcile, Becomes, Knows, At
  <2> QED
    BY <1>1, <1>2, <2>3, <2>4, QuietPreserves
<1>6. CASE EnterApplication(p) /\ Goto(p, "check")
  <2>1. /\ Becomes(p, [ctl[p] EXCEPT !.pc = "check"])
        /\ ctl'[p].pc = "check" /\ ctl'[p].view = ctl[p].view
        /\ ctl'[p].reconciled = ctl[p].reconciled
    BY <1>6, GotoMoves DEF Points
  <2>2. ctl[p].view.stage = "application_intent"
    BY <1>1, <1>6, DispositionFacts DEF EnterApplication
  <2>3. Knows(p)'
    BY <1>1, <2>1, <2>2 DEF Knows, At
  <2> QED
    BY <1>1, <1>2, <2>1, <2>3, QuietPreserves
<1>7. CASE /\ EnterApplication(p) /\ BodyOf(ctl[p].view, owner) \in bodies
           /\ ctl' = [ctl EXCEPT ![p].pc = "record", ![p].result = owner]
  <2>1. ctl[p].view.stage = "application_intent"
    BY <1>1, <1>7, DispositionFacts DEF EnterApplication
  <2>2. BodyOf(ctl[p].view, owner) = <<"application_intent", 0, owner>>
    BY <2>1 DEF BodyOf
  <2>3. owner \in Results
    BY <1>7, <2>2 DEF JInv, Scalars, RequestBody
  <2>4. PICK result \in ApplicationOutcomes : result = owner
    BY <2>3 DEF JInv, Scalars, Results, LifecycleResults, PublicationOutcomes,
       PublicationFailures, PublicationUnknown
  <2>5. /\ Becomes(p, [ctl[p] EXCEPT !.pc = "record", !.result = result])
        /\ ctl'[p].pc = "record" /\ ctl'[p].view = ctl[p].view
        /\ ctl'[p].result = result
        /\ ctl'[p].reconciled = ctl[p].reconciled
    BY <1>7, <2>4, ResultMoves DEF Points, Results
  <2>6. result \in ResultsAt(ctl[p].view.stage)
    BY <2>1 DEF ResultsAt
  <2>7. Knows(p)'
    BY <1>1, <1>7, <2>1, <2>4, <2>5, <2>6 DEF Knows, At, IntentStages
  <2> QED
    BY <1>1, <1>2, <2>5, <2>7, QuietPreserves
<1> QED
  BY <1>3, <1>4, <1>5, <1>6, <1>7 DEF EnterApplication

\* The lease is tested before every stage.
LEMMA CheckSteps ==
    ASSUME JInv, NEW p \in Controllers, LeaseHeld(p) \/ LeaseLost(p)
    PROVE  JInv'
<1>1. /\ At(p, "check") /\ Knows(p) /\ Valid(ctl[p].view) /\ ctl[p].view \in Records
      /\ ctl[p].view.stage # "terminal" /\ ctl[p].reconciled = FALSE
      /\ UNCHANGED <<journal, bodies>> /\ Unaffected /\ Uncounted
      /\ Disposition(ctl[p].view) = "continue" \/ ctl[p].view.stage = "application_intent"
  BY Local DEF LeaseHeld, LeaseLost, JInv, At, Knows
<1>2. lease \in Controllers \cup {Nobody}
  BY DEF JInv, Scalars
<1>3. CASE LeaseHeld(p) /\ ctl[p].view.stage = "application_intent"
  <2>1. Goto(p, "applying")
    <3>1. NextCall(ctl[p].view) # "publication"
      BY <1>1, <1>3 DEF Valid, Staged, Bare, NextCall
    <3> QED
      BY <1>3, <3>1 DEF LeaseHeld
  <2>2. /\ Becomes(p, [ctl[p] EXCEPT !.pc = "applying"])
        /\ ctl'[p].pc = "applying" /\ ctl'[p].view = ctl[p].view
        /\ ctl'[p].reconciled = ctl[p].reconciled
    BY <2>1, GotoMoves DEF Points
  <2>3. Knows(p)'
    BY <1>1, <1>3, <2>2 DEF Knows, At
  <2> QED
    BY <1>1, <1>2, <1>3, <2>2, <2>3, QuietPreserves DEF LeaseHeld
<1>4. CASE LeaseHeld(p) /\ ctl[p].view.stage # "application_intent"
  <2>1. PICK pc \in {"request", "intend"} :
          Goto(p, pc) /\ (pc = "request" <=> NextCall(ctl[p].view) = "publication")
    <3>1. CASE NextCall(ctl[p].view) = "publication"
      BY <1>4, <3>1 DEF LeaseHeld
    <3>2. CASE NextCall(ctl[p].view) # "publication"
      BY <1>4, <3>2 DEF LeaseHeld
    <3> QED
      BY <3>1, <3>2
  <2>2. /\ Becomes(p, [ctl[p] EXCEPT !.pc = pc])
        /\ ctl'[p].pc = pc /\ ctl'[p].view = ctl[p].view
        /\ ctl'[p].reconciled = ctl[p].reconciled
    BY <2>1, GotoMoves DEF Points
  <2>3. Knows(p)'
    BY <1>1, <1>4, <2>1, <2>2 DEF Knows, At
  <2> QED
    BY <1>1, <1>2, <1>4, <2>2, <2>3, QuietPreserves DEF LeaseHeld
<1>5. CASE LeaseLost(p) /\ Leave(p)
  BY <1>1, <1>5, LeavePreserves DEF Uncounted, JInv, Scalars
<1>6. CASE /\ LeaseLost(p) /\ UNCHANGED lease
           /\ ctl' = [ctl EXCEPT ![p].pc = "seal", ![p].seal = "outer_lease_lost"]
  <2>1. "outer_lease_lost" \in Verdicts
    BY DEF Verdicts
  <2>2. /\ Becomes(p, [ctl[p] EXCEPT !.pc = "seal", !.seal = "outer_lease_lost"])
        /\ ctl'[p].pc = "seal" /\ ctl'[p].view = ctl[p].view
        /\ ctl'[p].seal = "outer_lease_lost" /\ ctl'[p].reconciled = ctl[p].reconciled
    BY <1>6, <2>1, SealMoves
  <2>3. Knows(p)'
    BY <1>1, <2>2 DEF Knows, At, SealKnown
  <2> QED
    BY <1>1, <1>2, <1>6, <2>2, <2>3, QuietPreserves
<1> QED
  BY <1>3, <1>4, <1>5, <1>6 DEF LeaseLost

\* The request is retained before the intent of the publication.
LEMMA RetainRequestStep ==
    ASSUME JInv, NEW p \in Controllers, RetainRequest(p)
    PROVE  JInv'
<1>1. /\ At(p, "request") /\ Knows(p) /\ Valid(ctl[p].view)
      /\ ctl[p].view.stage # "terminal" /\ ctl[p].reconciled = FALSE
      /\ Disposition(ctl[p].view) = "continue"
      /\ bodies' = bodies \cup {RequestBody} /\ journal' = journal
  BY Local DEF RetainRequest, JInv, At, Knows
<1>2. /\ Becomes(p, [ctl[p] EXCEPT !.pc = "intend"])
      /\ ctl'[p].pc = "intend" /\ ctl'[p].view = ctl[p].view
      /\ ctl'[p].reconciled = ctl[p].reconciled
  BY GotoMoves DEF RetainRequest, Points
<1>3. Knows(p)'
  BY <1>1, <1>2 DEF Knows, At
<1>4. Scalars'
  BY <1>1 DEF RetainRequest, JInv, Scalars, Unaffected, Uncounted
<1> QED
  BY <1>1, <1>2, <1>3, <1>4, MovePreserves

\* The intent is appended before the call.
LEMMA IntendStep ==
    ASSUME JInv, NEW p \in Controllers, Intend(p)
    PROVE  JInv'
<1>1. /\ At(p, "intend") /\ ~At(p, "idle") /\ Knows(p) /\ Valid(ctl[p].view)
      /\ ctl[p].reconciled = FALSE /\ Disposition(ctl[p].view) = "continue"
      /\ NextCall(ctl[p].view) = "publication" => RequestBody \in bodies
  BY Local DEF Intend, JInv, At, Knows
<1>2. PICK next : next = BeginOf(ctl[p].view, NextCall(ctl[p].view))
  OBVIOUS
<1>3. Valid(next) /\ next \in Records /\ next.stage \in IntentStages /\ next.stage # "terminal"
  BY <1>1, <1>2, BeginValid DEF Valid
<1>4. /\ Acceptable(p, next) /\ journal' = next /\ bodies' = bodies
      /\ ctl' = [ctl EXCEPT ![p].pc = "call", ![p].view = next]
  BY <1>2 DEF Intend
<1>5. /\ Becomes(p, [ctl[p] EXCEPT !.pc = "call", !.view = next])
      /\ ctl'[p].pc = "call" /\ ctl'[p].view = next
      /\ ctl'[p].reconciled = ctl[p].reconciled
  BY <1>3, <1>4, ViewMoves, ZenonT(60) DEF Points
<1>6. Knows(p)'
  BY <1>1, <1>3, <1>5 DEF Knows, At
<1>7. Covered(ctl[p].view) => Covered(next)
  BY <1>1, <1>2, BeginCovered
<1>8. Valid(journal)' /\ Covered(journal)'
  BY <1>1, <1>3, <1>4, <1>7, AppendKept
<1>9. Scalars'
  BY <1>4 DEF Intend, JInv, Scalars, Unaffected, Uncounted
<1> QED
  BY <1>4, <1>5, <1>6, <1>8, <1>9, MovePreserves

\* A call whose result is in hand.
LEMMA ResultKnown ==
    ASSUME JInv, NEW p \in Controllers, ~At(p, "idle"), ctl[p].reconciled = FALSE,
           ctl[p].view.stage \in IntentStages, NEW result \in ResultsAt(ctl[p].view.stage),
           NEW new, Becomes(p, new), new.pc = "retain", new.view = ctl[p].view,
           new.result = result, new.reconciled = FALSE,
           UNCHANGED <<journal, bodies>>, Scalars'
    PROVE  JInv'
<1>1. Valid(ctl[p].view) /\ ctl[p].view.stage # "terminal"
  BY Local
<1>2. Knows(p)'
  BY <1>1 DEF Becomes, Knows, At
<1> QED
  BY <1>2, MovePreserves

\* A lifecycle program has run.
LEMMA CallLifecycleStep ==
    ASSUME JInv, NEW p \in Controllers, NEW result \in LifecycleResults,
           CallLifecycle(p, result)
    PROVE  JInv'
<1>1. /\ At(p, "call") /\ ~At(p, "idle") /\ ctl[p].reconciled = FALSE
      /\ ctl[p].view.stage \in IntentStages /\ result \in ResultsAt(ctl[p].view.stage)
      /\ result \in Results /\ ctl[p] \in LocalStates
  BY Local DEF CallLifecycle, At, IntentStages, ResultsAt, Results
<1> DEFINE new == [ctl[p] EXCEPT !.pc = "retain", !.result = result]
<1>2. Becomes(p, new)
  BY <1>1, ResultMoves DEF CallLifecycle, Points
<1>3. new.pc = "retain" /\ new.view = ctl[p].view /\ new.result = result
      /\ new.reconciled = FALSE
  BY <1>1 DEF LocalStates
<1>4. Scalars'
  BY DEF CallLifecycle, JInv, Scalars, Uncounted
<1> HIDE DEF new
<1> QED
  BY <1>1, <1>2, <1>3, <1>4, ResultKnown DEF CallLifecycle

\* The owner opens its journal, refuses, or returns.
LEMMA ApplicationSteps ==
    ASSUME JInv, NEW p \in Controllers,
           \/ CallApplication(p) \/ ApplicationRefused(p)
           \/ \E outcome \in ApplicationOutcomes : ApplicationReturns(p, outcome)
    PROVE  JInv'
<1>1. CASE CallApplication(p)
  <2>1. /\ At(p, "call") /\ Valid(ctl[p].view) /\ ctl[p].view.stage = "application_intent"
        /\ ctl[p].reconciled = FALSE
    BY <1>1, Local DEF CallApplication, At
  <2>2. /\ Becomes(p, [ctl[p] EXCEPT !.pc = "applying"])
        /\ ctl'[p].pc = "applying" /\ ctl'[p].view = ctl[p].view
        /\ ctl'[p].reconciled = ctl[p].reconciled
    BY <1>1, GotoMoves DEF CallApplication, Points
  <2>3. Knows(p)'
    BY <2>1, <2>2 DEF Knows, At
  <2>4. Scalars'
    BY <1>1 DEF CallApplication, JInv, Scalars, Uncounted
  <2> QED
    BY <1>1, <2>2, <2>3, <2>4, MovePreserves DEF CallApplication
<1>2. ASSUME NEW outcome \in ApplicationOutcomes,
             ctl' = [ctl EXCEPT ![p].pc = "retain", ![p].result = outcome],
             ctl[p].pc \in {"call", "applying"}, ctl[p].view.stage = "application_intent",
             UNCHANGED <<journal, bodies>>, Scalars'
      PROVE  JInv'
  <2> DEFINE new == [ctl[p] EXCEPT !.pc = "retain", !.result = outcome]
  <2>1. /\ ~At(p, "idle") /\ ctl[p].reconciled = FALSE
        /\ ctl[p].view.stage \in IntentStages /\ outcome \in ResultsAt(ctl[p].view.stage)
        /\ outcome \in Results /\ ctl[p] \in LocalStates
    BY <1>2, Local DEF At, IntentStages, ResultsAt, Results
  <2>2. Becomes(p, new)
    BY <1>2, <2>1, ResultMoves DEF Points
  <2>3. new.pc = "retain" /\ new.view = ctl[p].view /\ new.result = outcome
        /\ new.reconciled = FALSE
    BY <2>1 DEF LocalStates
  <2> HIDE DEF new
  <2> QED
    BY <1>2, <2>1, <2>2, <2>3, ResultKnown
<1>3. CASE ApplicationRefused(p)
  <2>1. "precondition_refused" \in ApplicationOutcomes
    BY DEF ApplicationOutcomes, ApplicationFailures
  <2>2. Scalars'
    BY <1>3 DEF ApplicationRefused, JInv, Scalars, Unaffected, Uncounted
  <2> QED
    BY <1>2, <1>3, <2>1, <2>2 DEF ApplicationRefused, At
<1>4. ASSUME NEW outcome \in ApplicationOutcomes, ApplicationReturns(p, outcome)
      PROVE  JInv'
  <2>1. ctl[p].view.stage = "application_intent" /\ ctl[p].pc = "applying"
    BY <1>4 DEF ApplicationReturns, JInv, Knows, At
  <2>2. ApplicationStep \in Nat
    BY EffectAssumption DEF ApplicationStep
  <2>3. Scalars'
    BY <1>4, <2>2 DEF ApplicationReturns, JInv, Scalars, Uncounted
  <2> QED
    BY <1>2, <1>4, <2>1, <2>3 DEF ApplicationReturns
<1> QED
  BY <1>1, <1>3, <1>4

\* The state is published, or not.
LEMMA CallPublicationStep ==
    ASSUME JInv, NEW p \in Controllers, NEW changes \in BOOLEAN,
           NEW outcome \in PublicationOutcomes, CallPublication(p, changes, outcome)
    PROVE  JInv'
<1> DEFINE new == [ctl[p] EXCEPT !.pc = "retain", !.result = outcome, !.lostFirst = ~Held(p)]
<1>1. /\ At(p, "call") /\ ~At(p, "idle") /\ ctl[p].reconciled = FALSE
      /\ ctl[p].view.stage \in IntentStages /\ outcome \in ResultsAt(ctl[p].view.stage)
      /\ outcome \in Results /\ ctl[p] \in LocalStates
  BY Local DEF CallPublication, At, IntentStages, ResultsAt, Results
<1>2. /\ ctl' = [ctl EXCEPT ![p] = new] /\ UNCHANGED <<journal, bodies>>
  BY <1>1 DEF CallPublication
<1>3. /\ new \in LocalStates /\ new.pc = "retain" /\ new.view = ctl[p].view
      /\ new.result = outcome /\ new.reconciled = FALSE
  BY <1>1 DEF LocalStates, Points
<1> HIDE DEF new
<1>4. Becomes(p, new)
  BY <1>2, <1>3 DEF JInv, Becomes, OthersStay
<1>5. Scalars'
  BY DEF CallPublication, JInv, Scalars, Uncounted
<1> QED
  BY <1>1, <1>2, <1>3, <1>4, <1>5, ResultKnown

\* The body of a result has the place of the result it will prove.
LEMMA BodyTyped ==
    ASSUME NEW r, Valid(r), r.stage \in IntentStages, NEW result \in ResultsAt(r.stage)
    PROVE  BodyOf(r, result) \in Stages \X (0..(BeforeTotal + AfterTotal)) \X Results
<1>1. /\ BeforeTotal \in Nat /\ AfterTotal \in Nat /\ Staged(r) /\ r.stage \in Stages
      /\ Len(r.before) \in Nat /\ Len(r.after) \in Nat
  BY EffectAssumption, LenProperties DEF Valid, Records
<1>2. result \in Results
  BY DEF ResultsAt, Results
<1>3. CASE r.stage = "before_intent"
  BY <1>1, <1>2, <1>3 DEF Staged, BodyOf
<1>4. CASE r.stage = "after_intent"
  BY <1>1, <1>2, <1>4 DEF Staged, BodyOf
<1>5. CASE r.stage \notin {"before_intent", "after_intent"}
  BY <1>1, <1>2, <1>5 DEF BodyOf
<1> QED
  BY <1>3, <1>4, <1>5

\* The body is retained before the fact is journaled.
LEMMA RetainBodySteps ==
    ASSUME JInv, NEW p \in Controllers, RetainBody(p) \/ RetainRefused(p)
    PROVE  JInv'
<1>1. CASE RetainBody(p)
  <2>1. /\ At(p, "retain") /\ Valid(ctl[p].view) /\ ctl[p].view.stage # "terminal"
        /\ ctl[p].reconciled = FALSE /\ ctl[p].view.stage \in IntentStages
        /\ ctl[p].result \in ResultsAt(ctl[p].view.stage)
        /\ bodies' = bodies \cup {BodyOf(ctl[p].view, ctl[p].result)} /\ journal' = journal
    BY <1>1, Local DEF RetainBody, JInv, At, Knows
  <2>2. /\ Becomes(p, [ctl[p] EXCEPT !.pc = "record"])
        /\ ctl'[p].pc = "record" /\ ctl'[p].view = ctl[p].view
        /\ ctl'[p].result = ctl[p].result /\ ctl'[p].reconciled = ctl[p].reconciled
    BY <1>1, GotoMoves DEF RetainBody, Points
  <2>3. Knows(p)'
    BY <2>1, <2>2 DEF Knows, At
  <2>4. Scalars'
    BY <1>1, <2>1, BodyTyped DEF RetainBody, JInv, Scalars, Unaffected, Uncounted
  <2> QED
    BY <2>1, <2>2, <2>3, <2>4, MovePreserves
<1>2. CASE RetainRefused(p)
  BY <1>2, LeavePreserves DEF RetainRefused, Uncounted, JInv, Scalars
<1> QED
  BY <1>1, <1>2

\* The fact is appended; what comes next depends on what it is.
LEMMA RecordFactStep ==
    ASSUME JInv, NEW p \in Controllers, RecordFact(p)
    PROVE  JInv'
<1>1. /\ At(p, "record") /\ ~At(p, "idle") /\ Knows(p) /\ Valid(ctl[p].view)
      /\ ctl[p].reconciled = FALSE /\ ctl[p].view.stage \in IntentStages
      /\ ctl[p].result \in ResultsAt(ctl[p].view.stage)
      /\ BodyOf(ctl[p].view, ctl[p].result) \in bodies
  BY Local DEF RecordFact, JInv, At, Knows
<1>2. PICK next : next = CompleteOf(ctl[p].view, ctl[p].result)
  OBVIOUS
<1>3. Valid(next) /\ next \in Records /\ next.stage # "terminal"
  BY <1>1, <1>2, CompleteValid DEF Valid
<1>4. Acceptable(p, next) /\ journal' = next /\ bodies' = bodies
  BY <1>2 DEF RecordFact
<1>5. Covered(ctl[p].view) => Covered(next)
  BY <1>1, <1>2, CompleteCovered
<1>6. Valid(journal)' /\ Covered(journal)'
  BY <1>1, <1>3, <1>4, <1>5, AppendKept
<1>7. lease' \in Controllers \cup {Nobody} => Scalars'
  BY <1>4 DEF RecordFact, JInv, Scalars, Unaffected, Uncounted
<1>8. lease \in Controllers \cup {Nobody}
  BY DEF JInv, Scalars
<1>9. CASE /\ next.stage = "publication_terminal" /\ UNCHANGED lease
           /\ ctl' = [ctl EXCEPT ![p].pc = "confirm", ![p].view = next]
  <2>1. /\ Becomes(p, [ctl[p] EXCEPT !.pc = "confirm", !.view = next])
        /\ ctl'[p].pc = "confirm" /\ ctl'[p].view = next
        /\ ctl'[p].reconciled = ctl[p].reconciled
    BY <1>3, <1>9, ViewMoves, ZenonT(60) DEF Points
  <2>2. Knows(p)'
    BY <1>1, <1>3, <1>9, <2>1 DEF Knows, At
  <2> QED
    BY <1>4, <1>6, <1>7, <1>8, <1>9, <2>1, <2>2, MovePreserves
<1>10. CASE /\ Disposition(next) = "seal" /\ UNCHANGED lease
            /\ ctl' = [ctl EXCEPT ![p].pc = "seal", ![p].view = next,
                                  ![p].seal = SealOutcome(next)]
  <2> DEFINE new == [ctl[p] EXCEPT !.pc = "seal", !.view = next, !.seal = SealOutcome(next)]
  <2>1. SealOutcome(next) \in Verdicts /\ ctl[p] \in LocalStates
    BY <1>3, <1>10, SealOutcomeFacts, Local
  <2>2. ctl' = [ctl EXCEPT ![p] = new]
    BY <1>10, <2>1
  <2>3. /\ new \in LocalStates /\ new.pc = "seal" /\ new.view = next
        /\ new.seal = SealOutcome(next) /\ new.reconciled = FALSE
    BY <1>1, <1>3, <2>1 DEF LocalStates, Points
  <2> HIDE DEF new
  <2>4. Becomes(p, new)
    BY <2>2, <2>3 DEF JInv, Becomes, OthersStay
  <2>5. SealKnown(p)'
    BY <1>10, <2>3, <2>4 DEF SealKnown, Becomes
  <2>6. Knows(p)'
    BY <1>3, <2>3, <2>4, <2>5 DEF Becomes, Knows, At
  <2> QED
    BY <1>4, <1>6, <1>7, <1>8, <1>10, <2>4, <2>6, MovePreserves
<1>11. CASE /\ Disposition(next) = "continue" /\ UNCHANGED lease
            /\ ctl' = [ctl EXCEPT ![p].pc = "check", ![p].view = next]
  <2>1. /\ Becomes(p, [ctl[p] EXCEPT !.pc = "check", !.view = next])
        /\ ctl'[p].pc = "check" /\ ctl'[p].view = next
        /\ ctl'[p].reconciled = ctl[p].reconciled
    BY <1>3, <1>11, ViewMoves, ZenonT(30) DEF Points
  <2>2. Knows(p)'
    BY <1>1, <1>3, <1>11, <2>1 DEF Knows, At
  <2> QED
    BY <1>4, <1>6, <1>7, <1>8, <1>11, <2>1, <2>2, MovePreserves
<1>12. CASE Leave(p)
  <2>1. /\ Becomes(p, Resting) /\ Knows(p)' /\ lease' \in Controllers \cup {Nobody}
    BY <1>12, LeaveMoves
  <2> QED
    BY <1>4, <1>6, <1>7, <2>1, MovePreserves
<1> QED
  BY <1>2, <1>9, <1>10, <1>11, <1>12 DEF RecordFact

\* After the publication the lease is tested again.
LEMMA ConfirmStep ==
    ASSUME JInv, NEW p \in Controllers, Confirm(p)
    PROVE  JInv'
<1>1. /\ At(p, "confirm") /\ Valid(ctl[p].view) /\ ctl[p].view \in Records
      /\ ctl[p].view.stage = "publication_terminal" /\ ctl[p].reconciled = FALSE
      /\ UNCHANGED <<journal, bodies>> /\ Unaffected /\ Uncounted
  BY Local DEF Confirm, JInv, At, Knows
<1>2. lease \in Controllers \cup {Nobody}
  BY DEF JInv, Scalars
<1>3. PICK verdict : verdict = PublicationVerdict(ctl[p].view.publication)
  OBVIOUS
<1>4. CASE Leave(p)
  BY <1>1, <1>4, LeavePreserves DEF Uncounted, JInv, Scalars
<1>5. ASSUME NEW seal \in Verdicts, UNCHANGED lease,
             ctl' = [ctl EXCEPT ![p].pc = "seal", ![p].seal = seal],
             \/ seal = "outer_lease_lost"
             \/ Disposition(ctl[p].view) = "seal" /\ seal = SealOutcome(ctl[p].view)
      PROVE  JInv'
  <2>1. /\ Becomes(p, [ctl[p] EXCEPT !.pc = "seal", !.seal = seal])
        /\ ctl'[p].pc = "seal" /\ ctl'[p].view = ctl[p].view
        /\ ctl'[p].seal = seal /\ ctl'[p].reconciled = ctl[p].reconciled
    BY <1>5, SealMoves
  <2>2. SealKnown(p)'
    BY <1>1, <1>5, <2>1 DEF SealKnown
  <2>3. Knows(p)'
    BY <1>1, <2>1, <2>2 DEF Knows, At
  <2> QED
    BY <1>1, <1>2, <1>5, <2>1, <2>3, QuietPreserves
<1>6. CASE /\ UNCHANGED lease
           /\ ctl' = [ctl EXCEPT ![p].pc = "seal", ![p].seal = "outer_lease_lost"]
  BY <1>5, <1>6 DEF Verdicts
<1>7. CASE /\ verdict # "state_publication_indeterminate" /\ UNCHANGED lease
           /\ ctl' = [ctl EXCEPT ![p].pc = "seal", ![p].seal = verdict]
  <2>1. ctl[p].view.publication \notin PublicationUnknown
    BY <1>3, <1>7 DEF PublicationVerdict, PublicationUnknown
  <2>2. Disposition(ctl[p].view) = "seal"
    BY <1>1, <2>1, DispositionFacts
  <2>3. verdict = SealOutcome(ctl[p].view) /\ verdict \in Verdicts
    BY <1>1, <1>3, <2>2, SealOutcomeFacts
  <2> QED
    BY <1>5, <1>7, <2>2, <2>3
<1>8. \/ ~Held(p)
      \/ Held(p) /\ verdict = "state_publication_indeterminate"
      \/ Held(p) /\ verdict # "state_publication_indeterminate"
  OBVIOUS
<1> QED
  BY <1>3, <1>4, <1>6, <1>7, <1>8 DEF Confirm

\* Reconciliation reads the canonical state.
LEMMA RereadStep ==
    ASSUME JInv, NEW p \in Controllers, Reread(p)
    PROVE  JInv'
<1>1. /\ At(p, "reread") /\ Valid(ctl[p].view) /\ ctl[p].view \in Records
      /\ Disposition(ctl[p].view) = "reconcile" /\ ctl[p].reconciled = FALSE
      /\ UNCHANGED <<journal, bodies>> /\ Unaffected /\ Uncounted
      /\ ctl[p].view.stage # "terminal" /\ ctl[p] \in LocalStates
  BY Local DEF Reread, JInv, At, Knows
<1>2. lease \in Controllers \cup {Nobody}
  BY DEF JInv, Scalars
<1>3. CASE /\ UNCHANGED lease
           /\ ctl' = [ctl EXCEPT ![p].pc = "seal", ![p].seal = "completed", ![p].reconciled = TRUE]
  <2> DEFINE new == [ctl[p] EXCEPT !.pc = "seal", !.seal = "completed", !.reconciled = TRUE]
  <2>1. ctl' = [ctl EXCEPT ![p] = new]
    BY <1>1, <1>3
  <2>2. /\ new \in LocalStates /\ new.pc = "seal" /\ new.view = ctl[p].view
        /\ new.seal = "completed" /\ new.reconciled = TRUE
    BY <1>1 DEF LocalStates, Points, Verdicts
  <2> HIDE DEF new
  <2>3. Becomes(p, new)
    BY <2>1, <2>2 DEF JInv, Becomes, OthersStay
  <2>4. ctl[p].view.requested
    BY <1>1, DispositionFacts DEF Valid, Staged
  <2>5. SealKnown(p)'
    BY <2>2, <2>3, <2>4 DEF SealKnown, Becomes
  <2>6. Knows(p)'
    BY <1>1, <2>2, <2>3, <2>5 DEF Becomes, Knows, At
  <2> QED
    BY <1>1, <1>2, <1>3, <2>3, <2>6, QuietPreserves
<1>4. CASE ctl[p].view.stage = "publication_intent" /\ Goto(p, "call") /\ UNCHANGED lease
  <2>1. /\ Becomes(p, [ctl[p] EXCEPT !.pc = "call"])
        /\ ctl'[p].pc = "call" /\ ctl'[p].view = ctl[p].view
        /\ ctl'[p].reconciled = ctl[p].reconciled
    BY <1>4, GotoMoves DEF Points
  <2>2. Knows(p)'
    BY <1>1, <1>4, <2>1 DEF Knows, At, IntentStages
  <2> QED
    BY <1>1, <1>2, <1>4, <2>1, <2>2, QuietPreserves
<1>5. CASE Leave(p)
  BY <1>1, <1>5, LeavePreserves DEF Uncounted, JInv, Scalars
<1> QED
  BY <1>3, <1>4, <1>5 DEF Reread

\* The verdict is appended and the controller leaves.
LEMMA SealStep ==
    ASSUME JInv, NEW p \in Controllers, Seal(p)
    PROVE  JInv'
<1>1. /\ At(p, "seal") /\ ~At(p, "idle") /\ ctl[p].view \in Records
  BY Local DEF Seal, At
<1>2. PICK next : next = SealOf(ctl[p].view, ctl[p].seal, ctl[p].reconciled)
  OBVIOUS
<1>3. Valid(next) /\ ctl[p].seal \in Verdicts /\ ctl[p].reconciled \in BOOLEAN
  BY <1>1, <1>2, SealSound
<1>4. Acceptable(p, next) /\ journal' = next /\ bodies' = bodies /\ Leave(p)
  BY <1>2 DEF Seal
<1>5. Covered(ctl[p].view) => Covered(next)
  BY <1>1, <1>2, <1>3, SealCovered
<1>6. Valid(journal)' /\ Covered(journal)'
  BY <1>1, <1>3, <1>4, <1>5, AppendKept
<1>7. /\ Becomes(p, Resting) /\ Knows(p)' /\ lease' \in Controllers \cup {Nobody}
  BY <1>4, LeaveMoves
<1>8. Scalars'
  BY <1>4, <1>7 DEF Seal, JInv, Scalars, Unaffected
<1> QED
  BY <1>4, <1>6, <1>7, <1>8, MovePreserves

\* Ways to leave without an append.
LEMMA LeaveSteps ==
    ASSUME JInv, NEW p \in Controllers,
           GiveUp(p) \/ EnterRefused(p) \/ Conflict(p) \/ Crash(p)
    PROVE  JInv'
<1>1. crashes \in Nat /\ crashes <= MaxCrashes /\ MaxCrashes \in Nat
  BY EffectAssumption DEF JInv, Scalars
<1>2. CASE Crash(p)
  BY <1>1, <1>2, LeavePreserves DEF Crash, JInv, Scalars
<1>3. CASE GiveUp(p) \/ EnterRefused(p) \/ Conflict(p)
  BY <1>1, <1>3, LeavePreserves DEF GiveUp, EnterRefused, Conflict, Uncounted, JInv, Scalars
<1> QED
  BY <1>2, <1>3

\* No step of the environment touches records or controllers.
LEMMA EnvironmentSteps ==
    ASSUME JInv, Revoke \/ OtherPublishes \/ UNCHANGED vars
    PROVE  JInv'
<1>1. UNCHANGED <<journal, bodies, ctl>> /\ Scalars'
  <2>1. revocations \in Nat /\ revocations <= MaxRevocations /\ MaxRevocations \in Nat
    BY EffectAssumption DEF JInv, Scalars
  <2>2. CASE Revoke
    BY <2>1, <2>2 DEF Revoke, JInv, Scalars, Unaffected
  <2>3. CASE OtherPublishes
    BY <2>3 DEF OtherPublishes, JInv, Scalars, Uncounted
  <2>4. CASE UNCHANGED vars
    BY <2>4 DEF vars, JInv, Scalars
  <2> QED
    BY <2>2, <2>3, <2>4
<1>2. \A q \in Controllers : Knows(q)'
  BY <1>1, KnowsStay DEF JInv
<1>3. journal # None => Valid(journal)' /\ Covered(journal)'
  BY <1>1 DEF JInv, Covered
<1> QED
  BY <1>1, <1>2, <1>3 DEF JInv

\* Every step keeps the journal sound and what controllers know true.
LEMMA SoundStep ==
    ASSUME JInv, [Next]_vars
    PROVE  JInv'
<1>1. ASSUME NEW p \in Controllers, Work(p) PROVE JInv'
  <2>1. CASE GiveUp(p) \/ EnterRefused(p) \/ Conflict(p)
    BY <2>1, LeaveSteps
  <2>2. CASE EnterSeal(p) \/ EnterContinue(p) \/ EnterReconcile(p) \/ EnterApplication(p)
    BY <2>2, EnterSteps
  <2>3. CASE LeaseHeld(p) \/ LeaseLost(p) \/ RetainRequest(p) \/ Intend(p) \/ Acquire(p)
    BY <2>3, CheckSteps, RetainRequestStep, IntendStep, AcquireStep
  <2>4. CASE \E result \in LifecycleResults : CallLifecycle(p, result)
    BY <2>4, CallLifecycleStep
  <2>5. CASE \/ CallApplication(p) \/ ApplicationRefused(p)
             \/ \E outcome \in ApplicationOutcomes : ApplicationReturns(p, outcome)
    BY <2>5, ApplicationSteps
  <2>6. CASE \E changes \in BOOLEAN, outcome \in PublicationOutcomes :
               CallPublication(p, changes, outcome)
    BY <2>6, CallPublicationStep
  <2>7. CASE RetainBody(p) \/ RetainRefused(p) \/ RecordFact(p)
    BY <2>7, RetainBodySteps, RecordFactStep
  <2>8. CASE Confirm(p) \/ Reread(p) \/ Seal(p)
    BY <2>8, ConfirmStep, RereadStep, SealStep
  <2> QED
    BY <1>1, <2>1, <2>2, <2>3, <2>4, <2>5, <2>6, <2>7, <2>8 DEF Work
<1>2. ASSUME NEW p \in Controllers, Start(p) \/ Load(p) \/ Crash(p) PROVE JInv'
  BY <1>2, StartStep, LoadStep, LeaveSteps
<1> QED
  BY <1>1, <1>2, EnvironmentSteps DEF Next

\* An accepted append keeps every fact of the journal, and a terminal record.
LEMMA AppendExtends ==
    ASSUME JInv, NEW p \in Controllers, ~At(p, "idle"), NEW next,
           Acceptable(p, next), Valid(next), Extends(ctl[p].view, next), journal' = next
    PROVE  journal' # None /\ Extends(journal, journal')
           /\ (journal.stage = "terminal" => journal' = journal)
<1>1. next \in Records /\ ctl[p].view.stage # "terminal"
  BY Local DEF Valid
<1>2. next # None
  BY <1>1, NoneFacts
<1>3. Extends(next, next)
  BY <1>1 DEF Records, Extends, IsPrefix
<1> QED
  BY <1>1, <1>2, <1>3 DEF Acceptable

\* No step drops or rewrites a fact of the journal.
LEMMA StepExtends ==
    ASSUME JInv, [Next]_vars, journal # None
    PROVE  journal' # None /\ Extends(journal, journal')
           /\ (journal.stage = "terminal" => journal' = journal)
<1>1. CASE journal' = journal
  BY <1>1 DEF JInv, Valid, Records, Extends, IsPrefix
<1>2. ASSUME NEW p \in Controllers, Intend(p)
      PROVE  journal' # None /\ Extends(journal, journal')
             /\ (journal.stage = "terminal" => journal' = journal)
  <2>1. PICK next : next = BeginOf(ctl[p].view, NextCall(ctl[p].view))
    OBVIOUS
  <2>2. Valid(ctl[p].view) /\ Disposition(ctl[p].view) = "continue" /\ ~At(p, "idle")
    BY <1>2 DEF Intend, JInv, Knows, At
  <2>3. Valid(next) /\ Extends(ctl[p].view, next)
    BY <2>1, <2>2, BeginValid
  <2> QED
    BY <1>2, <2>1, <2>2, <2>3, AppendExtends DEF Intend
<1>3. ASSUME NEW p \in Controllers, RecordFact(p)
      PROVE  journal' # None /\ Extends(journal, journal')
             /\ (journal.stage = "terminal" => journal' = journal)
  <2>1. PICK next : next = CompleteOf(ctl[p].view, ctl[p].result)
    OBVIOUS
  <2>2. /\ Valid(ctl[p].view) /\ ctl[p].view.stage \in IntentStages /\ ~At(p, "idle")
        /\ ctl[p].result \in ResultsAt(ctl[p].view.stage)
    BY <1>3 DEF RecordFact, JInv, Knows, At
  <2>3. Valid(next) /\ Extends(ctl[p].view, next)
    BY <2>1, <2>2, CompleteValid
  <2> QED
    BY <1>3, <2>1, <2>2, <2>3, AppendExtends DEF RecordFact
<1>4. ASSUME NEW p \in Controllers, Seal(p)
      PROVE  journal' # None /\ Extends(journal, journal')
             /\ (journal.stage = "terminal" => journal' = journal)
  <2>1. PICK next : next = SealOf(ctl[p].view, ctl[p].seal, ctl[p].reconciled)
    OBVIOUS
  <2>2. At(p, "seal") /\ ~At(p, "idle")
    BY <1>4 DEF Seal, At
  <2>3. Valid(next) /\ Extends(ctl[p].view, next)
    BY <2>1, <2>2, SealSound
  <2> QED
    BY <1>4, <2>1, <2>2, <2>3, AppendExtends DEF Seal
<1>5. ASSUME NEW p \in Controllers, Work(p), ~Intend(p), ~RecordFact(p), ~Seal(p)
      PROVE  journal' = journal
  BY <1>5 DEF Work, Acquire, GiveUp, EnterSeal, EnterContinue, EnterReconcile,
     EnterApplication, EnterRefused, LeaseHeld, LeaseLost, RetainRequest, CallLifecycle,
     CallApplication, ApplicationRefused, ApplicationReturns, CallPublication,
     RetainBody, RetainRefused, Confirm, Reread, Conflict
<1>6. ASSUME NEW p \in Controllers, Start(p) \/ Load(p) \/ Crash(p) PROVE journal' = journal
  BY <1>6 DEF Start, Load, Crash
<1>7. Revoke \/ OtherPublishes \/ UNCHANGED vars => journal' = journal
  BY DEF Revoke, OtherPublishes, vars
<1> QED
  BY <1>1, <1>2, <1>3, <1>4, <1>5, <1>6, <1>7 DEF Next

-----------------------------------------------------------------------------
\* The inductive invariant of the journal and its controllers.
THEOREM Soundness == Spec => []JInv
<1>1. JInv /\ [Next]_vars => JInv'
  BY SoundStep
<1> QED
  BY InitSound, <1>1, PTL DEF Spec

\* Every record of the journal, and every view of a controller, has the shape
\* validate_record_shape asks for.
THEOREM TypeCorrect == Spec => []TypeOK
  BY Soundness, TypesFollow, PTL

\* Evidence before reference: whatever the journal names was retained before.
THEOREM EvidenceBeforeReference == Spec => []BodiesCoverJournal
  BY Soundness, CoverFollows, PTL

\* The journal is a log: no append, not even one of a controller that lost its
\* lease, drops or rewrites a fact, and nothing follows a terminal record.
THEOREM NoFactIsLost == Spec => JournalMonotone
<1>1. JInv /\ [Next]_vars =>
        [journal # None =>
           /\ journal' # None
           /\ IsPrefix(journal.before, journal'.before)
           /\ IsPrefix(journal.after, journal'.after)
           /\ journal.application # None => journal'.application = journal.application
           /\ journal.publication # None => journal'.publication = journal.publication
           /\ journal.requested => journal'.requested
           /\ journal.stage = "terminal" => journal' = journal]_vars
  BY StepExtends DEF Extends
<1> QED
  BY <1>1, Soundness, PTL DEF Spec, JournalMonotone

-----------------------------------------------------------------------------
(***************************************************************************)
(* The contract.  First, what a step of one controller leaves alone.       *)
(***************************************************************************)

InsidePoints == {"check", "request", "intend", "call", "applying", "retain",
                 "record", "confirm", "reread"}

\* At most one controller is engaged.
LEMMA Sole ==
    ASSUME Alone, Accounts, NEW p \in Controllers, NEW q \in Controllers,
           Engaged(p), Engaged(q)
    PROVE  p = q
<1>1. CASE revocations = 0
  <2>1. Held(p) /\ Held(q)
    BY <1>1 DEF Accounts, Step
  <2> QED
    BY <2>1 DEF Held
<1>2. CASE \E k : Controllers = {k}
  BY <1>2
<1> QED
  BY <1>1, <1>2 DEF Alone

\* A controller that is not engaged owes nothing.
LEMMA Unengaged ==
    ASSUME NEW p \in Controllers, ctl'[p].pc \notin InsidePoints,
           ctl'[p].pc = "enter" => ~NeedsLease(ctl'[p].view),
           ~ctl'[p].reconciled,
           revocations' = 0 /\ ctl'[p].pc = "seal" => ctl'[p].seal # "outer_lease_lost"
    PROVE  Step(p)'
  BY DEF Step, Inside, InsidePoints, Engaged, At, NeedsLease

\* So the step of another leaves it so.
LEMMA UnengagedStays ==
    ASSUME NEW q \in Controllers, ~Engaged(q), Step(q), ctl'[q] = ctl[q],
           revocations' = 0 => revocations = 0
    PROVE  Step(q)'
<1>1. ctl[q].pc \notin InsidePoints /\ (ctl[q].pc = "enter" => ~NeedsLease(ctl[q].view))
      /\ ~ctl[q].reconciled
  BY DEF Engaged, Inside, InsidePoints, At
<1>2. revocations = 0 /\ ctl[q].pc = "seal" => ctl[q].seal # "outer_lease_lost"
  BY DEF Step, At
<1> QED
  BY <1>1, <1>2, Unengaged

\* A step that touches neither the journal nor the counts.
LEMMA StepStays ==
    ASSUME NEW q \in Controllers, Step(q), ctl'[q] = ctl[q],
           UNCHANGED <<journal, owner, begun, succeeded>>,
           revocations' = 0 => revocations = 0 /\ (lease = q => lease' = q)
    PROVE  Step(q)'
<1>1. PICK c : c = ctl[q] /\ ctl'[q] = c
  OBVIOUS
<1>2. PICK view : view = c.view
  OBVIOUS
<1>3. (Inside(q) <=> Inside(q)') /\ (Engaged(q) <=> Engaged(q)')
  BY <1>1 DEF Inside, Engaged, At, NeedsLease
<1>4. Sealed(ctl[q].view) = Sealed(view) /\ Sealed(ctl[q].view)' = Sealed(view)
  BY <1>1, <1>2 DEF Sealed
<1> QED
  BY <1>1, <1>2, <1>3, <1>4 DEF Step, At, Held, DoneBefore, DoneAfter

\* Another transaction may publish, and nothing is miscounted.
LEMMA CountsStay ==
    ASSUME Counts, UNCHANGED <<journal, owner, begun, succeeded>>,
           canonical' = canonical \/ canonical' = "other",
           journal # None \/ UNCHANGED ctl
    PROVE  Counts'
<1>1. ASSUME journal # None, journal.stage # "terminal" PROVE Counted(journal)'
  <2>1. PICK r : r = journal
    OBVIOUS
  <2>2. Counted(r)
    BY <1>1, <2>1 DEF Counts
  <2>3. Counted(r)'
    BY <2>2 DEF Counted
  <2> QED
    BY <2>1, <2>3 DEF Counted, DoneBefore, DoneAfter
<1>2. ASSUME journal = None
      PROVE  /\ begun' = 0 /\ succeeded' = 0 /\ owner' = "absent"
             /\ canonical' # "resulting" /\ \A p \in Controllers : At(p, "idle")'
  BY <1>2 DEF Counts, At
<1> QED
  BY <1>1, <1>2 DEF Counts

\* What the accounts do not mention may move; everything they mention stays.
Quiet == UNCHANGED <<journal, owner, begun, succeeded, canonical, revocations>>

\* What a step owes to the contract.
Honours == [Contract!Next]_<<begun, succeeded, Verdict>>

\* A quiet step of p keeps the accounts if p keeps its own.
LEMMA QuietAccounts ==
    ASSUME Accounts, NEW p \in Controllers, NEW new, Becomes(p, new), Step(p)',
           journal # None, Quiet, \A q \in Controllers \ {p} : lease = q => lease' = q
    PROVE  Accounts' /\ Honours
<1>1. \A q \in Controllers : Step(q)'
  BY StepStays DEF Accounts, Becomes, OthersStay, Quiet
<1>2. Counts'
  BY CountsStay DEF Accounts, Quiet
<1>3. Honours
  BY DEF Honours, Quiet, Verdict
<1> QED
  BY <1>1, <1>2, <1>3 DEF Accounts

\* A step of a controller that is engaged keeps the accounts of all others.
LEMMA EngagedAccounts ==
    ASSUME Alone, Accounts, NEW p \in Controllers, NEW new, Becomes(p, new), Engaged(p),
           Step(p)', Counts', revocations' = revocations
    PROVE  Accounts'
<1>1. ASSUME NEW q \in Controllers, q # p PROVE Step(q)'
  BY <1>1, Sole, UnengagedStays DEF Accounts, Becomes, OthersStay
<1> QED
  BY <1>1 DEF Accounts

\* Once somebody works on the attempt there is a journal.
LEMMA Opened ==
    ASSUME Accounts, NEW p \in Controllers, ~At(p, "idle")
    PROVE  journal # None
  BY DEF Accounts, Counts

\* A controller that has left owes nothing.
LEMMA LeftOwesNothing ==
    ASSUME JInv, NEW p \in Controllers, Leave(p)
    PROVE  Becomes(p, Resting) /\ Step(p)'
<1>1. Becomes(p, Resting)
  BY LeaveMoves
<1>2. Resting.pc = "idle" /\ Resting.reconciled = FALSE
  BY DEF Resting
<1> QED
  BY <1>1, <1>2, Unengaged DEF Becomes, InsidePoints

\* Leaving keeps the accounts.
LEMMA LeaveAccounts ==
    ASSUME JInv, Accounts, NEW p \in Controllers, Leave(p), ~At(p, "idle"), Quiet
    PROVE  Accounts' /\ Honours
<1>1. Becomes(p, Resting) /\ Step(p)' /\ journal # None
  BY LeftOwesNothing, Opened
<1>2. \A q \in Controllers \ {p} : lease = q => lease' = q
  BY DEF Leave, Held
<1> QED
  BY <1>1, <1>2, QuietAccounts

\* Who works inside the attempt believes what the journal says.
LEMMA InsideBelieves ==
    ASSUME JInv, Accounts, NEW p \in Controllers, Inside(p), ~At(p, "confirm")
    PROVE  /\ journal = ctl[p].view /\ journal # None /\ Valid(journal)
           /\ journal \in Records /\ journal.stage # "terminal" /\ Counted(journal)
           /\ Engaged(p) /\ (revocations = 0 => Held(p)) /\ ctl[p].reconciled = FALSE
<1>1. ~At(p, "idle") /\ ~At(p, "seal") /\ Engaged(p)
  BY DEF Inside, At, Engaged
<1>2. journal # None /\ journal = ctl[p].view /\ (revocations = 0 => Held(p))
  BY <1>1, Opened DEF Accounts, Step
<1>3. Valid(ctl[p].view) /\ ctl[p].view \in Records /\ ctl[p].view.stage # "terminal"
      /\ ctl[p].reconciled = FALSE
  BY <1>1, Local
<1> QED
  BY <1>1, <1>2, <1>3 DEF Accounts, Counts

-----------------------------------------------------------------------------
(***************************************************************************)
(* The steps that count nothing.                                           *)
(***************************************************************************)

\* The first controller opens the journal.
LEMMA StartAccounts ==
    ASSUME JInv, Accounts, NEW p \in Controllers, Start(p)
    PROVE  Accounts' /\ Honours
<1> DEFINE new == [Resting EXCEPT !.pc = "check", !.view = Admitted]
<1>1. /\ Admitted \in Records /\ Admitted.stage = "admitted" /\ Admitted # None
      /\ ~Admitted.requested
  <2>1. Admitted \in Records
    BY AdmittedFacts DEF Valid
  <2>2. Admitted.stage = "admitted" /\ ~Admitted.requested
    BY DEF Admitted
  <2> QED
    BY <2>1, <2>2, NoneFacts
<1>2. new.pc = "check" /\ new.view = Admitted /\ new.reconciled = FALSE
  BY DEF Resting
<1>3. ctl' = [ctl EXCEPT ![p] = new] /\ ctl \in [Controllers -> LocalStates]
  BY DEF Start, JInv
<1> HIDE DEF new
<1>4. ctl'[p] = new /\ \A q \in Controllers \ {p} : ctl'[q] = ctl[q]
  BY <1>3
<1>5. /\ journal = None /\ journal' = Admitted /\ lease' = p
      /\ UNCHANGED <<owner, canonical, begun, succeeded, revocations>>
  BY DEF Start, Unaffected, Uncounted
<1>6. /\ begun = 0 /\ succeeded = 0 /\ owner = "absent" /\ canonical # "resulting"
      /\ \A q \in Controllers : At(q, "idle")
  BY <1>5 DEF Accounts, Counts
<1>7. Counts'
  <2>1. Counted(Admitted)'
    BY <1>1, <1>5, <1>6 DEF Counted, Admitted
  <2> QED
    BY <1>1, <1>5, <2>1 DEF Counts, Counted, DoneBefore, DoneAfter
<1>8. Step(p)'
  BY <1>1, <1>2, <1>4, <1>5 DEF Step, Inside, Engaged, At, Held
<1>9. ASSUME NEW q \in Controllers, q # p PROVE Step(q)'
  BY <1>4, <1>6, <1>9, Local, Unengaged DEF At, InsidePoints
<1>10. Honours
  BY <1>1, <1>5 DEF Honours, Verdict
<1> QED
  BY <1>7, <1>8, <1>9, <1>10 DEF Accounts

\* A checkpoint is loaded: its lease is not held yet.
LEMMA LoadAccounts ==
    ASSUME JInv, Accounts, NEW p \in Controllers, Load(p)
    PROVE  Accounts' /\ Honours
<1> DEFINE pc == IF NeedsLease(journal) THEN "loaded" ELSE "enter"
           new == [Resting EXCEPT !.pc = pc, !.view = journal]
<1>1. new.pc = pc /\ new.view = journal /\ new.reconciled = FALSE
  BY DEF Resting
<1>2. pc \in {"loaded", "enter"} /\ (pc = "enter" => ~NeedsLease(journal))
  OBVIOUS
<1>3. ctl' = [ctl EXCEPT ![p] = new] /\ ctl \in [Controllers -> LocalStates]
  BY DEF Load, JInv
<1> HIDE DEF new, pc
<1>4. ctl'[p] = new /\ \A q \in Controllers \ {p} : ctl'[q] = ctl[q]
  BY <1>3
<1>5. Step(p)'
  BY <1>1, <1>2, <1>4, Unengaged DEF InsidePoints, NeedsLease
<1>6. Becomes(p, ctl'[p])
  <2>1. JInv'
    BY LoadStep
  <2> QED
    BY <1>4, <2>1 DEF Becomes, OthersStay, JInv
<1>7. journal # None /\ Quiet /\ lease' = lease
  BY DEF Load, Quiet, Unaffected, Uncounted
<1> QED
  BY <1>5, <1>6, <1>7, QuietAccounts

\* The lease is taken.
LEMMA AcquireAccounts ==
    ASSUME JInv, Accounts, NEW p \in Controllers, Acquire(p)
    PROVE  Accounts' /\ Honours
<1>1. /\ At(p, "loaded") /\ ~At(p, "idle") /\ ctl[p].reconciled = FALSE
      /\ lease = Nobody /\ lease' = p /\ Quiet /\ Goto(p, "enter")
  BY Local DEF Acquire, At, Quiet, Unaffected, Uncounted
<1>2. /\ Becomes(p, [ctl[p] EXCEPT !.pc = "enter"])
      /\ ctl'[p].pc = "enter" /\ ctl'[p].view = ctl[p].view
      /\ ctl'[p].reconciled = ctl[p].reconciled
  BY <1>1, GotoMoves DEF Points
<1>3. Step(p)'
  BY <1>1, <1>2 DEF Step, Inside, Engaged, At, Held
<1>4. \A q \in Controllers \ {p} : lease = q => lease' = q
  BY <1>1, EffectAssumption
<1> QED
  BY <1>1, <1>2, <1>3, <1>4, Opened, QuietAccounts

\* A controller whose checkpoint is still the latest record may enter.
LEMMA EnterAccounts ==
    ASSUME JInv, Accounts, NEW p \in Controllers,
           EnterSeal(p) \/ EnterContinue(p) \/ EnterReconcile(p) \/ EnterApplication(p)
    PROVE  Accounts' /\ Honours
<1>1. /\ At(p, "enter") /\ ~At(p, "idle") /\ Knows(p) /\ ctl[p].reconciled = FALSE
      /\ Valid(ctl[p].view) /\ ctl[p].view \in Records /\ ctl[p] \in LocalStates
      /\ Quiet /\ lease' = lease /\ ctl[p].view = journal
      /\ (NeedsLease(ctl[p].view) => Held(p))
  BY Local DEF EnterSeal, EnterContinue, EnterReconcile, EnterApplication, JInv, At,
     Current, Quiet, Unaffected, Uncounted
<1>2. ctl \in [Controllers -> LocalStates] /\ journal # None
  BY <1>1, Opened DEF JInv
<1>3. CASE EnterSeal(p)
  <2>1. PICK outcome \in Verdicts \ {"outer_lease_lost"} : outcome = SealOutcome(ctl[p].view)
    BY <1>1, <1>3, SealOutcomeFacts DEF EnterSeal
  <2>2. /\ Becomes(p, [ctl[p] EXCEPT !.pc = "seal", !.seal = outcome])
        /\ ctl'[p].pc = "seal" /\ ctl'[p].view = ctl[p].view /\ ctl'[p].seal = outcome
        /\ ctl'[p].reconciled = ctl[p].reconciled
    BY <1>3, <2>1, SealMoves DEF EnterSeal
  <2>3. Step(p)'
    BY <1>1, <2>1, <2>2, Unengaged DEF InsidePoints
  <2> QED
    BY <1>1, <1>2, <2>2, <2>3, QuietAccounts
<1>4. CASE EnterContinue(p)
  <2>1. /\ Becomes(p, [ctl[p] EXCEPT !.pc = "check"])
        /\ ctl'[p].pc = "check" /\ ctl'[p].view = ctl[p].view
        /\ ctl'[p].reconciled = ctl[p].reconciled
    BY <1>4, GotoMoves DEF EnterContinue, Points
  <2>2. ctl[p].view.stage # "application_intent" /\ Held(p)
    BY <1>1, <1>4, DispositionFacts DEF EnterContinue, NeedsLease
  <2>3. Step(p)'
    BY <1>1, <2>1, <2>2 DEF Step, Inside, At, Held, Quiet
  <2> QED
    BY <1>1, <1>2, <2>1, <2>3, QuietAccounts
<1>5. CASE EnterReconcile(p)
  <2> DEFINE new == [ctl[p] EXCEPT !.pc = "reread", !.reconciling = TRUE]
  <2>1. ctl' = [ctl EXCEPT ![p] = new]
    BY <1>5 DEF EnterReconcile
  <2>2. /\ new \in LocalStates /\ new.pc = "reread" /\ new.view = ctl[p].view
        /\ new.reconciled = FALSE
    BY <1>1 DEF LocalStates, Points
  <2> HIDE DEF new
  <2>3. Becomes(p, new)
    BY <1>2, <2>1, <2>2 DEF Becomes, OthersStay
  <2>4. Held(p)
    BY <1>1, <1>5 DEF EnterReconcile, NeedsLease
  <2>5. Step(p)'
    BY <1>1, <2>2, <2>3, <2>4 DEF Becomes, Step, Inside, At, Held, Quiet
  <2> QED
    BY <1>1, <1>2, <2>3, <2>5, QuietAccounts
<1>6. CASE EnterApplication(p) /\ owner = "open" /\ Goto(p, "check")
  <2>1. /\ Becomes(p, [ctl[p] EXCEPT !.pc = "check"])
        /\ ctl'[p].pc = "check" /\ ctl'[p].view = ctl[p].view
        /\ ctl'[p].reconciled = ctl[p].reconciled
    BY <1>6, GotoMoves DEF Points
  <2>2. Held(p)
    BY <1>1, <1>6 DEF EnterApplication, NeedsLease
  <2>3. Step(p)'
    BY <1>1, <1>6, <2>1, <2>2 DEF Step, Inside, At, Held, Quiet
  <2> QED
    BY <1>1, <1>2, <2>1, <2>3, QuietAccounts
<1>7. CASE /\ EnterApplication(p) /\ BodyOf(ctl[p].view, owner) \in bodies
           /\ ctl' = [ctl EXCEPT ![p].pc = "record", ![p].result = owner]
  <2>1. ctl[p].view.stage = "application_intent" /\ Held(p)
    BY <1>1, <1>7, DispositionFacts DEF EnterApplication, NeedsLease
  <2>2. BodyOf(ctl[p].view, owner) = <<"application_intent", 0, owner>>
    BY <2>1 DEF BodyOf
  <2>3. owner \in Results
    BY <1>7, <2>2 DEF JInv, Scalars, RequestBody
  <2>4. PICK result \in ApplicationOutcomes : result = owner
    BY <2>3 DEF JInv, Scalars, Results, LifecycleResults, PublicationOutcomes,
       PublicationFailures, PublicationUnknown
  <2>5. /\ Becomes(p, [ctl[p] EXCEPT !.pc = "record", !.result = result])
        /\ ctl'[p].pc = "record" /\ ctl'[p].view = ctl[p].view
        /\ ctl'[p].result = result
        /\ ctl'[p].reconciled = ctl[p].reconciled
    BY <1>7, <2>4, ResultMoves DEF Points, Results
  <2>6. result # "stale_expected_state"
    BY <2>4 DEF ApplicationOutcomes, ApplicationFailures, ApplicationUnknown
  <2>7. Step(p)'
    BY <1>1, <2>1, <2>4, <2>5, <2>6 DEF Step, Inside, At, Held, Quiet
  <2> QED
    BY <1>1, <1>2, <2>5, <2>7, QuietAccounts
<1> QED
  BY <1>3, <1>4, <1>5, <1>6, <1>7 DEF EnterApplication

\* The lease is found held, or lost.
LEMMA CheckAccounts ==
    ASSUME JInv, Accounts, NEW p \in Controllers, LeaseHeld(p) \/ LeaseLost(p)
    PROVE  Accounts' /\ Honours
<1>1. /\ At(p, "check") /\ ~At(p, "idle") /\ Inside(p) /\ ~At(p, "confirm")
      /\ Quiet /\ Knows(p)
      /\ Disposition(ctl[p].view) = "continue" \/ ctl[p].view.stage = "application_intent"
  BY DEF LeaseHeld, LeaseLost, At, Inside, Quiet, Unaffected, Uncounted, JInv, Knows
<1>2. /\ journal = ctl[p].view /\ journal # None /\ ctl[p].reconciled = FALSE
      /\ (revocations = 0 => Held(p)) /\ Valid(ctl[p].view)
  BY <1>1, InsideBelieves
<1>3. ctl[p].view.stage = "application_intent" => owner = "open"
  BY <1>1 DEF Accounts, Step
<1>4. CASE LeaseHeld(p)
  <2>1. PICK pc \in {"applying", "request", "intend"} :
          Goto(p, pc) /\ (pc = "applying" => ctl[p].view.stage = "application_intent")
    <3>1. CASE ctl[p].view.stage = "application_intent"
      <4>1. NextCall(ctl[p].view) # "publication"
        BY <1>2, <3>1 DEF Valid, Staged, Bare, NextCall
      <4> QED
        BY <1>4, <3>1, <4>1 DEF LeaseHeld
    <3>2. CASE ctl[p].view.stage # "application_intent" /\ NextCall(ctl[p].view) = "publication"
      BY <1>4, <3>2 DEF LeaseHeld
    <3>3. CASE ctl[p].view.stage # "application_intent" /\ NextCall(ctl[p].view) # "publication"
      BY <1>4, <3>3 DEF LeaseHeld
    <3> QED
      BY <3>1, <3>2, <3>3
  <2>2. /\ Becomes(p, [ctl[p] EXCEPT !.pc = pc])
        /\ ctl'[p].pc = pc /\ ctl'[p].view = ctl[p].view
        /\ ctl'[p].reconciled = ctl[p].reconciled
    BY <2>1, GotoMoves DEF Points
  <2>3. Held(p) /\ lease' = lease
    BY <1>4 DEF LeaseHeld
  <2>4. Step(p)'
    BY <1>1, <1>2, <1>3, <2>1, <2>2, <2>3 DEF Step, Inside, At, Held, Quiet
  <2> QED
    BY <1>1, <1>2, <2>2, <2>3, <2>4, QuietAccounts
<1>5. CASE LeaseLost(p) /\ Leave(p)
  BY <1>1, <1>5, LeaveAccounts
<1>6. CASE /\ LeaseLost(p) /\ UNCHANGED lease
           /\ ctl' = [ctl EXCEPT ![p].pc = "seal", ![p].seal = "outer_lease_lost"]
  <2>1. "outer_lease_lost" \in Verdicts
    BY DEF Verdicts
  <2>2. /\ Becomes(p, [ctl[p] EXCEPT !.pc = "seal", !.seal = "outer_lease_lost"])
        /\ ctl'[p].pc = "seal" /\ ctl'[p].reconciled = ctl[p].reconciled
    BY <1>6, <2>1, SealMoves
  <2>3. revocations' # 0
    BY <1>1, <1>2, <1>6 DEF LeaseLost, Quiet
  <2>4. Step(p)'
    BY <1>2, <2>2, <2>3, Unengaged DEF InsidePoints
  <2> QED
    BY <1>1, <1>2, <1>6, <2>2, <2>4, QuietAccounts
<1> QED
  BY <1>4, <1>5, <1>6 DEF LeaseLost

\* Bodies are retained.
LEMMA RetainAccounts ==
    ASSUME JInv, Accounts, NEW p \in Controllers,
           RetainRequest(p) \/ RetainBody(p) \/ RetainRefused(p)
    PROVE  Accounts' /\ Honours
<1>1. ~At(p, "idle") /\ Inside(p) /\ ~At(p, "confirm") /\ Quiet
  BY DEF RetainRequest, RetainBody, RetainRefused, At, Inside, Quiet, Unaffected, Uncounted
<1>2. /\ journal = ctl[p].view /\ journal # None /\ ctl[p].reconciled = FALSE
      /\ (revocations = 0 => Held(p)) /\ Step(p)
  BY <1>1, InsideBelieves DEF Accounts
<1>3. CASE RetainRequest(p)
  <2>1. /\ Becomes(p, [ctl[p] EXCEPT !.pc = "intend"])
        /\ ctl'[p].pc = "intend" /\ ctl'[p].view = ctl[p].view
        /\ ctl'[p].reconciled = ctl[p].reconciled
    BY <1>3, GotoMoves DEF RetainRequest, Points
  <2>2. Step(p)'
    BY <1>1, <1>2, <1>3, <2>1 DEF RetainRequest, Step, Inside, At, Held, Quiet
  <2> QED
    BY <1>1, <1>2, <1>3, <2>1, <2>2, QuietAccounts DEF RetainRequest
<1>4. CASE RetainBody(p)
  <2>1. /\ Becomes(p, [ctl[p] EXCEPT !.pc = "record"])
        /\ ctl'[p].pc = "record" /\ ctl'[p].view = ctl[p].view
        /\ ctl'[p].result = ctl[p].result /\ ctl'[p].reconciled = ctl[p].reconciled
    BY <1>4, GotoMoves DEF RetainBody, Points
  <2>2. At(p, "retain") /\ ctl[p].result # "stale_expected_state" /\ lease' = lease
    BY <1>4 DEF RetainBody
  <2>3. Step(p)'
    BY <1>1, <1>2, <2>1, <2>2
       DEF Step, Inside, At, Held, Quiet, DoneBefore, DoneAfter
  <2> QED
    BY <1>1, <1>2, <2>1, <2>2, <2>3, QuietAccounts
<1>5. CASE RetainRefused(p)
  BY <1>1, <1>5, LeaveAccounts DEF RetainRefused
<1> QED
  BY <1>3, <1>4, <1>5

\* The lease is tested again after the publication.
LEMMA ConfirmAccounts ==
    ASSUME JInv, Accounts, NEW p \in Controllers, Confirm(p)
    PROVE  Accounts' /\ Honours
<1>1. /\ At(p, "confirm") /\ ~At(p, "idle") /\ Inside(p) /\ Quiet /\ Engaged(p)
      /\ ctl[p].reconciled = FALSE
  BY Local DEF Confirm, At, Inside, Engaged, Quiet, Unaffected, Uncounted
<1>2. journal # None /\ (revocations = 0 => Held(p))
  BY <1>1, Opened DEF Accounts, Step
<1>3. PICK verdict : verdict = PublicationVerdict(ctl[p].view.publication)
  OBVIOUS
<1>4. CASE Leave(p)
  BY <1>1, <1>4, LeaveAccounts
<1>5. ASSUME NEW seal \in Verdicts, UNCHANGED lease,
             ctl' = [ctl EXCEPT ![p].pc = "seal", ![p].seal = seal],
             revocations # 0 \/ seal # "outer_lease_lost"
      PROVE  Accounts' /\ Honours
  <2>1. /\ Becomes(p, [ctl[p] EXCEPT !.pc = "seal", !.seal = seal])
        /\ ctl'[p].pc = "seal" /\ ctl'[p].seal = seal
        /\ ctl'[p].reconciled = ctl[p].reconciled
    BY <1>5, SealMoves
  <2>2. Step(p)'
    BY <1>1, <1>5, <2>1, Unengaged DEF InsidePoints, Quiet
  <2> QED
    BY <1>1, <1>2, <1>5, <2>1, <2>2, QuietAccounts
<1>6. CASE ~Held(p)
  BY <1>2, <1>5, <1>6 DEF Confirm, Verdicts
<1>7. CASE Held(p) /\ verdict # "state_publication_indeterminate"
  <2>1. verdict \in Verdicts /\ verdict # "outer_lease_lost"
    BY <1>3, <1>7 DEF PublicationVerdict, Verdicts
  <2> QED
    BY <1>3, <1>5, <1>7, <2>1 DEF Confirm
<1>8. CASE Held(p) /\ verdict = "state_publication_indeterminate"
  BY <1>3, <1>4, <1>8 DEF Confirm
<1> QED
  BY <1>6, <1>7, <1>8

\* The canonical state is read again: only what was published is found there.
LEMMA RereadAccounts ==
    ASSUME JInv, Accounts, NEW p \in Controllers, Reread(p)
    PROVE  Accounts' /\ Honours
<1>1. /\ At(p, "reread") /\ ~At(p, "idle") /\ Inside(p) /\ ~At(p, "confirm") /\ Quiet
      /\ Knows(p) /\ Disposition(ctl[p].view) = "reconcile" /\ ctl[p] \in LocalStates
  BY Local DEF Reread, At, Inside, Quiet, Unaffected, Uncounted, JInv, Knows
<1>2. /\ journal = ctl[p].view /\ journal # None /\ ctl[p].reconciled = FALSE
      /\ (revocations = 0 => Held(p)) /\ Counted(journal) /\ journal \in Records
  BY <1>1, InsideBelieves
<1>3. journal.stage \in {"publication_intent", "publication_terminal"}
  BY <1>1, <1>2, DispositionFacts
<1>4. CASE /\ UNCHANGED lease /\ canonical = "resulting"
           /\ ctl' = [ctl EXCEPT ![p].pc = "seal", ![p].seal = "completed", ![p].reconciled = TRUE]
  <2> DEFINE new == [ctl[p] EXCEPT !.pc = "seal", !.seal = "completed", !.reconciled = TRUE]
  <2>1. ctl' = [ctl EXCEPT ![p] = new]
    BY <1>1, <1>4
  <2>2. new \in LocalStates /\ new.pc = "seal" /\ new.seal = "completed"
    BY <1>1 DEF LocalStates, Points, Verdicts
  <2> HIDE DEF new
  <2>3. Becomes(p, new)
    BY <2>1, <2>2 DEF JInv, Becomes, OthersStay
  <2>4. begun = Steps /\ succeeded = Steps
    BY <1>2, <1>3, <1>4 DEF Counted
  <2>5. begun' = Steps /\ succeeded' = Steps /\ revocations' = revocations
    BY <1>1, <2>4 DEF Quiet
  <2>6. Step(p)'
    BY <1>2, <1>4, <2>2, <2>3, <2>5 DEF Becomes, Step, Inside, At, Held
  <2> QED
    BY <1>1, <1>2, <1>4, <2>3, <2>6, QuietAccounts
<1>5. CASE ctl[p].view.stage = "publication_intent" /\ Goto(p, "call") /\ UNCHANGED lease
  <2>1. /\ Becomes(p, [ctl[p] EXCEPT !.pc = "call"])
        /\ ctl'[p].pc = "call" /\ ctl'[p].view = ctl[p].view
        /\ ctl'[p].reconciled = ctl[p].reconciled
    BY <1>5, GotoMoves DEF Points
  <2>2. Step(p)'
    BY <1>1, <1>2, <1>5, <2>1 DEF Step, Inside, At, Held, Quiet
  <2> QED
    BY <1>1, <1>2, <1>5, <2>1, <2>2, QuietAccounts
<1>6. CASE Leave(p)
  BY <1>1, <1>6, LeaveAccounts
<1> QED
  BY <1>4, <1>5, <1>6 DEF Reread

\* Leaving without an append, and the environment.
LEMMA LeaveStepsAccounts ==
    ASSUME JInv, Accounts, NEW p \in Controllers,
           GiveUp(p) \/ EnterRefused(p) \/ Conflict(p) \/ Crash(p)
    PROVE  Accounts' /\ Honours
<1>1. Leave(p) /\ ~At(p, "idle") /\ Quiet
  BY DEF GiveUp, EnterRefused, Conflict, Crash, At, Quiet, Unaffected, Uncounted
<1> QED
  BY <1>1, LeaveAccounts

\* Nobody else moves what the accounts mention, except that another transaction
\* may publish, and that a lease may be revoked, which ends what is promised of it.
LEMMA EnvironmentAccounts ==
    ASSUME JInv, Accounts, Revoke \/ OtherPublishes \/ UNCHANGED vars
    PROVE  Accounts' /\ Honours
<1>1. /\ UNCHANGED <<journal, owner, begun, succeeded, ctl>>
      /\ canonical' = canonical \/ canonical' = "other"
  BY DEF Revoke, OtherPublishes, Unaffected, vars
<1>2. revocations' = 0 => revocations = 0 /\ lease' = lease
  <2>1. revocations \in Nat
    BY DEF JInv, Scalars
  <2> QED
    BY <2>1 DEF Revoke, OtherPublishes, Uncounted, vars
<1>3. \A q \in Controllers : Step(q)'
  BY <1>1, <1>2, StepStays DEF Accounts
<1>4. Counts'
  BY <1>1, CountsStay DEF Accounts
<1>5. Honours
  BY <1>1 DEF Honours, Verdict
<1> QED
  BY <1>3, <1>4, <1>5 DEF Accounts

-----------------------------------------------------------------------------
(***************************************************************************)
(* The steps that count.                                                   *)
(***************************************************************************)

\* A record that may be continued tells where the next call stands.
LEMMA BeginCounted ==
    ASSUME NEW r, Valid(r), Disposition(r) = "continue", Counted(r)
    PROVE  LET next == BeginOf(r, NextCall(r)) IN
           /\ Counted(next)
           /\ next.stage = "before_intent" => begun = DoneBefore(next) /\ succeeded = begun
           /\ next.stage = "application_intent" => owner = "absent"
           /\ next.stage = "after_intent" => begun = DoneAfter(next) /\ succeeded = begun
<1>1. /\ r \in Records /\ Staged(r) /\ r.publication = None /\ ~r.requested
      /\ NextCall(r) \in {"before", "application", "after", "publication"}
      /\ Len(r.before) \in Nat /\ Len(r.after) \in Nat
      /\ BeforeTotal \in Nat /\ AfterTotal \in Nat
  BY ContinueFacts, EffectAssumption DEF Valid
<1>2. PICK next : next = BeginOf(r, NextCall(r))
  OBVIOUS
<1>3. /\ next.before = r.before /\ next.after = r.after /\ next.publication = None
      /\ next.stage = Intent(NextCall(r)) /\ next.requested = (NextCall(r) = "publication")
  BY <1>1, <1>2, BeginFacts
<1>4. None # "published" /\ None \notin PublicationFailures
  BY NoneFacts DEF PublicationOutcomes
<1>5. canonical # "resulting"
  BY <1>1 DEF Counted
<1>6. CASE r.stage \in {"admitted", "before_terminal"}
  <2>1. begun = Len(r.before) /\ succeeded = begun /\ owner = "absent"
    <3>1. r.stage = "before_terminal" => Last(r.before) = "passed"
      BY <1>1, DispositionFacts
    <3>2. r.stage = "admitted" => Len(r.before) = 0
      BY <1>1 DEF Staged
    <3> QED
      BY <1>6, <3>1, <3>2 DEF Counted, DoneBefore
  <2>2. /\ NextCall(r) \in {"before", "application"}
        /\ NextCall(r) = "application" => Len(r.before) = BeforeTotal
    <3>1. r.application = None
      BY <1>1, <1>6 DEF Staged, Bare
    <3> QED
      BY <3>1, ContinueFacts DEF NextCall
  <2>3. CASE NextCall(r) = "before"
    <3>1. next.stage = "before_intent" /\ ~next.requested
      BY <1>3, <2>3 DEF Intent
    <3> QED
      BY <1>2, <1>3, <1>5, <2>1, <3>1 DEF Counted, DoneBefore
  <2>4. CASE NextCall(r) = "application"
    <3>1. next.stage = "application_intent" /\ ~next.requested
      BY <1>3, <2>4 DEF Intent
    <3> QED
      BY <1>2, <1>3, <1>5, <2>1, <2>2, <2>4, <3>1 DEF Counted, DoneBefore
  <2> QED
    BY <2>2, <2>3, <2>4
<1>7. CASE r.stage \in {"application_terminal", "after_terminal"}
  <2>1. begun = ApplicationStep + Len(r.after) /\ succeeded = begun
    <3>1. r.stage = "after_terminal" => Last(r.after) = "passed"
      BY <1>1, DispositionFacts
    <3>2. r.stage = "application_terminal" => Len(r.after) = 0 /\ r.application = "completed"
      BY <1>1, DispositionFacts DEF Staged
    <3>3. ApplicationStep \in Nat
      BY <1>1 DEF ApplicationStep
    <3>4. CASE r.stage = "application_terminal"
      BY <3>2, <3>3, <3>4 DEF Counted
    <3>5. CASE r.stage = "after_terminal"
      BY <3>1, <3>5 DEF Counted, DoneAfter
    <3> QED
      BY <1>7, <3>4, <3>5
  <2>2. /\ NextCall(r) \in {"after", "publication"}
        /\ NextCall(r) = "publication" => Len(r.after) = AfterTotal
    <3>1. r.application # None
      BY <1>1, <1>7, NoneFacts, DispositionFacts DEF Staged, Applied, ApplicationOutcomes
    <3> QED
      BY <3>1, ContinueFacts DEF NextCall
  <2>3. CASE NextCall(r) = "after"
    <3>1. next.stage = "after_intent" /\ ~next.requested
      BY <1>3, <2>3 DEF Intent
    <3> QED
      BY <1>2, <1>3, <1>5, <2>1, <3>1 DEF Counted, DoneAfter
  <2>4. CASE NextCall(r) = "publication"
    <3>1. next.stage = "publication_intent" /\ next.requested
      BY <1>3, <2>4 DEF Intent
    <3>2. begun = Steps - 1 /\ succeeded = begun
      <4>1. ApplicationStep + AfterTotal = Steps - 1
        BY <1>1 DEF Steps, ApplicationStep
      <4> QED
        BY <2>1, <2>2, <2>4, <4>1
    <3> QED
      BY <1>2, <1>3, <1>4, <1>5, <3>1, <3>2 DEF Counted
  <2> QED
    BY <2>2, <2>3, <2>4
<1> QED
  BY <1>1, <1>6, <1>7, DispositionFacts

\* The intent of the next call.
LEMMA IntendAccounts ==
    ASSUME JInv, Alone, Accounts, NEW p \in Controllers, Intend(p)
    PROVE  Accounts' /\ Honours
<1>1. /\ At(p, "intend") /\ Inside(p) /\ ~At(p, "confirm")
      /\ Disposition(ctl[p].view) = "continue"
      /\ UNCHANGED <<owner, begun, succeeded, canonical, revocations, lease>>
  BY DEF Intend, At, Inside, Unaffected, Uncounted, JInv, Knows
<1>2. /\ journal = ctl[p].view /\ journal # None /\ Valid(journal) /\ journal.stage # "terminal"
      /\ ctl[p].reconciled = FALSE /\ Engaged(p)
      /\ (revocations = 0 => Held(p)) /\ Counted(journal)
  BY <1>1, InsideBelieves
<1>3. PICK next : next = BeginOf(ctl[p].view, NextCall(ctl[p].view))
  OBVIOUS
<1>4. Valid(next) /\ next \in Records /\ next.stage \in IntentStages /\ next.stage # "terminal"
      /\ next # None
  BY <1>1, <1>2, <1>3, BeginValid, NoneFacts DEF Valid
<1>5. /\ Counted(next)
      /\ next.stage = "before_intent" => begun = DoneBefore(next) /\ succeeded = begun
      /\ next.stage = "application_intent" => owner = "absent"
      /\ next.stage = "after_intent" => begun = DoneAfter(next) /\ succeeded = begun
  BY <1>1, <1>2, <1>3, BeginCounted
<1>6. /\ journal' = next
      /\ ctl' = [ctl EXCEPT ![p].pc = "call", ![p].view = next]
  BY <1>3 DEF Intend
<1>7. /\ Becomes(p, [ctl[p] EXCEPT !.pc = "call", !.view = next])
      /\ ctl'[p].pc = "call" /\ ctl'[p].view = next
      /\ ctl'[p].reconciled = ctl[p].reconciled
  BY <1>4, <1>6, ViewMoves, ZenonT(60) DEF Points
<1>8. Step(p)'
  BY <1>1, <1>2, <1>5, <1>6, <1>7 DEF Step, Inside, At, Held, DoneBefore, DoneAfter
<1>9. Counts'
  <2>1. Counted(next)'
    BY <1>1, <1>5 DEF Counted
  <2> QED
    BY <1>4, <1>6, <2>1 DEF Counts, Counted, DoneBefore, DoneAfter
<1>10. Honours
  BY <1>1, <1>2, <1>4, <1>6 DEF Honours, Verdict
<1> QED
  BY <1>1, <1>2, <1>7, <1>8, <1>9, <1>10, EngagedAccounts

\* A program is run: the next step begins, and succeeds or not.
LEMMA CallLifecycleAccounts ==
    ASSUME JInv, Alone, Accounts, NEW p \in Controllers, NEW result \in LifecycleResults,
           CallLifecycle(p, result)
    PROVE  Accounts' /\ Honours
<1>1. /\ At(p, "call") /\ Inside(p) /\ ~At(p, "confirm") /\ result \in Results
      /\ UNCHANGED <<journal, owner, canonical, revocations, lease>>
      /\ ctl[p].view.stage \in {"before_intent", "after_intent"}
      /\ begun' = begun + 1
      /\ succeeded' = IF result = "passed" THEN succeeded + 1 ELSE succeeded
  BY DEF CallLifecycle, At, Inside, Uncounted, Results
<1>2. /\ journal = ctl[p].view /\ journal # None /\ Valid(journal) /\ journal.stage # "terminal"
      /\ ctl[p].reconciled = FALSE /\ Engaged(p)
      /\ (revocations = 0 => Held(p)) /\ Counted(journal)
  BY <1>1, InsideBelieves
<1>3. PICK r : r = journal
  OBVIOUS
<1>4. /\ r.stage = "before_intent" => begun = DoneBefore(r) /\ succeeded = begun
      /\ r.stage = "after_intent" => begun = DoneAfter(r) /\ succeeded = begun
  BY <1>1, <1>2, <1>3 DEF Accounts, Step
<1>5. /\ begun \in Nat /\ Len(r.before) \in Nat /\ Len(r.after) \in Nat
      /\ BeforeTotal \in Nat /\ AfterTotal \in Nat /\ Staged(r) /\ r \in Records
  BY <1>2, <1>3, EffectAssumption, LenProperties DEF JInv, Scalars, Valid, Records
<1>6. /\ Becomes(p, [ctl[p] EXCEPT !.pc = "retain", !.result = result])
      /\ ctl'[p].pc = "retain" /\ ctl'[p].view = ctl[p].view /\ ctl'[p].result = result
      /\ ctl'[p].reconciled = ctl[p].reconciled
  BY <1>1, ResultMoves, ZenonT(30) DEF CallLifecycle, Points
<1>7. begun' = succeeded + 1 /\ (result = "passed" => succeeded' = begun')
  <2>1. succeeded = begun
    BY <1>1, <1>2, <1>3, <1>4
  <2> QED
    BY <1>1, <2>1
<1>8. Step(p)'
  BY <1>1, <1>2, <1>3, <1>4, <1>6, <1>7
     DEF Step, Inside, At, Held, DoneBefore, DoneAfter
<1>9. Counts'
  <2>1. Counted(r)'
    BY <1>1, <1>2, <1>3, <1>4 DEF Counted, DoneBefore, DoneAfter
  <2>2. journal' = r
    BY <1>1, <1>3
  <2> QED
    BY <1>2, <1>3, <2>1, <2>2 DEF Counts, Counted, DoneBefore, DoneAfter
<1>10. Honours
  <2>1. begun = succeeded /\ begun + 1 < Steps
    <3>1. r.stage \in {"before_intent", "after_intent"}
      BY <1>1, <1>2, <1>3
    <3>2. CASE r.stage = "before_intent"
      <4>1. Len(r.before) < BeforeTotal
        BY <1>5, <3>2 DEF Staged
      <4>2. begun = Len(r.before) /\ succeeded = begun
        BY <1>4, <3>2 DEF DoneBefore
      <4> QED
        BY <1>5, <4>1, <4>2 DEF Steps, ApplicationStep
    <3>3. CASE r.stage = "after_intent"
      <4>1. Len(r.after) < AfterTotal
        BY <1>5, <3>3 DEF Staged
      <4>2. begun = ApplicationStep + Len(r.after) /\ succeeded = begun
        BY <1>4, <3>3 DEF DoneAfter
      <4>3. \A k \in Nat : k < AfterTotal => ApplicationStep + k + 1 < Steps
        BY <1>5 DEF Steps, ApplicationStep
      <4> QED
        BY <1>5, <4>1, <4>2, <4>3
    <3> QED
      BY <3>1, <3>2, <3>3
  <2>2. Verdict = "open" /\ Verdict' = "open"
    BY <1>1, <1>2 DEF Verdict
  <2>3. Contract!Begin
    BY <1>1, <1>5, <1>7, <2>1, <2>2 DEF Contract!Begin, Steps
  <2> QED
    BY <2>3 DEF Honours, Contract!Next
<1> QED
  BY <1>1, <1>2, <1>6, <1>8, <1>9, <1>10, EngagedAccounts

\* The owner opens its journal, refuses, or returns: begun when it opened it.
LEMMA ApplicationAccounts ==
    ASSUME JInv, Alone, Accounts, NEW p \in Controllers,
           \/ CallApplication(p) \/ ApplicationRefused(p)
           \/ \E outcome \in ApplicationOutcomes : ApplicationReturns(p, outcome)
    PROVE  Accounts' /\ Honours
<1>1. /\ ctl[p].pc \in {"call", "applying"} /\ ~At(p, "idle") /\ Inside(p) /\ ~At(p, "confirm")
      /\ UNCHANGED <<journal, canonical, revocations, lease>>
      /\ ctl[p].view.stage = "application_intent"
  BY DEF CallApplication, ApplicationRefused, ApplicationReturns, At, Inside, Unaffected,
     Uncounted, JInv, Knows
<1>2. /\ journal = ctl[p].view /\ journal # None /\ Valid(journal) /\ journal.stage # "terminal"
      /\ ctl[p].reconciled = FALSE /\ Engaged(p)
      /\ (revocations = 0 => Held(p)) /\ Counted(journal)
  BY <1>1, InsideBelieves
<1>3. PICK r : r = journal
  OBVIOUS
<1>4. /\ r.stage = "application_intent" /\ journal' = r /\ r # None /\ Staged(r)
      /\ BeforeTotal \in Nat /\ AfterTotal \in Nat
      /\ begun = IF owner = "absent" THEN BeforeTotal ELSE ApplicationStep
      /\ succeeded = IF owner = "completed" THEN ApplicationStep ELSE BeforeTotal
      /\ ~r.requested => canonical # "resulting"
  BY <1>1, <1>2, <1>3, EffectAssumption DEF Counted, Valid
<1>5. Verdict = "open" /\ Verdict' = "open"
  BY <1>1, <1>2 DEF Verdict
<1>6. CASE CallApplication(p)
  <2>1. owner = "absent" /\ owner' = "open" /\ begun' = begun + 1 /\ succeeded' = succeeded
    BY <1>1, <1>6 DEF CallApplication, Accounts, Step
  <2>2. begun = BeforeTotal /\ succeeded = BeforeTotal /\ begun' = ApplicationStep
        /\ begun' < Steps
    BY <1>4, <2>1 DEF ApplicationStep, Steps
  <2>3. /\ Becomes(p, [ctl[p] EXCEPT !.pc = "applying"])
        /\ ctl'[p].pc = "applying" /\ ctl'[p].view = ctl[p].view
        /\ ctl'[p].reconciled = ctl[p].reconciled
    BY <1>6, GotoMoves DEF CallApplication, Points
  <2>4. Step(p)'
    BY <1>1, <1>2, <2>1, <2>3 DEF Step, Inside, At, Held
  <2>5. Counts'
    BY <1>1, <1>4, <2>1, <2>2 DEF Counts, Counted
  <2>6. Contract!Begin
    BY <1>4, <1>5, <2>1, <2>2 DEF Contract!Begin, ApplicationStep, Steps
  <2> QED
    BY <1>1, <1>2, <2>3, <2>4, <2>5, <2>6, EngagedAccounts DEF Honours, Contract!Next
<1>7. CASE ApplicationRefused(p)
  <2>1. "precondition_refused" \in Results
    BY DEF Results, ApplicationOutcomes, ApplicationFailures
  <2>2. /\ Becomes(p, [ctl[p] EXCEPT !.pc = "retain", !.result = "precondition_refused"])
        /\ ctl'[p].pc = "retain" /\ ctl'[p].view = ctl[p].view
        /\ ctl'[p].result = "precondition_refused"
        /\ ctl'[p].reconciled = ctl[p].reconciled
    BY <1>7, <2>1, ResultMoves DEF ApplicationRefused, Points
  <2>3. owner = "absent" /\ Quiet
    BY <1>1, <1>7 DEF ApplicationRefused, Accounts, Step, Quiet, Unaffected, Uncounted
  <2>4. Step(p)'
    BY <1>1, <1>2, <2>2, <2>3 DEF Step, Inside, At, Held, Quiet
  <2> QED
    BY <1>1, <1>2, <2>2, <2>3, <2>4, QuietAccounts
<1>8. ASSUME NEW outcome \in ApplicationOutcomes, ApplicationReturns(p, outcome)
      PROVE  Accounts' /\ Honours
  <2>1. /\ owner = "open" /\ owner' = outcome /\ begun' = begun
        /\ succeeded' = IF outcome = "completed" THEN ApplicationStep ELSE succeeded
    BY <1>8 DEF ApplicationReturns, Accounts, Step
  <2>2. begun = ApplicationStep /\ succeeded = BeforeTotal /\ outcome # "absent"
    BY <1>4, <2>1 DEF ApplicationOutcomes, ApplicationFailures, ApplicationUnknown
  <2>3. /\ Becomes(p, [ctl[p] EXCEPT !.pc = "retain", !.result = outcome])
        /\ ctl'[p].pc = "retain" /\ ctl'[p].view = ctl[p].view
        /\ ctl'[p].result = outcome /\ ctl'[p].reconciled = ctl[p].reconciled
    BY <1>8, ResultMoves DEF ApplicationReturns, Points, Results
  <2>4. Step(p)'
    BY <1>1, <1>2, <2>1, <2>3 DEF Step, Inside, At, Held
  <2>5. Counts'
    BY <1>1, <1>4, <2>1, <2>2 DEF Counts, Counted
  <2>6. CASE outcome = "completed"
    <3>1. Contract!Succeed
      BY <1>4, <1>5, <2>1, <2>2, <2>6 DEF Contract!Succeed, ApplicationStep
    <3> QED
      BY <1>1, <1>2, <2>3, <2>4, <2>5, <3>1, EngagedAccounts DEF Honours, Contract!Next
  <2>7. CASE outcome # "completed"
    <3>1. Honours
      BY <1>5, <2>1, <2>7 DEF Honours
    <3> QED
      BY <1>1, <1>2, <2>3, <2>4, <2>5, <3>1, EngagedAccounts
  <2> QED
    BY <2>6, <2>7
<1> QED
  BY <1>6, <1>7, <1>8

\* The last step begins and succeeds at once, and only over the prior state.
LEMMA CallPublicationAccounts ==
    ASSUME JInv, Alone, Accounts, NEW p \in Controllers, NEW changes \in BOOLEAN,
           NEW outcome \in PublicationOutcomes, CallPublication(p, changes, outcome)
    PROVE  Accounts' /\ Honours
<1>1. /\ At(p, "call") /\ Inside(p) /\ ~At(p, "confirm")
      /\ UNCHANGED <<journal, owner, revocations, lease>>
      /\ ctl[p].view.stage = "publication_intent" /\ outcome \in Outcomes(changes)
      /\ changes => canonical = "prior"
      /\ canonical' = IF changes THEN "resulting" ELSE canonical
      /\ begun' = IF changes THEN begun + 1 ELSE begun
      /\ succeeded' = IF changes THEN succeeded + 1 ELSE succeeded
  BY DEF CallPublication, At, Inside, Uncounted
<1>2. /\ journal = ctl[p].view /\ journal # None /\ Valid(journal) /\ journal.stage # "terminal"
      /\ ctl[p].reconciled = FALSE /\ Engaged(p)
      /\ (revocations = 0 => Held(p)) /\ Counted(journal)
  BY <1>1, InsideBelieves
<1>3. PICK r : r = journal
  OBVIOUS
<1>4. /\ r.stage = "publication_intent" /\ journal' = r /\ r # None
      /\ Staged(r) /\ r.publication = None /\ r.requested
      /\ Steps \in Nat /\ begun \in {Steps - 1, Steps} /\ succeeded = begun
      /\ canonical = "prior" => begun = Steps - 1
      /\ canonical = "resulting" => begun = Steps
  BY <1>1, <1>2, <1>3, EffectAssumption DEF Counted, Valid, Staged, Steps
<1>5. None # "published" /\ None \notin PublicationFailures
  BY NoneFacts DEF PublicationOutcomes
<1>6. /\ outcome = "published" => changes
      /\ outcome \in PublicationFailures /\ outcome # "stale_expected_state"
           => canonical = "prior" /\ ~changes
  BY <1>1 DEF Outcomes, PublicationFailures, PublicationUnknown
<1>7. /\ begun' \in {Steps - 1, Steps} /\ succeeded' = begun'
      /\ canonical' = "prior" => begun' = Steps - 1
      /\ canonical' = "resulting" => begun' = Steps
      /\ outcome = "published" => begun' = Steps
      /\ outcome \in PublicationFailures /\ outcome # "stale_expected_state"
           => begun' = Steps - 1
  BY <1>1, <1>4, <1>6
<1> DEFINE new == [ctl[p] EXCEPT !.pc = "retain", !.result = outcome, !.lostFirst = ~Held(p)]
<1>8. /\ ctl[p] \in LocalStates /\ outcome \in Results
  BY Local DEF Results
<1>9. /\ ctl' = [ctl EXCEPT ![p] = new]
      /\ new \in LocalStates /\ new.pc = "retain" /\ new.view = ctl[p].view
      /\ new.result = outcome /\ new.reconciled = FALSE
  BY <1>2, <1>8 DEF CallPublication, LocalStates, Points
<1> HIDE DEF new
<1>10. Becomes(p, new)
  BY <1>9 DEF JInv, Becomes, OthersStay
<1>11. Step(p)'
  BY <1>1, <1>2, <1>7, <1>9, <1>10 DEF Becomes, Step, Inside, At, Held
<1>12. Counts'
  BY <1>1, <1>4, <1>5, <1>7 DEF Counts, Counted
<1>13. Honours
  <2>1. Verdict = "open" /\ Verdict' = "open"
    BY <1>1, <1>2 DEF Verdict
  <2>2. CASE changes
    <3>1. Contract!Begin
      BY <1>1, <1>4, <1>7, <2>1, <2>2 DEF Contract!Begin
    <3> QED
      BY <3>1 DEF Honours, Contract!Next
  <2>3. CASE ~changes
    BY <1>1, <2>1, <2>3 DEF Honours
  <2> QED
    BY <2>2, <2>3
<1> QED
  BY <1>1, <1>2, <1>10, <1>11, <1>12, <1>13, EngagedAccounts

\* The fact of a returned call accounts for the step the call was.
LEMMA CompleteCounted ==
    ASSUME NEW r, Valid(r), r.stage \in IntentStages, NEW result \in ResultsAt(r.stage),
           Counted(r),
           r.stage = "before_intent" =>
             begun = DoneBefore(r) + 1 /\ (result = "passed" => succeeded = begun),
           r.stage = "application_intent" =>
             owner = result \/ (owner = "absent" /\ result # "completed"),
           r.stage = "after_intent" =>
             begun = DoneAfter(r) + 1 /\ (result = "passed" => succeeded = begun),
           r.stage = "publication_intent" =>
             /\ result = "published" => begun = Steps
             /\ result \in PublicationFailures => begun = Steps - 1
    PROVE  Counted(CompleteOf(r, result))
<1>1. PICK next : next = CompleteOf(r, result)
  OBVIOUS
<1>2. /\ r \in Records /\ Staged(r) /\ BeforeTotal \in Nat /\ AfterTotal \in Nat
      /\ r.before \in Seq(LifecycleResults) /\ r.after \in Seq(LifecycleResults)
  BY EffectAssumption DEF Valid, Records
<1>3. /\ next.requested = r.requested /\ (~r.requested => canonical # "resulting")
  BY <1>1, <1>2, CompleteFacts DEF Counted
<1>4. CASE r.stage = "before_intent"
  <2>1. /\ next.stage = "before_terminal" /\ next.before = Append(r.before, result)
        /\ result \in LifecycleResults
    BY <1>1, <1>2, <1>4, CompleteFacts DEF ResultsAt
  <2>2. Len(next.before) = Len(r.before) + 1 /\ Last(next.before) = result
    BY <1>2, <2>1, AppendFacts
  <2> QED
    BY <1>1, <1>3, <1>4, <2>1, <2>2 DEF Counted, DoneBefore
<1>5. CASE r.stage = "application_intent"
  <2>1. next.stage = "application_terminal" /\ next.application = result
    BY <1>1, <1>2, <1>5, CompleteFacts
  <2>2. begun <= ApplicationStep
    BY <1>2, <1>5 DEF Counted, ApplicationStep
  <2>3. result = "completed" => begun = ApplicationStep /\ succeeded = begun
    BY <1>5 DEF Counted
  <2> QED
    BY <1>1, <1>3, <2>1, <2>2, <2>3 DEF Counted
<1>6. CASE r.stage = "after_intent"
  <2>1. /\ next.stage = "after_terminal" /\ next.after = Append(r.after, result)
        /\ result \in LifecycleResults
    BY <1>1, <1>2, <1>6, CompleteFacts DEF ResultsAt
  <2>2. Len(r.after) \in Nat /\ Len(next.after) = Len(r.after) + 1 /\ Last(next.after) = result
    BY <1>2, <2>1, AppendFacts
  <2>3. DoneAfter(next) = DoneAfter(r) + 1
    <3>1. ApplicationStep \in Nat
      BY <1>2 DEF ApplicationStep
    <3> QED
      BY <2>2, <3>1 DEF DoneAfter
  <2> QED
    BY <1>1, <1>3, <1>6, <2>1, <2>2, <2>3 DEF Counted
<1>7. CASE r.stage = "publication_intent"
  <2>1. next.stage = "publication_terminal" /\ next.publication = result
    BY <1>1, <1>2, <1>7, CompleteFacts
  <2>2. r.requested
    BY <1>2, <1>7 DEF Staged
  <2> QED
    BY <1>1, <1>3, <1>7, <2>1, <2>2 DEF Counted
<1> QED
  BY <1>4, <1>5, <1>6, <1>7 DEF IntentStages

\* The fact is appended.
LEMMA RecordFactAccounts ==
    ASSUME JInv, Alone, Accounts, NEW p \in Controllers, RecordFact(p)
    PROVE  Accounts' /\ Honours
<1>1. /\ At(p, "record") /\ Inside(p) /\ ~At(p, "confirm") /\ ctl[p] \in LocalStates
      /\ ctl[p].view.stage \in IntentStages
      /\ ctl[p].result \in ResultsAt(ctl[p].view.stage)
      /\ UNCHANGED <<owner, begun, succeeded, canonical, revocations>>
  BY Local DEF RecordFact, At, Inside, Unaffected, Uncounted, JInv, Knows
<1>2. /\ journal = ctl[p].view /\ journal # None /\ Valid(journal) /\ journal.stage # "terminal"
      /\ ctl[p].reconciled = FALSE /\ Engaged(p)
      /\ (revocations = 0 => Held(p)) /\ Counted(journal)
  BY <1>1, InsideBelieves
<1>3. PICK next : next = CompleteOf(ctl[p].view, ctl[p].result)
  OBVIOUS
<1>4. Valid(next) /\ next \in Records /\ next.stage # "terminal" /\ next # None
  BY <1>1, <1>2, <1>3, CompleteValid, NoneFacts DEF Valid
<1>5. Counted(next)
  <2>1. PICK r : r = ctl[p].view
    OBVIOUS
  <2>2. PICK result : result = ctl[p].result
    OBVIOUS
  <2>3. /\ r.stage = "before_intent" =>
             begun = DoneBefore(r) + 1 /\ (result = "passed" => succeeded = begun)
        /\ r.stage = "application_intent" =>
             owner = result \/ (owner = "absent" /\ result # "completed")
        /\ r.stage = "after_intent" =>
             begun = DoneAfter(r) + 1 /\ (result = "passed" => succeeded = begun)
        /\ r.stage = "publication_intent" =>
             /\ result = "published" => begun = Steps
             /\ result \in PublicationFailures => begun = Steps - 1
    BY <1>1, <2>1, <2>2 DEF Accounts, Step, At
  <2> QED
    BY <1>1, <1>2, <1>3, <2>1, <2>2, <2>3, CompleteCounted
<1>6. journal' = next
  BY <1>3 DEF RecordFact
<1>7. Counts'
  <2>1. Counted(next)'
    BY <1>1, <1>5 DEF Counted
  <2> QED
    BY <1>4, <1>6, <2>1 DEF Counts, Counted, DoneBefore, DoneAfter
<1>8. Honours
  BY <1>1, <1>2, <1>4, <1>6 DEF Honours, Verdict
<1>9. CASE /\ UNCHANGED lease /\ next.stage = "publication_terminal"
           /\ ctl' = [ctl EXCEPT ![p].pc = "confirm", ![p].view = next]
  <2>1. /\ Becomes(p, [ctl[p] EXCEPT !.pc = "confirm", !.view = next])
        /\ ctl'[p].pc = "confirm" /\ ctl'[p].view = next
        /\ ctl'[p].reconciled = ctl[p].reconciled
    BY <1>4, <1>9, ViewMoves, ZenonT(60) DEF Points
  <2>2. Step(p)'
    BY <1>1, <1>2, <1>6, <1>9, <2>1 DEF Step, Inside, At, Held
  <2> QED
    BY <1>1, <1>2, <1>7, <1>8, <2>1, <2>2, EngagedAccounts
<1>10. CASE /\ Disposition(next) = "seal"
            /\ ctl' = [ctl EXCEPT ![p].pc = "seal", ![p].view = next,
                                  ![p].seal = SealOutcome(next)]
  <2> DEFINE new == [ctl[p] EXCEPT !.pc = "seal", !.view = next, !.seal = SealOutcome(next)]
  <2>1. SealOutcome(next) \in Verdicts \ {"outer_lease_lost"}
    BY <1>4, <1>10, SealOutcomeFacts
  <2>2. ctl' = [ctl EXCEPT ![p] = new]
    BY <1>1, <1>10, <2>1
  <2>3. /\ new \in LocalStates /\ new.pc = "seal" /\ new.reconciled = FALSE
        /\ new.seal = SealOutcome(next)
    BY <1>1, <1>2, <1>4, <2>1 DEF LocalStates, Points
  <2> HIDE DEF new
  <2>4. Becomes(p, new)
    BY <2>2, <2>3 DEF JInv, Becomes, OthersStay
  <2>5. Step(p)'
    BY <2>1, <2>3, <2>4, Unengaged DEF Becomes, InsidePoints
  <2> QED
    BY <1>1, <1>2, <1>7, <1>8, <2>4, <2>5, EngagedAccounts
<1>11. CASE /\ Disposition(next) = "continue" /\ UNCHANGED lease
            /\ ctl' = [ctl EXCEPT ![p].pc = "check", ![p].view = next]
  <2>1. /\ Becomes(p, [ctl[p] EXCEPT !.pc = "check", !.view = next])
        /\ ctl'[p].pc = "check" /\ ctl'[p].view = next
        /\ ctl'[p].reconciled = ctl[p].reconciled
    BY <1>4, <1>11, ViewMoves, ZenonT(30) DEF Points
  <2>2. next.stage # "application_intent"
    BY <1>4, <1>11, DispositionFacts
  <2>3. Step(p)'
    BY <1>1, <1>2, <1>6, <2>1, <2>2, <1>11 DEF Step, Inside, At, Held
  <2> QED
    BY <1>1, <1>2, <1>7, <1>8, <2>1, <2>3, EngagedAccounts
<1>12. CASE Leave(p)
  <2>1. Becomes(p, Resting) /\ Step(p)'
    BY <1>12, LeftOwesNothing
  <2> QED
    BY <1>1, <1>2, <1>7, <1>8, <2>1, EngagedAccounts
<1> QED
  BY <1>3, <1>9, <1>10, <1>11, <1>12 DEF RecordFact

-----------------------------------------------------------------------------
(***************************************************************************)
(* The verdict.                                                            *)
(***************************************************************************)

\* A verdict that is drawn from the facts of a record is honest.
LEMMA HonestSeal ==
    ASSUME NEW r, Valid(r), Disposition(r) = "seal", Counted(r), begun \in Nat
    PROVE  /\ SealOutcome(r) = "completed" => succeeded = Steps
           /\ SealOutcome(r) # "completed" => begun < Steps
<1>1. /\ r \in Records /\ Staged(r) /\ BeforeTotal \in Nat /\ AfterTotal \in Nat
      /\ Phase(r.before, BeforeTotal) /\ Phase(r.after, AfterTotal)
  BY EffectAssumption DEF Valid, RecordShape
<1>2. /\ Len(r.before) \in Nat /\ Len(r.after) \in Nat
      /\ Len(r.before) <= BeforeTotal /\ Len(r.after) <= AfterTotal
  BY <1>1, LenProperties DEF Phase
<1>3. CASE r.stage = "before_terminal"
  <2>1. begun = Len(r.before) /\ SealOutcome(r) # "completed"
    BY <1>3 DEF Counted, DoneBefore, SealOutcome
  <2> QED
    BY <1>1, <1>2, <2>1 DEF Steps
<1>4. CASE r.stage = "application_terminal"
  <2>1. begun <= ApplicationStep /\ SealOutcome(r) # "completed"
    BY <1>4 DEF Counted, SealOutcome
  <2> QED
    BY <1>1, <1>2, <2>1 DEF Steps, ApplicationStep
<1>5. CASE r.stage = "after_terminal"
  <2>1. begun = ApplicationStep + Len(r.after) /\ SealOutcome(r) # "completed"
    BY <1>5 DEF Counted, DoneAfter, SealOutcome
  <2>2. ApplicationStep \in Nat /\ Steps = ApplicationStep + AfterTotal + 1
    BY <1>1 DEF Steps, ApplicationStep
  <2> QED
    BY <1>1, <1>2, <2>1, <2>2
<1>6. CASE r.stage = "publication_terminal"
  <2>1. /\ r.publication \in {"published"} \cup PublicationFailures
        /\ SealOutcome(r) = "completed" <=> r.publication = "published"
    BY <1>6, SealOutcomeFacts
  <2> QED
    BY <1>1, <1>6, <2>1 DEF Counted, Steps
<1> QED
  BY <1>1, <1>3, <1>4, <1>5, <1>6, DispositionFacts

\* Two controllers may reach the same verdict: the one that seals first seals
\* for the other, and no third one is at a call.
LEMMA SealLeavesOthers ==
    ASSUME JInv, Accounts, NEW p \in Controllers, NEW q \in Controllers,
           At(p, "seal"), Disposition(ctl[p].view) = "seal",
           journal \in {ctl[p].view, Sealed(ctl[p].view)}, journal' = Sealed(ctl[p].view),
           ctl'[q] = ctl[q], UNCHANGED <<owner, begun, succeeded, revocations>>,
           lease = q => lease' = q
    PROVE  Step(q)'
<1>1. /\ Step(q) /\ Knows(q) /\ Valid(ctl[p].view) /\ ctl[p].view \in Records
      /\ ctl[p].view.stage # "terminal"
  BY Local DEF Accounts, JInv, At
<1>2. Sealed(ctl[p].view).stage = "terminal"
  BY <1>1 DEF Sealed, SealOf, Records
<1>3. Inside(q) => journal' = ctl[q].view \/ (At(q, "confirm") /\ journal' = Sealed(ctl[q].view))
  <2> SUFFICES ASSUME Inside(q)
               PROVE  journal' = ctl[q].view \/ (At(q, "confirm") /\ journal' = Sealed(ctl[q].view))
    OBVIOUS
  <2>1. Valid(ctl[q].view) /\ ctl[q].view \in Records /\ ctl[q].view.stage # "terminal"
    BY Local DEF Inside, At
  <2>2. journal = ctl[q].view \/ (At(q, "confirm") /\ journal = Sealed(ctl[q].view))
    BY <1>1 DEF Step
  <2>3. CASE journal = ctl[q].view
    <3>1. ctl[q].view = ctl[p].view
      BY <1>2, <2>1, <2>3
    <3>2. Disposition(ctl[q].view) = "seal" /\ ctl[q].view.stage \notin IntentStages
      BY <2>1, <3>1, DispositionFacts DEF IntentStages
    <3>3. At(q, "confirm")
      BY <1>1, <3>2 DEF Knows, Inside, At, IntentStages
    <3> QED
      BY <3>1, <3>3
  <2>4. CASE At(q, "confirm") /\ journal = Sealed(ctl[q].view)
    <3>1. ctl[q].view.stage = "publication_terminal"
      BY <1>1, <2>4 DEF Knows
    <3>2. Sealed(ctl[q].view).stage = "terminal"
      BY <2>1 DEF Sealed, SealOf, Records
    <3>3. journal = Sealed(ctl[p].view)
      BY <1>1, <2>4, <3>2
    <3> QED
      BY <2>4, <3>3
  <2> QED
    BY <2>2, <2>3, <2>4
<1>4. PICK c : c = ctl[q] /\ ctl'[q] = c
  OBVIOUS
<1>5. PICK view : view = c.view
  OBVIOUS
<1>6. (Inside(q) <=> Inside(q)') /\ (Engaged(q) <=> Engaged(q)')
  BY <1>4 DEF Inside, Engaged, At, NeedsLease
<1>7. Sealed(ctl[q].view) = Sealed(view) /\ Sealed(ctl[q].view)' = Sealed(view)
  BY <1>4, <1>5 DEF Sealed
<1> QED
  BY <1>1, <1>3, <1>4, <1>5, <1>6, <1>7 DEF Step, At, Held, DoneBefore, DoneAfter

\* The verdict is sealed, once and honestly.
LEMMA SealAccounts ==
    ASSUME JInv, Alone, Accounts, NEW p \in Controllers, Seal(p)
    PROVE  Accounts' /\ Honours
<1>1. /\ At(p, "seal") /\ ~At(p, "idle") /\ SealKnown(p) /\ Leave(p)
      /\ Valid(ctl[p].view) /\ ctl[p].view \in Records /\ ctl[p].view.stage # "terminal"
      /\ UNCHANGED <<owner, canonical, begun, succeeded, revocations>> /\ begun \in Nat
  BY Local DEF Seal, At, JInv, Knows, Unaffected, Scalars
<1>2. PICK next : next = SealOf(ctl[p].view, ctl[p].seal, ctl[p].reconciled)
  OBVIOUS
<1>3. /\ ctl[p].seal \in Verdicts /\ ctl[p].reconciled \in BOOLEAN
      /\ Valid(next) /\ next \in Records /\ next.stage = "terminal" /\ next # None
      /\ next.outcome = ctl[p].seal
  BY <1>1, <1>2, SealSound, SealFacts, NoneFacts DEF Valid
<1>4. journal \in {ctl[p].view, next} /\ journal' = next
  BY <1>2 DEF Seal, Acceptable
<1>5. Becomes(p, Resting) /\ Step(p)' /\ journal # None
  BY <1>1, LeftOwesNothing, Opened
<1>6. Counts'
  BY <1>3, <1>4 DEF Counts
<1>7. ASSUME NEW q \in Controllers, q # p PROVE Step(q)'
  <2>1. ctl'[q] = ctl[q] /\ Step(q)
    BY <1>5, <1>7 DEF Becomes, OthersStay, Accounts
  <2>2. CASE ctl[p].reconciled
    <3>1. ~Engaged(q)
      BY <1>7, <2>2, Sole DEF Engaged
    <3> QED
      BY <1>1, <2>1, <3>1, UnengagedStays
  <2>3. CASE Disposition(ctl[p].view) = "seal" /\ ~ctl[p].reconciled
             /\ ctl[p].seal = SealOutcome(ctl[p].view)
    <3>1. next = Sealed(ctl[p].view)
      BY <1>2, <1>3, <2>3 DEF Sealed
    <3>2. lease = q => lease' = q
      BY <1>1, <1>7 DEF Leave, Held
    <3> QED
      BY <1>1, <1>4, <2>1, <2>3, <3>1, <3>2, SealLeavesOthers
  <2>4. CASE ctl[p].seal = "outer_lease_lost"
    <3>1. revocations # 0
      BY <1>1, <2>4 DEF Accounts, Step
    <3> QED
      BY <1>7, <3>1 DEF Alone
  <2> QED
    BY <1>1, <2>2, <2>3, <2>4 DEF SealKnown
<1>8. Honours
  <2>1. CASE journal = next
    BY <1>1, <1>4, <2>1 DEF Honours, Verdict
  <2>2. CASE journal = ctl[p].view
    <3>1. Counted(ctl[p].view) /\ Verdict = "open"
      BY <1>1, <1>5, <2>2 DEF Accounts, Counts, Verdict
    <3>2. Verdict' = IF ctl[p].seal = "completed" THEN "completed"
                     ELSE IF ctl[p].seal = "outer_lease_lost" THEN "lost" ELSE "failed"
      BY <1>3, <1>4 DEF Verdict
    <3>3. /\ ctl[p].seal = "completed" => succeeded = Steps
          /\ ctl[p].seal \notin {"completed", "outer_lease_lost"} => begun < Steps
      <4>1. CASE Disposition(ctl[p].view) = "seal" /\ ctl[p].seal = SealOutcome(ctl[p].view)
        BY <1>1, <3>1, <4>1, HonestSeal
      <4>2. CASE ctl[p].reconciled /\ ctl[p].seal = "completed"
        BY <4>2 DEF Accounts, Step
      <4> QED
        BY <1>1, <4>1, <4>2 DEF SealKnown
    <3>4. Contract!Decide
      BY <1>1, <3>1, <3>2, <3>3 DEF Contract!Decide
    <3> QED
      BY <3>4 DEF Honours, Contract!Next
  <2> QED
    BY <1>4, <2>1, <2>2
<1> QED
  BY <1>5, <1>6, <1>7, <1>8 DEF Accounts

-----------------------------------------------------------------------------
(***************************************************************************)
(* Together.                                                               *)
(***************************************************************************)

\* Before anything has begun the accounts are empty.
LEMMA InitAccounts == Init => Accounts
  BY DEF Init, Accounts, Counts, Step, Inside, Engaged, At, Resting, NeedsLease

\* Controllers that do not overlap after a step did not before it.
LEMMA AloneBefore ==
    ASSUME JInv, [Next]_vars, Alone'
    PROVE  Alone
<1>1. revocations \in Nat
  BY DEF JInv, Scalars
<1>2. ASSUME NEW p \in Controllers, Start(p) \/ Load(p) \/ Work(p) \/ Crash(p)
      PROVE  revocations' = revocations
  <2>1. CASE Start(p) \/ Load(p) \/ Crash(p)
    BY <2>1 DEF Start, Load, Crash, Uncounted
  <2>2. CASE Work(p)
    BY <2>2 DEF Work, Acquire, GiveUp, EnterSeal, EnterContinue, EnterReconcile,
       EnterApplication, EnterRefused, LeaseHeld, LeaseLost, RetainRequest, Intend,
       CallLifecycle, CallApplication, ApplicationRefused, ApplicationReturns,
       CallPublication, RetainBody, RetainRefused, RecordFact, Confirm, Reread, Seal,
       Conflict, Uncounted
  <2> QED
    BY <1>2, <2>1, <2>2
<1>3. Revoke => revocations' = revocations + 1
  BY DEF Revoke
<1>4. OtherPublishes \/ UNCHANGED vars => revocations' = revocations
  BY DEF OtherPublishes, Uncounted, vars
<1>5. revocations' = revocations \/ revocations' = revocations + 1
  BY <1>2, <1>3, <1>4 DEF Next
<1> QED
  BY <1>1, <1>5 DEF Alone

\* Every step of controllers that do not overlap keeps the accounts and the contract.
LEMMA AccountsStep ==
    ASSUME JInv, Alone, Accounts, [Next]_vars
    PROVE  Accounts' /\ Honours
<1>1. ASSUME NEW p \in Controllers, Work(p) PROVE Accounts' /\ Honours
  <2>1. CASE GiveUp(p) \/ EnterRefused(p) \/ Conflict(p)
    BY <2>1, LeaveStepsAccounts
  <2>2. CASE EnterSeal(p) \/ EnterContinue(p) \/ EnterReconcile(p) \/ EnterApplication(p)
    BY <2>2, EnterAccounts
  <2>3. CASE LeaseHeld(p) \/ LeaseLost(p) \/ Intend(p) \/ Acquire(p)
    BY <2>3, CheckAccounts, IntendAccounts, AcquireAccounts
  <2>4. CASE \E result \in LifecycleResults : CallLifecycle(p, result)
    BY <2>4, CallLifecycleAccounts
  <2>5. CASE \/ CallApplication(p) \/ ApplicationRefused(p)
             \/ \E outcome \in ApplicationOutcomes : ApplicationReturns(p, outcome)
    BY <2>5, ApplicationAccounts
  <2>6. CASE \E changes \in BOOLEAN, outcome \in PublicationOutcomes :
               CallPublication(p, changes, outcome)
    BY <2>6, CallPublicationAccounts
  <2>7. CASE RetainRequest(p) \/ RetainBody(p) \/ RetainRefused(p) \/ RecordFact(p)
    BY <2>7, RetainAccounts, RecordFactAccounts
  <2>8. CASE Confirm(p) \/ Reread(p) \/ Seal(p)
    BY <2>8, ConfirmAccounts, RereadAccounts, SealAccounts
  <2> QED
    BY <1>1, <2>1, <2>2, <2>3, <2>4, <2>5, <2>6, <2>7, <2>8 DEF Work
<1>2. ASSUME NEW p \in Controllers, Start(p) \/ Load(p) \/ Crash(p)
      PROVE  Accounts' /\ Honours
  BY <1>2, StartAccounts, LoadAccounts, LeaveStepsAccounts
<1> QED
  BY <1>1, <1>2, EnvironmentAccounts DEF Next

\* The accounts are kept as long as controllers do not overlap.
LEMMA CInvStep ==
    ASSUME JInv, CInv, [Next]_vars
    PROVE  CInv' /\ (Alone' => Honours)
<1>1. ASSUME Alone' PROVE Accounts' /\ Honours
  BY <1>1, AloneBefore, AccountsStep DEF CInv
<1> QED
  BY <1>1 DEF CInv

\* The inductive invariant of the contract.
THEOREM Accounting == Spec => [](JInv /\ CInv)
<1>1. Init => CInv
  BY InitAccounts DEF CInv
<1>2. JInv /\ CInv /\ [Next]_vars => CInv'
  BY CInvStep
<1> QED
  BY <1>1, <1>2, Soundness, PTL DEF Spec

\* As long as no lease is revoked under its holder, any number of processes
\* keep the contract together: no program, application or publication is begun
\* twice or out of order, and the verdict is honest.
THEOREM ContractKeptTogether == Spec => ContractUntilRevoked
<1>1. Init => Contract!Init
  BY DEF Init, Contract!Init, Verdict
<1>2. JInv /\ CInv /\ [Next]_vars =>
        [revocations' = 0 => Contract!Next]_<<begun, succeeded, Verdict>>
  BY CInvStep DEF Alone, Honours
<1> QED
  BY <1>1, <1>2, Accounting, PTL DEF Spec, ContractUntilRevoked

\* A process that is alone with the attempt keeps the contract whatever
\* happens to its lease, however often it crashes and is started again.
THEOREM ContractKeptAlone ==
    ASSUME NEW k, Controllers = {k}
    PROVE  Spec => ImplementsContract
<1>1. Init => Contract!Init
  BY DEF Init, Contract!Init, Verdict
<1>2. JInv /\ CInv /\ [Next]_vars => [Contract!Next]_<<begun, succeeded, Verdict>>
  <2>1. Alone'
    BY DEF Alone
  <2> QED
    BY <2>1, CInvStep DEF Honours
<1> QED
  BY <1>1, <1>2, Accounting, PTL DEF Spec, ImplementsContract, Contract!Spec

=============================================================================
