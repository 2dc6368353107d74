--------------------------- MODULE DispatchJournal --------------------------
(***************************************************************************)
(* The dispatch ledger as the run journal stores it (src/run_journal.cpp): *)
(* the admission of a journal record takes the dispatches, the identities  *)
(* of progression and canonical state and the verdict from the run, and    *)
(* numbers the record by the transitions its dispatches retain.            *)
(***************************************************************************)
EXTENDS Dispatch

CONSTANTS
    MaxDispatchCount, MaxMemberCount, MaxDependencyCount, MaxObservationCount,
    RecordOverhead, MaxEncodingSize

ASSUME JournalAssumption ==
    /\ MaxDispatchCount \in Nat /\ MaxMemberCount \in Nat
    /\ MaxDependencyCount \in Nat /\ MaxObservationCount \in Nat
    /\ RecordOverhead \in Nat /\ MaxEncodingSize \in Nat

\* Only the count of this instance is used, so it needs no verdict or number.
Counting == INSTANCE RunJournal WITH
    Kind <- KindOf, dispatches <- ledger, progress <- evidence, state <- epoch,
    verdict <- 0, sequence <- 0

\* The transitions the records retain, as the journal counts them.
TransitionCount == Counting!RetainedTransitionCount(ledger)

Journal == INSTANCE RunJournal WITH
    Kind <- KindOf, dispatches <- ledger, progress <- evidence, state <- epoch,
    verdict <- [complete |-> Complete(evidence), failed |-> Failed(evidence),
                stopped |-> Stopped],
    sequence <- TransitionCount

Storable == Journal!WithinLimits(ledger) /\ Journal!Encodable(ledger)

(***************************************************************************)
(* The steps the limits refuse.  A count is exceeded only where a unit is  *)
(* reserved or an operation observed: what has been started can be         *)
(* recorded as completed.  The size of the encoding has no such regard,    *)
(* but never refuses a release.                                            *)
(***************************************************************************)
OutgrowsLimits ==
    \/ /\ ~Journal!WithinLimits(ledger')
       /\ UNCHANGED <<evidence, epoch>> /\ Started(ledger') = Started(ledger)
    \/ ~Journal!Encodable(ledger') /\ Releases' = Releases

(***************************************************************************)
(* From a run that is within the limits of the journal, every step of the  *)
(* ledger is one the journal accepts as the successor of the record before *)
(* it, or a step that outgrows those limits: no other legal call leads to  *)
(* a run that cannot be stored or resumed, and the record number is the    *)
(* number of transitions the records retain (validate_durable_successor    *)
(* and validate_top_level_shape of run_journal.cpp, against dispatch.cpp). *)
(***************************************************************************)
ImplementsJournal ==
    /\ Journal!JournalInit
    /\ [][Storable => Journal!Successor \/ OutgrowsLimits]_(Journal!journalVars)

=============================================================================
