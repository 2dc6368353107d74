----------------------------- MODULE RunJournal -----------------------------
(***************************************************************************)
(* The durable journal of a transaction run as its own validation sees it  *)
(* (src/run_journal.cpp): a chain of whole-run snapshots in which every    *)
(* record has an admissible shape and follows its predecessor by exactly   *)
(* one transition of one dispatch.  The rule knows neither the transaction *)
(* graph nor the evidence; it is checked on each record before it is       *)
(* stored and again on each one read back, and so are limits on the size   *)
(* of a record, which the ledger does not know (src/run_journal_codec.cpp).*)
(* A run that takes a step this rule refuses can neither be stored nor     *)
(* resumed.                                                                *)
(***************************************************************************)
EXTENDS Integers, Sequences, FiniteSets, Functions

CONSTANTS
    Members(_),   \* the graph nodes of a unit
    Kind(_),      \* the set of units of the same kind
    Capacity(_),  \* the policy's capacity for units of that kind
    Operations,   \* the units that may move canonical state
    None,         \* the absent optional
    MaxDispatchCount, MaxMemberCount, MaxDependencyCount, MaxObservationCount,
    RecordOverhead,  \* what any dispatch record takes of an encoding
    MaxEncodingSize  \* what an encoding has for its dispatch records

VARIABLES
    dispatches,   \* the retained dispatch records, oldest first
    progress,     \* the identity of the progression
    state,        \* the identity of the current canonical state
    verdict,      \* [complete, failed, stopped], derived from the progression
    sequence      \* the number of the record

journalVars == <<dispatches, progress, state, verdict, sequence>>

\* Transitions a dispatch record has been through: reservation, start,
\* each observation, completion or release.
Transitions(record) ==
    CASE record.phase = "reserved"  -> 1
      [] record.phase = "started"   -> 2 + Cardinality(record.observations)
      [] record.phase = "completed" -> 3 + Cardinality(record.observations)
      [] record.phase = "released"  -> 2

\* Each record with the number of each of its transitions.
RetainedTransitions(records) ==
    UNION {{i} \X (1..Transitions(records[i])) : i \in DOMAIN records}

RetainedTransitionCount(records) == Cardinality(RetainedTransitions(records))

ActiveRecords(records) ==
    {i \in DOMAIN records : records[i].phase \in {"reserved", "started"}}

\* The counts a record is limited to; the encoder refuses the same.
WithinLimits(records) ==
    /\ Len(records) <= MaxDispatchCount
    /\ \A i \in DOMAIN records :
          /\ Cardinality(Members(records[i].unit)) <= MaxMemberCount
          /\ Cardinality(DOMAIN records[i].dependencies) <= MaxDependencyCount
          /\ Cardinality(records[i].observations) <= MaxObservationCount

RecordBounds(records) ==
    /\ WithinLimits(records)
    /\ \A i \in DOMAIN records : Members(records[i].unit) # {}
    /\ IsInjective([i \in DOMAIN records |-> records[i].nonce])
    /\ \A i, j \in ActiveRecords(records) :
          i # j => Members(records[i].unit) \cap Members(records[j].unit) = {}
    /\ \A i \in ActiveRecords(records) :
          LET same == {j \in ActiveRecords(records) : records[j].unit \in Kind(records[i].unit)}
          IN  Cardinality(same) <= Capacity(records[i].unit)

\* What the shape check asks of any record, with the predecessor's presence
\* left to the chain.
TopLevelShape ==
    /\ (sequence = 0) <=> (dispatches = <<>>)
    /\ Len(dispatches) <= sequence
    /\ sequence = RetainedTransitionCount(dispatches)
    /\ ~(verdict.complete /\ verdict.failed)
    /\ verdict.stopped = verdict.failed
    /\ RecordBounds(dispatches)

\* The size of an encoded dispatch record in identities: a dependency takes
\* three, and an operation names an effect attempt beside its session.
RecordSize(record) ==
    RecordOverhead
        + Cardinality(Members(record.unit)) + 3 * Cardinality(DOMAIN record.dependencies)
        + (IF record.session = None THEN 0 ELSE IF record.unit \in Operations THEN 2 ELSE 1)
        + Cardinality(record.observations) + (IF record.terminal = None THEN 0 ELSE 1)

\* Each record with each identity it takes.
EncodedIdentities(records) ==
    UNION {{i} \X (1..RecordSize(records[i])) : i \in DOMAIN records}

Encodable(records) == Cardinality(EncodedIdentities(records)) <= MaxEncodingSize

-----------------------------------------------------------------------------
SameAuthority(old, new) ==
    /\ new.unit = old.unit /\ new.nonce = old.nonce
    /\ new.reservedFrom = old.reservedFrom /\ new.reservedState = old.reservedState
    /\ new.dependencies = old.dependencies

\* A session stands for the attempt session together with the effect attempt
\* that the start of an operation binds along with it.
SameAttempt(old, new) == new.session = old.session

ProgressChanged == progress' # progress

NoEvidence(record) == record.observations = {} /\ record.terminal = None

RecordTransition(old, new) ==
    /\ SameAuthority(old, new)
    /\ \/ /\ old.phase = "reserved" /\ new.phase = "started"
          /\ ~ProgressChanged /\ new.session # None /\ NoEvidence(new)
       \/ /\ old.phase = "reserved" /\ new.phase = "released"
          /\ ~ProgressChanged /\ new.session = None /\ NoEvidence(new)
       \/ /\ old.phase = "started" /\ new.phase = "started"
          /\ ~ProgressChanged /\ SameAttempt(old, new) /\ new.terminal = None
          /\ old.observations \subseteq new.observations
          /\ Cardinality(new.observations) = Cardinality(old.observations) + 1
       \/ /\ old.phase = "started" /\ new.phase = "completed"
          /\ ProgressChanged /\ SameAttempt(old, new)
          /\ new.observations = old.observations /\ new.terminal # None

NewRecord == dispatches'[Len(dispatches')]

Reservation ==
    /\ Len(dispatches') = Len(dispatches) + 1
    /\ ~ProgressChanged
    /\ SubSeq(dispatches', 1, Len(dispatches)) = dispatches
    /\ NewRecord.phase = "reserved"
    /\ NewRecord.reservedFrom = progress /\ NewRecord.reservedState = state

ChangedRecords == {i \in DOMAIN dispatches : dispatches'[i] # dispatches[i]}

OneTransition ==
    /\ Len(dispatches') = Len(dispatches)
    /\ \E i \in ChangedRecords :
         /\ ChangedRecords = {i}
         /\ RecordTransition(dispatches[i], dispatches'[i])

\* Only a completed operation may move canonical state, and only a change of
\* progression may change the verdict.
EpochAuthority ==
    /\ ~ProgressChanged => state' = state /\ verdict' = verdict
    /\ state' # state =>
          \E i \in ChangedRecords :
              dispatches'[i].phase = "completed" /\ dispatches'[i].unit \in Operations

\* A record is neither written nor read back as what follows its predecessor
\* unless it is the next one, by one transition, and within its limits.
Successor ==
    /\ sequence' = sequence + 1
    /\ Reservation \/ OneTransition
    /\ EpochAuthority
    /\ TopLevelShape'
    /\ Encodable(dispatches')

JournalInit ==
    sequence = 0 /\ dispatches = <<>> /\ TopLevelShape /\ Encodable(dispatches)

JournalSpec == JournalInit /\ [][Successor]_journalVars
=============================================================================
