# A verification of pkgctl's transaction controller

`pkgctl` turns a resolved package transaction into durable, restartable work: it
builds packages, checks the builds, and installs, upgrades or removes them on a
target. This directory holds TLA+ models of that controller, TLC
configurations that check them on small instances, and proofs that TLAPS
checks for every instance. Paths below are relative to the repository root.

Running it:

    tlc -workers 2 -config MCDispatch.cfg MCDispatch   # any row of "The runs"
    tlapm DispatchProofs.tla

`PROJECT.json` maps every definition to the lines it models, lists the hazards
of the code with the properties that cover them, and names for every checked
property a plausible slip of the code that violates it. The slips are the
definitions marked "A slip in ..."; no specification uses them.

## The system

A *transaction program* is a sealed acyclic graph. Its nodes are retained
packages, constructions (builds), checks, operations (state changes of the
target) and the lifecycle programs before and after an operation. A *unit* is
what is dispatched as one: a construction, a check, or an operation with its
lifecycle nodes. A *run* is one execution of a program.

    command (cli/)                    options, body store, wiring
      | launch_transaction_run
    launch -> admit, then drive       run_launch, run_admit, run_drive
      | advance_transaction_run_once
    advance                           run_advance
      |- load head, rehydrate         run_store, run_progress, run_evidence_store
      |- reconcile what is active     run_restart, run_recovery, run_reconcile
      `- or reserve one unit, execute dispatch, run_execute, run_commit
           |- construction, check     construction, check, run_native
           `- operation               effect, effect_restart, effect_journal, effect_store

| component | state | operations | hard part | what makes it correct |
| --- | --- | --- | --- | --- |
| progression graph (`progression.cpp`) | terminal evidence per unit; derived node statuses | advance construction, check, effect | in-place fixpoint in identity order; lifecycle nodes that gate other units | the sweep computes the intended statuses; decided is final |
| dispatch ledger (`dispatch.cpp`) | records: unit, nonce, captured predecessors and epoch, session, result | reserve, start, release, complete, observe | facts captured at reservation while others complete; failure races; capacities | a unit runs once; the run validates and restores; failure contains |
| effect attempt (`effect*.cpp`) | journal record, retained bodies | execute durably, classify, resume, reconcile, seal | a crash between intent and fact; a lost lease; two resuming processes | effects in order, none twice; honest verdict; body before reference |
| journal stores (`run_store.cpp`, `effect_store.cpp`) | immutable snapshots, a head, a lock file | load latest, append | kill or power loss between link, sync, rename, sync; unlocked first read | an append-only log that keeps what it acknowledged |
| evidence store (`run_evidence_store.cpp`) | object and index files per attempt and result | publish, load | two files per record; kills and power losses between them; readers without a lock | a write-once map whose index never outlives its object |
| advance and drive (`run_advance.cpp`, `run_execute.cpp`, `run_commit.cpp`, `run_reconcile.cpp`, `run_recovery.cpp`, `run_progress.cpp`) | none beyond the stores | load, reconcile, reserve, execute | no lock on the run; three stores written at different moments; kills between any two writes | every committed head is a step of the ledger; the run can be resumed; an effect belongs to a started dispatch |
| command around a run (`cli/run_command.cpp`, `run_launch.cpp`, `run_admit.cpp`) | command evidence, artifact root | start, resume | evidence and admission are separate files with no lock over both | an admitted run can be recomposed; its artifacts stay below one root |
| scope of a command (`run_runtime.cpp`) | none | derive the kinds of execution still possible | computed from one look, used by a drive of many steps | whatever the drive executes was examined |
| cleanup (`run_cleanup.cpp`, `run_resource.cpp`) | private directories of a run | realize, remove | partial failure, other cleaners, writers that lag behind | removal is truthful, repeatable and touches nothing else |
| places (`run_locator.cpp`, `cli/run_command.cpp`, `run_runtime.cpp`) | coordinates | derive, compare, locate | a comparison for every pair that must not overlap | what a dispatch clears is nobody else's |
| codecs (`*_codec.cpp`) | bytes | encode, decode, recompute identities | two hand-written halves per record type; damaged and foreign bytes | one encoding per record; an identity names its content |
| command line (`cli/options.cpp`) | none | parse | forty conditions, and a host with conditions of its own | what is accepted can be composed |
| requests, sessions, identities, inspection, reports | sealed values | make, print | none: data | equal content is equal identity |

Components meet only through the stores, the target lease and values passed
down the call chain. Within one process the code is sequential: there are no
threads, callbacks only as synchronous driver calls. All concurrency is between
processes (two invocations on one run, another transaction on the target), and
all asynchrony is death: a kill, an exception or a power loss.

## The modules

| module | models | state against code |
| --- | --- | --- |
| `Progression` | what a program is and what evidence means for it | pure operators: `ReadyUnits`, `Status`, `UnitResults` |
| `Derivation` | `transaction_progress` with the real in-place sweep | `evidence`; the sweep is a recursive function |
| `Dispatch` | the ledger, one action per public function of `dispatch.cpp` | `ledger`, `evidence`, `epoch` |
| `RunJournal` | what a run journal record may say, how large it may be, and which record may follow which (`run_journal.cpp`, sizes of `run_journal_codec.cpp`) | the records of a run, its progression and canonical state, the verdict, the sequence number |
| `DispatchJournal` | the ledger as the journal stores it: what `Dispatch` hands to `RunJournal`, and where it may outgrow it | `TransitionCount` numbers the record |
| `OperationContract` | what an operation promises (abstract) | steps begun and succeeded, verdict |
| `EffectAttempt` | durable execution and restart of one effect | `journal`, `bodies`, the external `owner` and `canonical` state, `lease`, a program counter per process |
| `AppendLog` | what a journal store promises (abstract) | the log and the acknowledged prefix |
| `JournalStore` | lock, link, sync, rename, sync, and the readers | directory entries and those a power loss may keep |
| `WriteOnceMap` | what the evidence store promises (abstract) | what each key answers |
| `ImmutableFiles` | a directory of files that are linked, unlinked and synchronized once (`persist_immutable`, `retain_immutable`) | `files`, `doubled` (files with two names), `safe` (what a power loss keeps) |
| `EvidenceStore` | publication of object and index, the readers | that directory, the lock file, a program counter per process |
| `CommandHost` | a command's evidence, admission and launch, resumption | that directory, `admitted` journals, projected `artifacts` |
| `RunDrive` | whole advancements of a run by several processes | the head, the evidence entries, artifact names, effect stages, lease, a program counter per process |
| `CommandScope` | the command that owns a drive: scope, stops, step limit | `RunDrive` and what each command examined |
| `RunCleanup` | who fills private directories and who removes them | `dirs`, `sealed`, `blocked`, the ledger's phases, a sweep per cleaner |
| `NativePaths` | coordinates, their comparisons, the place of every dispatch | `command`, `opening`, `admitted` |
| `WireCell` | what the cells and fields of a written record are, the bytes a field admits, and the digest a field calls for | pure operators |
| `WireLayer` | one level of a record's encoder and decoder, over those of the level below, which are constants | pure operators |
| `WireSchema` | one level of what a record may be: formed schemas, fitting values, recomputed identities | pure operators |
| `WireFormat` | the nesting of today's records: five instances of `WireLayer` and of `WireSchema`, each over the one below | pure operators |
| `RecordCodec` | what a codec does around its schema (magic, checksum, expected fields, comparison with the bytes), and what becomes of the bytes; the table of formats is a constant | the record written, its bytes, what a load answered |
| `RecordFormats` | that table: one schema per record type; and, for TLC, records of each | pure operators |
| `CommandLine` | which option vectors a verb takes, and what is read of them | the line, the verdict, the evidence an earlier command left |
| `DispatchProofs`, `EvidenceStoreProofs`, `CommandHostProofs`, `EffectAttemptProofs`, `WireLayerProofs` | theorems about the module each is named for | what is known at each program counter |
| `Front` | the sum of `Derivation`, `RecordCodec`, `NativePaths` and `CommandLine` | `part` says which one a behaviour is of |
| `FrontProofs` | theorems about `NativePaths`, `CommandLine` and, for the sum `Front`, `Derivation` and `RecordCodec` | what an opened command has compared; what an accepted line parses as; what the evidence gathered so far rests on; whose bytes are loaded |
| `RunDriveProofs` | theorems about `RunDrive`, `CommandScope`, `RunCleanup` and their sum `MCCommand` | what is known at each program counter |
| `RestartProofs` | theorems about `JournalStore` and, for the sum `MCRestart`, the other stores and the effect | what is known at each program counter |
| `MCDispatch`, `MCEffect`, `MCRunDrive`, `MCCommandScope`, `MCFront` | programs, instances and symmetries for TLC | |
| `MCRestart`, `MCCommand` | sums: several independent components in one run | `part` says which one a behaviour is of |

How they fit together:

- `Dispatch`, `Derivation` and `RunDrive` extend `Progression`. `Dispatch` asks
  for readiness as sets and one fixpoint; `Derivation` shows that the loop of
  `derive_statuses` computes exactly that.
- `Dispatch` implements `RunJournal` (`ImplementsJournal`, in `DispatchJournal`): the successor rule,
  which is written apart from the ledger and knows neither graph nor evidence,
  accepts every transition the ledger makes within the limits of the journal, and
  counts transitions right. *The exception are the limits*, which the ledger does
  not know: a record holds at most 65536 dispatches, and each of them 65536
  members, dependencies and observations (`include/pkgctl/run_journal.h:25`), and
  its encoding at most 16 MiB (`include/pkgctl/run_journal_codec.h`). `RunJournal`
  has them as constants, and `OutgrowsLimits` says what they may refuse. A count
  refuses only a reservation or an observation, so nothing that was started is
  kept from being recorded as completed. The size can also refuse a start, an
  observation or a completion, after the work is done, but never a release. It is
  the limit met first: a dispatch takes about 300 bytes or more, so an encoding is
  full before it holds 65536 of them.
  The record number, 64 bits wide, cannot run out before that: it counts the
  transitions the record retains, fewer than the bytes they take in it.
- `EffectAttempt` implements `OperationContract`, `JournalStore` implements
  `AppendLog` and `EvidenceStore` implements `WriteOnceMap`, each by a
  refinement mapping checked as a temporal property.
- `EvidenceStore` and `CommandHost` extend `ImmutableFiles`: the two stores have
  the same way of publishing a file, but only the first has a lock.
- `RunDrive` implements `Dispatch` (`ImplementsDispatch`): its head *is* a
  ledger, its evidence and epoch are what rehydration derives from that ledger,
  and each commit must be a step of `Dispatch` or a stutter. The reservation is
  computed by `Dispatch`'s own operators on the copy of the run in the hands of
  a process (`Run(run) == INSTANCE Dispatch WITH ledger <- run, ...`), so a step
  computed from a stale copy is caught if it ever reached the store.
- `CommandScope` extends `RunDrive` by the command around the drive, so that the
  scope a command derives is compared with what the drive then executes.
- Inside `RunDrive` an effect attempt is a stage: absent, admitted, begun,
  unresolved (the journal ends where only others can tell what happened, so the
  dispatch rests there for good), withheld (a resumed application is open and
  only its owner can resolve it), indeterminate (its publication may have
  happened, which a later read of the canonical state tells), or sealed. That is
  what `OperationContract` and `Disposition` of `EffectAttempt` leave to tell
  apart.

Some correspondences a reader may look for:

- A ledger's `validate_run_records` and `validate_rehydrated_run_history` are
  not guards in `Dispatch`. They are the invariants `LedgerValid` and
  `HistoryRestorable`: what is checked is that no sequence of calls ever meets
  their refusal. The same holds for `validate_live_successor` and `RunJournal`,
  but for the limits above, which a sequence of calls may meet.
- `RunJournal` measures an encoding in identities (32 bytes each): those of the
  members, three of each dependency, those of the session, of the effect attempt of
  an operation, of the observations and of the terminal evidence. The rest of a
  dispatch (its own identities, nonce, epoch, counts and flags) is `RecordOverhead`,
  taken to be the same for each, and `MaxEncodingSize` is what the header leaves of
  the limit. The `session` of a record stands for its attempt session and for the
  effect attempt the start of an operation binds along with it, `reservedFrom` for
  the identity of the progression it was reserved from.
- In `RunDrive`, `CommandHost` and the modules over them every run is within the
  limits of the journal: their appends are not refused for size.
- A record of a journal names its predecessor by content hash, so `JournalStore`
  identifies it with the sequence of choices that leads to it, and `RunDrive`
  with the ledger it holds.
- Nonces of dispatches and attempts are derived from the head. Two processes
  that load the same head therefore reserve the *same* dispatch; a store accepts
  the second as a repetition, and only a different session or result conflicts.
- An exception anywhere in an advancement ends it. In `RunDrive`, `Leave` is a
  return or a throw and `Kill` a death at any point; both drop the lease.
- A head may be visible and not synchronized: `heads` holds what a power loss
  may leave. `Commit` covers the alternatives of `append`: acknowledged, killed
  before the last synchronization, or refused because the head has moved.
- In the codecs a cell is one fixed-width value and a digest is the term
  `<<"sha256", domain, content>>`, so it is injective by construction. A record
  is a value of its schema with its identities computed, the sequence of its
  fields' values; causal shape (which records a run or an attempt can hold) is the
  business of `RunJournal` and `EffectAttempt`. No record that is written holds a
  digest of bytes of its own format or, where a retained identity is all that
  protects it, a second digest of that identity's domain beside it (`Unentangled`):
  a record cannot contain a hash of itself, and what precedes a run record is named
  far from its own name. Enumerations keep their lower bound and are cut below
  `TopByte`, so that an out-of-range byte exists. The normal order of the groups
  of a check session comes from a library and is external.
- In `NativePaths` a path is its sequence of names. The code does not compare the
  canonical store or the target root with the store directories below the
  runtime root, and neither does the model: `Elsewhere` names what is protected.
  Nor does it compare the catalog with them, and `Sources` names what that costs.
- `CommandLine` counts how often each option is given. Values are abstracted (a
  refused value ends the command), and the order of arguments, which matters to
  the precedence of collections and to provenance only, is left out.

## The runs

| run | instance and bounds | checks |
| --- | --- | --- |
| `dispatch` | a checked build behind an operation's gate, an operation ordered before a second build that uses what it replaces; construction capacity 2, 6 nonces, 2 releases; a journal of at most 5 dispatches, 2 members, 1 dependency, 2 observations each, and 30 identities, so that each of dispatches, observations and size is exceeded somewhere | `TypeOK`, `HistoryRestorable`, `UniqueExecution`, `LedgerValid`, `NeverStalls`, `FailureContained`, `LedgerMonotone`, `EpochSerial`, `ImplementsJournal` |
| `effect_live` | 2 processes, 1 + 1 lifecycle programs, 1 crash, 1 revocation, fairness | `JournalMonotone`, `Resolves`, `ContractUntilRevoked` |
| `effect_lease` | 1 process, no programs, 1 crash, 1 revocation | violates `LeaseLossNotPromoted` |
| `drive` | 2 processes, a build and its installation, 3 reservations, 2 kills or 1 power loss | `Resumable`, `EffectsOwned`, `ArtifactsBacked`, `ImplementsDispatch` |
| `drive_torn` | 2 processes, 1 kill, 1 power loss | violates `EffectsOwned` |
| `command` | drive: 1 process, build, check, installation with a program, 5 reservations, 2 power losses; cleanup: 2 cleaners, 2 dispatches, 1 kill or substitution; fairness | `ScopeCoversFresh`, `CommandsSettle`, `CompleteIsClean`, `OnlyCompletedRemoved`, `Converges` |
| `command_scope` | an operation, the build that needs it, an operation with a program | violates `ScopeCovers` |
| `cleanup_released` | 1 cleaner, 1 build, 2 dispatches | violates `ReleasedOwnNothing` |
| `front` | derivation: 9 units, 4 operations with programs in both phases, identities in reverse order; codecs: 11 record types, one field off its default, every single damage; paths: 7 places, one of them inside a root that is cleared, 5 dispatches of two runs; command line: 7 verbs, 2 edits | `SweepIsStatus`, `SatisfactionIsGrounded`, `DecisionsStand`, `RoundTrips`, `Canonical`, `IdentityNamesContent`, `PrivateApart`, `AcceptedIsComposable` |
| `restart` | journal: 2 processes, 2 branches, 3 records, 2 stops, 1 power loss; evidence: 2 processes, 2 keys, 2 values, 1 stop, 1 power loss; host: 2 processes, 2 nonces, 2 transactions, 2 roots, 1 fault; effect: 1 process, 2 + 2 programs, 3 crashes, 3 revocations | `HeadBacked`, `KeptSurvives`, `ReadsAreCurrent`, `ImplementsLog`, `IndexBacked`, `LoadsAreCurrent`, `ImplementsWriteOnce`, `AdmittedAreRetained`, `Unredirected`, `BodiesCoverJournal`, `ImplementsContract` |
| `store_headless` | 1 process, 2 records, 1 stop, 1 loss | violates `HeadlessHoldsOne` |
| `evidence_unlinked` | 1 process, 1 key, 1 value, 1 kill | violates `RetryReuses` |

The three sums (`front`, `restart`, `command`) put components that share no
state into one run: a behaviour picks one and the others rest. Nothing is
composed there; where components do interact, a module says so (`RunDrive`,
`CommandScope`, `RunCleanup`). Inside a sum a property whose own module already
gives it a name is defined again under a name of its own, with the guard
`part = ...` where it would otherwise be evaluated in every part.

Every bound is a constant with "Max" in its name (or `Budget`), and stands in a
guard. Deadlock checking is off throughout: a run that is complete or stopped, a
sealed attempt, a finished command and an idle store with exhausted bounds
really stop.

Why the bounds are enough:

- Six nonces leave the program of `dispatch` (five units) one release and one
  more reservation. Nonces are symmetric because nothing orders them.
- Two programs per phase distinguish a first and a last position; three crashes
  reach a crash during the recovery of a crash during a recovery, from where
  the code's state repeats.
- Three records give a journal a first, a middle and a last append; a first
  append is special (no head, no lock file).
- Two processes suffice for `drive`: a third could only repeat what one of them
  does to the head. Two kills are a torn commit and a death of the process that
  recovers from it. Three reservations are one per unit and one given back.
- One kill and one power loss, in either order, cut a publication of two files
  at every point and again during its retry.
- A slip in a codec shows in one field: one field off its default tells an order
  or a range from another, and one damaged, swapped, missing or surplus cell is
  what two fields can be mistaken by. Four byte values and two items reach every
  branch of a decoder.
- Two edits reach every pair of options from a complete command, which is as
  many as a condition of the parser or the host relates once the verb and the
  intent are fixed.

### What the violations say

Six runs check a sentence of the documentation and refute it. Each is quoted in
`PROJECT.json`.

- `effect_lease`: reconciliation of a publication intent republishes and seals
  `completed` without a lease test after the publication
  (`src/effect.cpp:1428-1445`); the other two publication paths have one.
- `store_headless`: a first head renamed but not synchronized, a second append,
  and a power loss can leave two snapshots and no head, which no exact retry
  repairs (`src/run_store.cpp:455`).
- `drive_torn`: a started head whose writer was killed before the last
  synchronization is loaded and acted on (`src/run_advance.cpp:534`); a power
  loss then undoes the start and keeps the effect.
- `evidence_unlinked`: a publisher killed between link and unlink leaves a file
  with two names, which `read_file` refuses for ever
  (`src/run_evidence_store.cpp:270`); a plain kill is enough, and the exact retry
  the manual promises cannot succeed. Command evidence has the same check
  (`cli/run_command.cpp:188`).
- `command_scope`: a resumed command that finds an observed operation examines no
  backend (`src/run_runtime.cpp:675`), but the drive may complete the operation,
  when the publication that could not be confirmed is found in the canonical
  state, and go on to a build; it then fails in the place of a backend, and the
  next resume recovers.
- `cleanup_released`: installed inputs are realized while a dispatch is only
  reserved (`src/run_resource.cpp:131`); killed there, the dispatch is released
  and its tree belongs to no cleanup.

`store_headless` and `drive_torn` need a file system that keeps a later
directory change while it loses an earlier, unsynchronized one (in the same
directory for `store_headless`, in another one for `drive_torn`). POSIX allows
it, and the code's own two synchronizations per append guard against it;
journaling file systems that order metadata do not exhibit it. The power-loss
actions grant exactly this: every entry not yet synchronized survives or not on
its own.

The same shape exists where a file is found and relied on before its killed
writer synchronized it. Three properties except it by name instead of failing:
`IndexBacked` excepts objects adopted that way (`torn`), `AdmittedAreRetained`
excepts nonces whose evidence was adopted that way (`hasty`; such a run, after
the power loss, can be neither resumed nor started again), and the run `drive`
has kills or a power loss, but not both (`EitherFaultSpec`), since `Resumable`
fails as `EffectsOwned` does where a process is killed inside `publish` before
power is lost (`src/run_evidence_store.cpp:709`: `publish` returns a record it
finds without synchronizing it). `ScopeCoversFresh`
excepts commands that found an observed operation, which is `command_scope`.

## Fairness

- `effect_live`: `WF` on each process starting or loading the attempt, and on
  each process's next step. A process that is alive executes straight-line code
  and its calls return; someone resumes an unfinished attempt, which the command
  does whenever it is invoked again. Crashes, revocations and other
  transactions get no fairness, and an uncertain result is never forced to
  become certain: `Resolves` allows rest where `NeedsResolution` holds.
- `command`, the drive: `WF` on resuming a run that has work and `SF` on the
  steps of its drive. A command may stop at any step limit, but a limit is at
  least one step (`transaction_run_drive_policy::make`), so commands that are
  run again and again do advance; nothing else is forced, in particular no
  outcome. It is one process on purpose. Two drives may release each other's
  reservations: the loader of a reserved dispatch cannot tell a dead owner from
  a slow one (`src/run_advance.cpp:253`), and nothing in the code schedules two
  drives against each other, so no honest fairness assumption makes two drives
  settle.
- `command`, the cleanup: `WF` on beginning a sweep of a completed run and on
  each step of a sweep (the command does both whenever it resumes a completed
  run), on the end of an execution that lags behind, and on the repair of what
  an operator has put in the place of a directory.

## What is proved

TLAPS checks everything below for every value of the constants: any program,
number of processes, nonces, files, crashes and losses. What a module assumes of
its constants is named, and TLC evaluates it on the instances:

- `ProgramAssumption` (kinds of units are disjoint, units share no node, the
  lifecycle nodes of an operation are other nodes than its action, every check
  has its build as a predecessor), `ResultAssumption`,
  `DispatchAssumption` (capacities are positive, identity order is injective) and
  `DriveAssumption` are facts of the sealed program and of the policy type.
- `JournalAssumption` says that the limits of the journal and the overhead of a
  record are numbers, whichever.
- `OrderAssumption` and `PhaseAssumption` say that identity order lists every unit
  once, and that a lifecycle node stands once in the phases of its operation
  (`validate_lifecycle_order` refuses a repeated one, `src/effect.cpp:113`).
- `CodecAssumption` says of a table of formats that its schemas are well formed and
  name their fields, that each field is under a retained identity, one itself, or
  known to the caller, and that a format has a checksum or an identity over
  everything. It is about the encoders as `RecordFormats` has them: TLC evaluates
  it on that table.
- `StoreAssumption`, `EffectAssumption` and `Sentinels` say that bounds are numbers
  and that a model value which stands for "nothing" is none of the values it stands
  beside; `NoneAssumption` says it of an absent optional. `RestartAssumption` and
  `CommandAssumption` repeat what the instances in `MCRestart` and `MCCommand`
  ask for.

### The ledger (`DispatchProofs`, over `Dispatch` and `DispatchJournal`)

| theorem | statement |
| --- | --- |
| `Inductive` | `Spec => []IInv` |
| `TypeCorrect` | `Spec => []TypeOK` |
| `LedgerAlwaysValid` | `Spec => []LedgerValid` |
| `AlwaysRestorable` | `Spec => []HistoryRestorable` |
| `ExecutedOnce` | `Spec => []UniqueExecution` |
| `NeverQuiescent` | `Ordered(order)` implies `Spec => []NeverStalls` |
| `Contained` | `Spec => FailureContained` |
| `Serial` | `Spec => EpochSerial` |
| `Monotone` | `Spec => LedgerMonotone` |
| `LedgerImplementsJournal` | `Spec => ImplementsJournal` |
| `StorableLedgerIsJournal` | `Spec /\ []Storable => Journal!JournalSpec` |

`IInv == TypeOK /\ LedgerValid /\ HistoryRestorable /\ UniqueExecution`. None of
the four is inductive alone. `UniqueExecution` needs `ActiveCurrent` (an active
unit has no evidence yet, so a completed record of the same unit cannot exist)
and `ActiveDisjoint`; `ActiveCurrent` survives the completion of *another* unit
because evidence only grows where there was none (`SatisfiedGrows`), so what was
satisfied stays satisfied and captured predecessors stay equal
(`DependenciesStable`, `ReadyStable`), and because at most one operation is
active (`OneOperationLane`), so that no operation moves the epoch under another;
and `HistoryRestorable` is what says that a completed record agrees with the
evidence that those lemmas speak about. `StepShapes` reduces every action to
one of three shapes: a record is appended, a record changes its phase and the
evidence does not, or a record retires and evidence is added. The preservation
proof has one lemma for each. The same `IInv` and the
shapes give the three action properties; the shape of a moving record says how
far it may move (`Advances`).

`NeverStalls` is not a matter of reachability but of the graph: in a program
whose units can be put in an order (`Ordered`), the first unit of the order that
is not evidenced has all its predecessors satisfied (`FirstIdleIsReady`, by
well-foundedness), and with nothing active no capacity is in its way. The order
is a hypothesis of the theorem and not an assumption of the module, since the
program comes from a composer outside this repository and `Derivation` has a
program without one; `MixIsOrdered` shows that the checked program has one.

`LedgerImplementsJournal` takes the same three shapes to the three kinds of
successor `RunJournal` knows. The number of a record is a count of transitions,
so the proof needs each step to add exactly one: transitions are counted as a set
of pairs (`RetainedTransitions`), and a step adds one pair and at most one
record (`StepTransits`, `StepCounts`), so a ledger is never longer than its
record number (`Bounded`). The verdict of a journal record is
never both complete and failed (`VerdictConsistent`): a failed operation leaves
its own node unsatisfied, and since its action is none of its lifecycle nodes no
list of returned lifecycle results covers it (`ReturnedMembers`). That is the
argument while the limits hold (`Storable`, before and after the step). Where the
step ends outside them, a count can have grown only by a new record or a new
observation, since a start or a completion leaves unit, dependencies and
observations of every record as they were (`RunningFits`, `CountsOutgrown`), and
the encoding cannot have grown by a release, whose record has neither session nor
observations nor evidence (`ReleaseKeepsSize`, `SizeOutgrown`).
`StorableLedgerIsJournal` is what is left for a run that never meets a limit: the
whole behaviour is one of the journal.

### The journal stores (`RestartProofs`, over `JournalStore`)

| theorem | statement |
| --- | --- |
| `Invariance`, `TypeCorrect` | `Spec => []IInv`, `Spec => []TypeOK` |
| `HeadIsBacked` | `Spec => []HeadBacked` |
| `AcknowledgedSurvives` | `Spec => []KeptSurvives` |
| `UnlockedReadsAreCurrent` | `Spec => ReadsAreCurrent` |
| `StoreImplementsLog` | `Spec => ImplementsLog` |

`HeadBacked` and `KeptSurvives` follow from what they do not say. `HeadsClose`: a
head that a power loss may keep is the visible one or the one before it.
`WriterKnows`: whoever stands at `synced` has its snapshot safe and no older head
left to fall back to, unless it repeats a record that is the head already.
`ReaderKnows`: while no lock file exists nobody has ever written, so a
reader without the lock still sees what it saw. The refinement maps the log to
the visible head and the acknowledged prefix to `kept`; every step but the rename
and the losses is a stutter.

### The evidence store (`EvidenceStoreProofs`)

The module begins with four lemmas about the directory (`LinkFacts` to
`LoseFacts`): what each step of a file's life does to what is held and what is
safe. `CommandHostProofs` begins with the same four, since the two stores are
different instances of one directory and share nothing else.

| theorem | statement |
| --- | --- |
| `Invariance`, `TypeCorrect` | `Spec => []IInv`, `Spec => []TypeOK` |
| `IndexIsBacked` | `Spec => []IndexBacked` |
| `PublishedIsAnswered` | `Spec => []` (every key in `kept` is answered by a record) |
| `UnlockedLoadsAreCurrent` | `Spec => ReadsAreCurrent` |
| `StoreImplementsMap` | `Spec => ImplementsWriteOnce` |

`IInv` adds to the checked invariants where every file that is not yet safe comes
from (`Accounted`: a dead writer, or the one writer that stands between link and
synchronization), that a key acknowledged has both files settled (`KeptSettled`),
and what each stage knows: a writer at its index holds its object, safe or
`torn`. That exception is the one `IndexBacked` names. The write-once map is
refined because an index is written only where `IndexOf` was empty under the
lock, and a key whose index a power loss takes was never acknowledged.

### The command around a run (`CommandHostProofs`, over `CommandHost`)

| theorem | statement |
| --- | --- |
| `Invariance`, `TypeCorrect` | `HostSpec => []IInv`, `HostSpec => []TypeOK` |
| `RetainedBeforeAdmitted` | `HostSpec => []AdmittedAreRetained` |
| `RootsAreFixed` | `HostSpec => []Unredirected` |
| `NonceNamesOneRun` | `HostSpec => []OneRun` |

There is no lock over the evidence and the journal, so the invariant says what
each stage of a command has established and nobody can take away (`Knows`), and
that evidence which names a run with artifacts names their root (`RootFixed`).
`OneRun` is stated only here: two commands that compose different transactions
under one nonce cannot both be admitted.

### The effect attempt (`EffectAttemptProofs`, over `EffectAttempt`)

| theorem | statement |
| --- | --- |
| `Soundness`, `TypeCorrect` | `Spec => []JInv`, `Spec => []TypeOK` |
| `EvidenceBeforeReference` | `Spec => []BodiesCoverJournal` |
| `NoFactIsLost` | `Spec => JournalMonotone` |
| `Accounting` | `Spec => [](JInv /\ CInv)` |
| `ContractKeptTogether` | `Spec => ContractUntilRevoked` |
| `ContractKeptAlone` | `Controllers = {k}` implies `Spec => ImplementsContract` |

There are two layers. `JInv` holds whatever happens to the lease: a record has
just the facts of its stage (`Staged`), what it names is retained (`Covered`), and
a controller at each point of its program has a valid view, the right kind
of result and a verdict that its view justifies. `CInv` needs controllers that
cannot overlap (`Alone`: one controller, or no lease was revoked under its
holder). Then whoever has entered the attempt believes what the journal
says, and the journal, the owner and the canonical state together account for
the steps begun and succeeded, including a step begun whose fact no record has
yet. The refinement of `OperationContract` follows step by step.

The hypotheses are the code's: with two controllers and a revoked lease the
contract really can break, since a controller between its last lease test and its
call does not see the revocation. `effect_live` shows it with the two
controllers that `ContractUntilRevoked` speaks of, `restart` with one.

### The parts together (`RestartProofs`, over `MCRestart`)

`MCRestart` extends `JournalStore` and instantiates the other proof modules with
its own variables. The last theorems of `RestartProofs` say of the composition what was proved of the parts
(`IndexesAreBacked`, `UnlockedLoadsHold`, `EvidenceIsWriteOnce`,
`AdmittedCanBeResumed`, `ArtifactsStayPut`, `EvidencePrecedesReference`,
`NothingIsRepeated`): every step of the sum is a step of the part or leaves it
alone.

### The durable drive (`RunDriveProofs`, over `RunDrive`, `CommandScope` and `MCCommand`)

| theorem | statement |
| --- | --- |
| `Inductive` | `EitherFaultSpec => []IInv` |
| `AlwaysResumable` | `EitherFaultSpec => []Resumable` |
| `CommitsPrecedeEffects` | `EitherFaultSpec => []EffectsOwned` |
| `ArtifactsAreProved` | `EitherFaultSpec => []ArtifactsBacked` |
| `DriveImplementsDispatch` | `EitherFaultSpec => ImplementsDispatch` |
| `ScopeAlwaysCovers` | `MaxKills = 0 \/ MaxLosses = 0` implies `CommandSpec => []ScopeCoversFresh` |

This is the proof about the whole: any number of processes load the head without
a lock, compute for as long as they like, are killed anywhere, and commit;
and yet every head that is ever visible is a behaviour of the ledger.
`IInv == Shape /\ Untorn /\ HeadOK /\ Kept /\ \A c : Knows(c)`:

- `HeadOK`: the head satisfies the `IInv` of `DispatchProofs`, with the evidence
  and epoch that rehydration derives from it. It is reused, not
  proved again: `RunDrive` instantiates `DispatchProofs` as `Ledger`, so a
  commit preserves it because the commit is a ledger step.
- `Kept`: the three checked invariants, what the head and the other two stores
  owe each other.
- `Knows(c)`: the copy a process holds is an earlier state of the head (`Later`),
  and the stores still hold what it learnt since (`Holds`). Copies only matter
  when they are the head, because a store refuses every other successor;
  `Later` is what carries the facts from the load to the commit.
- `Untorn`: no power loss is left to come, or no kill is left to come and every
  entry is synchronized.

`EitherFaultSpec` is the specification of the run: processes may be killed or
power may be lost, but not both in one behaviour. With both the invariants are
false, which `drive_torn` shows; the number of kills, or of losses, is any
number.

`ScopeAlwaysCovers` carries this to the command around the drive. A scope is
computed once, so what it has to cover must never grow: `Due` is the set of units
of which something may still be executed, and it only shrinks (`DueShrinks`),
because what is completed, sealed or proved stays so (`Onward`). `CoverInv` says
of each open command that its scope covers `Due` and the unit it is about to start
(`Ample`), or that it can execute nothing: an operation rests for good in the head
it loads, or the run failed by it (`Blocked`, `OverStays`). That is why an empty
scope is enough for a run that only others can resolve. Commands that found an
observed operation are excepted, as in the property. The hypothesis is the one of
`EitherFaultSpec`.

### The removal (`RunDriveProofs`, over `RunCleanup`)

| theorem | statement |
| --- | --- |
| `CleanupInvariance` | `Cleanup!Spec => []CleanupInv` |
| `SweepIsComplete` | `Cleanup!Spec => []Cleanup!CompleteIsClean` |
| `OthersAreRetained` | `Cleanup!Spec => Cleanup!OnlyCompletedRemoved` |
| `CompleteLeavesNothing`, `RemovesOnlyCompleted` | the last two, of the sum `MCCommand` that the run `command` checks |

`Cleanup` is the instance of `RunCleanup` in that sum.

All for any number of cleaners, dispatches, lagging writers and faults; the only
assumption is that the bound on dispatches is a number. `CompleteIsClean` speaks
of a finished sweep, so the invariant has to say what a sweep under way has
settled: every target is still to do, among the failures it keeps, or gone for
good (`SweepOK`, `Gone`). A target another cleaner removed first stays gone
because nobody but a writer of that dispatch makes a leaf, and such a writer is
named in `late`. A plan is made once, from one reading of the records; it stays right because
a run that is eligible has nothing active (`OneAtATime`, `NothingActive`) and so
never changes its records again (`CompletedRests`). That is also why
`OnlyCompletedRemoved` holds at the moment of a removal and not only when the
plan was made. A journal directory is pruned only while empty
(`DirectoriesBacked`).

### The derivation of statuses (`FrontProofs`, over `Derivation` and `Front`)

| theorem | statement |
| --- | --- |
| `SweepIsDeclared` | `FrontSpec => []SweepIsStatus` |
| `SatisfiedIsGrounded` | `FrontSpec => []SatisfactionIsGrounded` |
| `DecisionsAreFinal` | `FrontSpec => DecisionsStand` |

`SweepIsDeclared` is the correctness of a loop: `derive_statuses` sweeps the units
in identity order, overwriting statuses in place, until a sweep changes
nothing, and the theorem says that for every program, every order and every
evidence it arrives at the statuses that `Progression` declares with sets and one
fixpoint. Two facts make it. Every array of statuses the loop can hold is `Sound`:
units with evidence have the statuses the evidence gives, the nodes of any other
unit share one status, and a status that is not "pending" has its reason; one
visit keeps this (`VisitSound`), hence a sweep does (`SweepSound`). And a visit
never takes back such a status (`Settles`), so a sweep that changes anything leaves
fewer units pending and the loop ends (`ComesToRest`), where every visit leaves all
as it is. That array is the declared one: the units blocked in it are closed under
blocking, so they are all of the least such set, `BlockedUnits` (`LoopIsStatus`).
Sweep and loop are recursive functions, on positions and on arrays of statuses. The
library's theorems that such a function exists take an operator; their
instances are proved here from a least counterexample (`SweptExists`,
`ComesExists`).

The other two need the past. `Grounded` says that a unit with evidence has all its
predecessors satisfied: evidence is admitted only for a unit that the loop, hence
the declaration, calls ready (`ReadyIs`).

Proving these found one slip of notation: `CutOffNodes` took a difference from a
`UNION` without parentheses, which TLC and the prover read differently.

### The codecs (`WireLayerProofs` and `FrontProofs`, over `RecordCodec` and `Front`)

| theorem | statement |
| --- | --- |
| `LayerInverts` | `BodyInverts => Inverts`, of one level of an encoding |
| `RecordsReturn` | `FrontSpec => []RoundTrips` |
| `OneEncoding` | `FrontSpec => []Canonical` |
| `IdentitiesName` | `FrontSpec => []IdentityNamesContent` |

These are for every table of formats that satisfies `CodecAssumption`, every record
of a schema, with collections of any admitted length and cells of any value. Damage
is one cell changed, two neighbours exchanged, an end cut off or a cell added, at any
place, and another writer leaves a body that differs in such a way and closes it
properly. The lemmas `ParsedIs` and `IdentitiesTell` behind the last two theorems are
about any bytes. The run takes today's table and small records.

A record nests, so what its encoder and its decoder compute is an induction twice:
over the fields of a schema, and over the nesting. The first is in
`WireLayerProofs`: encoder and decoder are recursive functions on the positions of
a schema, and `LayerSound` and `LayerComplete` go from one position to the next. What
a decoder accepts is the encoding of the value it answers, followed by what it
leaves; and the encoding of a value that fits its schema, followed by anything, is
answered with that value and that remainder. The second is finite: `LayerInverts`
says that a level does this when the level below it does, and `Lowest` to `Highest`
climb the five levels of `WireFormat`.
Hence `ReadsBack` and `ReadsOnly`, of whole records, and from the latter
`Canonical` wherever the decoder does not rearrange what it read; where it does
(the groups of a construction) the code compares the bytes, which
`CodecAssumption` asks for.

`RoundTrips` after damage has two arguments. Where the bytes end in a checksum
(`ChecksumTells`), what is accepted ends in the digest of all that precedes it. That
digest is a cell of the original bytes, since damage makes none: it is their own
checksum, and then the rest is as it was, or a cell of their body, and a body
holds no digest of bytes of its own format. Where there is none (`IdentityTells`), an
identity of the record covers every other identity, and these cover every field the
caller does not compare; that cell stands unless it was the one damaged, and then the rest did.
`IdentitiesTell` is the same without damage, and is all of `IdentityNamesContent`.
Both rest on `IdentityCovers`: a retained identity is a digest over values of
fields, so equal identities have equal ones.

### Places and the command line (`FrontProofs`, over `NativePaths`, `CommandLine`)

| theorem | statement |
| --- | --- |
| `PathsStayApart` | `PathSpec => []PrivateApart` |
| `AcceptedCanBeRun` | `LineSpec => []AcceptedIsComposable` |

`PathsStayApart` is for every runtime root, every set of coordinates a caller may
supply and any number of journals, dispatches, inputs and lifecycle nodes. The
code compares the coordinates of a command with each other, once, and the places of
a construction with each other and with its inputs; nothing compares the places of
two dispatches. The theorem says that this is enough. `PathInv` says only that the
comparisons were made, and the proof is about paths: whatever a dispatch owns is below one of seven roots (`Rooms`), at
a remainder that names the dispatch (`Branch`). Places below different roots are
apart because the roots are (`RoomsApart`), places below one root because the
remainders of two dispatches are (`BranchesApart`), and other people's places
because no root overlaps them (`ElsewhereApart`). It assumes (`PathAssumption`)
that identities made of other identities tell them apart: the archive name of a
dispatch, and the digest of journal, dispatch and node that names a lifecycle
session.

The proof found what the checked instance had been too small to show. The root of
a collection is compared with nothing; only the directory of each recipe is, and
only with the places of its own construction. A recipe that lies where a check has
its temporary root, in a catalog inside the runtime root, may be cleared before a
construction reads it. The property now excepts catalogs inside the runtime root or
the artifact root, and no others (`Sources`); the instance has one.

`AcceptedCanBeRun` is for every argument vector, not only those two edits from a
complete one, and for every sequence of commands. It needs one fact about the
past: the evidence a command resumes from was left by a complete fresh command of
the same frontend (`LineInv`).

### Only model-checked

- Liveness (`Resolves`, `CommandsSettle`, `Converges`): fairness and ENABLED are
  beyond the installed provers.
- That today's table satisfies `CodecAssumption`: TLC evaluates it. `RecordFormats`
  enumerates records by recursive operators, so no theorem is about that module.

Every invariant and every action property of a passing run is proved.

## What is left out, and why

- Physical drivers (fetch, build, check, application, lifecycle execution) are
  external. They are modelled by the results the code distinguishes. The target lease
  is a variable: exclusive, dropped with its holder; in `EffectAttempt` it can
  also vanish under a live holder.
- `RunDrive` takes appends to effect journals as synchronized: their own torn
  appends are the subject of `JournalStore`, which both stores follow. It also
  takes a record of evidence as one entry, and leaves out the half-linked file
  that `EvidenceStore` has. The lease is not revoked there, and other
  transactions on the target are absent: both are in `EffectAttempt`.
  Publication of an artifact is one external step.
- `CommandScope` takes lifecycle work to remain for as long as an effect is
  begun: the stages between the first intent and the seal are one in `RunDrive`.
- The in-memory execution of an effect (without a journal) is not modelled: it
  is the durable one without its appends and cannot be restarted.
- Composition of a transaction, of sessions from records and of an operation from
  an observed target (`preparation.cpp`, `target_observation.cpp`,
  `run_authority.cpp`) makes values; it holds no state between calls.
- The effect body store of the command is modelled by the moment a body becomes
  retained; its files follow `retain_immutable`, which `CommandHost` models. Two
  runs over one body store are not modelled: an operation archive is named by its
  incoming package alone, and a second run that installs an identical package
  from another path is refused (`cli/run_command.cpp:1699`).
- Inspection and reports read and print; wording is left out everywhere.
- Acyclicity of the contracted unit graph is a hypothesis of the theorem about
  `NeverStalls` (`Ordered`; the program comes from a composer outside this
  repository). `Derivation` includes a pair of operations whose lifecycle nodes
  order them both ways and shows that they stay pending.

## Plan

Written so far, in this order: `Progression`, `Derivation`, `Dispatch` and its
proofs, `OperationContract` and `EffectAttempt`, `AppendLog` and `JournalStore`,
`RunDrive`; then `RunJournal`, `EvidenceStore` with `WriteOnceMap` and
`ImmutableFiles`, `CommandHost`, `CommandScope`, `RunCleanup`, the codecs,
`NativePaths` and `CommandLine`; then the proofs about the stores, the command
host, the effect attempt, the drive and the command around it, the removal, places
and the command line, the derivation of statuses, and the codecs. Every safety
property of a run is now proved. What would still add something:

1. Two runs over one operation archive store, the one hazard that needs two runs
   (`cli/run_command.cpp:1699`).
