---------------------------- MODULE JournalStore ----------------------------
(***************************************************************************)
(* One journal in a POSIX journal store: src/run_store.cpp, and            *)
(* src/effect_store.cpp, which follows the same protocol.                  *)
(*                                                                         *)
(* A record is immutable and names its predecessor, so it is modelled as   *)
(* the whole sequence of choices that leads to it: the empty sequence is   *)
(* no record, and a successor appends one choice.  A writer holds the      *)
(* store's exclusive lock from load to acknowledgement; it links the       *)
(* snapshot, synchronizes the directory, renames the head over the old     *)
(* one and synchronizes the directory again.  It may stop anywhere, by an  *)
(* error or a kill, which drops the lock; the machine may lose power,      *)
(* which keeps any choice of the directory changes that were not           *)
(* synchronized.                                                           *)
(***************************************************************************)
EXTENDS Integers, Sequences, SequencesExt, FiniteSets

CONSTANTS
    Processes,
    Branches,      \* what tells two successors of one record apart
    Nobody,       \* nobody holds the exclusive lock
    Refused,      \* a load that found the store corrupt
    MaxRecords,   \* bound: length of the log
    MaxStops,     \* bound: appends that end in an error or a kill
    MaxLosses     \* bound: power losses

ASSUME StoreAssumption ==
    /\ Nobody \notin Processes
    /\ Refused \notin Seq(Branches)
    /\ MaxRecords \in Nat /\ MaxStops \in Nat /\ MaxLosses \in Nat

VARIABLES
    snapshots,   \* records whose immutable file the directory lists
    head,        \* record the visible head names; empty: no head file
    lockFile,    \* whether the lock file exists
    safe,        \* what a power loss keeps for certain, and the heads it may keep
    writer,      \* holder of the exclusive lock
    ctl,         \* [Processes -> local state]
    kept,        \* history: the last record acknowledged to a caller
    stops, losses

vars == <<snapshots, head, lockFile, safe, writer, ctl, kept, stops, losses>>

Records == UNION {[1..n -> Branches] : n \in 1..MaxRecords}

Idle == [pc |-> "idle", record |-> <<>>, value |-> <<>>]

At(p, pc) == ctl[p].pc = pc

Goto(p, pc) == ctl' = [ctl EXCEPT ![p].pc = pc]

Uncounted == UNCHANGED <<stops, losses>>

Init ==
    /\ snapshots = {}
    /\ head = <<>>
    /\ lockFile = FALSE
    /\ safe = [snapshots |-> {}, heads |-> {<<>>}, lockFile |-> FALSE]
    /\ writer = Nobody
    /\ ctl = [p \in Processes |-> Idle]
    /\ kept = <<>>
    /\ stops = 0 /\ losses = 0

(***************************************************************************)
(* load_latest_unlocked: the head decides; without one, any snapshot but   *)
(* the pending record's own makes the store corrupt.                       *)
(***************************************************************************)
Orphans(pending) == IF head = <<>> THEN snapshots \ {pending} ELSE {}

Latest == IF Orphans(<<>>) # {} THEN Refused ELSE head

-----------------------------------------------------------------------------
(***************************************************************************)
(* append.                                                                 *)
(***************************************************************************)
Release(p) == writer' = Nobody /\ ctl' = [ctl EXCEPT ![p] = Idle]

\* lock_store creates the lock file before it waits for the lock.
CreateLock(p, record) ==
    /\ At(p, "idle")
    /\ lockFile' = TRUE
    /\ ctl' = [ctl EXCEPT ![p] = [Idle EXCEPT !.pc = "waiting", !.record = record]]
    /\ UNCHANGED <<snapshots, head, safe, writer, kept>> /\ Uncounted

Lock(p) ==
    /\ At(p, "waiting") /\ writer = Nobody
    /\ writer' = p
    /\ Goto(p, "locked")
    /\ UNCHANGED <<snapshots, head, lockFile, safe, kept>> /\ Uncounted

\* A slip in IsSuccessor.
AnySuccessor(record) == Len(record) = Len(head) + 1

IsSuccessor(record) == record # <<>> /\ Front(record) = head

\* The record is the head already: only its head file is published again.
AcceptCommitted(p) ==
    /\ At(p, "locked") /\ ctl[p].record = head
    /\ Goto(p, "synced")
    /\ UNCHANGED <<snapshots, head, lockFile, safe, writer, kept>> /\ Uncounted

\* Not a successor, or a store without head that holds another record.
Refuse(p) ==
    /\ At(p, "locked") /\ ctl[p].record # head
    /\ Orphans(ctl[p].record) # {} \/ ~IsSuccessor(ctl[p].record)
    /\ Release(p)
    /\ UNCHANGED <<snapshots, head, lockFile, safe, kept>> /\ Uncounted

\* The private temporary is written, sealed, synchronized and linked; a file
\* left by an earlier attempt at the same record is verified and taken over.
LinkSnapshot(p) ==
    /\ At(p, "locked") /\ ctl[p].record # head
    /\ Orphans(ctl[p].record) = {} /\ IsSuccessor(ctl[p].record)
    /\ snapshots' = snapshots \cup {ctl[p].record}
    /\ Goto(p, "linked")
    /\ UNCHANGED <<head, lockFile, safe, writer, kept>> /\ Uncounted

SyncDirectory == safe' = [snapshots |-> snapshots, heads |-> {head}, lockFile |-> lockFile]

\* A slip in SyncSnapshot.
LinkedUnsynced(p) ==
    /\ At(p, "linked")
    /\ Goto(p, "synced")
    /\ UNCHANGED <<snapshots, head, lockFile, safe, writer, kept>> /\ Uncounted

SyncSnapshot(p) ==
    /\ At(p, "linked")
    /\ SyncDirectory
    /\ Goto(p, "synced")
    /\ UNCHANGED <<snapshots, head, lockFile, writer, kept>> /\ Uncounted

\* publish_head: the new head replaces the old one in one rename.
RenameHead(p) ==
    /\ At(p, "synced")
    /\ head' = ctl[p].record
    /\ safe' = [safe EXCEPT !.heads = @ \cup {head'}]
    /\ Goto(p, "renamed")
    /\ UNCHANGED <<snapshots, lockFile, writer, kept>> /\ Uncounted

\* A slip in SyncHead.
RenamedUnsynced(p) ==
    /\ At(p, "renamed")
    /\ kept' = ctl[p].record
    /\ Release(p)
    /\ UNCHANGED <<snapshots, head, lockFile, safe>> /\ Uncounted

\* The last synchronization; append returns.
SyncHead(p) ==
    /\ At(p, "renamed")
    /\ SyncDirectory
    /\ kept' = ctl[p].record
    /\ Release(p)
    /\ UNCHANGED <<snapshots, head, lockFile>> /\ Uncounted

-----------------------------------------------------------------------------
(***************************************************************************)
(* load_latest.  Without a lock file a reader looks once unlocked, head    *)
(* first and directory second, and then again under the lock if one has    *)
(* appeared meanwhile.                                                     *)
(***************************************************************************)
OpenReader(p) ==
    /\ At(p, "idle")
    /\ Goto(p, IF lockFile THEN "shared" ELSE "peek")
    /\ UNCHANGED <<snapshots, head, lockFile, safe, writer, kept>> /\ Uncounted

PeekHead(p) ==
    /\ At(p, "peek")
    /\ ctl' = [ctl EXCEPT ![p].pc = IF head = <<>> THEN "scan" ELSE "recheck",
                          ![p].value = head]
    /\ UNCHANGED <<snapshots, head, lockFile, safe, writer, kept>> /\ Uncounted

ScanDirectory(p) ==
    /\ At(p, "scan")
    /\ ctl' = [ctl EXCEPT ![p].pc = "recheck",
                          ![p].value = IF snapshots # {} THEN Refused ELSE <<>>]
    /\ UNCHANGED <<snapshots, head, lockFile, safe, writer, kept>> /\ Uncounted

\* A slip in Recheck.
ReturnUnchecked(p) ==
    /\ At(p, "recheck")
    /\ Goto(p, "read")
    /\ UNCHANGED <<snapshots, head, lockFile, safe, writer, kept>> /\ Uncounted

Recheck(p) ==
    /\ At(p, "recheck")
    /\ Goto(p, IF lockFile THEN "shared" ELSE "read")
    /\ UNCHANGED <<snapshots, head, lockFile, safe, writer, kept>> /\ Uncounted

ReadShared(p) ==
    /\ At(p, "shared") /\ writer = Nobody
    /\ ctl' = [ctl EXCEPT ![p].pc = "read", ![p].value = Latest]
    /\ UNCHANGED <<snapshots, head, lockFile, safe, writer, kept>> /\ Uncounted

CloseReader(p) ==
    /\ At(p, "read")
    /\ ctl' = [ctl EXCEPT ![p] = Idle]
    /\ UNCHANGED <<snapshots, head, lockFile, safe, writer, kept>> /\ Uncounted

-----------------------------------------------------------------------------
\* An error or a kill inside an append; the kernel drops the lock.
Stop(p) ==
    /\ writer = p /\ stops < MaxStops
    /\ stops' = stops + 1
    /\ Release(p)
    /\ UNCHANGED <<snapshots, head, lockFile, safe, kept, losses>>

\* Directory changes since the last synchronization survive or not, one by one.
PowerLoss ==
    /\ losses < MaxLosses
    /\ losses' = losses + 1
    /\ snapshots' \in {safe.snapshots \cup S : S \in SUBSET (snapshots \ safe.snapshots)}
    /\ head' \in safe.heads
    /\ lockFile' \in {safe.lockFile, lockFile}
    /\ safe' = [snapshots |-> snapshots', heads |-> {head'}, lockFile |-> lockFile']
    /\ writer' = Nobody
    /\ ctl' = [p \in Processes |-> Idle]
    /\ UNCHANGED <<kept, stops>>

AppendStep(p) ==
    \/ \E record \in Records : CreateLock(p, record)
    \/ Lock(p) \/ AcceptCommitted(p) \/ Refuse(p) \/ LinkSnapshot(p) \/ SyncSnapshot(p)
    \/ RenameHead(p) \/ SyncHead(p)

ReadStep(p) ==
    \/ OpenReader(p) \/ PeekHead(p) \/ ScanDirectory(p) \/ Recheck(p) \/ ReadShared(p)
    \/ CloseReader(p)

Next ==
    \/ \E p \in Processes : AppendStep(p) \/ ReadStep(p) \/ Stop(p)
    \/ PowerLoss

Spec == Init /\ [][Next]_vars

-----------------------------------------------------------------------------
Writing == {"locked", "linked", "synced", "renamed"}
Reading == {"peek", "scan", "recheck", "shared", "read"}

TypeOK ==
    /\ snapshots \subseteq Records
    /\ head \in Records \cup {<<>>} /\ kept \in Records \cup {<<>>}
    /\ lockFile \in BOOLEAN
    /\ safe.snapshots \subseteq snapshots /\ safe.heads \subseteq Records \cup {<<>>}
    /\ writer \in Processes \cup {Nobody}
    /\ \A p \in Processes :
         /\ ctl[p].pc \in {"idle", "waiting"} \cup Writing \cup Reading
         /\ ctl[p].pc \in Writing <=> writer = p
         /\ ctl[p].pc \in Writing => lockFile
    /\ stops \in 0..MaxStops /\ losses \in 0..MaxLosses

(***************************************************************************)
(* The commit point is sound: whichever head survives a power loss, the    *)
(* snapshot it names survives with it, and so does every record on the way *)
(* to it ("a head names a missing snapshot" is never met).                 *)
(***************************************************************************)
HeadBacked ==
    \A h \in safe.heads \cup {head} :
        \A n \in 1..Len(h) : SubSeq(h, 1, n) \in safe.snapshots

(***************************************************************************)
(* What append acknowledged stays in the log, whatever stops or loses      *)
(* power later.                                                            *)
(***************************************************************************)
KeptSurvives == \A h \in safe.heads \cup {head} : IsPrefix(kept, h)

(***************************************************************************)
(* A reader that never took the lock returns what a locked reader would    *)
(* have, although writers may have come to life under it.                  *)
(***************************************************************************)
ReadsAreCurrent ==
    [][\A p \in Processes : ~At(p, "read") /\ ctl'[p].pc = "read" => ctl'[p].value = Latest]_vars

(***************************************************************************)
(* The store implements an append-only log that keeps what it acknowledged.*)
(***************************************************************************)
Log == INSTANCE AppendLog WITH log <- head

ImplementsLog == Log!Spec

(***************************************************************************)
(* DESIGN.md 1802-1804 says that an exact retry after a crash between      *)
(* record publication and head publication promotes the same authority.    *)
(* Without a head that needs the retried record to be the only one listed: *)
(* any other makes load_latest_unlocked refuse the store.                  *)
(***************************************************************************)
HeadlessHoldsOne == head = <<>> => Cardinality(snapshots) <= 1

=============================================================================
