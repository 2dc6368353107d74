---------------------------- MODULE EvidenceStore ---------------------------
(***************************************************************************)
(* The POSIX store of attempts and results: src/run_evidence_store.cpp.    *)
(*                                                                         *)
(* A record is published as two immutable files under the store's lock:    *)
(* an object, named by the record, and then an index, named by the key     *)
(* (kind, journal, dispatch, attempt), whose content names the record.     *)
(* The four kinds of record follow the same code and differ in the key.    *)
(***************************************************************************)
EXTENDS Integers, ImmutableFiles

CONSTANTS
    Processes,
    Keys,
    Values,       \* what tells two records of one key apart
    Nobody,       \* nobody holds the exclusive lock
    Absent,       \* a load that found no index
    Refused,      \* a load that found the store corrupt
    MaxStops,     \* bound: publications that end in an error or a kill
    MaxLosses     \* bound: power losses

VARIABLES
    lockFile,     \* whether the lock file exists now, and after a power loss
    writer,       \* holder of the exclusive lock
    ctl,          \* [Processes -> local state]
    kept,         \* history: keys whose publication ran to its end
    torn,         \* history: files of dead writers that no synchronization has caught
    stops, losses

vars == <<directory, lockFile, writer, ctl, kept, torn, stops, losses>>

Records == [key : Keys, value : Values]

Object(r) == [name |-> [role |-> "object", of |-> r], content |-> r]

Index(r) == [name |-> [role |-> "index", of |-> r.key], content |-> r]

Idle == [pc |-> "idle", record |-> Absent, file |-> Absent, value |-> Absent]

At(p, pc) == ctl[p].pc = pc

Goto(p, pc) == ctl' = [ctl EXCEPT ![p].pc = pc]

History == UNCHANGED <<kept, torn, stops, losses>>

Init ==
    /\ Empty
    /\ lockFile = [now |-> FALSE, safe |-> FALSE]
    /\ writer = Nobody
    /\ ctl = [p \in Processes |-> Idle]
    /\ kept = {} /\ torn = {}
    /\ stops = 0 /\ losses = 0

(***************************************************************************)
(* load_*_unlocked.                                                        *)
(***************************************************************************)
IndexOf(key) == Named([role |-> "index", of |-> key])

ObjectValue(r) == IF Holds(Object(r)) THEN r ELSE Refused

Lookup(key) ==
    IF IndexOf(key) = {} THEN Absent
    ELSE LET index == CHOOSE f \in IndexOf(key) : TRUE
         IN IF Readable(index.name) THEN ObjectValue(index.content) ELSE Refused

-----------------------------------------------------------------------------
(***************************************************************************)
(* publish.                                                                *)
(***************************************************************************)
Release(p) == writer' = Nobody /\ ctl' = [ctl EXCEPT ![p] = Idle]

CreateLock(p, r) ==
    /\ At(p, "idle")
    /\ lockFile' = [lockFile EXCEPT !.now = TRUE]
    /\ ctl' = [ctl EXCEPT ![p] = [Idle EXCEPT !.pc = "waiting", !.record = r]]
    /\ UNCHANGED <<directory, writer>> /\ History

Lock(p) ==
    /\ At(p, "waiting") /\ writer = Nobody
    /\ writer' = p
    /\ Goto(p, "locked")
    /\ UNCHANGED <<directory, lockFile>> /\ History

\* The same record is returned as found, another one is a conflict, an
\* unreadable one is corruption; the store is left alone.
Answer(p) ==
    /\ At(p, "locked") /\ Lookup(ctl[p].record.key) # Absent
    /\ Release(p)
    /\ UNCHANGED <<directory, lockFile>> /\ History

Persist(p, file) == ctl' = [ctl EXCEPT ![p].pc = "persist", ![p].file = file]

Publish(p) ==
    /\ At(p, "locked") /\ Lookup(ctl[p].record.key) = Absent
    /\ Persist(p, Object(ctl[p].record))
    /\ UNCHANGED <<directory, lockFile, writer>> /\ History

\* persist_immutable finds the object an earlier attempt has left behind.
AdoptObject(p) ==
    /\ At(p, "persist") /\ Holds(ctl[p].file)
    /\ Persist(p, Index(ctl[p].record))
    /\ UNCHANGED <<directory, lockFile, writer>> /\ History

RefuseObject(p) ==
    /\ At(p, "persist") /\ Listed(ctl[p].file) /\ ~Holds(ctl[p].file)
    /\ Release(p)
    /\ UNCHANGED <<directory, lockFile>> /\ History

Link(p) ==
    /\ At(p, "persist") /\ ~Listed(ctl[p].file)
    /\ LinkFile(ctl[p].file)
    /\ Goto(p, "linked")
    /\ UNCHANGED <<lockFile, writer>> /\ History

\* A slip in Unlink.
UnlinkForgotten(p) ==
    /\ At(p, "linked")
    /\ Goto(p, "unlinked")
    /\ UNCHANGED <<directory, lockFile, writer>> /\ History

Unlink(p) ==
    /\ At(p, "linked")
    /\ UnlinkTemporary(ctl[p].file)
    /\ Goto(p, "unlinked")
    /\ UNCHANGED <<lockFile, writer>> /\ History

\* The index follows its object; after the index, publish returns.
Proceed(p) ==
    IF ctl[p].file = Object(ctl[p].record)
    THEN /\ Persist(p, Index(ctl[p].record))
         /\ UNCHANGED <<writer, kept>>
    ELSE /\ Release(p)
         /\ kept' = kept \cup {ctl[p].record.key}

\* A slip in Sync.
ProceedUnsynced(p) ==
    /\ At(p, "unlinked")
    /\ Proceed(p)
    /\ UNCHANGED <<directory, lockFile, torn, stops, losses>>

Sync(p) ==
    /\ At(p, "unlinked")
    /\ SyncDirectory
    /\ lockFile' = [lockFile EXCEPT !.safe = lockFile.now]
    /\ torn' = torn \ files
    /\ Proceed(p)
    /\ UNCHANGED <<stops, losses>>

-----------------------------------------------------------------------------
(***************************************************************************)
(* load_construction_attempt and its three siblings.  Without a lock file  *)
(* a reader looks once unlocked, index first and object second, and again  *)
(* under the lock if one has appeared meanwhile.                           *)
(***************************************************************************)
OpenReader(p, key) ==
    /\ At(p, "idle")
    /\ ctl' = [ctl EXCEPT ![p] =
                 [Idle EXCEPT !.pc = IF lockFile.now THEN "shared" ELSE "peekIndex",
                              !.file = key]]
    /\ UNCHANGED <<directory, lockFile, writer>> /\ History

Found(p, pc, value) == ctl' = [ctl EXCEPT ![p].pc = pc, ![p].value = value]

PeekIndex(p) ==
    /\ At(p, "peekIndex")
    /\ \/ /\ IndexOf(ctl[p].file) = {}
          /\ Found(p, "recheck", Absent)
       \/ \E index \in IndexOf(ctl[p].file) :
            IF Readable(index.name) THEN Found(p, "peekObject", index.content)
            ELSE Found(p, "recheck", Refused)
    /\ UNCHANGED <<directory, lockFile, writer>> /\ History

PeekObject(p) ==
    /\ At(p, "peekObject")
    /\ Found(p, "recheck", ObjectValue(ctl[p].value))
    /\ UNCHANGED <<directory, lockFile, writer>> /\ History

\* A slip in Recheck.
ReturnUnchecked(p) ==
    /\ At(p, "recheck")
    /\ Goto(p, "read")
    /\ UNCHANGED <<directory, lockFile, writer>> /\ History

\* Whether the first look returned or threw.
Recheck(p) ==
    /\ At(p, "recheck")
    /\ Goto(p, IF lockFile.now THEN "shared" ELSE "read")
    /\ UNCHANGED <<directory, lockFile, writer>> /\ History

ReadShared(p) ==
    /\ At(p, "shared") /\ writer = Nobody
    /\ Found(p, "read", Lookup(ctl[p].file))
    /\ UNCHANGED <<directory, lockFile, writer>> /\ History

CloseReader(p) ==
    /\ At(p, "read")
    /\ ctl' = [ctl EXCEPT ![p] = Idle]
    /\ UNCHANGED <<directory, lockFile, writer>> /\ History

-----------------------------------------------------------------------------
Stop(p) ==
    /\ writer = p /\ stops < MaxStops
    /\ stops' = stops + 1
    /\ torn' = IF ctl[p].pc \in {"linked", "unlinked"} THEN torn \cup {ctl[p].file} ELSE torn
    /\ Release(p)
    /\ UNCHANGED <<lockFile, kept, losses>>

\* An exception: the temporary name is removed on the way out.
Error(p) ==
    /\ Stop(p)
    /\ IF At(p, "linked") THEN UnlinkTemporary(ctl[p].file) ELSE UNCHANGED directory

\* A kill inside publish; the kernel drops the lock.
Kill(p) == Stop(p) /\ UNCHANGED directory

PowerLoss ==
    /\ losses < MaxLosses
    /\ losses' = losses + 1
    /\ LosePower
    /\ \E survives \in {lockFile.safe, lockFile.now} :
         lockFile' = [now |-> survives, safe |-> survives]
    /\ torn' = torn \ files'
    /\ writer' = Nobody
    /\ ctl' = [p \in Processes |-> Idle]
    /\ UNCHANGED <<kept, stops>>

PublishStep(p) ==
    \/ \E r \in Records : CreateLock(p, r)
    \/ Lock(p) \/ Answer(p) \/ Publish(p) \/ AdoptObject(p) \/ RefuseObject(p)
    \/ Link(p) \/ Unlink(p) \/ Sync(p)

ReadStep(p) ==
    \/ \E key \in Keys : OpenReader(p, key)
    \/ PeekIndex(p) \/ PeekObject(p) \/ Recheck(p) \/ ReadShared(p) \/ CloseReader(p)

Next ==
    \/ \E p \in Processes : PublishStep(p) \/ ReadStep(p) \/ Error(p) \/ Kill(p)
    \/ PowerLoss

Spec == Init /\ [][Next]_vars

-----------------------------------------------------------------------------
Writing == {"locked", "persist", "linked", "unlinked"}
Reading == {"peekIndex", "peekObject", "recheck", "shared", "read"}

TypeOK ==
    /\ DirectoryOK
    /\ files \subseteq {Object(r) : r \in Records} \cup {Index(r) : r \in Records}
    /\ lockFile \in [now : BOOLEAN, safe : BOOLEAN]
    /\ writer \in Processes \cup {Nobody}
    /\ \A p \in Processes :
         /\ ctl[p].pc \in {"idle", "waiting"} \cup Writing \cup Reading
         /\ ctl[p].pc \in Writing <=> writer = p
         /\ ctl[p].pc \in Writing => lockFile.now /\ ctl[p].record \in Records
    /\ kept \subseteq Keys
    /\ stops \in 0..MaxStops /\ losses \in 0..MaxLosses

(***************************************************************************)
(* No power loss leaves an index without the object it names ("index names *)
(* an absent object"), unless the publisher adopted an object whose writer *)
(* died before it synchronized the directory.                              *)
(***************************************************************************)
IndexBacked ==
    \A r \in Records : Index(r) \in files => Object(r) \in safe.files \cup torn

(***************************************************************************)
(* A reader that never took the lock returns what a locked reader would    *)
(* have, although a publisher may have come to life under it.              *)
(***************************************************************************)
ReadsAreCurrent ==
    [][\A p \in Processes :
         ~At(p, "read") /\ ctl'[p].pc = "read" => ctl'[p].value = Lookup(ctl[p].file)]_vars

(***************************************************************************)
(* The store implements a write-once map from keys to what a load returns: *)
(* a key that has answered with one record never answers with another, and *)
(* a publication that ran to its end is answered whatever is stopped or    *)
(* loses power later.                                                      *)
(***************************************************************************)
Answered(key) == IF Lookup(key) = Refused THEN Absent ELSE Lookup(key)

Map == INSTANCE WriteOnceMap
    WITH Names <- Keys, Values <- Records, Unbound <- Absent,
         bound <- [key \in Keys |-> Answered(key)]

ImplementsWriteOnce == Map!Spec

(***************************************************************************)
(* man/pkgctl_orchestration.7.scd 742-744: an exact retry may reuse        *)
(* identical content and index objects.  So a publisher that finds its own *)
(* object or its own index finds it readable.                              *)
(***************************************************************************)
RetryReuses ==
    \A p \in Processes : At(p, "locked") =>
        \A file \in {Object(ctl[p].record), Index(ctl[p].record)} :
            file \in files => Readable(file.name)

=============================================================================
