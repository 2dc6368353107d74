------------------------- MODULE EvidenceStoreProofs ------------------------
(***************************************************************************)
(* Proofs about the POSIX store of attempts and results, for every set of  *)
(* processes, keys and records and every number of kills and power losses. *)
(* What a publication has established at each of its stages, where every   *)
(* file that is not yet safe comes from, and what an unlocked reader may   *)
(* rely on while no lock file exists make the invariants inductive.        *)
(***************************************************************************)
EXTENDS EvidenceStore, TLAPS

(***************************************************************************)
(* The directory: what the steps of its writers, a synchronization and a   *)
(* power loss do to the files a reader accepts, and to those no power loss *)
(* can take.                                                               *)
(***************************************************************************)

\* A file of one name that no power loss takes or gives a second name.
Settled(file) == file \in safe.files /\ file.name \notin doubled \cup safe.doubled

\* A file is linked under a name nobody has; it is held once that is its only one.
LEMMA LinkFacts ==
    ASSUME DirectoryOK, NEW file, ~Listed(file), LinkFile(file)
    PROVE  /\ DirectoryOK' /\ files' = files \cup {file} /\ safe' = safe
           /\ \A g : Holds(g)' <=> Holds(g)
           /\ \A g : Settled(g) => Settled(g)'
<1>1. /\ files' = files \cup {file} /\ doubled' = doubled \cup {file.name}
      /\ safe' = safe /\ file.name \notin NamesOf(files)
  BY DEF LinkFile, Listed
<1>2. NamesOf(files') = NamesOf(files) \cup {file.name}
  BY <1>1 DEF NamesOf
<1>3. \A g \in files : g.name # file.name
  BY <1>1 DEF NamesOf
<1>4. DirectoryOK'
  BY <1>1, <1>2, <1>3 DEF DirectoryOK
<1>5. ASSUME NEW g PROVE Holds(g)' <=> Holds(g)
  BY <1>1, <1>2, <1>3 DEF Holds, Readable
<1>6. ASSUME NEW g, Settled(g) PROVE Settled(g)'
  BY <1>1, <1>3, <1>6 DEF Settled, DirectoryOK
<1> QED
  BY <1>1, <1>4, <1>5, <1>6

\* Dropping the temporary name makes its file readable and no other less so.
LEMMA UnlinkFacts ==
    ASSUME DirectoryOK, NEW file, UnlinkTemporary(file)
    PROVE  /\ DirectoryOK' /\ UNCHANGED <<files, safe>>
           /\ \A g : Holds(g) => Holds(g)'
           /\ \A g : Holds(g)' /\ g.name # file.name => Holds(g)
           /\ file \in files => Holds(file)'
           /\ \A g : Settled(g) => Settled(g)'
<1>1. doubled' = doubled \ {file.name} /\ files' = files /\ safe' = safe
  BY DEF UnlinkTemporary
<1>2. DirectoryOK'
  BY <1>1 DEF DirectoryOK
<1>3. file \in files => file.name \in NamesOf(files)
  BY DEF NamesOf
<1> QED
  BY <1>1, <1>2, <1>3 DEF Holds, Readable, Settled

\* A synchronization settles what is held.
LEMMA SyncFacts ==
    ASSUME DirectoryOK, SyncDirectory
    PROVE  /\ DirectoryOK' /\ UNCHANGED <<files, doubled>>
           /\ safe'.files = files /\ safe'.doubled = doubled
           /\ \A g : Holds(g)' <=> Holds(g)
           /\ \A g : Holds(g) => Settled(g)'
           /\ \A g : Settled(g) => Settled(g)'
<1>1. safe'.files = files /\ safe'.doubled = doubled /\ files' = files /\ doubled' = doubled
  BY DEF SyncDirectory
<1>2. DirectoryOK'
  BY <1>1 DEF DirectoryOK
<1> QED
  BY <1>1, <1>2 DEF Holds, Readable, Settled, DirectoryOK

\* A power loss takes files, gives none, and leaves the settled ones alone.
LEMMA LoseFacts ==
    ASSUME DirectoryOK, LosePower
    PROVE  /\ DirectoryOK' /\ files' \subseteq files /\ safe.files \subseteq files'
           /\ doubled' \subseteq NamesOf(files')
           /\ safe' = [files |-> files', doubled |-> doubled']
           /\ \A g : Settled(g) => Settled(g)'
<1>1. PICK S \in SUBSET (files \ safe.files) : files' = safe.files \cup S
  BY DEF LosePower
<1>2. PICK T \in SUBSET ((safe.doubled \ doubled) \cup NamesOf(files' \ safe.files)) :
        doubled' = (safe.doubled \cap doubled) \cup T
  BY DEF LosePower
<1>3. safe' = [files |-> files', doubled |-> doubled']
  BY DEF LosePower
<1>4. safe'.files = files' /\ safe'.doubled = doubled'
  BY <1>3
<1>5. files' \subseteq files /\ safe.files \subseteq files'
  BY <1>1 DEF DirectoryOK
<1>6. doubled' \subseteq NamesOf(files')
  <2>1. NamesOf(safe.files) \subseteq NamesOf(files') /\ NamesOf(files' \ safe.files) \subseteq NamesOf(files')
    BY <1>5 DEF NamesOf
  <2>2. safe.doubled \subseteq NamesOf(safe.files)
    BY DEF DirectoryOK
  <2> QED
    BY <1>2, <2>1, <2>2
<1>7. DirectoryOK'
  BY <1>4, <1>5, <1>6 DEF DirectoryOK
<1>8. ASSUME NEW g, Settled(g) PROVE Settled(g)'
  <2>1. g.name \notin NamesOf(files' \ safe.files)
    BY <1>5, <1>8 DEF Settled, DirectoryOK, NamesOf
  <2> QED
    BY <1>2, <1>4, <1>5, <1>8, <2>1 DEF Settled
<1> QED
  BY <1>3, <1>5, <1>6, <1>7, <1>8

-----------------------------------------------------------------------------
\* The sentinels of the model are none of the values they stand beside, and
\* its bounds are numbers.
Sentinels ==
    /\ Nobody \notin Processes
    /\ Absent \notin Records /\ Refused \notin Records /\ Absent # Refused
    /\ MaxStops \in Nat /\ MaxLosses \in Nat

Files == {Object(r) : r \in Records} \cup {Index(r) : r \in Records}

Pcs == {"idle", "waiting"} \cup Writing \cup Reading

Loaded == Records \cup {Absent, Refused}

LocalStates ==
    [pc : Pcs, record : Records \cup {Absent}, file : Keys \cup Files \cup {Absent},
     value : Loaded]

Shape ==
    /\ ctl \in [Processes -> LocalStates]
    /\ safe \in [files : SUBSET Files, doubled : SUBSET NamesOf(Files)]
    /\ torn \subseteq Files

\* A file that a power loss may take is a dead writer's or the writer's own.
Accounted ==
    \A f \in files :
        \/ f \in safe.files \cup torn
        \/ \E p \in Processes : ctl[p].pc \in {"linked", "unlinked"} /\ ctl[p].file = f

\* What a publication that ran to its end has left is there for ever.
KeptSettled ==
    \A key \in kept : \E r \in Records :
        r.key = key /\ Settled(Object(r)) /\ Settled(Index(r))

\* What a publication has established when it stands at p's stage.
WriterKnows(p) ==
    /\ ctl[p].pc \in {"waiting"} \cup Writing => lockFile.now /\ ctl[p].record \in Records
    /\ ctl[p].pc \in {"persist", "linked", "unlinked"} =>
         \/ ctl[p].file = Object(ctl[p].record) /\ IndexOf(ctl[p].record.key) = {}
         \/ /\ ctl[p].file = Index(ctl[p].record)
            /\ Holds(Object(ctl[p].record))
            /\ Object(ctl[p].record) \in safe.files \cup torn
    /\ At(p, "persist") => IndexOf(ctl[p].record.key) = {}
    /\ At(p, "linked") => ctl[p].file \in files
    /\ At(p, "unlinked") => Holds(ctl[p].file)

\* While there is no lock file nobody publishes: what p saw is still so.
ReaderKnows(p) ==
    lockFile.now = FALSE =>
        /\ At(p, "peekObject") =>
             ctl[p].value \in Records /\ Lookup(ctl[p].file) = ObjectValue(ctl[p].value)
        /\ At(p, "recheck") => ctl[p].value = Lookup(ctl[p].file)

IInv ==
    /\ TypeOK /\ Shape
    /\ Accounted /\ IndexBacked /\ KeptSettled
    /\ \A p \in Processes : WriterKnows(p) /\ ReaderKnows(p)

-----------------------------------------------------------------------------
(***************************************************************************)
(* Files, names, and what a load finds.                                    *)
(***************************************************************************)

\* A name tells its role and what it is of.
LEMMA NamesApart ==
    /\ \A a, b : [role |-> "object", of |-> a] # [role |-> "index", of |-> b]
    /\ \A role, a, b : [role |-> role, of |-> a] = [role |-> role, of |-> b] => a = b
<1>1. ASSUME NEW a, NEW b, [role |-> "object", of |-> a] = [role |-> "index", of |-> b]
      PROVE  FALSE
  <2>1. [role |-> "object", of |-> a].role = "object" /\ [role |-> "index", of |-> b].role = "index"
    OBVIOUS
  <2> QED
    BY <1>1, <2>1
<1>2. ASSUME NEW role, NEW a, NEW b, [role |-> role, of |-> a] = [role |-> role, of |-> b]
      PROVE  a = b
  <2>1. [role |-> role, of |-> a].of = a /\ [role |-> role, of |-> b].of = b
    OBVIOUS
  <2> QED
    BY <1>2, <2>1
<1> QED
  BY <1>1, <1>2

\* The two files of a record.
LEMMA FilesOf ==
    ASSUME NEW r \in Records
    PROVE  /\ r.key \in Keys
           /\ Object(r) \in Files /\ Index(r) \in Files
           /\ Object(r).content = r /\ Index(r).content = r
           /\ Object(r).name = [role |-> "object", of |-> r]
           /\ Index(r).name = [role |-> "index", of |-> r.key]
  BY DEF Records, Files, Object, Index

\* No two files share a name, but the indexes of one key.
LEMMA FileNames ==
    ASSUME NEW r \in Records, NEW s \in Records
    PROVE  /\ Object(r).name = Object(s).name => r = s
           /\ Index(r).name = Index(s).name <=> r.key = s.key
           /\ Object(r).name # Index(s).name /\ Object(r) # Index(s)
           /\ Index(r) = Index(s) => r = s
<1>0. /\ Object(r).name = [role |-> "object", of |-> r]
      /\ Object(s).name = [role |-> "object", of |-> s]
      /\ Index(r).name = [role |-> "index", of |-> r.key]
      /\ Index(s).name = [role |-> "index", of |-> s.key]
  BY FilesOf
<1>1. Object(r).name = Object(s).name => r = s
  BY <1>0, NamesApart
<1>2. Index(r).name = Index(s).name <=> r.key = s.key
  BY <1>0, NamesApart
<1>3. Object(r).name # Index(s).name
  BY <1>0, NamesApart
<1>4. Index(r) = Index(s) => r = s
  BY FilesOf
<1> QED
  BY <1>1, <1>2, <1>3, <1>4

\* The index of a key is one file, whose content has that key.
LEMMA IndexFacts ==
    ASSUME TypeOK
    PROVE  /\ \A r \in Records : Index(r) \in files => IndexOf(r.key) = {Index(r)}
           /\ \A key : \A f \in IndexOf(key) :
                \E r \in Records : r.key = key /\ f = Index(r) /\ Index(r) \in files
           /\ \A r \in Records : IndexOf(r.key) = {} <=> Index(r).name \notin NamesOf(files)
<1>1. /\ files \subseteq Files
      /\ \A f, g \in files : f.name = g.name => f = g
  BY DEF TypeOK, DirectoryOK, Files
<1>2. ASSUME NEW key, NEW f \in IndexOf(key)
      PROVE  \E r \in Records : r.key = key /\ f = Index(r) /\ Index(r) \in files
  <2>1. f \in files /\ f \in Files /\ f.name = [role |-> "index", of |-> key]
    BY <1>1, <1>2 DEF IndexOf, Named
  <2>2. ASSUME NEW r \in Records, f = Object(r) PROVE FALSE
    <3>1. f.name = [role |-> "object", of |-> r]
      BY <2>2, FilesOf
    <3> QED
      BY <2>1, <3>1, NamesApart
  <2>3. PICK r \in Records : f = Index(r)
    BY <2>1, <2>2 DEF Files
  <2>4. f.name = [role |-> "index", of |-> r.key]
    BY <2>3, FilesOf
  <2>5. r.key = key
    BY <2>1, <2>4, NamesApart
  <2> QED
    BY <2>1, <2>3, <2>5
<1>3. ASSUME NEW r \in Records
      PROVE  /\ Index(r) \in files => IndexOf(r.key) = {Index(r)}
             /\ IndexOf(r.key) = {} <=> Index(r).name \notin NamesOf(files)
  <2>1. IndexOf(r.key) = {f \in files : f.name = Index(r).name}
    BY FilesOf DEF IndexOf, Named
  <2> QED
    BY <1>1, <2>1 DEF NamesOf
<1> QED
  BY <1>2, <1>3

\* What a locked load returns.
LEMMA LookupFacts ==
    ASSUME Sentinels, TypeOK
    PROVE  /\ \A key : Lookup(key) = Absent <=> IndexOf(key) = {}
           /\ \A key : Lookup(key) \in Loaded
           /\ \A r \in Records : Index(r) \in files =>
                Lookup(r.key) = IF Readable(Index(r).name) THEN ObjectValue(r) ELSE Refused
<1>1. ASSUME NEW r \in Records, Index(r) \in files
      PROVE  Lookup(r.key) = IF Readable(Index(r).name) THEN ObjectValue(r) ELSE Refused
  <2>1. IndexOf(r.key) = {Index(r)} /\ Index(r).content = r
    BY <1>1, IndexFacts, FilesOf
  <2>2. (CHOOSE f \in IndexOf(r.key) : TRUE) = Index(r)
    BY <2>1
  <2> QED
    BY <2>1, <2>2 DEF Lookup
<1>2. \A r \in Records : ObjectValue(r) \in Records \cup {Refused}
  BY DEF ObjectValue
<1>3. ASSUME NEW key, IndexOf(key) # {}
      PROVE  Lookup(key) \in Records \cup {Refused}
  <2>1. PICK r \in Records : r.key = key /\ Index(r) \in files
    BY <1>3, IndexFacts
  <2> QED
    BY <1>1, <1>2, <2>1
<1>4. ASSUME NEW key, IndexOf(key) = {} PROVE Lookup(key) = Absent
  BY <1>4 DEF Lookup
<1> QED
  BY <1>1, <1>3, <1>4 DEF Sentinels, Loaded

\* A key answers with a record just when index and object are both held.
LEMMA AnsweredFacts ==
    ASSUME Sentinels, TypeOK
    PROVE  /\ \A key : Answered(key) \in Records \cup {Absent}
           /\ \A key : \A r \in Records :
                Answered(key) = r <=> r.key = key /\ Holds(Index(r)) /\ Holds(Object(r))
<1>1. \A key : Answered(key) \in Records \cup {Absent}
  BY LookupFacts DEF Answered, Loaded
<1>2. ASSUME NEW r \in Records, Holds(Index(r)), Holds(Object(r))
      PROVE  Answered(r.key) = r
  BY <1>2, LookupFacts DEF Answered, Holds, ObjectValue, Sentinels
<1>3. ASSUME NEW key, NEW r \in Records, Answered(key) = r
      PROVE  r.key = key /\ Holds(Index(r)) /\ Holds(Object(r))
  <2>1. Lookup(key) = r
    BY <1>3 DEF Answered, Sentinels
  <2>2. PICK s \in Records : s.key = key /\ Index(s) \in files
    BY <2>1, LookupFacts, IndexFacts DEF Sentinels
  <2>3. Readable(Index(s).name) /\ ObjectValue(s) = r
    BY <2>1, <2>2, LookupFacts DEF Sentinels
  <2> QED
    BY <2>2, <2>3 DEF ObjectValue, Holds, Sentinels
<1> QED
  BY <1>1, <1>2, <1>3

-----------------------------------------------------------------------------
(***************************************************************************)
(* The inductive invariant.                                                *)
(***************************************************************************)
LEMMA InitHolds == ASSUME Sentinels, Init PROVE IInv
<1>1. Idle \in LocalStates /\ Idle.pc = "idle"
  BY DEF Idle, LocalStates, Pcs, Loaded
<1>2. /\ files = {} /\ doubled = {} /\ safe = [files |-> {}, doubled |-> {}]
      /\ kept = {} /\ torn = {} /\ writer = Nobody /\ ctl = [p \in Processes |-> Idle]
      /\ lockFile = [now |-> FALSE, safe |-> FALSE] /\ stops = 0 /\ losses = 0
  BY DEF Init, Empty
<1>3. \A p \in Processes : ctl[p].pc = "idle" /\ p # Nobody
  BY <1>1, <1>2 DEF Sentinels
<1>4. Shape
  BY <1>1, <1>2 DEF Shape
<1>5. TypeOK
  BY <1>2, <1>3 DEF Sentinels, TypeOK, DirectoryOK, Writing
<1>6. Accounted /\ IndexBacked /\ KeptSettled
  BY <1>2 DEF Accounted, IndexBacked, KeptSettled
<1>7. \A p \in Processes : WriterKnows(p) /\ ReaderKnows(p)
  BY <1>3 DEF WriterKnows, ReaderKnows, At, Writing
<1> QED
  BY <1>4, <1>5, <1>6, <1>7 DEF IInv

\* Only the holder of the lock stands inside a publication, and what it has
\* linked is the only file that is neither safe nor a dead writer's.
LEMMA OneWriter ==
    ASSUME Sentinels, IInv, NEW p \in Processes, writer = p
    PROVE  /\ \A q \in Processes \ {p} : ctl[q].pc \notin Writing
           /\ \A f \in files :
                \/ f \in safe.files \cup torn
                \/ ctl[p].pc \in {"linked", "unlinked"} /\ ctl[p].file = f
           /\ lockFile.now = TRUE /\ ctl[p].record \in Records
<1>1. \A q \in Processes \ {p} : ctl[q].pc \notin Writing
  BY DEF IInv, TypeOK
<1>2. ctl[p].pc \in Writing /\ lockFile \in [now : BOOLEAN, safe : BOOLEAN]
  BY DEF IInv, TypeOK
<1>3. lockFile.now = TRUE /\ ctl[p].record \in Records
  BY <1>2 DEF IInv, WriterKnows
<1> QED
  BY <1>1, <1>3 DEF IInv, Accounted, Writing

\* What a step of the publisher p owes to the invariant; the others, who are
\* outside their publications, owe nothing.
Owed(p) ==
    /\ ctl' \in [Processes -> LocalStates]
    /\ \A q \in Processes \ {p} : ctl'[q] = ctl[q]
    /\ lockFile' \in [now : BOOLEAN, safe : BOOLEAN] /\ lockFile'.now = TRUE
    /\ \/ writer' = p /\ ctl'[p].pc \in Writing /\ ctl'[p].record \in Records
       \/ writer' = Nobody /\ ctl'[p].pc = "idle"
    /\ DirectoryOK' /\ files' \subseteq Files
    /\ safe' \in [files : SUBSET Files, doubled : SUBSET NamesOf(Files)]
    /\ torn' \subseteq Files /\ kept' \subseteq Keys
    /\ stops' \in 0..MaxStops /\ losses' = losses
    /\ Accounted' /\ IndexBacked' /\ KeptSettled' /\ WriterKnows(p)'

\* A writer that shows what it owes preserves the invariant: nobody else writes.
LEMMA OwedPreserves ==
    ASSUME Sentinels, IInv, NEW p \in Processes, writer = p, Owed(p)
    PROVE  IInv'
<1>1. \A q \in Processes \ {p} : ctl[q].pc \notin Writing
  BY OneWriter
<1>2. Shape'
  BY DEF Owed, Shape
<1>3. TypeOK'
  <2>1. ASSUME NEW q \in Processes
        PROVE  /\ ctl'[q].pc \in {"idle", "waiting"} \cup Writing \cup Reading
               /\ ctl'[q].pc \in Writing <=> writer' = q
               /\ ctl'[q].pc \in Writing => lockFile'.now /\ ctl'[q].record \in Records
    <3>1. ctl'[q].pc \in {"idle", "waiting"} \cup Writing \cup Reading
      BY DEF Owed, LocalStates, Pcs
    <3>2. CASE q = p
      BY <3>1, <3>2 DEF Owed, Writing, Sentinels
    <3>3. CASE q # p
      BY <1>1, <3>1, <3>3 DEF Owed, Sentinels
    <3> QED
      BY <3>2, <3>3
  <2>2. writer' \in Processes \cup {Nobody} /\ losses' \in 0..MaxLosses
    BY DEF Owed, IInv, TypeOK
  <2> QED
    BY <2>1, <2>2 DEF Owed, TypeOK, Files
<1>4. ASSUME NEW q \in Processes \ {p} PROVE WriterKnows(q)'
  <2>1. ctl'[q] = ctl[q] /\ ctl[q].pc \notin Writing /\ lockFile'.now = TRUE
    BY <1>1 DEF Owed
  <2> QED
    BY <2>1 DEF IInv, WriterKnows, Writing, At
<1>5. \A q \in Processes : ReaderKnows(q)'
  BY DEF Owed, ReaderKnows
<1>6. WriterKnows(p)' /\ Accounted' /\ IndexBacked' /\ KeptSettled'
  BY DEF Owed
<1> QED
  BY <1>2, <1>3, <1>4, <1>5, <1>6 DEF IInv

\* Where a process stands after a step that moves it to another stage.
LEMMA OthersStay ==
    ASSUME Shape, NEW p \in Processes, NEW l \in LocalStates,
           ctl' = [ctl EXCEPT ![p] = l]
    PROVE  /\ ctl' \in [Processes -> LocalStates]
           /\ ctl'[p] = l
           /\ \A q \in Processes \ {p} : ctl'[q] = ctl[q]
  BY DEF Shape

\* A process that moves to another stage keeps its record, its file and its value.
LEMMA GotoMoves ==
    ASSUME Shape, NEW p \in Processes, NEW pc \in Pcs, Goto(p, pc)
    PROVE  /\ ctl' \in [Processes -> LocalStates]
           /\ ctl'[p].pc = pc /\ ctl'[p].record = ctl[p].record
           /\ ctl'[p].file = ctl[p].file /\ ctl'[p].value = ctl[p].value
           /\ \A q \in Processes \ {p} : ctl'[q] = ctl[q]
<1>1. [ctl[p] EXCEPT !.pc = pc] \in LocalStates
  BY DEF Shape, LocalStates
<1>2. ctl' = [ctl EXCEPT ![p] = [ctl[p] EXCEPT !.pc = pc]]
  BY DEF Goto, Shape
<1>3. ctl'[p] = [ctl[p] EXCEPT !.pc = pc]
  BY <1>1, <1>2, OthersStay
<1> QED
  BY <1>1, <1>2, <1>3, OthersStay DEF Shape, LocalStates

\* A publisher that turns to another file keeps its record.
LEMMA PersistMoves ==
    ASSUME Shape, NEW p \in Processes, NEW file \in Files, Persist(p, file)
    PROVE  /\ ctl' \in [Processes -> LocalStates]
           /\ ctl'[p].pc = "persist" /\ ctl'[p].record = ctl[p].record /\ ctl'[p].file = file
           /\ \A q \in Processes \ {p} : ctl'[q] = ctl[q]
<1> DEFINE l == [ctl[p] EXCEPT !.pc = "persist", !.file = file]
<1>1. l \in LocalStates /\ l.pc = "persist" /\ l.file = file /\ l.record = ctl[p].record
  BY DEF Shape, LocalStates, Pcs, Writing
<1>2. ctl' = [ctl EXCEPT ![p] = l]
  BY DEF Persist, Shape
<1>3. ctl'[p] = l
  BY <1>1, <1>2, OthersStay
<1> QED
  BY <1>1, <1>2, <1>3, OthersStay

\* A process that ends what it did is idle again.
LEMMA IdleMoves ==
    ASSUME Shape, NEW p \in Processes, ctl' = [ctl EXCEPT ![p] = Idle]
    PROVE  /\ ctl' \in [Processes -> LocalStates]
           /\ ctl'[p].pc = "idle"
           /\ \A q \in Processes \ {p} : ctl'[q] = ctl[q]
<1>1. Idle \in LocalStates /\ Idle.pc = "idle"
  BY DEF Idle, LocalStates, Pcs, Loaded
<1> QED
  BY <1>1, OthersStay

\* A publisher that goes without touching the directory leaves it accounted for:
\* what it had linked is a dead writer's now.
LEMMA LeaveStep ==
    ASSUME Sentinels, IInv, NEW p \in Processes, writer = p, Release(p),
           UNCHANGED <<directory, lockFile, kept, losses>>,
           torn \subseteq torn', torn' \subseteq Files, stops' \in 0..MaxStops,
           \A f \in files : f \in safe.files \cup torn'
    PROVE  IInv'
<1>1. /\ ctl' \in [Processes -> LocalStates] /\ ctl'[p].pc = "idle" /\ writer' = Nobody
      /\ \A q \in Processes \ {p} : ctl'[q] = ctl[q]
  BY IdleMoves DEF Release, IInv
<1>2. UNCHANGED <<files, doubled, safe>>
  BY DEF directory
<1>3. Accounted' /\ IndexBacked' /\ KeptSettled'
  BY <1>2 DEF IInv, Accounted, IndexBacked, KeptSettled, Settled
<1>4. WriterKnows(p)'
  BY <1>1 DEF WriterKnows, Writing, At
<1>5. /\ DirectoryOK' /\ files' \subseteq Files
      /\ safe' \in [files : SUBSET Files, doubled : SUBSET NamesOf(Files)]
      /\ lockFile' \in [now : BOOLEAN, safe : BOOLEAN] /\ lockFile'.now = TRUE
      /\ kept' \subseteq Keys
  BY <1>2, OneWriter DEF IInv, TypeOK, Shape, DirectoryOK, Files
<1> QED
  BY <1>1, <1>3, <1>4, <1>5, OwedPreserves DEF Owed

\* A publication ends: the record was there, or an object conflicts with it.
LEMMA AnswerStep ==
    ASSUME Sentinels, IInv, NEW p \in Processes, Answer(p) \/ RefuseObject(p)
    PROVE  IInv'
<1>1. /\ writer = p /\ ctl[p].pc \in {"locked", "persist"}
      /\ Release(p) /\ UNCHANGED <<directory, lockFile, kept, torn, stops, losses>>
  BY DEF Answer, RefuseObject, History, At, IInv, TypeOK, Writing
<1>2. \A f \in files : f \in safe.files \cup torn
  BY <1>1, OneWriter
<1>3. torn' \subseteq Files /\ stops' \in 0..MaxStops
  BY <1>1 DEF IInv, Shape, TypeOK
<1> QED
  BY <1>1, <1>2, <1>3, LeaveStep

\* The publisher turns to the object, or from an adopted object to the index.
LEMMA PersistStep ==
    ASSUME Sentinels, IInv, NEW p \in Processes, Publish(p) \/ AdoptObject(p)
    PROVE  IInv'
<1>1. /\ writer = p /\ ctl[p].pc \in {"locked", "persist"} /\ WriterKnows(p)
      /\ UNCHANGED <<directory, lockFile, writer, kept, torn, stops, losses>>
      /\ Shape /\ TypeOK
  BY DEF Publish, AdoptObject, History, At, IInv, TypeOK, Writing
<1>2. lockFile.now = TRUE /\ \A f \in files : f \in safe.files \cup torn
  BY <1>1, OneWriter
<1>2a. PICK r \in Records : ctl[p].record = r
  BY <1>1, OneWriter
<1>3. UNCHANGED <<files, doubled, safe>>
  BY <1>1 DEF directory
<1>4. IndexOf(r.key) = {}
  <2>1. CASE Publish(p)
    BY <1>1, <1>2a, <2>1, LookupFacts DEF Publish
  <2>2. CASE AdoptObject(p)
    BY <1>1, <1>2a, <2>2 DEF AdoptObject, WriterKnows, At
  <2> QED
    BY <2>1, <2>2
<1>5. \/ Persist(p, Object(r))
      \/ Persist(p, Index(r)) /\ Holds(Object(r))
  <2>1. CASE Publish(p)
    BY <1>2a, <2>1 DEF Publish
  <2>2. CASE AdoptObject(p)
    <3>1. ctl[p].file = Object(r) \/ ctl[p].file = Index(r)
      BY <1>1, <1>2a, <2>2 DEF AdoptObject, WriterKnows, At
    <3>2. Index(r) \notin files
      BY <1>1, <1>2, <1>4, IndexFacts
    <3> QED
      BY <1>2a, <2>2, <3>1, <3>2 DEF AdoptObject, Holds
  <2> QED
    BY <2>1, <2>2
<1>6. Object(r) \in Files /\ Index(r) \in Files
  BY <1>2, FilesOf
<1>7. PICK file \in {Object(r), Index(r)} :
        Persist(p, file) /\ (file = Index(r) => Holds(Object(r)))
  BY <1>2, <1>5, FileNames
<1>8. /\ ctl' \in [Processes -> LocalStates]
      /\ ctl'[p].pc = "persist" /\ ctl'[p].record = r /\ ctl'[p].file = file
      /\ \A q \in Processes \ {p} : ctl'[q] = ctl[q]
  BY <1>1, <1>2a, <1>6, <1>7, PersistMoves
<1>9. WriterKnows(p)'
  <2>1. IndexOf(r.key)' = {} /\ (Holds(Object(r)) => Holds(Object(r))')
    BY <1>3, <1>4 DEF IndexOf, Named, Holds, Readable
  <2>2. \/ file = Object(r)
        \/ /\ file = Index(r) /\ Holds(Object(r))'
           /\ Object(r) \in safe'.files \cup torn'
    BY <1>1, <1>2, <1>3, <1>7, <2>1 DEF Holds
  <2>3. lockFile'.now = TRUE
    BY <1>1, <1>2
  <2> QED
    BY <1>8, <2>1, <2>2, <2>3 DEF WriterKnows, At, IndexOf, Named, Holds, Readable
<1>10. Accounted' /\ IndexBacked' /\ KeptSettled'
  BY <1>1, <1>2, <1>3 DEF IInv, Accounted, IndexBacked, KeptSettled, Settled
<1>11. /\ DirectoryOK' /\ files' \subseteq Files
       /\ safe' \in [files : SUBSET Files, doubled : SUBSET NamesOf(Files)]
       /\ lockFile' \in [now : BOOLEAN, safe : BOOLEAN]
       /\ torn' \subseteq Files /\ kept' \subseteq Keys /\ stops' \in 0..MaxStops
  BY <1>1, <1>3 DEF TypeOK, Shape, DirectoryOK, Files
<1> QED
  BY <1>1, <1>2, <1>8, <1>9, <1>10, <1>11, OwedPreserves DEF Owed, Writing

\* The final name appears; nothing about it is synchronized.
LEMMA LinkStep ==
    ASSUME Sentinels, IInv, NEW p \in Processes, Link(p)
    PROVE  IInv'
<1>1. /\ writer = p /\ At(p, "persist") /\ WriterKnows(p) /\ Shape /\ TypeOK
      /\ UNCHANGED <<lockFile, writer, kept, torn, stops, losses>>
  BY DEF Link, History, At, IInv, TypeOK, Writing
<1>2. lockFile.now = TRUE /\ \A f \in files : f \in safe.files \cup torn
  BY <1>1, OneWriter DEF At
<1>3. PICK r \in Records : ctl[p].record = r
  BY <1>1, OneWriter
<1>4. PICK file : file = ctl[p].file
  OBVIOUS
<1>5. /\ Object(r) \in Files /\ Index(r) \in Files
      /\ \/ file = Object(r)
         \/ file = Index(r) /\ Holds(Object(r)) /\ Object(r) \in safe.files \cup torn
      /\ IndexOf(r.key) = {}
  BY <1>1, <1>3, <1>4, FilesOf DEF WriterKnows, At
<1>6. /\ file \in Files /\ ~Listed(file) /\ LinkFile(file)
      /\ files' = files \cup {file} /\ safe' = safe
  BY <1>4, <1>5 DEF Link, LinkFile
<1>7. /\ DirectoryOK' /\ files' \subseteq Files
      /\ \A g \in Files : (Holds(g)' <=> Holds(g)) /\ (Settled(g) => Settled(g)')
  BY <1>1, <1>6, LinkFacts DEF TypeOK, Files
<1>8. /\ ctl' \in [Processes -> LocalStates]
      /\ ctl'[p].pc = "linked" /\ ctl'[p].record = r /\ ctl'[p].file = file
      /\ \A q \in Processes \ {p} : ctl'[q] = ctl[q]
  BY <1>1, <1>3, <1>4, GotoMoves DEF Link, Pcs, Writing
<1>9. WriterKnows(p)'
  <2>1. CASE file = Object(r)
    <3>1. Object(r).name # [role |-> "index", of |-> r.key]
      <4>1. Object(r).name = [role |-> "object", of |-> r]
        BY FilesOf
      <4> QED
        BY <4>1, NamesApart
    <3>2. {f \in files' : f.name = [role |-> "index", of |-> r.key]} = {}
      BY <1>5, <1>6, <2>1, <3>1 DEF IndexOf, Named
    <3> QED
      BY <1>1, <1>2, <1>6, <1>8, <2>1, <3>2 DEF WriterKnows, At, IndexOf, Named, Writing
  <2>2. CASE file = Index(r) /\ Holds(Object(r)) /\ Object(r) \in safe.files \cup torn
    <3>1. Holds(Object(r))'
      BY <1>5, <1>7, <2>2
    <3> QED
      BY <1>1, <1>2, <1>6, <1>8, <2>2, <3>1 DEF WriterKnows, At, Holds, Readable
  <2> QED
    BY <1>5, <2>1, <2>2
<1>10. Accounted'
  BY <1>1, <1>2, <1>6, <1>8 DEF Accounted
<1>11. IndexBacked'
  <2> SUFFICES ASSUME NEW s \in Records, Index(s) \in files'
               PROVE  Object(s) \in safe.files \cup torn
    BY <1>1, <1>6 DEF IndexBacked
  <2>1. CASE Index(s) \in files
    BY <2>1 DEF IInv, IndexBacked
  <2>2. CASE Index(s) = file
    BY <1>5, <2>2, FileNames
  <2> QED
    BY <1>6, <2>1, <2>2
<1>12. KeptSettled'
  BY <1>1, <1>7, FilesOf DEF IInv, KeptSettled
<1> QED
  BY <1>1, <1>2, <1>6, <1>7, <1>8, <1>9, <1>10, <1>11, <1>12, OwedPreserves
  DEF Owed, Writing, Shape, TypeOK

\* The temporary name goes.
LEMMA UnlinkStep ==
    ASSUME Sentinels, IInv, NEW p \in Processes, Unlink(p)
    PROVE  IInv'
<1>1. /\ writer = p /\ At(p, "linked") /\ WriterKnows(p) /\ Shape /\ TypeOK
      /\ UNCHANGED <<lockFile, writer, kept, torn, stops, losses>>
  BY DEF Unlink, History, At, IInv, TypeOK, Writing
<1>2. lockFile.now = TRUE
  BY <1>1, OneWriter
<1>3. PICK r \in Records : ctl[p].record = r
  BY <1>1, OneWriter
<1>4. PICK file : file = ctl[p].file
  OBVIOUS
<1>5. /\ Object(r) \in Files /\ Index(r) \in Files
      /\ \/ file = Object(r) /\ IndexOf(r.key) = {}
         \/ file = Index(r) /\ Holds(Object(r)) /\ Object(r) \in safe.files \cup torn
      /\ file \in files
  BY <1>1, <1>3, <1>4, FilesOf DEF WriterKnows, At
<1>6. /\ file \in Files /\ UnlinkTemporary(file) /\ UNCHANGED <<files, safe>>
  BY <1>4, <1>5 DEF Unlink, UnlinkTemporary
<1>7. /\ DirectoryOK' /\ Holds(file)'
      /\ \A g \in Files : (Holds(g) => Holds(g)') /\ (Settled(g) => Settled(g)')
  BY <1>1, <1>5, <1>6, UnlinkFacts DEF TypeOK
<1>8. /\ ctl' \in [Processes -> LocalStates]
      /\ ctl'[p].pc = "unlinked" /\ ctl'[p].record = r /\ ctl'[p].file = file
      /\ \A q \in Processes \ {p} : ctl'[q] = ctl[q]
  BY <1>1, <1>3, <1>4, GotoMoves DEF Unlink, Pcs, Writing
<1>9. WriterKnows(p)'
  <2>1. file = Index(r) /\ Holds(Object(r)) => Holds(Object(r))'
    BY <1>5, <1>7
  <2> QED
    BY <1>1, <1>2, <1>5, <1>6, <1>7, <1>8, <2>1
    DEF WriterKnows, At, IndexOf, Named, Holds, Readable
<1>10. Accounted'
  <2>1. ASSUME NEW f \in files, f \notin safe.files \cup torn
        PROVE  f = file
    BY <1>1, <1>4, <2>1, OneWriter
  <2> QED
    BY <1>1, <1>6, <1>8, <2>1 DEF Accounted
<1>11. IndexBacked' /\ KeptSettled'
  BY <1>1, <1>6, <1>7, FilesOf DEF IInv, IndexBacked, KeptSettled
<1> QED
  BY <1>1, <1>2, <1>6, <1>7, <1>8, <1>9, <1>10, <1>11, OwedPreserves
  DEF Owed, Writing, Shape, TypeOK, Files

\* The directory is synchronized; after the index the record is acknowledged.
LEMMA SyncStep ==
    ASSUME Sentinels, IInv, NEW p \in Processes, Sync(p)
    PROVE  /\ IInv'
           /\ \/ kept' = kept
              \/ /\ kept' = kept \cup {ctl[p].record.key}
                 /\ Holds(Object(ctl[p].record)) /\ Holds(Index(ctl[p].record))
<1>1. /\ writer = p /\ At(p, "unlinked") /\ WriterKnows(p) /\ Shape /\ TypeOK
      /\ SyncDirectory /\ torn' = torn \ files
      /\ lockFile' = [lockFile EXCEPT !.safe = lockFile.now]
      /\ UNCHANGED <<stops, losses>>
  BY DEF Sync, At, IInv, TypeOK, Writing
<1>2. lockFile.now = TRUE /\ lockFile \in [now : BOOLEAN, safe : BOOLEAN]
  BY <1>1, OneWriter DEF TypeOK
<1>3. PICK r \in Records : ctl[p].record = r
  BY <1>1, OneWriter
<1>4. PICK file : file = ctl[p].file
  OBVIOUS
<1>5. /\ Object(r) \in Files /\ Index(r) \in Files /\ Object(r) # Index(r)
      /\ \/ file = Object(r) /\ IndexOf(r.key) = {}
         \/ file = Index(r) /\ Holds(Object(r))
      /\ Holds(file)
  BY <1>1, <1>3, <1>4, FilesOf, FileNames DEF WriterKnows, At
<1>6. /\ DirectoryOK' /\ UNCHANGED <<files, doubled>>
      /\ safe'.files = files /\ safe'.doubled = doubled
      /\ \A g : (Holds(g)' <=> Holds(g)) /\ (Holds(g) => Settled(g)')
                /\ (Settled(g) => Settled(g)')
  BY <1>1, SyncFacts DEF TypeOK
<1>7. /\ files' \subseteq Files /\ torn' \subseteq Files
      /\ safe' \in [files : SUBSET Files, doubled : SUBSET NamesOf(Files)]
  <2>1. files \subseteq Files /\ doubled \subseteq NamesOf(files)
    BY <1>1 DEF TypeOK, DirectoryOK, Files
  <2>2. NamesOf(files) \subseteq NamesOf(Files)
    BY <2>1 DEF NamesOf
  <2> QED
    BY <1>1, <1>6, <2>1, <2>2 DEF SyncDirectory, Shape
<1>8. lockFile' \in [now : BOOLEAN, safe : BOOLEAN] /\ lockFile'.now = TRUE
  BY <1>1, <1>2
<1>9. Accounted'
  BY <1>6 DEF Accounted
<1>10. IndexBacked'
  BY <1>1, <1>6 DEF IInv, IndexBacked, TypeOK, DirectoryOK
<1>11. CASE file = Object(r)
  <2>1. Persist(p, Index(r)) /\ writer' = p /\ kept' = kept
    BY <1>1, <1>3, <1>4, <1>11 DEF Sync, Proceed
  <2>2. /\ ctl' \in [Processes -> LocalStates]
        /\ ctl'[p].pc = "persist" /\ ctl'[p].record = r /\ ctl'[p].file = Index(r)
        /\ \A q \in Processes \ {p} : ctl'[q] = ctl[q]
    BY <1>1, <1>3, <1>5, <2>1, PersistMoves
  <2>3. IndexOf(r.key) = {} /\ Holds(Object(r))' /\ Object(r) \in safe'.files
    BY <1>5, <1>6, <1>11 DEF Holds
  <2>4. WriterKnows(p)'
    BY <1>6, <1>8, <2>2, <2>3 DEF WriterKnows, At, IndexOf, Named, Holds, Readable
  <2>5. KeptSettled'
    BY <1>6, <2>1 DEF IInv, KeptSettled
  <2>6. kept' \subseteq Keys /\ stops' \in 0..MaxStops
    BY <1>1, <2>1 DEF TypeOK
  <2>7. writer' = p /\ ctl'[p].pc \in Writing /\ ctl'[p].record \in Records
    BY <2>1, <2>2 DEF Writing
  <2>8. Owed(p)
    BY <1>1, <1>6, <1>7, <1>8, <1>9, <1>10, <2>2, <2>4, <2>5, <2>6, <2>7 DEF Owed
  <2> QED
    BY <1>1, <2>1, <2>8, OwedPreserves
<1>12. CASE file = Index(r)
  <2>1. Release(p) /\ kept' = kept \cup {r.key}
    BY <1>1, <1>3, <1>4, <1>5, <1>12 DEF Sync, Proceed
  <2>2. /\ ctl' \in [Processes -> LocalStates] /\ ctl'[p].pc = "idle" /\ writer' = Nobody
        /\ \A q \in Processes \ {p} : ctl'[q] = ctl[q]
    BY <1>1, <2>1, IdleMoves DEF Release
  <2>3. WriterKnows(p)'
    BY <2>2 DEF WriterKnows, Writing, At
  <2>4. Holds(Object(r)) /\ Holds(Index(r)) /\ Settled(Object(r))' /\ Settled(Index(r))'
    BY <1>5, <1>6, <1>12
  <2>5. KeptSettled'
    BY <1>6, <2>1, <2>4 DEF IInv, KeptSettled
  <2>6. kept' \subseteq Keys
    BY <1>1, <2>1, FilesOf DEF TypeOK
  <2> QED
    BY <1>1, <1>3, <1>6, <1>7, <1>8, <1>9, <1>10, <2>1, <2>2, <2>3, <2>4, <2>5, <2>6, OwedPreserves
    DEF Owed, TypeOK
<1> QED
  BY <1>5, <1>11, <1>12

\* An error or a kill inside a publication.
LEMMA StopStep ==
    ASSUME Sentinels, IInv, NEW p \in Processes, Error(p) \/ Kill(p)
    PROVE  IInv'
<1>1. /\ Stop(p) /\ writer = p /\ WriterKnows(p) /\ Shape /\ TypeOK
      /\ UNCHANGED <<lockFile, kept, losses>> /\ Release(p)
      /\ torn' = IF ctl[p].pc \in {"linked", "unlinked"} THEN torn \cup {ctl[p].file} ELSE torn
  BY DEF Error, Kill, Stop, IInv
<1>2. stops' \in 0..MaxStops
  BY <1>1 DEF Stop, TypeOK, Sentinels
<1>3. PICK r \in Records : ctl[p].record = r
  BY <1>1, OneWriter
<1>4. PICK file : file = ctl[p].file
  OBVIOUS
<1>5. ctl[p].pc \in {"linked", "unlinked"} => file \in Files
  BY <1>1, <1>3, <1>4, FilesOf DEF WriterKnows
<1>6. torn \subseteq torn' /\ torn' \subseteq Files
  BY <1>1, <1>4, <1>5 DEF Shape
<1>7. \A f \in files : f \in safe.files \cup torn'
  BY <1>1, OneWriter
<1>8. CASE UNCHANGED directory
  BY <1>1, <1>2, <1>6, <1>7, <1>8, LeaveStep
<1>9. CASE At(p, "linked") /\ UnlinkTemporary(file)
  <2>1. file \in Files
    BY <1>5, <1>9 DEF At
  <2>2. /\ DirectoryOK' /\ UNCHANGED <<files, safe>>
        /\ \A g \in Files : Settled(g) => Settled(g)'
    BY <1>1, <1>9, <2>1, UnlinkFacts DEF TypeOK
  <2>3. /\ ctl' \in [Processes -> LocalStates] /\ ctl'[p].pc = "idle" /\ writer' = Nobody
        /\ \A q \in Processes \ {p} : ctl'[q] = ctl[q]
    BY <1>1, IdleMoves DEF Release
  <2>4. WriterKnows(p)'
    BY <2>3 DEF WriterKnows, Writing, At
  <2>5. Accounted'
    BY <1>7, <2>2 DEF Accounted
  <2>6. IndexBacked' /\ KeptSettled'
    BY <1>1, <1>6, <2>2, FilesOf DEF IInv, IndexBacked, KeptSettled
  <2>7. lockFile'.now = TRUE /\ lockFile' \in [now : BOOLEAN, safe : BOOLEAN]
    BY <1>1, OneWriter DEF TypeOK
  <2>8. Owed(p)
    BY <1>1, <1>2, <1>6, <2>2, <2>3, <2>4, <2>5, <2>6, <2>7 DEF Owed, Shape, TypeOK, Files
  <2> QED
    BY <1>1, <2>8, OwedPreserves
<1> QED
  BY <1>4, <1>8, <1>9 DEF Error, Kill

\* Only files that were not synchronized are lost, and only torn ones were relied on.
LEMMA PowerLossStep ==
    ASSUME Sentinels, IInv, PowerLoss
    PROVE  IInv'
<1>1. /\ LosePower /\ TypeOK /\ Shape /\ DirectoryOK
      /\ torn' = torn \ files' /\ writer' = Nobody /\ ctl' = [p \in Processes |-> Idle]
      /\ UNCHANGED <<kept, stops>>
  BY DEF PowerLoss, IInv, TypeOK
<1>2. /\ DirectoryOK' /\ files' \subseteq files /\ safe.files \subseteq files'
      /\ doubled' \subseteq NamesOf(files')
      /\ safe' = [files |-> files', doubled |-> doubled']
      /\ \A g : Settled(g) => Settled(g)'
  BY <1>1, LoseFacts
<1>3. safe'.files = files' /\ files' \subseteq Files
  BY <1>1, <1>2 DEF TypeOK, Files
<1>4. Idle \in LocalStates /\ Idle.pc = "idle"
  BY DEF Idle, LocalStates, Pcs, Loaded
<1>5. \A p \in Processes : ctl'[p].pc = "idle" /\ p # Nobody
  BY <1>1, <1>4 DEF Sentinels
<1>6. Shape'
  <2>1. doubled' \subseteq NamesOf(Files)
    BY <1>2, <1>3 DEF NamesOf
  <2> QED
    BY <1>1, <1>2, <1>3, <1>4, <2>1 DEF Shape
<1>7. TypeOK'
  <2>1. losses' \in 0..MaxLosses
    BY <1>1 DEF PowerLoss, TypeOK, Sentinels
  <2>2. lockFile' \in [now : BOOLEAN, safe : BOOLEAN]
    <3>1. PICK survives \in {lockFile.safe, lockFile.now} :
            lockFile' = [now |-> survives, safe |-> survives]
      BY DEF PowerLoss
    <3>2. survives \in BOOLEAN
      BY <1>1 DEF TypeOK
    <3> QED
      BY <3>1, <3>2
  <2>3. \A p \in Processes :
          /\ ctl'[p].pc \in {"idle", "waiting"} \cup Writing \cup Reading
          /\ ctl'[p].pc \in Writing <=> writer' = p
          /\ ctl'[p].pc \in Writing => lockFile'.now /\ ctl'[p].record \in Records
    BY <1>1, <1>5 DEF Writing
  <2> QED
    BY <1>1, <1>2, <1>3, <2>1, <2>2, <2>3 DEF TypeOK, Files
<1>8. Accounted'
  BY <1>3 DEF Accounted
<1>9. IndexBacked'
  BY <1>1, <1>2, <1>3 DEF IInv, IndexBacked
<1>10. KeptSettled'
  BY <1>1, <1>2 DEF IInv, KeptSettled
<1>11. \A p \in Processes : WriterKnows(p)' /\ ReaderKnows(p)'
  BY <1>5 DEF WriterKnows, ReaderKnows, At, Writing
<1> QED
  BY <1>6, <1>7, <1>8, <1>9, <1>10, <1>11 DEF IInv

\* What a step of a process p outside any publication owes to the invariant: it
\* leaves the directory alone, and knows at its new stage what that stage needs.
Quiet(p) ==
    /\ UNCHANGED <<directory, kept, torn, stops, losses>>
    /\ lockFile' \in [now : BOOLEAN, safe : BOOLEAN] /\ (lockFile.now => lockFile'.now)
    /\ ctl[p].pc \notin Writing
    /\ ctl' \in [Processes -> LocalStates]
    /\ \A q \in Processes \ {p} : ctl'[q] = ctl[q] /\ (writer' = q <=> writer = q)
    /\ writer' \in Processes \cup {Nobody}
    /\ ctl'[p].pc \in Writing <=> writer' = p
    /\ WriterKnows(p)' /\ ReaderKnows(p)'

\* A step that leaves the directory alone preserves the invariant.
LEMMA QuietPreserves ==
    ASSUME Sentinels, IInv, NEW p \in Processes, Quiet(p)
    PROVE  IInv'
<1>1. UNCHANGED <<files, doubled, safe, torn>>
  BY DEF Quiet, directory
<1>2. Shape'
  BY <1>1 DEF Quiet, IInv, Shape
<1>3. ASSUME NEW q \in Processes PROVE WriterKnows(q)' /\ ReaderKnows(q)'
  <2>1. CASE q = p
    BY <2>1 DEF Quiet
  <2>2. CASE q # p
    <3>1. /\ ctl'[q] = ctl[q] /\ WriterKnows(q) /\ ReaderKnows(q)
          /\ lockFile.now \in BOOLEAN /\ lockFile'.now \in BOOLEAN
          /\ lockFile.now => lockFile'.now
      BY <2>2 DEF Quiet, IInv, TypeOK
    <3>2. WriterKnows(q)'
      BY <1>1, <3>1 DEF WriterKnows, At, IndexOf, Named, Holds, Readable
    <3>3. ReaderKnows(q)'
      BY <1>1, <3>1
      DEF ReaderKnows, At, Lookup, ObjectValue, IndexOf, Named, Holds, Readable
    <3> QED
      BY <3>2, <3>3
  <2> QED
    BY <2>1, <2>2
<1>4. TypeOK'
  <2>1. ASSUME NEW q \in Processes
        PROVE  /\ ctl'[q].pc \in {"idle", "waiting"} \cup Writing \cup Reading
               /\ ctl'[q].pc \in Writing <=> writer' = q
               /\ ctl'[q].pc \in Writing => lockFile'.now /\ ctl'[q].record \in Records
    <3>1. ctl'[q].pc \in {"idle", "waiting"} \cup Writing \cup Reading
      BY DEF Quiet, LocalStates, Pcs
    <3>2. ctl'[q].pc \in Writing <=> writer' = q
      BY DEF Quiet, IInv, TypeOK
    <3>3. WriterKnows(q)'
      BY <1>3
    <3> QED
      BY <3>1, <3>2, <3>3 DEF WriterKnows
  <2> QED
    BY <1>1, <2>1 DEF Quiet, IInv, TypeOK, DirectoryOK
<1>5. Accounted'
  <2>1. ASSUME NEW f \in files, NEW q \in Processes,
               ctl[q].pc \in {"linked", "unlinked"}, ctl[q].file = f
        PROVE  ctl'[q].pc \in {"linked", "unlinked"} /\ ctl'[q].file = f
    BY <2>1 DEF Quiet, Writing
  <2> QED
    BY <1>1, <2>1 DEF IInv, Accounted
<1>6. IndexBacked' /\ KeptSettled'
  BY <1>1 DEF Quiet, IInv, IndexBacked, KeptSettled, Settled
<1> QED
  BY <1>2, <1>3, <1>4, <1>5, <1>6 DEF IInv

\* The writer lock is taken, and its file created the first time.
LEMMA LockSteps ==
    ASSUME Sentinels, IInv, NEW p \in Processes,
           Lock(p) \/ \E r \in Records : CreateLock(p, r)
    PROVE  IInv'
<1>1. /\ Shape /\ WriterKnows(p) /\ p # Nobody
      /\ ctl[p].pc \in Writing <=> writer = p
      /\ lockFile \in [now : BOOLEAN, safe : BOOLEAN] /\ writer \in Processes \cup {Nobody}
  BY DEF IInv, TypeOK, Sentinels
<1>2. ASSUME NEW r \in Records, CreateLock(p, r) PROVE Quiet(p)
  <2> DEFINE l == [Idle EXCEPT !.pc = "waiting", !.record = r]
  <2>1. l \in LocalStates /\ l.pc = "waiting" /\ l.record = r
    BY DEF Idle, LocalStates, Pcs, Loaded
  <2>2. /\ ctl' \in [Processes -> LocalStates] /\ ctl'[p] = l
        /\ \A q \in Processes \ {p} : ctl'[q] = ctl[q]
    BY <1>1, <1>2, <2>1, OthersStay DEF CreateLock
  <2>3. lockFile' \in [now : BOOLEAN, safe : BOOLEAN] /\ lockFile'.now = TRUE
    BY <1>1, <1>2 DEF CreateLock
  <2>4. WriterKnows(p)' /\ ReaderKnows(p)'
    BY <2>1, <2>2, <2>3 DEF WriterKnows, ReaderKnows, At
  <2> QED
    BY <1>1, <1>2, <2>1, <2>2, <2>3, <2>4 DEF CreateLock, Quiet, Writing, At, History
<1>3. CASE Lock(p)
  <2>1. /\ ctl' \in [Processes -> LocalStates]
        /\ ctl'[p].pc = "locked" /\ ctl'[p].record = ctl[p].record
        /\ \A q \in Processes \ {p} : ctl'[q] = ctl[q]
    BY <1>1, <1>3, GotoMoves DEF Lock, Pcs, Writing
  <2>2. ctl[p].pc = "waiting" /\ lockFile.now /\ ctl[p].record \in Records /\ lockFile' = lockFile
    BY <1>1, <1>3 DEF Lock, At, WriterKnows
  <2>3. WriterKnows(p)' /\ ReaderKnows(p)'
    BY <2>1, <2>2 DEF WriterKnows, ReaderKnows, At
  <2>4. writer = Nobody /\ writer' = p /\ \A q \in Processes \ {p} : writer' = q <=> writer = q
    BY <1>3 DEF Lock, Sentinels
  <2> QED
    <3>1. UNCHANGED <<directory, kept, torn, stops, losses>>
      BY <1>3 DEF Lock, History
    <3>2. ctl[p].pc \notin Writing /\ ctl'[p].pc \in Writing
      BY <2>1, <2>2 DEF Writing
    <3>3. Quiet(p)
      BY <1>1, <2>1, <2>2, <2>3, <2>4, <3>1, <3>2 DEF Quiet
    <3> QED
      BY <3>3, QuietPreserves
<1> QED
  BY <1>2, <1>3, QuietPreserves

\* A read leaves the directory as it is; where it ends at "recheck" without a
\* lock file, it has seen what a locked load would.
LEMMA ReadSteps ==
    ASSUME Sentinels, IInv, NEW p \in Processes, ReadStep(p)
    PROVE  IInv'
<1>1. /\ Shape /\ ReaderKnows(p) /\ ctl[p] \in LocalStates /\ TypeOK
      /\ ctl[p].pc \in Writing <=> writer = p
      /\ lockFile \in [now : BOOLEAN, safe : BOOLEAN] /\ writer \in Processes \cup {Nobody}
  BY DEF IInv, TypeOK, Shape
<1>2. /\ UNCHANGED <<directory, lockFile, writer, kept, torn, stops, losses>>
      /\ ctl[p].pc \notin Writing
  BY DEF ReadStep, OpenReader, PeekIndex, PeekObject, Recheck, ReadShared, CloseReader,
         Writing, At, History
<1>3. UNCHANGED <<files, doubled, safe>>
  BY <1>2 DEF directory
<1>4. SUFFICES /\ ctl' \in [Processes -> LocalStates]
               /\ \A q \in Processes \ {p} : ctl'[q] = ctl[q]
               /\ ctl'[p].pc \in Reading \cup {"idle"}
               /\ ReaderKnows(p)'
  <2>1. ctl'[p].pc \notin {"waiting"} \cup Writing
    BY <1>4 DEF Reading, Writing
  <2>2. WriterKnows(p)'
    BY <2>1 DEF WriterKnows, Writing, At
  <2>3. Quiet(p)
    BY <1>1, <1>2, <1>4, <2>1, <2>2 DEF Quiet
  <2> QED
    BY <2>3, QuietPreserves
<1>5. ASSUME NEW key \in Keys, OpenReader(p, key)
      PROVE  /\ ctl' \in [Processes -> LocalStates]
             /\ \A q \in Processes \ {p} : ctl'[q] = ctl[q]
             /\ ctl'[p].pc \in Reading \cup {"idle"}
             /\ ReaderKnows(p)'
  <2> DEFINE l == [Idle EXCEPT !.pc = IF lockFile.now THEN "shared" ELSE "peekIndex",
                               !.file = key]
  <2>1. l \in LocalStates /\ l.pc \in {"shared", "peekIndex"}
    BY DEF Idle, LocalStates, Pcs, Loaded, Reading
  <2>2. /\ ctl' \in [Processes -> LocalStates] /\ ctl'[p] = l
        /\ \A q \in Processes \ {p} : ctl'[q] = ctl[q]
    BY <1>1, <1>5, <2>1, OthersStay DEF OpenReader
  <2> QED
    BY <2>1, <2>2 DEF ReaderKnows, At, Reading
<1>6. ASSUME NEW pc \in Reading, NEW value \in Loaded, Found(p, pc, value)
      PROVE  /\ ctl' \in [Processes -> LocalStates]
             /\ \A q \in Processes \ {p} : ctl'[q] = ctl[q]
             /\ ctl'[p].pc = pc /\ ctl'[p].value = value /\ ctl'[p].file = ctl[p].file
  <2> DEFINE l == [ctl[p] EXCEPT !.pc = pc, !.value = value]
  <2>1. l \in LocalStates /\ l.pc = pc /\ l.value = value /\ l.file = ctl[p].file
    BY <1>1 DEF LocalStates, Pcs
  <2>2. ctl' = [ctl EXCEPT ![p] = l]
    BY <1>1, <1>6 DEF Found, Shape
  <2>3. ctl'[p] = l
    BY <1>1, <2>1, <2>2, OthersStay
  <2> QED
    BY <1>1, <2>1, <2>2, <2>3, OthersStay
<1>7. CASE PeekIndex(p)
  <2>1. PICK key : key = ctl[p].file
    OBVIOUS
  <2>2. CASE IndexOf(key) = {} /\ Found(p, "recheck", Absent)
    <3>1. Lookup(key) = Absent
      BY <1>1, <2>2, LookupFacts
    <3>2. Lookup(key)' = Lookup(key)
      BY <1>3 DEF Lookup, IndexOf, Named, Readable, ObjectValue, Holds
    <3>3. /\ ctl' \in [Processes -> LocalStates]
          /\ \A q \in Processes \ {p} : ctl'[q] = ctl[q]
          /\ ctl'[p].pc = "recheck" /\ ctl'[p].value = Absent /\ ctl'[p].file = key
      BY <1>6, <2>1, <2>2 DEF Reading, Loaded
    <3>4. ctl'[p].value = Lookup(ctl'[p].file)
      BY <3>1, <3>3
    <3>5. ReaderKnows(p)'
      BY <1>3, <3>3, <3>4
      DEF ReaderKnows, At, Lookup, IndexOf, Named, Readable, ObjectValue, Holds
    <3> QED
      BY <3>3, <3>5 DEF Reading
  <2>3. ASSUME NEW index \in IndexOf(key),
               IF Readable(index.name) THEN Found(p, "peekObject", index.content)
               ELSE Found(p, "recheck", Refused)
        PROVE  /\ ctl' \in [Processes -> LocalStates]
               /\ \A q \in Processes \ {p} : ctl'[q] = ctl[q]
               /\ ctl'[p].pc \in Reading \cup {"idle"}
               /\ ReaderKnows(p)'
    <3>1. PICK r \in Records : r.key = key /\ index = Index(r) /\ Index(r) \in files
      BY <1>1, <2>3, IndexFacts
    <3>2. index.content = r
      BY <3>1, FilesOf
    <3>3. Lookup(key) = IF Readable(index.name) THEN ObjectValue(r) ELSE Refused
      BY <1>1, <3>1, LookupFacts
    <3>4. CASE Readable(index.name)
      <4>1. /\ ctl' \in [Processes -> LocalStates]
            /\ \A q \in Processes \ {p} : ctl'[q] = ctl[q]
            /\ ctl'[p].pc = "peekObject" /\ ctl'[p].value = r /\ ctl'[p].file = key
        BY <1>6, <2>1, <2>3, <3>2, <3>4 DEF Reading, Loaded
      <4>2. Lookup(ctl'[p].file) = ObjectValue(ctl'[p].value)
        BY <3>3, <3>4, <4>1
      <4>3. ReaderKnows(p)'
        BY <1>3, <4>1, <4>2
        DEF ReaderKnows, At, Lookup, IndexOf, Named, Readable, ObjectValue, Holds
      <4> QED
        BY <4>1, <4>3 DEF Reading
    <3>5. CASE ~Readable(index.name)
      <4>1. /\ ctl' \in [Processes -> LocalStates]
            /\ \A q \in Processes \ {p} : ctl'[q] = ctl[q]
            /\ ctl'[p].pc = "recheck" /\ ctl'[p].value = Refused /\ ctl'[p].file = key
        BY <1>6, <2>1, <2>3, <3>5 DEF Reading, Loaded
      <4>2. ctl'[p].value = Lookup(ctl'[p].file)
        BY <3>3, <3>5, <4>1
      <4>3. ReaderKnows(p)'
        BY <1>3, <4>1, <4>2
        DEF ReaderKnows, At, Lookup, IndexOf, Named, Readable, ObjectValue, Holds
      <4> QED
        BY <4>1, <4>3 DEF Reading
    <3> QED
      BY <3>4, <3>5
  <2>4. \/ IndexOf(key) = {} /\ Found(p, "recheck", Absent)
        \/ \E index \in IndexOf(key) :
             IF Readable(index.name) THEN Found(p, "peekObject", index.content)
             ELSE Found(p, "recheck", Refused)
    BY <1>7, <2>1 DEF PeekIndex
  <2> QED
    BY <2>2, <2>3, <2>4
<1>8. CASE PeekObject(p)
  <2>1. PICK r : r = ctl[p].value
    OBVIOUS
  <2>2. ObjectValue(r) \in Loaded
    BY <1>1, <2>1 DEF ObjectValue, Loaded, LocalStates
  <2>3. /\ ctl' \in [Processes -> LocalStates]
        /\ \A q \in Processes \ {p} : ctl'[q] = ctl[q]
        /\ ctl'[p].pc = "recheck" /\ ctl'[p].value = ObjectValue(r) /\ ctl'[p].file = ctl[p].file
    BY <1>6, <1>8, <2>1, <2>2 DEF PeekObject, Reading
  <2>4. ctl[p].pc = "peekObject" /\ lockFile' = lockFile
    BY <1>2, <1>8 DEF PeekObject, At
  <2>5. lockFile.now = FALSE => ctl'[p].value = Lookup(ctl'[p].file)
    BY <1>1, <2>1, <2>3, <2>4 DEF ReaderKnows, At
  <2>6. ReaderKnows(p)'
    BY <1>3, <2>3, <2>4, <2>5
    DEF ReaderKnows, At, Lookup, IndexOf, Named, Readable, ObjectValue, Holds
  <2> QED
    BY <2>3, <2>6 DEF Reading
<1>9. CASE Recheck(p)
  <2>1. PICK pc \in {"shared", "read"} : Goto(p, pc)
    BY <1>9 DEF Recheck
  <2>2. /\ ctl' \in [Processes -> LocalStates] /\ ctl'[p].pc = pc
        /\ \A q \in Processes \ {p} : ctl'[q] = ctl[q]
    BY <1>1, <2>1, GotoMoves DEF Pcs, Reading
  <2> QED
    BY <2>2 DEF ReaderKnows, At, Reading
<1>10. CASE ReadShared(p)
  <2>1. PICK value \in Loaded : Found(p, "read", value)
    BY <1>1, <1>10, LookupFacts DEF ReadShared
  <2> QED
    BY <1>6, <2>1 DEF ReaderKnows, At, Reading
<1>11. CASE CloseReader(p)
  <2>1. /\ ctl' \in [Processes -> LocalStates] /\ ctl'[p].pc = "idle"
        /\ \A q \in Processes \ {p} : ctl'[q] = ctl[q]
    BY <1>1, <1>11, IdleMoves DEF CloseReader
  <2> QED
    BY <2>1 DEF ReaderKnows, At
<1> QED
  BY <1>5, <1>7, <1>8, <1>9, <1>10, <1>11 DEF ReadStep

\* Nothing changes.
LEMMA StutterStep == ASSUME IInv, UNCHANGED vars PROVE IInv'
<1>1. UNCHANGED <<files, doubled, safe, lockFile, writer, ctl, kept, torn, stops, losses>>
  BY DEF vars, directory
<1>2. TypeOK' /\ Shape'
  BY <1>1 DEF IInv, TypeOK, DirectoryOK, Shape
<1>3. Accounted' /\ IndexBacked' /\ KeptSettled'
  BY <1>1 DEF IInv, Accounted, IndexBacked, KeptSettled, Settled
<1>4. ASSUME NEW p \in Processes PROVE WriterKnows(p)'
  BY <1>1 DEF IInv, WriterKnows, At, IndexOf, Named, Holds, Readable
<1>5. ASSUME NEW p \in Processes PROVE ReaderKnows(p)'
  BY <1>1
  DEF IInv, ReaderKnows, At, Lookup, ObjectValue, IndexOf, Named, Holds, Readable
<1> QED
  BY <1>2, <1>3, <1>4, <1>5 DEF IInv

\* Every step preserves the invariant.
LEMMA StepHolds == ASSUME Sentinels, IInv, [Next]_vars PROVE IInv'
<1>1. ASSUME NEW p \in Processes, PublishStep(p) PROVE IInv'
  BY <1>1, LockSteps, AnswerStep, PersistStep, LinkStep, UnlinkStep, SyncStep DEF PublishStep
<1> QED
  BY <1>1, ReadSteps, StopStep, PowerLossStep, StutterStep DEF Next

-----------------------------------------------------------------------------
(***************************************************************************)
(* Results.                                                                *)
(***************************************************************************)

\* The inductive invariant holds in every reachable state.
THEOREM Invariance == ASSUME Sentinels PROVE Spec => []IInv
<1>1. Init => IInv
  BY InitHolds
<1>2. IInv /\ [Next]_vars => IInv'
  BY StepHolds
<1> QED
  BY <1>1, <1>2, PTL DEF Spec

\* Names are unique, what is safe is listed, exactly the holder of the lock
\* stands inside a publication, and everything else has its type.
THEOREM TypeCorrect == ASSUME Sentinels PROVE Spec => []TypeOK
<1>1. IInv => TypeOK
  BY DEF IInv
<1> QED
  BY <1>1, Invariance, PTL

\* No power loss leaves an index without the object it names, unless the object
\* was a dead writer's that no synchronization had caught.
THEOREM IndexIsBacked == ASSUME Sentinels PROVE Spec => []IndexBacked
<1>1. IInv => IndexBacked
  BY DEF IInv
<1> QED
  BY <1>1, Invariance, PTL

\* What publish returned from is answered by a record from then on.
THEOREM PublishedIsAnswered ==
    ASSUME Sentinels
    PROVE  Spec => [](\A key \in kept : Answered(key) \in Records)
<1>1. IInv => \A key \in kept : Answered(key) \in Records
  <2> SUFFICES ASSUME IInv, NEW key \in kept PROVE Answered(key) \in Records
    OBVIOUS
  <2>1. PICK r \in Records : r.key = key /\ Settled(Object(r)) /\ Settled(Index(r))
    BY DEF IInv, KeptSettled
  <2>2. Holds(Object(r)) /\ Holds(Index(r))
    BY <2>1 DEF Settled, Holds, Readable, NamesOf, IInv, TypeOK, DirectoryOK
  <2>3. TypeOK
    BY DEF IInv
  <2>4. Answered(key) = r
    BY <2>1, <2>2, <2>3, AnsweredFacts
  <2> QED
    BY <2>4
<1> QED
  BY <1>1, Invariance, PTL

\* A load that never took the lock returns what a locked load would have.
THEOREM UnlockedLoadsAreCurrent == ASSUME Sentinels PROVE Spec => ReadsAreCurrent
<1>1. ASSUME IInv, Next, NEW p \in Processes, ~At(p, "read"), ctl'[p].pc = "read"
      PROVE  ctl'[p].value = Lookup(ctl[p].file)
  <2>1. /\ Shape /\ ReaderKnows(p) /\ lockFile.now \in BOOLEAN /\ TypeOK
        /\ ctl[p] \in LocalStates
    BY <1>1 DEF IInv, TypeOK, Shape
  <2>2. ~PowerLoss
    BY <1>1 DEF PowerLoss, Idle
  <2>3. PICK q \in Processes : PublishStep(q) \/ ReadStep(q) \/ Error(q) \/ Kill(q)
    BY <1>1, <2>2 DEF Next
  <2>4. ctl[p].pc # "read"
    BY <1>1 DEF At
  <2>5. CASE q # p
    <3>1. ctl'[p] = ctl[p]
      BY <2>1, <2>3, <2>5
      DEF PublishStep, ReadStep, Error, Kill, Stop, Release, Goto, Persist, Found, CreateLock,
          Lock, Answer, Publish, AdoptObject, RefuseObject, Link, Unlink, Sync, Proceed,
          OpenReader, PeekIndex, PeekObject, Recheck, ReadShared, CloseReader, Shape
    <3> QED
      BY <1>1, <2>4, <3>1
  <2>6. CASE PublishStep(p) \/ Error(p) \/ Kill(p)
    <3>1. ASSUME NEW r \in Records, CreateLock(p, r)
          PROVE  ctl'[p].pc = "waiting"
      BY <2>1, <3>1 DEF CreateLock, Idle, Shape
    <3>2. CASE \E pc \in Writing : Goto(p, pc)
      BY <1>1, <2>1, <3>2, GotoMoves DEF Pcs, Writing
    <3>3. CASE Release(p)
      BY <1>1, <2>1, <3>3, IdleMoves DEF Release
    <3>4. CASE \E file : Persist(p, file)
      BY <1>1, <2>1, <3>4 DEF Persist, Shape, LocalStates
    <3> QED
      BY <1>1, <2>6, <3>1, <3>2, <3>3, <3>4
      DEF PublishStep, Error, Kill, Stop, Lock, Answer, Publish, AdoptObject, RefuseObject,
          Link, Unlink, Sync, Proceed, Writing
  <2>7. CASE ReadStep(p)
    <3>1. CASE Recheck(p)
      <4>1. Goto(p, IF lockFile.now THEN "shared" ELSE "read") /\ ctl[p].pc = "recheck"
        BY <3>1 DEF Recheck, At
      <4>2. CASE lockFile.now
        <5>1. Goto(p, "shared")
          BY <4>1, <4>2
        <5>2. ctl'[p].pc = "shared"
          BY <2>1, <5>1, GotoMoves DEF Pcs, Reading
        <5> QED
          BY <1>1, <5>2
      <4>3. CASE ~lockFile.now
        <5>1. Goto(p, "read")
          BY <4>1, <4>3
        <5>2. ctl'[p].value = ctl[p].value
          BY <2>1, <5>1, GotoMoves DEF Pcs, Reading
        <5> QED
          BY <2>1, <4>1, <4>3, <5>2 DEF ReaderKnows, At
      <4> QED
        BY <4>2, <4>3
    <3>2. CASE ReadShared(p)
      BY <2>1, <3>2 DEF ReadShared, Found, Shape, LocalStates
    <3>3. ASSUME NEW key \in Keys, OpenReader(p, key)
          PROVE  ctl'[p].pc \in {"shared", "peekIndex"}
      BY <2>1, <3>3 DEF OpenReader, Idle, Shape
    <3>4. CASE PeekIndex(p) \/ PeekObject(p)
      <4>1. \E pc \in {"recheck", "peekObject"} : \E value : Found(p, pc, value)
        BY <3>4 DEF PeekIndex, PeekObject
      <4>2. ctl'[p].pc \in {"recheck", "peekObject"}
        BY <2>1, <4>1 DEF Found, Shape, LocalStates
      <4> QED
        BY <1>1, <4>2
    <3>5. CASE CloseReader(p)
      BY <1>1, <2>1, <3>5, IdleMoves DEF CloseReader
    <3> QED
      BY <1>1, <2>7, <3>1, <3>2, <3>3, <3>4, <3>5 DEF ReadStep
  <2> QED
    BY <2>3, <2>5, <2>6, <2>7
<1>2. IInv /\ [Next]_vars =>
        [\A p \in Processes :
           ~At(p, "read") /\ ctl'[p].pc = "read" => ctl'[p].value = Lookup(ctl[p].file)]_vars
  BY <1>1
<1> QED
  BY <1>2, Invariance, PTL DEF Spec, ReadsAreCurrent

-----------------------------------------------------------------------------
(***************************************************************************)
(* The store implements a write-once map.                                  *)
(***************************************************************************)
Typed == \A key : Answered(key) \in Records \cup {Absent}

Holding ==
    \A key : \A r \in Records :
        Answered(key) = r <=> r.key = key /\ Holds(Index(r)) /\ Holds(Object(r))

\* The same of the state after a step.
LEMMA AnsweredNext == ASSUME Sentinels PROVE TypeOK' => Typed' /\ Holding'
<1>1. TypeOK => Typed /\ Holding
  BY AnsweredFacts DEF Typed, Holding
<1> QED
  BY <1>1, PTL

bound == [key \in Keys |-> Answered(key)]

\* While the files that are held stay held, no answer changes.
LEMMA AnswersStay ==
    ASSUME Sentinels, TypeOK, TypeOK', \A g \in Files : Holds(g) => Holds(g)'
    PROVE  \A key : Answered(key) = Absent \/ Answered(key)' = Answered(key)
<1> SUFFICES ASSUME NEW key, Answered(key) # Absent
             PROVE  Answered(key)' = Answered(key)
  OBVIOUS
<1>1. Holding /\ Typed /\ Holding' /\ Typed'
  BY AnsweredFacts, AnsweredNext DEF Typed, Holding
<1>2. PICK r \in Records : r = Answered(key)
  BY <1>1 DEF Typed
<1>3. r.key = key /\ Holds(Index(r)) /\ Holds(Object(r))
  BY <1>1, <1>2 DEF Holding
<1>4. Holds(Index(r))' /\ Holds(Object(r))'
  BY <1>3, FilesOf
<1>5. Answered(key)' = r
  BY <1>1, <1>3, <1>4 DEF Holding
<1> QED
  BY <1>2, <1>5

\* With the files that are held, the answers stay the same.
LEMMA AnswersSame ==
    ASSUME Sentinels, TypeOK, TypeOK', \A g \in Files : Holds(g)' <=> Holds(g)
    PROVE  bound' = bound
<1>1. ASSUME NEW key PROVE Answered(key)' = Answered(key)
  <2>1. Typed /\ Holding /\ Typed' /\ Holding'
    BY AnsweredFacts, AnsweredNext DEF Typed, Holding
  <2>2. CASE Answered(key) # Absent
    BY <2>2, AnswersStay
  <2>3. CASE Answered(key) = Absent /\ Answered(key)' # Absent
    <3>1. PICK r \in Records : r = Answered(key)'
      BY <2>1, <2>3 DEF Typed
    <3>2. r.key = key /\ Holds(Index(r))' /\ Holds(Object(r))'
      BY <2>1, <3>1 DEF Holding
    <3>3. Answered(key) = r
      BY <2>1, <3>2, FilesOf DEF Holding
    <3> QED
      BY <2>3, <3>3 DEF Sentinels
  <2> QED
    BY <2>2, <2>3
<1> QED
  BY <1>1 DEF bound

\* Dropping a temporary name binds at most the key of the record it belongs to.
LEMMA UnlinkBinds ==
    ASSUME Sentinels, TypeOK, TypeOK', NEW r \in Records, NEW file \in {Object(r), Index(r)},
           UnlinkTemporary(file), kept' = kept
    PROVE  Map!Bind \/ UNCHANGED <<bound, kept>>
<1>1. Typed /\ Holding /\ Typed' /\ Holding'
  BY AnsweredFacts, AnsweredNext DEF Typed, Holding
<1>2. file \in Files /\ r.key \in Keys
  BY FilesOf
<1>3. /\ \A g \in Files : Holds(g) => Holds(g)'
      /\ \A g \in Files : Holds(g)' /\ g.name # file.name => Holds(g)
  BY <1>2, UnlinkFacts DEF TypeOK
<1>4. \A key : Answered(key) = Absent \/ Answered(key)' = Answered(key)
  BY <1>3, AnswersStay
<1>5. ASSUME NEW key, key # r.key
      PROVE  Answered(key)' = Answered(key)
  <2>1. CASE Answered(key)' = Absent
    BY <1>4, <2>1
  <2>2. CASE Answered(key)' # Absent
    <3>1. PICK s \in Records : s = Answered(key)'
      BY <1>1, <2>2 DEF Typed
    <3>2. s.key = key /\ Holds(Index(s))' /\ Holds(Object(s))'
      BY <1>1, <3>1 DEF Holding
    <3>3. Index(s).name # file.name /\ Object(s).name # file.name
      BY <1>5, <3>2, FileNames
    <3>4. Holds(Index(s)) /\ Holds(Object(s))
      BY <1>3, <3>2, <3>3, FilesOf
    <3>5. Answered(key) = s
      BY <1>1, <3>2, <3>4 DEF Holding
    <3> QED
      BY <3>1, <3>5
  <2> QED
    BY <2>1, <2>2
<1>6. CASE Answered(r.key)' = Answered(r.key)
  <2>1. \A key : Answered(key)' = Answered(key)
    BY <1>5, <1>6
  <2> QED
    BY <2>1 DEF bound
<1>7. CASE Answered(r.key)' # Answered(r.key)
  <2>1. Answered(r.key) = Absent
    BY <1>4, <1>7
  <2>2. PICK v \in Records : v = Answered(r.key)'
    BY <1>1, <1>7, <2>1 DEF Typed
  <2>3. bound' = [key \in Keys |-> IF key = r.key THEN v ELSE Answered(key)]
    <3>1. \A key \in Keys : Answered(key)' = IF key = r.key THEN v ELSE Answered(key)
      BY <1>5, <2>2
    <3> QED
      BY <3>1 DEF bound
  <2>4. bound' = [bound EXCEPT ![r.key] = v]
    BY <2>3 DEF bound
  <2>5. bound[r.key] = Absent
    BY <1>2, <2>1 DEF bound
  <2> QED
    BY <1>2, <2>4, <2>5 DEF Map!Bind, bound
<1> QED
  BY <1>6, <1>7

\* A power loss takes no answer that publish returned from, and changes none.
LEMMA LossCrashes ==
    ASSUME Sentinels, IInv, IInv', PowerLoss
    PROVE  Map!Crash
<1>1. /\ TypeOK /\ TypeOK' /\ Typed /\ Holding /\ Typed' /\ Holding'
  BY AnsweredFacts, AnsweredNext DEF IInv, Typed, Holding
<1>2. files' \subseteq files /\ kept' = kept
  BY <1>1, LoseFacts DEF PowerLoss, TypeOK
<1>3. bound' \in [Keys -> Records \cup {Absent}]
  BY <1>1 DEF bound, Typed
<1>4. ASSUME NEW key \in Keys
      PROVE  \/ Answered(key) = Absent
             \/ Answered(key)' = Answered(key)
             \/ key \notin kept /\ Answered(key)' = Absent
  <2>1. CASE key \in kept
    <3>1. PICK r \in Records : r.key = key /\ Settled(Object(r)) /\ Settled(Index(r))
      BY <2>1 DEF IInv, KeptSettled
    <3>2. Settled(Object(r))' /\ Settled(Index(r))'
      BY <1>1, <3>1, LoseFacts DEF PowerLoss, TypeOK
    <3>3. Holds(Object(r)) /\ Holds(Index(r))
      BY <1>1, <3>1 DEF Settled, Holds, Readable, NamesOf, TypeOK, DirectoryOK
    <3>4. Holds(Object(r))' /\ Holds(Index(r))'
      BY <1>1, <3>2 DEF Settled, Holds, Readable, NamesOf, TypeOK, DirectoryOK
    <3> QED
      BY <1>1, <3>1, <3>3, <3>4 DEF Holding
  <2>2. CASE Answered(key) # Absent /\ Answered(key)' # Absent
    <3>1. PICK r \in Records, s \in Records : r = Answered(key) /\ s = Answered(key)'
      BY <1>1, <2>2 DEF Typed
    <3>2. r.key = key /\ s.key = key /\ Holds(Index(r)) /\ Holds(Index(s))'
      BY <1>1, <3>1 DEF Holding
    <3>3. Index(r) \in files /\ Index(s) \in files
      BY <1>2, <3>2 DEF Holds
    <3>4. Index(r) = Index(s)
      BY <1>1, <3>2, <3>3, FileNames DEF TypeOK, DirectoryOK
    <3> QED
      BY <3>1, <3>4, FileNames
  <2> QED
    BY <2>1, <2>2
<1>5. \A key \in Keys : bound[key] = Answered(key) /\ bound'[key] = Answered(key)'
  BY DEF bound
<1> QED
  BY <1>2, <1>3, <1>4, <1>5 DEF Map!Crash, bound

\* Every step of the store is a step of the write-once map, or none.
LEMMA StepsOfTheMap ==
    ASSUME Sentinels, IInv, [Next]_vars
    PROVE  [Map!Next]_<<bound, kept>>
<1>1. IInv' /\ TypeOK /\ TypeOK' /\ DirectoryOK
  BY StepHolds DEF IInv, TypeOK
<1>2. CASE UNCHANGED <<files, doubled, kept>>
  <2>1. \A g \in Files : Holds(g)' <=> Holds(g)
    BY <1>2 DEF Holds, Readable
  <2> QED
    BY <1>1, <1>2, <2>1, AnswersSame
<1>3. ASSUME NEW p \in Processes, Link(p)
      PROVE  UNCHANGED <<bound, kept>>
  <2>1. writer = p /\ WriterKnows(p)
    BY <1>1, <1>3 DEF Link, At, TypeOK, Writing, IInv
  <2>2. ctl[p].file \in Files
    BY <1>3, <2>1, FilesOf, OneWriter DEF Link, WriterKnows, At
  <2>3. \A g \in Files : Holds(g)' <=> Holds(g)
    BY <1>1, <1>3, <2>2, LinkFacts DEF Link, TypeOK, Files
  <2> QED
    BY <1>1, <1>3, <2>3, AnswersSame DEF Link, History
<1>4. ASSUME NEW p \in Processes, writer = p, At(p, "linked"), UnlinkTemporary(ctl[p].file),
             kept' = kept
      PROVE  Map!Bind \/ UNCHANGED <<bound, kept>>
  <2>1. PICK r \in Records : ctl[p].record = r
    BY <1>4, OneWriter
  <2>2. ctl[p].file \in {Object(r), Index(r)}
    BY <1>4, <2>1 DEF IInv, WriterKnows, At
  <2> QED
    BY <1>1, <1>4, <2>2, UnlinkBinds
<1>5. ASSUME NEW p \in Processes, Sync(p)
      PROVE  Map!Keep \/ UNCHANGED <<bound, kept>>
  <2>1. SyncDirectory
    BY <1>5 DEF Sync
  <2>2. bound' = bound
    <3>1. \A g : Holds(g)' <=> Holds(g)
      BY <1>1, <2>1, SyncFacts
    <3> QED
      BY <1>1, <3>1, AnswersSame
  <2>3. PICK r \in Records : ctl[p].record = r
    <3>1. writer = p
      BY <1>1, <1>5 DEF Sync, At, TypeOK, Writing
    <3> QED
      BY <3>1, OneWriter
  <2>4. CASE kept' = kept
    BY <2>2, <2>4
  <2>5. CASE kept' = kept \cup {r.key} /\ Holds(Object(r)) /\ Holds(Index(r))
    <3>1. Answered(r.key) = r /\ r.key \in Keys
      BY <1>1, <2>5, AnsweredFacts, FilesOf
    <3>2. bound[r.key] # Absent
      BY <3>1 DEF bound, Sentinels
    <3> QED
      BY <2>2, <2>5, <3>1, <3>2 DEF Map!Keep, bound
  <2> QED
    BY <1>5, <2>3, <2>4, <2>5, SyncStep
<1>6. CASE PowerLoss
  BY <1>1, <1>6, LossCrashes DEF Map!Next
<1>7. ASSUME NEW p \in Processes, Unlink(p) \/ Error(p)
      PROVE  Map!Bind \/ UNCHANGED <<bound, kept>>
  <2>1. CASE At(p, "linked")
    <3>1. writer = p /\ kept' = kept /\ UnlinkTemporary(ctl[p].file)
      BY <1>1, <1>7, <2>1 DEF Unlink, Error, Stop, History, At, TypeOK, Writing
    <3> QED
      BY <1>4, <2>1, <3>1
  <2>2. CASE ~At(p, "linked")
    <3>1. UNCHANGED <<files, doubled, kept>>
      BY <1>7, <2>2 DEF Unlink, Error, Stop, directory
    <3> QED
      BY <1>1, <3>1, AnswersSame DEF Holds, Readable
  <2> QED
    BY <2>1, <2>2
<1>8. ASSUME NEW p \in Processes, ReadStep(p) \/ Kill(p)
      PROVE  UNCHANGED <<files, doubled, kept>>
  BY <1>8 DEF ReadStep, Kill, Stop, OpenReader, PeekIndex, PeekObject, Recheck, ReadShared,
              CloseReader, History, directory
<1>9. ASSUME NEW p \in Processes, PublishStep(p), ~Link(p), ~Unlink(p), ~Sync(p)
      PROVE  UNCHANGED <<files, doubled, kept>>
  BY <1>9 DEF PublishStep, CreateLock, Lock, Answer, Publish, AdoptObject, RefuseObject,
              History, directory
<1>10. CASE UNCHANGED vars
  BY <1>2, <1>10 DEF vars, directory
<1> QED
  BY <1>2, <1>3, <1>5, <1>6, <1>7, <1>8, <1>9, <1>10 DEF Next, PublishStep, Map!Next

\* The store of immutable files implements the write-once map: a key that has
\* answered with one record never answers with another, and one whose publication
\* ran to its end is answered through every kill and power loss.
THEOREM StoreImplementsMap == ASSUME Sentinels PROVE Spec => ImplementsWriteOnce
<1>1. Init => Map!Init
  <2> SUFFICES ASSUME Init PROVE Map!Init
    OBVIOUS
  <2>1. files = {} /\ kept = {}
    BY DEF Init, Empty
  <2>2. \A key : Answered(key) = Absent
    BY <2>1 DEF Answered, Lookup, IndexOf, Named
  <2> QED
    BY <2>1, <2>2 DEF Map!Init
<1>2. IInv /\ [Next]_vars => [Map!Next]_<<bound, kept>>
  BY StepsOfTheMap
<1> QED
  BY <1>1, <1>2, Invariance, PTL DEF Spec, ImplementsWriteOnce, Map!Spec, bound

=============================================================================
