---------------------------- MODULE RestartProofs ---------------------------
(***************************************************************************)
(* The parts that survive kills and power losses.  First the store of a    *)
(* journal, by itself.  Then the parts composed as they are checked: every *)
(* behaviour of the composition is one of each part, so what was proved of *)
(* a part holds of it, for every value of the constants and with all       *)
(* parts' state in one specification.                                      *)
(***************************************************************************)
EXTENDS MCRestart, TLAPS, SequenceTheorems

(***************************************************************************)
(* The journal, whose state is that of the composition itself: proofs for  *)
(* every set of processes, every length of the log and every number of     *)
(* kills and power losses.  The invariants the run checks are not          *)
(* inductive: they need what the holder of the lock knows at each stage of *)
(* its append, how far a head that a power loss may keep can be from the   *)
(* visible one, and what a reader without the lock may rely on while no    *)
(* lock file exists.                                                       *)
(***************************************************************************)

Heads == Records \cup {<<>>}

Pcs == {"idle", "waiting"} \cup Writing \cup Reading

LocalStates == [pc : Pcs, record : Heads, value : Heads \cup {Refused}]

Shape ==
    /\ ctl \in [Processes -> LocalStates]
    /\ safe \in [snapshots : SUBSET Records, heads : SUBSET Heads, lockFile : BOOLEAN]

\* A power loss keeps the visible head or the one before it.
HeadsClose ==
    /\ head \in safe.heads
    /\ \A h \in safe.heads : h = head \/ (head # <<>> /\ h = Front(head))

\* What an append has established when it stands at p's stage.
WriterKnows(p) ==
    /\ ctl[p].pc \in {"waiting"} \cup Writing => ctl[p].record \in Records /\ lockFile
    /\ At(p, "linked") => ctl[p].record \in snapshots /\ IsSuccessor(ctl[p].record)
    /\ At(p, "synced") =>
         \/ ctl[p].record = head
         \/ /\ ctl[p].record \in safe.snapshots /\ IsSuccessor(ctl[p].record)
            /\ safe.heads = {head}
    /\ At(p, "renamed") => ctl[p].record = head

\* While there is no lock file nobody writes: what p saw is still so.
ReaderKnows(p) ==
    lockFile = FALSE =>
        /\ At(p, "scan") => head = <<>>
        /\ At(p, "recheck") => ctl[p].value = Latest

IInv ==
    /\ TypeOK /\ Shape
    /\ HeadsClose /\ HeadBacked /\ KeptSurvives
    /\ \A p \in Processes : WriterKnows(p) /\ ReaderKnows(p)

-----------------------------------------------------------------------------
(***************************************************************************)
(* Records and their predecessors.                                         *)
(***************************************************************************)

\* A record is a non-empty sequence of choices.
LEMMA RecordsAreSequences ==
    /\ Records \subseteq Seq(Branches)
    /\ \A r \in Records : Len(r) \in 1..MaxRecords /\ r # <<>>
    /\ <<>> \in Seq(Branches) /\ Len(<<>>) = 0 /\ <<>> \notin Records
<1>1. \A r \in Records : r \in Seq(Branches) /\ Len(r) \in 1..MaxRecords
  BY StoreAssumption, SeqDef DEF Records
<1>2. <<>> \in Seq(Branches) /\ Len(<<>>) = 0
  BY EmptySeq
<1> QED
  BY <1>1, <1>2

\* What a record's predecessor is: the same choices but the last.
LEMMA Predecessor ==
    ASSUME NEW r \in Records
    PROVE  /\ Front(r) \in Heads /\ Len(Front(r)) = Len(r) - 1
           /\ \A n \in 1..Len(Front(r)) : SubSeq(Front(r), 1, n) = SubSeq(r, 1, n)
           /\ Front(r) # r
           /\ \E x \in Branches : r = Append(Front(r), x)
<1>1. r \in Seq(Branches) /\ Len(r) \in 1..MaxRecords /\ r # <<>> /\ MaxRecords \in Nat
  BY RecordsAreSequences, StoreAssumption
<1>2. PICK s \in Seq(Branches), x \in Branches : r = Append(s, x)
  BY <1>1, SequenceEmptyOrAppend
<1>3. Len(s) \in Nat /\ Len(r) = Len(s) + 1 /\ r = s \o <<x>> /\ <<x>> \in Seq(Branches)
  BY <1>2, LenProperties, AppendProperties, AppendIsConcat
<1>4. s \in [1..Len(s) -> Branches]
  BY <1>2, LenProperties
<1>5. s \in Heads
  <2>1. CASE Len(s) = 0
    BY <1>2, <1>3, <2>1, EmptySeq DEF Heads
  <2>2. CASE Len(s) # 0
    <3>1. Len(s) \in 1..MaxRecords
      BY <1>1, <1>3, <2>2
    <3> QED
      BY <1>4, <3>1 DEF Heads, Records
  <2> QED
    BY <2>1, <2>2
<1>6. Front(r) = s
  <2>1. CASE Len(s) = 0
    BY <1>2, <1>3, <2>1, EmptySeq, SubSeqEmpty DEF Front
  <2>2. CASE Len(s) # 0
    BY <1>2, <1>3, <2>2, SubSeqOfConcat1, SubSeqFull DEF Front
  <2> QED
    BY <2>1, <2>2
<1>7. \A n \in 1..Len(s) : SubSeq(s, 1, n) = SubSeq(r, 1, n)
  BY <1>2, <1>3, SubSeqOfConcat1
<1> QED
  BY <1>2, <1>3, <1>5, <1>6, <1>7

\* A record's prefixes are its predecessor's and the record itself.
LEMMA PrefixesOfRecord ==
    ASSUME NEW r \in Records, NEW S, r \in S,
           \A n \in 1..Len(Front(r)) : SubSeq(Front(r), 1, n) \in S
    PROVE  \A n \in 1..Len(r) : SubSeq(r, 1, n) \in S
<1> SUFFICES ASSUME NEW n \in 1..Len(r) PROVE SubSeq(r, 1, n) \in S
  OBVIOUS
<1>1. Len(r) \in Nat /\ Len(Front(r)) = Len(r) - 1 /\ SubSeq(r, 1, Len(r)) = r
  BY RecordsAreSequences, Predecessor, SubSeqFull, LenProperties
<1>2. CASE n = Len(r)
  BY <1>1, <1>2
<1>3. CASE n # Len(r)
  <2>1. n \in 1..Len(Front(r))
    BY <1>1, <1>3
  <2> QED
    BY <2>1, Predecessor
<1> QED
  BY <1>2, <1>3

\* Every record extends itself, and what a predecessor extends its successor does.
LEMMA PrefixFacts ==
    /\ \A k \in Heads : IsPrefix(k, k) /\ IsPrefix(<<>>, k)
    /\ \A k \in Heads, r \in Records :
         /\ IsPrefix(k, Front(r)) => IsPrefix(k, r)
         /\ IsPrefix(k, Front(r)) => Len(k) < Len(r)
<1>1. \A k \in Heads : k \in Seq(Branches) /\ Len(k) \in Nat
  BY RecordsAreSequences, LenProperties DEF Heads
<1>2. \A k \in Heads : IsPrefix(k, k) /\ IsPrefix(<<>>, k)
  BY <1>1, EmptySeq, SubSeqEmpty DEF IsPrefix
<1>3. ASSUME NEW k \in Heads, NEW r \in Records, IsPrefix(k, Front(r))
      PROVE  IsPrefix(k, r) /\ Len(k) < Len(r)
  <2>1. Len(Front(r)) = Len(r) - 1 /\ Len(r) \in Nat /\ Len(k) \in Nat
    BY <1>1, Predecessor, RecordsAreSequences, LenProperties
  <2>2. Len(k) <= Len(r) - 1 /\ SubSeq(k, 1, Len(k)) = SubSeq(Front(r), 1, Len(k))
    BY <1>3, <2>1 DEF IsPrefix
  <2>3. SubSeq(Front(r), 1, Len(k)) = SubSeq(r, 1, Len(k))
    <3>1. CASE Len(k) = 0
      BY <3>1, SubSeqEmpty
    <3>2. CASE Len(k) # 0
      BY <2>1, <2>2, <3>2, Predecessor
    <3> QED
      BY <3>1, <3>2
  <2> QED
    BY <2>1, <2>2, <2>3 DEF IsPrefix
<1> QED
  BY <1>2, <1>3

-----------------------------------------------------------------------------
(***************************************************************************)
(* The inductive invariant.                                                *)
(***************************************************************************)
LEMMA InitHolds == Init => IInv
<1> SUFFICES ASSUME Init PROVE IInv
  OBVIOUS
<1>0. Idle \in LocalStates
  BY DEF Idle, LocalStates, Pcs, Heads
<1>1. TypeOK /\ Shape
  <2>1. Shape
    BY <1>0 DEF Init, Shape, Heads
  <2>2. \A p \in Processes : ctl[p].pc = "idle" /\ p # Nobody
    BY StoreAssumption DEF Init, Idle
  <2>3. snapshots = {} /\ safe.snapshots = {} /\ safe.heads = {<<>>} /\ lockFile = FALSE
    BY DEF Init
  <2>4. stops \in 0..MaxStops /\ losses \in 0..MaxLosses
    BY StoreAssumption DEF Init
  <2>5. head = <<>> /\ kept = <<>> /\ writer = Nobody
    BY DEF Init
  <2> QED
    BY <2>1, <2>2, <2>3, <2>4, <2>5 DEF TypeOK, Writing
<1>2. HeadsClose /\ HeadBacked
  BY EmptySeq DEF Init, HeadsClose, HeadBacked
<1>3. KeptSurvives
  BY PrefixFacts DEF Init, KeptSurvives, Heads
<1>4. ASSUME NEW p \in Processes PROVE WriterKnows(p) /\ ReaderKnows(p)
  BY <1>4 DEF Init, WriterKnows, ReaderKnows, At, Idle, Writing
<1> QED
  BY <1>1, <1>2, <1>3, <1>4 DEF IInv

\* Where a process stands after a step that moves p to another stage.
LEMMA OthersStay ==
    ASSUME Shape, NEW p \in Processes, NEW l \in LocalStates,
           ctl' = [ctl EXCEPT ![p] = l]
    PROVE  /\ ctl' \in [Processes -> LocalStates]
           /\ ctl'[p] = l
           /\ \A q \in Processes \ {p} : ctl'[q] = ctl[q]
  BY DEF Shape

\* A step that leaves the files alone keeps what is said of them.
LEMMA FilesStay ==
    ASSUME IInv, UNCHANGED <<head, safe, kept>>
    PROVE  HeadsClose' /\ HeadBacked' /\ KeptSurvives'
  BY DEF IInv, HeadsClose, HeadBacked, KeptSurvives

\* Whoever does not move keeps what it knows while the files stay.
LEMMA OthersKnow ==
    ASSUME IInv, UNCHANGED <<head, safe, snapshots>>, NEW q \in Processes, ctl'[q] = ctl[q],
           lockFile' = lockFile \/ lockFile'
    PROVE  WriterKnows(q)' /\ ReaderKnows(q)'
<1>1. WriterKnows(q) /\ ReaderKnows(q) /\ lockFile \in BOOLEAN
  BY DEF IInv, TypeOK
<1>2. WriterKnows(q)'
  BY <1>1 DEF WriterKnows, At, IsSuccessor
<1>3. ReaderKnows(q)'
  BY <1>1 DEF ReaderKnows, At, Latest, Orphans
<1> QED
  BY <1>2, <1>3

\* A process that moves to another stage keeps its record and its value.
LEMMA GotoMoves ==
    ASSUME Shape, NEW p \in Processes, NEW pc \in Pcs, Goto(p, pc)
    PROVE  /\ ctl' \in [Processes -> LocalStates]
           /\ ctl'[p].pc = pc /\ ctl'[p].record = ctl[p].record /\ ctl'[p].value = ctl[p].value
           /\ \A q \in Processes \ {p} : ctl'[q] = ctl[q]
<1>1. [ctl[p] EXCEPT !.pc = pc] \in LocalStates
  BY DEF Shape, LocalStates
<1>2. ctl' = [ctl EXCEPT ![p] = [ctl[p] EXCEPT !.pc = pc]]
  BY DEF Goto, Shape
<1>3. ctl'[p] = [ctl[p] EXCEPT !.pc = pc]
  BY <1>1, <1>2, OthersStay
<1> QED
  BY <1>1, <1>2, <1>3, OthersStay DEF Shape, LocalStates

\* A process that ends what it did is idle again.
LEMMA IdleMoves ==
    ASSUME Shape, NEW p \in Processes, ctl' = [ctl EXCEPT ![p] = Idle]
    PROVE  /\ ctl' \in [Processes -> LocalStates]
           /\ ctl'[p].pc = "idle"
           /\ \A q \in Processes \ {p} : ctl'[q] = ctl[q]
<1>1. Idle \in LocalStates /\ Idle.pc = "idle"
  BY DEF Idle, LocalStates, Pcs, Heads
<1> QED
  BY <1>1, OthersStay

\* What a step that leaves the files alone owes to the invariant: p stands at a
\* stage that the lock agrees with, and knows there what that stage needs.
Quiet(p) ==
    /\ UNCHANGED <<snapshots, head, safe, kept, losses>>
    /\ lockFile' = lockFile \/ lockFile' = TRUE
    /\ stops' \in 0..MaxStops
    /\ ctl' \in [Processes -> LocalStates]
    /\ \A q \in Processes \ {p} : ctl'[q] = ctl[q] /\ (writer' = q <=> writer = q)
    /\ writer' \in Processes \cup {Nobody}
    /\ ctl'[p].pc \in Writing <=> writer' = p
    /\ ctl'[p].pc \in Writing => lockFile'
    /\ WriterKnows(p)' /\ ReaderKnows(p)'

\* A step that leaves the files alone preserves the invariant.
LEMMA QuietPreserves ==
    ASSUME IInv, NEW p \in Processes, Quiet(p)
    PROVE  IInv'
<1>1. Shape' /\ HeadsClose' /\ HeadBacked' /\ KeptSurvives'
  BY FilesStay DEF IInv, Shape, Quiet
<1>2. TypeOK'
  <2>1. ASSUME NEW q \in Processes
        PROVE  /\ ctl'[q].pc \in Pcs
               /\ ctl'[q].pc \in Writing <=> writer' = q
               /\ ctl'[q].pc \in Writing => lockFile'
    <3>1. ctl'[q].pc \in Pcs
      BY DEF Quiet, LocalStates
    <3>2. CASE q = p
      BY <3>1, <3>2 DEF Quiet
    <3>3. CASE q # p
      BY <3>1, <3>3 DEF Quiet, IInv, TypeOK
    <3> QED
      BY <3>2, <3>3
  <2> QED
    BY <2>1 DEF Quiet, IInv, TypeOK, Pcs
<1>3. \A q \in Processes \ {p} : WriterKnows(q)' /\ ReaderKnows(q)'
  BY OthersKnow DEF Quiet
<1> QED
  BY <1>1, <1>2, <1>3 DEF Quiet, IInv

\* The stages of an append that leave every file as it is.
LEMMA QuietAppendSteps ==
    ASSUME IInv, NEW p \in Processes,
           \/ \E record \in Records : CreateLock(p, record)
           \/ Lock(p) \/ AcceptCommitted(p) \/ Refuse(p) \/ Stop(p)
    PROVE  IInv'
<1> USE DEF At, Uncounted
<1>1. /\ Shape /\ WriterKnows(p) /\ p # Nobody
      /\ ctl[p].pc \in Writing <=> writer = p
      /\ ctl[p].pc \in Writing => lockFile
      /\ stops \in 0..MaxStops /\ MaxStops \in Nat /\ lockFile \in BOOLEAN
      /\ writer \in Processes \cup {Nobody}
  BY StoreAssumption DEF IInv, TypeOK
<1> SUFFICES Quiet(p)
  BY QuietPreserves
<1>2. ASSUME NEW record \in Records, CreateLock(p, record) PROVE Quiet(p)
  <2> DEFINE l == [Idle EXCEPT !.pc = "waiting", !.record = record]
  <2>1. l \in LocalStates /\ l.pc = "waiting" /\ l.record = record
    BY DEF Idle, LocalStates, Pcs, Heads
  <2>2. /\ ctl' \in [Processes -> LocalStates] /\ ctl'[p] = l
        /\ \A q \in Processes \ {p} : ctl'[q] = ctl[q]
    BY <1>1, <1>2, <2>1, OthersStay DEF CreateLock
  <2>3. WriterKnows(p)' /\ ReaderKnows(p)'
    BY <1>2, <2>1, <2>2 DEF CreateLock, WriterKnows, ReaderKnows
  <2> QED
    BY <1>1, <1>2, <2>1, <2>2, <2>3 DEF CreateLock, Quiet, Writing
<1>3. CASE Lock(p)
  <2>1. /\ ctl' \in [Processes -> LocalStates]
        /\ ctl'[p].pc = "locked" /\ ctl'[p].record = ctl[p].record
        /\ \A q \in Processes \ {p} : ctl'[q] = ctl[q]
    BY <1>1, <1>3, GotoMoves DEF Lock, Pcs, Writing
  <2>2. WriterKnows(p)' /\ ReaderKnows(p)'
    BY <1>1, <1>3, <2>1 DEF Lock, WriterKnows, ReaderKnows, Writing
  <2>3. lockFile /\ writer = Nobody /\ writer' = p
    BY <1>1, <1>3 DEF Lock, WriterKnows
  <2>4. \A q \in Processes \ {p} : writer' = q <=> writer = q
    BY <2>3, StoreAssumption
  <2> QED
    BY <1>1, <1>3, <2>1, <2>2, <2>3, <2>4 DEF Lock, Quiet, Writing
<1>4. CASE AcceptCommitted(p)
  <2>1. /\ ctl' \in [Processes -> LocalStates]
        /\ ctl'[p].pc = "synced" /\ ctl'[p].record = ctl[p].record
        /\ \A q \in Processes \ {p} : ctl'[q] = ctl[q]
    BY <1>1, <1>4, GotoMoves DEF AcceptCommitted, Pcs, Writing
  <2>2. WriterKnows(p)' /\ ReaderKnows(p)'
    BY <1>1, <1>4, <2>1 DEF AcceptCommitted, WriterKnows, ReaderKnows, Writing
  <2> QED
    BY <1>1, <1>4, <2>1, <2>2 DEF AcceptCommitted, Quiet, Writing
<1>5. CASE Refuse(p) \/ Stop(p)
  <2>1. /\ writer = p /\ writer' = Nobody /\ ctl' = [ctl EXCEPT ![p] = Idle]
        /\ UNCHANGED <<snapshots, head, safe, kept, losses, lockFile>>
        /\ stops' \in 0..MaxStops
    BY <1>1, <1>5 DEF Refuse, Stop, Release, Writing
  <2>2. /\ ctl' \in [Processes -> LocalStates] /\ ctl'[p].pc = "idle"
        /\ \A q \in Processes \ {p} : ctl'[q] = ctl[q]
    BY <1>1, <2>1, IdleMoves
  <2>3. WriterKnows(p)' /\ ReaderKnows(p)'
    BY <2>2 DEF WriterKnows, ReaderKnows, Writing
  <2> QED
    BY <1>1, <2>1, <2>2, <2>3, StoreAssumption DEF Quiet, Writing
<1> QED
  BY <1>2, <1>3, <1>4, <1>5

\* A read leaves every file as it is.
LEMMA ReadSteps ==
    ASSUME IInv, NEW p \in Processes, ReadStep(p)
    PROVE  IInv'
<1> USE DEF At, Uncounted
<1>1. /\ Shape /\ ReaderKnows(p) /\ ctl[p] \in LocalStates
      /\ ctl[p].pc \in Writing <=> writer = p
      /\ snapshots \subseteq Records /\ head \in Heads
      /\ stops \in 0..MaxStops /\ writer \in Processes \cup {Nobody}
  BY DEF IInv, TypeOK, Shape, Heads
<1>2. /\ UNCHANGED <<snapshots, head, safe, kept, stops, losses, lockFile, writer>>
      /\ ctl[p].pc \notin Writing /\ Latest' = Latest
  BY DEF ReadStep, OpenReader, PeekHead, ScanDirectory, Recheck, ReadShared, CloseReader,
         Writing, Latest, Orphans
<1>3. SUFFICES /\ ctl' \in [Processes -> LocalStates]
               /\ \A q \in Processes \ {p} : ctl'[q] = ctl[q]
               /\ ctl'[p].pc \in Reading \cup {"idle"}
               /\ ReaderKnows(p)'
  <2>1. ctl'[p].pc \notin {"waiting"} \cup Writing
    BY <1>3 DEF Reading, Writing
  <2>2. WriterKnows(p)'
    BY <2>1 DEF WriterKnows, Writing
  <2>3. Quiet(p)
    BY <1>1, <1>2, <1>3, <2>1, <2>2 DEF Quiet
  <2> QED
    BY <2>3, QuietPreserves
<1>4. CASE OpenReader(p) \/ Recheck(p)
  <2>1. PICK pc \in {"shared", "peek", "read"} : Goto(p, pc)
    BY <1>4 DEF OpenReader, Recheck
  <2>2. /\ ctl' \in [Processes -> LocalStates] /\ ctl'[p].pc = pc
        /\ \A q \in Processes \ {p} : ctl'[q] = ctl[q]
    BY <1>1, <2>1, GotoMoves DEF Pcs, Reading
  <2> QED
    BY <2>2 DEF ReaderKnows, Reading
<1>5. CASE PeekHead(p)
  <2> DEFINE l == [ctl[p] EXCEPT !.pc = IF head = <<>> THEN "scan" ELSE "recheck",
                                 !.value = head]
  <2>1. /\ l \in LocalStates /\ l.value = head
        /\ l.pc = IF head = <<>> THEN "scan" ELSE "recheck"
    BY <1>1 DEF LocalStates, Pcs, Reading
  <2>2. ctl' = [ctl EXCEPT ![p] = l]
    BY <1>1, <1>5 DEF PeekHead, Shape
  <2>3. /\ ctl' \in [Processes -> LocalStates] /\ ctl'[p] = l
        /\ \A q \in Processes \ {p} : ctl'[q] = ctl[q]
    BY <1>1, <2>1, <2>2, OthersStay
  <2>4. ReaderKnows(p)'
    BY <1>2, <2>1, <2>3 DEF ReaderKnows, Latest, Orphans
  <2> QED
    BY <2>1, <2>3, <2>4 DEF Reading
<1>6. CASE ScanDirectory(p)
  <2> DEFINE l == [ctl[p] EXCEPT !.pc = "recheck",
                                 !.value = IF snapshots # {} THEN Refused ELSE <<>>]
  <2>1. /\ l \in LocalStates /\ l.pc = "recheck"
        /\ l.value = IF snapshots # {} THEN Refused ELSE <<>>
    BY <1>1 DEF LocalStates, Pcs, Reading, Heads
  <2>2. ctl' = [ctl EXCEPT ![p] = l]
    BY <1>1, <1>6 DEF ScanDirectory, Shape
  <2>3. /\ ctl' \in [Processes -> LocalStates] /\ ctl'[p] = l
        /\ \A q \in Processes \ {p} : ctl'[q] = ctl[q]
    BY <1>1, <2>1, <2>2, OthersStay
  <2>4. head = <<>> => Latest = l.value
    BY <1>1, <2>1, RecordsAreSequences DEF Latest, Orphans
  <2>5. ReaderKnows(p)'
    BY <1>1, <1>2, <1>6, <2>1, <2>3, <2>4 DEF ScanDirectory, ReaderKnows
  <2> QED
    BY <2>1, <2>3, <2>5 DEF Reading
<1>7. CASE ReadShared(p)
  <2> DEFINE l == [ctl[p] EXCEPT !.pc = "read", !.value = Latest]
  <2>1. l \in LocalStates /\ l.pc = "read"
    BY <1>1 DEF LocalStates, Pcs, Reading, Latest
  <2>2. ctl' = [ctl EXCEPT ![p] = l]
    BY <1>1, <1>7 DEF ReadShared, Shape
  <2>3. /\ ctl' \in [Processes -> LocalStates] /\ ctl'[p] = l
        /\ \A q \in Processes \ {p} : ctl'[q] = ctl[q]
    BY <1>1, <2>1, <2>2, OthersStay
  <2> QED
    BY <2>1, <2>3 DEF Reading, ReaderKnows
<1>8. CASE CloseReader(p)
  <2>1. /\ ctl' \in [Processes -> LocalStates] /\ ctl'[p].pc = "idle"
        /\ \A q \in Processes \ {p} : ctl'[q] = ctl[q]
    BY <1>1, <1>8, IdleMoves DEF CloseReader
  <2> QED
    BY <2>1 DEF ReaderKnows
<1> QED
  BY <1>4, <1>5, <1>6, <1>7, <1>8 DEF ReadStep

\* Linking a snapshot changes what the directory lists, not what is safe.
LEMMA LinkStep ==
    ASSUME IInv, NEW p \in Processes, LinkSnapshot(p)
    PROVE  IInv'
<1> USE DEF At, Uncounted
<1>1. /\ Shape /\ WriterKnows(p) /\ writer = p /\ lockFile
      /\ ctl[p].record \in Records
  BY DEF IInv, TypeOK, LinkSnapshot, Writing, WriterKnows
<1>2. /\ snapshots' = snapshots \cup {ctl[p].record}
      /\ UNCHANGED <<head, lockFile, safe, writer, kept, stops, losses>>
      /\ IsSuccessor(ctl[p].record)
  BY DEF LinkSnapshot
<1>3. /\ ctl' \in [Processes -> LocalStates]
      /\ ctl'[p].pc = "linked" /\ ctl'[p].record = ctl[p].record
      /\ \A q \in Processes \ {p} : ctl'[q] = ctl[q]
  BY <1>1, GotoMoves DEF LinkSnapshot, Pcs, Writing
<1>4. Shape' /\ HeadsClose' /\ HeadBacked' /\ KeptSurvives'
  BY <1>2, <1>3, FilesStay DEF IInv, Shape
<1>5. TypeOK'
  <2>1. ASSUME NEW q \in Processes
        PROVE  ctl'[q].pc \in Pcs /\ (ctl'[q].pc \in Writing <=> writer' = q)
    <3>1. ctl'[q].pc \in Pcs
      BY <1>3 DEF LocalStates
    <3> QED
      BY <1>1, <1>2, <1>3, <3>1 DEF IInv, TypeOK, Writing
  <2> QED
    BY <1>1, <1>2, <2>1 DEF IInv, TypeOK, Pcs
<1>6. ASSUME NEW q \in Processes PROVE WriterKnows(q)'
  <2>1. CASE q = p
    BY <1>1, <1>2, <1>3, <2>1 DEF WriterKnows, IsSuccessor
  <2>2. CASE q # p
    BY <1>2, <1>3, <2>2 DEF IInv, WriterKnows, IsSuccessor
  <2> QED
    BY <2>1, <2>2
<1>7. \A q \in Processes : ReaderKnows(q)'
  BY <1>1, <1>2 DEF ReaderKnows
<1> QED
  BY <1>4, <1>5, <1>6, <1>7 DEF IInv

\* A synchronization of the directory makes everything visible safe.
LEMMA SyncedFiles ==
    ASSUME IInv, SyncDirectory, UNCHANGED <<snapshots, head, lockFile>>,
           kept' = kept \/ kept' = head
    PROVE  /\ safe' = [snapshots |-> snapshots, heads |-> {head}, lockFile |-> lockFile]
           /\ safe' \in [snapshots : SUBSET Records, heads : SUBSET Heads, lockFile : BOOLEAN]
           /\ HeadsClose' /\ HeadBacked' /\ KeptSurvives'
<1>1. safe' = [snapshots |-> snapshots, heads |-> {head}, lockFile |-> lockFile]
  BY DEF SyncDirectory
<1>2. safe' \in [snapshots : SUBSET Records, heads : SUBSET Heads, lockFile : BOOLEAN]
  BY <1>1 DEF IInv, TypeOK, Heads
<1>3. safe'.snapshots = snapshots /\ safe'.heads = {head} /\ safe.snapshots \subseteq snapshots
  BY <1>1 DEF IInv, TypeOK
<1>4. HeadsClose' /\ HeadBacked'
  BY <1>3 DEF IInv, HeadsClose, HeadBacked
<1>5. IsPrefix(kept', head)
  BY PrefixFacts DEF IInv, KeptSurvives, TypeOK, Heads
<1> QED
  BY <1>1, <1>2, <1>3, <1>4, <1>5 DEF KeptSurvives

\* The snapshot is safe before any head names it.
LEMMA SyncSnapshotStep ==
    ASSUME IInv, NEW p \in Processes, SyncSnapshot(p)
    PROVE  IInv'
<1> USE DEF At, Uncounted
<1>1. /\ Shape /\ WriterKnows(p) /\ writer = p /\ lockFile
      /\ ctl[p].record \in Records
      /\ ctl[p].record \in snapshots /\ IsSuccessor(ctl[p].record)
  BY DEF IInv, TypeOK, SyncSnapshot, Writing, WriterKnows
<1>2. SyncDirectory /\ UNCHANGED <<snapshots, head, lockFile, writer, kept, stops, losses>>
  BY DEF SyncSnapshot
<1>3. /\ ctl' \in [Processes -> LocalStates]
      /\ ctl'[p].pc = "synced" /\ ctl'[p].record = ctl[p].record
      /\ \A q \in Processes \ {p} : ctl'[q] = ctl[q]
  BY <1>1, GotoMoves DEF SyncSnapshot, Pcs, Writing
<1>4. /\ safe'.snapshots = snapshots /\ safe'.heads = {head}
      /\ Shape' /\ HeadsClose' /\ HeadBacked' /\ KeptSurvives'
  BY <1>2, <1>3, SyncedFiles DEF Shape
<1>5. TypeOK'
  <2>1. ASSUME NEW q \in Processes
        PROVE  ctl'[q].pc \in Pcs /\ (ctl'[q].pc \in Writing <=> writer' = q)
    <3>1. ctl'[q].pc \in Pcs
      BY <1>3 DEF LocalStates
    <3> QED
      BY <1>1, <1>2, <1>3, <3>1 DEF IInv, TypeOK, Writing
  <2> QED
    BY <1>1, <1>2, <1>4, <2>1 DEF IInv, TypeOK, Pcs
<1>6. ASSUME NEW q \in Processes PROVE WriterKnows(q)'
  <2>1. CASE q = p
    BY <1>1, <1>2, <1>3, <1>4, <2>1 DEF WriterKnows, IsSuccessor
  <2>2. CASE q # p
    <3>1. ctl'[q].pc \notin Writing
      BY <1>1, <1>3, <2>2 DEF IInv, TypeOK
    <3> QED
      BY <1>2, <1>3, <2>2, <3>1 DEF IInv, WriterKnows, Writing
  <2> QED
    BY <2>1, <2>2
<1>7. \A q \in Processes : ReaderKnows(q)'
  BY <1>1, <1>2 DEF ReaderKnows
<1> QED
  BY <1>4, <1>5, <1>6, <1>7 DEF IInv

\* What RenameHead does: the head is the record it was, or its successor.
LEMMA RenamedHead ==
    ASSUME IInv, NEW p \in Processes, RenameHead(p)
    PROVE  /\ head' \in Records /\ head' = ctl[p].record
           /\ \/ head' = head
              \/ /\ Front(head') = head /\ safe.heads = {head}
                 /\ head' \in safe.snapshots
<1>1. WriterKnows(p) /\ head' = ctl[p].record /\ At(p, "synced")
  BY DEF IInv, RenameHead
<1> QED
  BY <1>1 DEF WriterKnows, IsSuccessor, At, Writing

\* The commit point: the new head replaces the old one.
LEMMA RenameStep ==
    ASSUME IInv, NEW p \in Processes, RenameHead(p)
    PROVE  IInv'
<1> USE DEF At, Uncounted
<1>1. /\ Shape /\ writer = p /\ lockFile /\ head \in Heads /\ kept \in Heads
      /\ ctl[p].record \in Records
  BY DEF IInv, TypeOK, RenameHead, Writing, WriterKnows, Heads
<1>2. UNCHANGED <<snapshots, lockFile, writer, kept, stops, losses>>
  BY DEF RenameHead
<1>3. /\ ctl' \in [Processes -> LocalStates]
      /\ ctl'[p].pc = "renamed" /\ ctl'[p].record = ctl[p].record
      /\ \A q \in Processes \ {p} : ctl'[q] = ctl[q]
  BY <1>1, GotoMoves DEF RenameHead, Pcs, Writing
<1>4. /\ safe'.snapshots = safe.snapshots /\ safe'.heads = safe.heads \cup {head'}
      /\ Shape'
  BY <1>1, <1>3, RenamedHead DEF RenameHead, Shape, Heads
<1>5. HeadsClose'
  BY <1>4, RenamedHead, RecordsAreSequences DEF HeadsClose, IInv
<1>6. HeadBacked'
  <2>1. CASE head' = head
    BY <1>4, <2>1 DEF IInv, HeadBacked
  <2>2. CASE head' # head
    <3>1. head' \in Records /\ Front(head') = head /\ head' \in safe.snapshots
      BY <2>2, RenamedHead
    <3>2. \A n \in 1..Len(head') : SubSeq(head', 1, n) \in safe.snapshots
      BY <3>1, PrefixesOfRecord DEF IInv, HeadBacked
    <3> QED
      BY <1>4, <3>2 DEF IInv, HeadBacked
  <2> QED
    BY <2>1, <2>2
<1>7. KeptSurvives'
  <2>1. IsPrefix(kept, head')
    <3>1. IsPrefix(kept, head)
      BY DEF IInv, KeptSurvives
    <3> QED
      BY <1>1, <3>1, RenamedHead, PrefixFacts
  <2> QED
    BY <1>2, <1>4, <2>1 DEF IInv, KeptSurvives
<1>8. TypeOK'
  <2>1. ASSUME NEW q \in Processes
        PROVE  ctl'[q].pc \in Pcs /\ (ctl'[q].pc \in Writing <=> writer' = q)
    <3>1. ctl'[q].pc \in Pcs
      BY <1>3 DEF LocalStates
    <3> QED
      BY <1>1, <1>2, <1>3, <3>1 DEF IInv, TypeOK, Writing
  <2> QED
    BY <1>1, <1>2, <1>4, <2>1, RenamedHead DEF IInv, TypeOK, Pcs, Shape, Heads
<1>9. ASSUME NEW q \in Processes PROVE WriterKnows(q)'
  <2>1. CASE q = p
    BY <1>1, <1>2, <1>3, <2>1, RenamedHead DEF WriterKnows
  <2>2. CASE q # p
    <3>1. ctl'[q].pc \notin Writing
      BY <1>1, <1>3, <2>2 DEF IInv, TypeOK
    <3> QED
      BY <1>2, <1>3, <2>2, <3>1 DEF IInv, WriterKnows, Writing
  <2> QED
    BY <2>1, <2>2
<1>10. \A q \in Processes : ReaderKnows(q)'
  BY <1>1, <1>2 DEF ReaderKnows
<1> QED
  BY <1>4, <1>5, <1>6, <1>7, <1>8, <1>9, <1>10 DEF IInv

\* The acknowledgement comes after the head is safe.
LEMMA SyncHeadStep ==
    ASSUME IInv, NEW p \in Processes, SyncHead(p)
    PROVE  IInv' /\ kept' = head
<1> USE DEF At, Uncounted
<1>1. /\ Shape /\ writer = p /\ lockFile /\ ctl[p].record = head /\ p # Nobody
  BY StoreAssumption DEF IInv, TypeOK, SyncHead, Writing, WriterKnows
<1>2. /\ SyncDirectory /\ UNCHANGED <<snapshots, head, lockFile, stops, losses>>
      /\ kept' = head /\ writer' = Nobody
  BY <1>1 DEF SyncHead, Release
<1>3. /\ ctl' \in [Processes -> LocalStates] /\ ctl'[p].pc = "idle"
      /\ \A q \in Processes \ {p} : ctl'[q] = ctl[q]
  BY <1>1, IdleMoves DEF SyncHead, Release
<1>4. /\ safe'.snapshots = snapshots /\ safe'.heads = {head}
      /\ Shape' /\ HeadsClose' /\ HeadBacked' /\ KeptSurvives'
  BY <1>2, <1>3, SyncedFiles DEF Shape
<1>5. \A q \in Processes : ctl'[q].pc \in Pcs \ Writing
  <2>1. ASSUME NEW q \in Processes PROVE ctl'[q].pc \in Pcs
    BY <1>3, <2>1 DEF LocalStates
  <2> QED
    BY <1>1, <1>3, <2>1 DEF IInv, TypeOK, Writing
<1>6. TypeOK'
  BY <1>2, <1>4, <1>5, StoreAssumption DEF IInv, TypeOK, Pcs
<1>7. ASSUME NEW q \in Processes PROVE WriterKnows(q)'
  <2>1. ctl'[q].pc \notin Writing
    BY <1>5
  <2>2. CASE q = p
    BY <1>3, <2>1, <2>2 DEF WriterKnows, Writing
  <2>3. CASE q # p
    BY <1>2, <1>3, <2>1, <2>3 DEF IInv, WriterKnows, Writing
  <2> QED
    BY <2>2, <2>3
<1>8. \A q \in Processes : ReaderKnows(q)'
  BY <1>1, <1>2 DEF ReaderKnows
<1> QED
  BY <1>2, <1>4, <1>6, <1>7, <1>8 DEF IInv

\* A power loss keeps a head whose snapshots it keeps as well.
LEMMA PowerLossStep ==
    ASSUME IInv, PowerLoss
    PROVE  IInv'
<1>1. /\ snapshots' \subseteq snapshots /\ safe.snapshots \subseteq snapshots'
      /\ head' \in safe.heads /\ lockFile' \in BOOLEAN
      /\ safe' = [snapshots |-> snapshots', heads |-> {head'}, lockFile |-> lockFile']
      /\ writer' = Nobody /\ ctl' = [p \in Processes |-> Idle] /\ UNCHANGED <<kept, stops>>
  BY DEF PowerLoss, IInv, TypeOK, Shape
<1>2. safe'.snapshots = snapshots' /\ safe'.heads = {head'}
  BY <1>1
<1>3. Idle \in LocalStates /\ Idle.pc = "idle"
  BY DEF Idle, LocalStates, Pcs, Heads
<1>4. Shape'
  BY <1>1, <1>3 DEF IInv, Shape, TypeOK
<1>5. HeadsClose'
  BY <1>1, <1>2 DEF HeadsClose
<1>6. HeadBacked' /\ KeptSurvives'
  BY <1>1, <1>2 DEF IInv, HeadBacked, KeptSurvives
<1>7. TypeOK'
  <2>1. losses' \in 0..MaxLosses
    BY StoreAssumption DEF PowerLoss, IInv, TypeOK
  <2>2. \A p \in Processes : ctl'[p].pc = "idle" /\ p # Nobody
    BY <1>1, <1>3, StoreAssumption
  <2>3. head' \in Heads /\ kept' \in Heads /\ snapshots' \subseteq Records
    BY <1>1 DEF IInv, TypeOK, Heads
  <2> QED
    BY <1>1, <1>2, <2>1, <2>2, <2>3 DEF IInv, TypeOK, Writing, Heads
<1>8. \A p \in Processes : WriterKnows(p)' /\ ReaderKnows(p)'
  BY <1>1, <1>3 DEF WriterKnows, ReaderKnows, At, Writing
<1> QED
  BY <1>4, <1>5, <1>6, <1>7, <1>8 DEF IInv

\* Nothing changes.
LEMMA StutterStep == ASSUME IInv, UNCHANGED vars PROVE IInv'
<1>1. TypeOK' /\ Shape'
  BY DEF IInv, vars, TypeOK, Shape
<1>2. HeadsClose' /\ HeadBacked' /\ KeptSurvives'
  BY FilesStay DEF vars
<1>3. \A p \in Processes : WriterKnows(p)' /\ ReaderKnows(p)'
  BY OthersKnow DEF vars
<1> QED
  BY <1>1, <1>2, <1>3 DEF IInv

\* Every step preserves the invariant.
LEMMA StepHolds == IInv /\ [Next]_vars => IInv'
<1> SUFFICES ASSUME IInv, [Next]_vars PROVE IInv'
  OBVIOUS
<1>1. ASSUME NEW p \in Processes, AppendStep(p) PROVE IInv'
  BY <1>1, QuietAppendSteps, LinkStep, SyncSnapshotStep, RenameStep, SyncHeadStep
  DEF AppendStep
<1>2. ASSUME NEW p \in Processes, Stop(p) PROVE IInv'
  BY <1>2, QuietAppendSteps
<1> QED
  BY <1>1, <1>2, ReadSteps, PowerLossStep, StutterStep DEF Next

-----------------------------------------------------------------------------
(***************************************************************************)
(* Results.                                                                *)
(***************************************************************************)

\* The inductive invariant holds in every reachable state.
THEOREM Invariance == Spec => []IInv
  BY InitHolds, StepHolds, PTL DEF Spec

\* Every variable of the store, and every local state, has its type; exactly
\* the holder of the lock stands inside an append.
THEOREM TypeCorrect == Spec => []TypeOK
<1>1. IInv => TypeOK
  BY DEF IInv
<1> QED
  BY <1>1, Invariance, PTL

\* Whichever head survives a power loss, every record it stands on survives
\* with it: load_latest never meets a head that names a missing snapshot.
THEOREM HeadIsBacked == Spec => []HeadBacked
<1>1. IInv => HeadBacked
  BY DEF IInv
<1> QED
  BY <1>1, Invariance, PTL

\* What append acknowledged stays in the log through every later kill, error
\* and power loss.
THEOREM AcknowledgedSurvives == Spec => []KeptSurvives
<1>1. IInv => KeptSurvives
  BY DEF IInv
<1> QED
  BY <1>1, Invariance, PTL

\* A load that never took the lock returns what a locked load would have.
THEOREM UnlockedReadsAreCurrent == Spec => ReadsAreCurrent
<1>1. ASSUME IInv, Next, NEW p \in Processes, ~At(p, "read"), ctl'[p].pc = "read"
      PROVE  ctl'[p].value = Latest
  <2> USE DEF At, Uncounted
  <2>1. /\ Shape /\ ReaderKnows(p) /\ lockFile \in BOOLEAN
        /\ ctl[p] \in LocalStates
    BY <1>1 DEF IInv, TypeOK, Shape
  <2>2. ~PowerLoss
    BY <1>1 DEF PowerLoss, Idle
  <2>3. PICK q \in Processes : AppendStep(q) \/ ReadStep(q) \/ Stop(q)
    BY <1>1, <2>2 DEF Next
  <2>5. CASE ReadStep(p)
    <3>1. CASE Recheck(p)
      <4>1. Goto(p, IF lockFile THEN "shared" ELSE "read") /\ ctl[p].pc = "recheck"
        BY <3>1 DEF Recheck
      <4>2. ~lockFile /\ ctl'[p].value = ctl[p].value
        <5>1. CASE lockFile
          <6>1. Goto(p, "shared")
            BY <4>1, <5>1
          <6>2. ctl'[p].pc = "shared"
            BY <2>1, <6>1, GotoMoves DEF Pcs, Reading
          <6> QED
            BY <1>1, <6>2
        <5>2. CASE ~lockFile
          <6>1. Goto(p, "read")
            BY <4>1, <5>2
          <6> QED
            BY <2>1, <5>2, <6>1, GotoMoves DEF Pcs, Reading
        <5> QED
          BY <5>1, <5>2
      <4> QED
        BY <2>1, <4>1, <4>2 DEF ReaderKnows
    <3>2. CASE ReadShared(p)
      BY <2>1, <3>2 DEF ReadShared, Shape, LocalStates
    <3>3. CASE OpenReader(p)
      <4>1. Goto(p, "shared") \/ Goto(p, "peek")
        BY <3>3 DEF OpenReader
      <4>2. ctl'[p].pc \in {"shared", "peek"}
        BY <2>1, <4>1, GotoMoves DEF Pcs, Reading
      <4> QED
        BY <1>1, <4>2
    <3>4. CASE PeekHead(p) \/ ScanDirectory(p)
      <4>1. ctl'[p].pc \in {"scan", "recheck"}
        BY <2>1, <3>4 DEF PeekHead, ScanDirectory, Shape, LocalStates
      <4> QED
        BY <1>1, <4>1
    <3>5. CASE CloseReader(p)
      <4>1. ctl'[p].pc = "idle"
        BY <2>1, <3>5, IdleMoves DEF CloseReader
      <4> QED
        BY <1>1, <4>1
    <3> QED
      BY <2>5, <3>1, <3>2, <3>3, <3>4, <3>5 DEF ReadStep
  <2>6. CASE q # p
    <3>1. ctl'[p] = ctl[p]
      BY <2>1, <2>3, <2>6
      DEF AppendStep, ReadStep, Stop, Release, Goto, CreateLock, Lock, AcceptCommitted,
          Refuse, LinkSnapshot, SyncSnapshot, RenameHead, SyncHead, OpenReader, PeekHead,
          ScanDirectory, Recheck, ReadShared, CloseReader, Shape
    <3> QED
      BY <1>1, <3>1
  <2>7. CASE AppendStep(p) \/ Stop(p)
    <3>1. ctl'[p].pc \notin Reading
      <4>1. ASSUME NEW record \in Records, CreateLock(p, record)
            PROVE  ctl'[p].pc = "waiting"
        BY <2>1, <4>1 DEF CreateLock, Idle, Shape
      <4>2. CASE \E pc \in Writing : Goto(p, pc)
        BY <2>1, <4>2, GotoMoves DEF Pcs, Writing, Reading
      <4>3. CASE Release(p)
        BY <2>1, <4>3, IdleMoves DEF Release, Reading
      <4> QED
        BY <2>7, <4>1, <4>2, <4>3
        DEF AppendStep, Stop, Lock, AcceptCommitted, Refuse, LinkSnapshot, SyncSnapshot,
            RenameHead, SyncHead, Writing, Reading
    <3> QED
      BY <1>1, <3>1 DEF Reading
  <2> QED
    BY <2>3, <2>5, <2>6, <2>7
<1>2. IInv /\ [Next]_vars =>
        [\A p \in Processes : ~At(p, "read") /\ ctl'[p].pc = "read" => ctl'[p].value = Latest]_vars
  BY <1>1
<1> QED
  BY <1>2, Invariance, PTL DEF Spec, ReadsAreCurrent

\* Every step of the store is a step of the append-only log, or none: the
\* rename commits, the last synchronization acknowledges, and a power loss
\* takes back at most one record that nobody was told of.
LEMMA StepsOfTheLog ==
    ASSUME IInv, [Next]_vars
    PROVE  [Log!Next]_<<head, kept>>
<1>1. ASSUME NEW p \in Processes, RenameHead(p)
      PROVE  Log!Commit \/ UNCHANGED <<head, kept>>
  <2>1. CASE head' = head
    BY <1>1, <2>1 DEF RenameHead
  <2>2. CASE head' # head
    BY <1>1, <2>2, RenamedHead, Predecessor DEF RenameHead, Log!Commit
  <2> QED
    BY <2>1, <2>2
<1>2. ASSUME NEW p \in Processes, SyncHead(p)
      PROVE  Log!Acknowledge
  BY <1>2, SyncHeadStep DEF SyncHead, Log!Acknowledge
<1>3. ASSUME PowerLoss
      PROVE  Log!TakeBack \/ UNCHANGED <<head, kept>>
  <2>1. kept' = kept /\ head' \in safe.heads /\ kept \in Heads /\ head \in Heads
    BY <1>3 DEF PowerLoss, IInv, TypeOK, Heads
  <2>2. CASE head' = head
    BY <2>1, <2>2
  <2>3. CASE head' # head
    <3>1. head \in Records /\ head' = Front(head) /\ IsPrefix(kept, head')
      BY <2>1, <2>3 DEF IInv, HeadsClose, KeptSurvives, Heads
    <3>2. Len(kept) < Len(head)
      BY <2>1, <3>1, PrefixFacts
    <3> QED
      BY <2>1, <3>1, <3>2 DEF Log!TakeBack, Front
  <2> QED
    BY <2>2, <2>3
<1>4. ASSUME NEW p \in Processes, ReadStep(p) \/ Stop(p)
      PROVE  UNCHANGED <<head, kept>>
  BY <1>4 DEF ReadStep, Stop, OpenReader, PeekHead, ScanDirectory, Recheck, ReadShared,
              CloseReader
<1>5. ASSUME NEW p \in Processes, AppendStep(p), ~RenameHead(p), ~SyncHead(p)
      PROVE  UNCHANGED <<head, kept>>
  BY <1>5 DEF AppendStep, CreateLock, Lock, AcceptCommitted, Refuse, LinkSnapshot, SyncSnapshot
<1>6. CASE UNCHANGED vars
  BY <1>6 DEF vars
<1> QED
  BY <1>1, <1>2, <1>3, <1>4, <1>5, <1>6 DEF Next, Log!Next

\* The POSIX store implements an append-only log that keeps what it
\* acknowledged, for any number of writers, readers, kills and power losses.
THEOREM StoreImplementsLog == Spec => ImplementsLog
<1>1. Init => Log!Init
  BY DEF Init, Log!Init
<1>2. IInv /\ [Next]_vars => [Log!Next]_<<head, kept>>
  BY StepsOfTheLog
<1> QED
  BY <1>1, <1>2, Invariance, PTL DEF Spec, ImplementsLog, Log!Spec

-----------------------------------------------------------------------------
(***************************************************************************)
(* The composition.                                                        *)
(***************************************************************************)

\* The evidence store does its own steps, or rests.
LEMMA EvidenceRuns == RestartSpec => Evidence!Spec
<1>1. RestartInit => Evidence!Init
  BY DEF RestartInit
<1>2. [RestartNext]_<<part, vars, evidenceVars, hostVars, effectVars>>
        => [Evidence!Next]_(Evidence!vars)
  BY DEF RestartNext, Rest, evidenceVars, Evidence!vars, Evidence!directory
<1> QED
  BY <1>1, <1>2, PTL DEF RestartSpec, Evidence!Spec

\* So does the host of a run.
LEMMA HostRuns == RestartSpec => Host!HostSpec
<1>1. RestartInit => Host!HostInit
  BY DEF RestartInit
<1>2. [RestartNext]_<<part, vars, evidenceVars, hostVars, effectVars>>
        => [Host!HostNext]_(Host!hostVars)
  BY DEF RestartNext, Rest, hostVars, Host!hostVars, Host!directory
<1> QED
  BY <1>1, <1>2, PTL DEF RestartSpec, Host!HostSpec

\* And an effect attempt.
LEMMA EffectRuns == RestartSpec => Effect!Spec
<1>1. RestartInit => Effect!Init
  BY DEF RestartInit
<1>2. [RestartNext]_<<part, vars, evidenceVars, hostVars, effectVars>>
        => [Effect!Next]_(Effect!vars)
  BY DEF RestartNext, Rest, effectVars, Effect!vars
<1> QED
  BY <1>1, <1>2, PTL DEF RestartSpec, Effect!Spec

-----------------------------------------------------------------------------
\* No power loss leaves an index of the evidence store without its object.
THEOREM IndexesAreBacked == RestartSpec => []IndexBacked
<1>1. Evidence!Spec => []Evidence!IndexBacked
  BY Evidence!IndexIsBacked, RestartAssumption
<1> QED
  BY <1>1, EvidenceRuns, PTL DEF IndexBacked

\* An unlocked reader of the evidence store returns what a locked one would have.
THEOREM UnlockedLoadsHold == RestartSpec => LoadsAreCurrent
<1>1. Evidence!Spec => Evidence!ReadsAreCurrent
  BY Evidence!UnlockedLoadsAreCurrent, RestartAssumption
<1> QED
  BY <1>1, EvidenceRuns, PTL DEF LoadsAreCurrent

\* The evidence store is a write-once map through every kill and power loss.
THEOREM EvidenceIsWriteOnce == RestartSpec => ImplementsWriteOnce
<1>1. Evidence!Spec => Evidence!ImplementsWriteOnce
  BY Evidence!StoreImplementsMap, RestartAssumption
<1> QED
  BY <1>1, EvidenceRuns, PTL DEF ImplementsWriteOnce

\* An admitted run can be resumed from the evidence of its nonce.
THEOREM AdmittedCanBeResumed == RestartSpec => []AdmittedAreRetained
<1>1. Host!HostSpec => []Host!AdmittedAreRetained
  BY Host!RetainedBeforeAdmitted
<1> QED
  BY <1>1, HostRuns, PTL DEF AdmittedAreRetained

\* All artifacts of a run are projected below one root.
THEOREM ArtifactsStayPut == RestartSpec => []Unredirected
<1>1. Host!HostSpec => []Host!Unredirected
  BY Host!RootsAreFixed
<1> QED
  BY <1>1, HostRuns, PTL DEF Unredirected

\* What the effect journal names was retained before it named it.
THEOREM EvidencePrecedesReference == RestartSpec => []BodiesCoverJournal
<1>1. Effect!Spec => []Effect!BodiesCoverJournal
  BY Effect!EvidenceBeforeReference, RestartAssumption
<1> QED
  BY <1>1, EffectRuns, PTL DEF BodiesCoverJournal

\* One controller of an effect attempt, killed and started again as often as
\* may be and whatever becomes of its lease, repeats no physical step and ends
\* with an honest verdict.
THEOREM NothingIsRepeated ==
    ASSUME NEW k, Controllers = {k}
    PROVE  RestartSpec => ImplementsContract
<1>1. Effect!Spec => Effect!ImplementsContract
  BY Effect!ContractKeptAlone, RestartAssumption
<1> QED
  BY <1>1, EffectRuns, PTL DEF ImplementsContract

=============================================================================
