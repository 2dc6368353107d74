------------------------- MODULE CommandHostProofs --------------------------
(***************************************************************************)
(* Proofs about the command around a run, for every number of processes,   *)
(* nonces, transactions and roots and any number of kills and power        *)
(* losses.  The inductive invariant says what each stage of a command has  *)
(* established about the evidence directory and the journals.              *)
(***************************************************************************)
EXTENDS CommandHost, TLAPS

(***************************************************************************)
(* The directory: what the steps of its writers, a synchronization and a   *)
(* power loss do to the files a reader accepts, and to those no power loss *)
(* can take.                                                               *)
(***************************************************************************)

\* A file of one name that no power loss takes or gives a second name.
Settled(file) == file \in safe.files /\ file.name \notin doubled \cup safe.doubled

\* A file is linked under a name nobody has; it is held once that is its only one.
LEMMA LinkFacts ==
    ASSUME DirectoryOK, NEW file, ~Listed(file), LinkFile(file)
    PROVE  /\ DirectoryOK' /\ files' = files \cup {file} /\ safe' = safe
           /\ \A g : Holds(g)' <=> Holds(g)
           /\ \A g : Settled(g) => Settled(g)'
<1>1. /\ files' = files \cup {file} /\ doubled' = doubled \cup {file.name}
      /\ safe' = safe /\ file.name \notin NamesOf(files)
  BY DEF LinkFile, Listed
<1>2. NamesOf(files') = NamesOf(files) \cup {file.name}
  BY <1>1 DEF NamesOf
<1>3. \A g \in files : g.name # file.name
  BY <1>1 DEF NamesOf
<1>4. DirectoryOK'
  BY <1>1, <1>2, <1>3 DEF DirectoryOK
<1>5. ASSUME NEW g PROVE Holds(g)' <=> Holds(g)
  BY <1>1, <1>2, <1>3 DEF Holds, Readable
<1>6. ASSUME NEW g, Settled(g) PROVE Settled(g)'
  BY <1>1, <1>3, <1>6 DEF Settled, DirectoryOK
<1> QED
  BY <1>1, <1>4, <1>5, <1>6

\* Dropping the temporary name makes its file readable and no other less so.
LEMMA UnlinkFacts ==
    ASSUME DirectoryOK, NEW file, UnlinkTemporary(file)
    PROVE  /\ DirectoryOK' /\ UNCHANGED <<files, safe>>
           /\ \A g : Holds(g) => Holds(g)'
           /\ \A g : Holds(g)' /\ g.name # file.name => Holds(g)
           /\ file \in files => Holds(file)'
           /\ \A g : Settled(g) => Settled(g)'
<1>1. doubled' = doubled \ {file.name} /\ files' = files /\ safe' = safe
  BY DEF UnlinkTemporary
<1>2. DirectoryOK'
  BY <1>1 DEF DirectoryOK
<1>3. file \in files => file.name \in NamesOf(files)
  BY DEF NamesOf
<1> QED
  BY <1>1, <1>2, <1>3 DEF Holds, Readable, Settled

\* A synchronization settles what is held.
LEMMA SyncFacts ==
    ASSUME DirectoryOK, SyncDirectory
    PROVE  /\ DirectoryOK' /\ UNCHANGED <<files, doubled>>
           /\ safe'.files = files /\ safe'.doubled = doubled
           /\ \A g : Holds(g)' <=> Holds(g)
           /\ \A g : Holds(g) => Settled(g)'
           /\ \A g : Settled(g) => Settled(g)'
<1>1. safe'.files = files /\ safe'.doubled = doubled /\ files' = files /\ doubled' = doubled
  BY DEF SyncDirectory
<1>2. DirectoryOK'
  BY <1>1 DEF DirectoryOK
<1> QED
  BY <1>1, <1>2 DEF Holds, Readable, Settled, DirectoryOK

\* A power loss takes files, gives none, and leaves the settled ones alone.
LEMMA LoseFacts ==
    ASSUME DirectoryOK, LosePower
    PROVE  /\ DirectoryOK' /\ files' \subseteq files /\ safe.files \subseteq files'
           /\ doubled' \subseteq NamesOf(files')
           /\ safe' = [files |-> files', doubled |-> doubled']
           /\ \A g : Settled(g) => Settled(g)'
<1>1. PICK S \in SUBSET (files \ safe.files) : files' = safe.files \cup S
  BY DEF LosePower
<1>2. PICK T \in SUBSET ((safe.doubled \ doubled) \cup NamesOf(files' \ safe.files)) :
        doubled' = (safe.doubled \cap doubled) \cup T
  BY DEF LosePower
<1>3. safe' = [files |-> files', doubled |-> doubled']
  BY DEF LosePower
<1>4. safe'.files = files' /\ safe'.doubled = doubled'
  BY <1>3
<1>5. files' \subseteq files /\ safe.files \subseteq files'
  BY <1>1 DEF DirectoryOK
<1>6. doubled' \subseteq NamesOf(files')
  <2>1. NamesOf(safe.files) \subseteq NamesOf(files') /\ NamesOf(files' \ safe.files) \subseteq NamesOf(files')
    BY <1>5 DEF NamesOf
  <2>2. safe.doubled \subseteq NamesOf(safe.files)
    BY DEF DirectoryOK
  <2> QED
    BY <1>2, <2>1, <2>2
<1>7. DirectoryOK'
  BY <1>4, <1>5, <1>6 DEF DirectoryOK
<1>8. ASSUME NEW g, Settled(g) PROVE Settled(g)'
  <2>1. g.name \notin NamesOf(files' \ safe.files)
    BY <1>5, <1>8 DEF Settled, DirectoryOK, NamesOf
  <2> QED
    BY <1>2, <1>4, <1>5, <1>8, <2>1 DEF Settled
<1> QED
  BY <1>3, <1>5, <1>6, <1>7, <1>8

-----------------------------------------------------------------------------
Evidences ==
    [name : Nonces, content : [transaction : Transactions, root : Roots]]

Journals == [nonce : Nonces, transaction : Transactions]

Stages == {"composed", "retain", "write", "linked", "unlinked", "launch", "driving"}

Commands ==
    [pc : Stages, intent : {"start", "resume"}, nonce : Nonces,
     transaction : Transactions, root : Roots]

TypeOK ==
    /\ DirectoryOK /\ files \subseteq Evidences
    /\ admitted \subseteq Journals
    /\ artifacts \subseteq [journal : admitted, root : Roots]
    /\ ctl \in [Hosts -> Commands \cup {Idle}]

\* What a command has established when it stands at c's stage.
Knows(c) ==
    /\ At(c, "composed") /\ ctl[c].intent = "resume" => Evidence(c) \in files
    /\ ctl[c].pc \in {"retain", "write"} =>
         (Journal(c) \in admitted => Listed(Evidence(c)))
    /\ ctl[c].pc \in {"linked", "driving"} => Evidence(c) \in files
    /\ ctl[c].pc \in {"unlinked", "launch"} => Holds(Evidence(c))
    /\ At(c, "launch") => Settled(Evidence(c)) \/ ctl[c].nonce \in hasty
    /\ At(c, "driving") => Journal(c) \in admitted

\* Evidence that names a run whose artifacts exist names their root.
RootFixed ==
    \A a \in artifacts, f \in files :
        f.name = a.journal.nonce /\ f.content.transaction = a.journal.transaction
            => f.content.root = a.root

IInv ==
    /\ TypeOK
    /\ AdmittedAreRetained /\ RootFixed /\ Unredirected
    /\ \A c \in Hosts : Knows(c)

-----------------------------------------------------------------------------
(***************************************************************************)
(* How the control state of a command moves.                               *)
(***************************************************************************)

OthersStay(c) == \A d \in Hosts \ {c} : ctl'[d] = ctl[d]

\* A command that is not idle has all its fields.
LEMMA Busy ==
    ASSUME TypeOK, NEW c \in Hosts
    PROVE  /\ ctl[c] = Idle \/ ctl[c] \in Commands
           /\ ~At(c, "idle") => ctl[c] \in Commands
           /\ At(c, "idle") => ctl[c] = Idle
<1>1. Idle.pc = "idle"
  BY DEF Idle
<1>2. \A r \in Commands : r.pc \in Stages /\ r.pc # "idle"
  BY DEF Commands, Stages
<1> QED
  BY <1>1, <1>2 DEF TypeOK, At

\* The evidence and the journal of a busy command are what they should be.
LEMMA OwnRecords ==
    ASSUME NEW c \in Hosts, ctl[c] \in Commands
    PROVE  /\ Evidence(c) \in Evidences /\ Journal(c) \in Journals
           /\ ctl[c].pc \in Stages /\ ctl[c].intent \in {"start", "resume"}
           /\ ctl[c].nonce \in Nonces /\ ctl[c].root \in Roots
           /\ Evidence(c).name = ctl[c].nonce
           /\ Evidence(c).content.transaction = ctl[c].transaction
           /\ Evidence(c).content.root = ctl[c].root
           /\ Journal(c).nonce = ctl[c].nonce
           /\ Journal(c).transaction = ctl[c].transaction
  BY DEF Commands, Evidence, Journal, Evidences, Journals

\* A change of stage leaves what the command composed alone.
LEMMA GotoMoves ==
    ASSUME TypeOK, NEW c \in Hosts, ~At(c, "idle"), NEW pc \in Stages, Goto(c, pc)
    PROVE  /\ ctl' \in [Hosts -> Commands \cup {Idle}]
           /\ OthersStay(c)
           /\ ctl[c] \in Commands /\ ctl'[c] = [ctl[c] EXCEPT !.pc = pc]
           /\ ctl'[c].pc = pc /\ ctl'[c].intent = ctl[c].intent
           /\ ctl'[c].nonce = ctl[c].nonce
           /\ Evidence(c)' = Evidence(c) /\ Journal(c)' = Journal(c)
<1>1. ctl[c] \in Commands
  BY Busy
<1>2. ctl'[c] = [ctl[c] EXCEPT !.pc = pc]
  BY DEF Goto, TypeOK
<1>3. ctl'[c] \in Commands /\ ctl'[c].pc = pc /\ ctl'[c].intent = ctl[c].intent
      /\ ctl'[c].nonce = ctl[c].nonce /\ ctl'[c].transaction = ctl[c].transaction
      /\ ctl'[c].root = ctl[c].root
  BY <1>1, <1>2 DEF Commands
<1>4. ctl' \in [Hosts -> Commands \cup {Idle}] /\ OthersStay(c)
  BY <1>3 DEF Goto, TypeOK, OthersStay
<1> QED
  BY <1>1, <1>2, <1>3, <1>4 DEF Evidence, Journal

\* A command that ends is idle.
LEMMA EndMoves ==
    ASSUME TypeOK, NEW c \in Hosts, End(c)
    PROVE  /\ ctl' \in [Hosts -> Commands \cup {Idle}]
           /\ OthersStay(c) /\ ctl'[c].pc = "idle"
<1>1. ctl'[c] = Idle /\ OthersStay(c) /\ ctl' \in [Hosts -> Commands \cup {Idle}]
  BY DEF End, TypeOK, OthersStay
<1> QED
  BY <1>1 DEF Idle

\* A command that has composed knows its nonce, transaction and root.
LEMMA ComposedMoves ==
    ASSUME TypeOK, NEW c \in Hosts, NEW intent \in {"start", "resume"},
           NEW n \in Nonces, NEW t \in Transactions, NEW r \in Roots,
           Composed(c, intent, n, t, r)
    PROVE  /\ ctl' \in [Hosts -> Commands \cup {Idle}]
           /\ OthersStay(c) /\ ctl'[c].pc = "composed" /\ ctl'[c].intent = intent
           /\ Evidence(c)' = [name |-> n, content |-> [transaction |-> t, root |-> r]]
<1>1. ctl'[c] = [pc |-> "composed", intent |-> intent, nonce |-> n,
                 transaction |-> t, root |-> r]
  BY DEF Composed, TypeOK
<1>2. ctl'[c] \in Commands
  BY <1>1 DEF Commands, Stages
<1>3. OthersStay(c) /\ ctl' \in [Hosts -> Commands \cup {Idle}]
  BY <1>2 DEF Composed, TypeOK, OthersStay
<1> QED
  BY <1>1, <1>3 DEF Evidence

-----------------------------------------------------------------------------
(***************************************************************************)
(* What lasts while the evidence directory only gains files.               *)
(***************************************************************************)

\* Files, held evidence, settled evidence and haste only grow.
Grows ==
    /\ DirectoryOK' /\ files \subseteq files' /\ hasty \subseteq hasty'
    /\ \A g : Holds(g) => Holds(g)'
    /\ \A g : Settled(g) => Settled(g)'

\* A run is admitted only when its nonce has evidence.
AdmitsListed ==
    /\ admitted \subseteq admitted'
    /\ \A j \in admitted' : j \in admitted \/ j.nonce \in NamesOf(files)

\* A step that changes neither the directory nor the haste grows them.
LEMMA StillGrows ==
    ASSUME TypeOK, UNCHANGED <<directory, hasty>>
    PROVE  Grows
  BY DEF TypeOK, Grows, directory, DirectoryOK, Holds, Readable, Settled, NamesOf

\* Settled evidence that names the run j.
SettledFor(j) ==
    \E f \in Evidences :
        Settled(f) /\ f.name = j.nonce /\ f.content.transaction = j.transaction

\* Settled evidence of the right transaction is what an admitted run needs.
LEMMA RetainedIsSettled ==
    TypeOK => (AdmittedAreRetained <=>
                 \A j \in admitted : j.nonce \in hasty \/ SettledFor(j))
<1> SUFFICES ASSUME TypeOK
             PROVE  AdmittedAreRetained <=>
                      \A j \in admitted : j.nonce \in hasty \/ SettledFor(j)
  OBVIOUS
<1>1. \A f \in files : f.name \in NamesOf(files)
  BY DEF NamesOf
<1>2. \A f : Settled(f) <=> f \in files /\ Readable(f.name) /\ Durable(f)
  BY <1>1 DEF TypeOK, DirectoryOK, Settled, Readable, Durable
<1>3. files \subseteq Evidences
  BY DEF TypeOK
<1> QED
  BY <1>2, <1>3 DEF AdmittedAreRetained, SettledFor

\* The same of the state after a step.
LEMMA RetainedIsSettledNext ==
    TypeOK' => (AdmittedAreRetained' <=>
                  \A j \in admitted' : j.nonce \in hasty' \/ SettledFor(j)')
<1>1. (TypeOK => (AdmittedAreRetained <=>
                    \A j \in admitted : j.nonce \in hasty \/ SettledFor(j)))'
  BY RetainedIsSettled, PTL
<1> QED
  BY <1>1

\* So a run stays retained whatever happens to the directory.
LEMMA RetainedStays ==
    ASSUME TypeOK, TypeOK', AdmittedAreRetained, hasty \subseteq hasty',
           \A g : Settled(g) => Settled(g)',
           \A j \in admitted' : j \in admitted \/ j.nonce \in hasty' \/ SettledFor(j)'
    PROVE  AdmittedAreRetained'
<1>1. \A j : SettledFor(j) => SettledFor(j)'
  BY DEF SettledFor
<1> QED
  BY <1>1, RetainedIsSettled, RetainedIsSettledNext

\* What a command knows it knows while others work.
LEMMA KnowsStay ==
    ASSUME TypeOK, Grows, AdmitsListed, NEW d \in Hosts, ctl'[d] = ctl[d], Knows(d)
    PROVE  Knows(d)'
<1>1. Evidence(d)' = Evidence(d) /\ Journal(d)' = Journal(d)
  BY DEF Evidence, Journal
<1>2. NamesOf(files) \subseteq NamesOf(files')
  BY DEF Grows, NamesOf
<1>3. Evidence(d).name = ctl[d].nonce /\ Journal(d).nonce = ctl[d].nonce
  BY DEF Evidence, Journal
<1>4. (Journal(d) \in admitted => Listed(Evidence(d)))
        => (Journal(d)' \in admitted' => Listed(Evidence(d))')
  BY <1>1, <1>2, <1>3 DEF AdmitsListed, Listed
<1>5. Holds(Evidence(d)) => Holds(Evidence(d))'
  <2>1. PICK g : g = Evidence(d)
    OBVIOUS
  <2> QED
    BY <1>1, <2>1 DEF Grows, Holds, Readable
<1>6. Settled(Evidence(d)) => Settled(Evidence(d))'
  <2>1. PICK g : g = Evidence(d)
    OBVIOUS
  <2> QED
    BY <1>1, <2>1 DEF Grows, Settled
<1> QED
  BY <1>1, <1>4, <1>5, <1>6 DEF Knows, At, Grows, AdmitsListed

\* A step of c that projects nothing keeps the invariant if c keeps its word.
LEMMA MovePreserves ==
    ASSUME IInv, TypeOK', NEW c \in Hosts, OthersStay(c), Grows,
           AdmitsListed, AdmittedAreRetained', RootFixed', Knows(c)',
           UNCHANGED artifacts
    PROVE  IInv'
<1>1. \A d \in Hosts : Knows(d)'
  BY KnowsStay DEF IInv, OthersStay
<1>2. Unredirected'
  BY DEF IInv, Unredirected
<1> QED
  BY <1>1, <1>2 DEF IInv

\* A step that touches the control state of c alone.
LEMMA ControlPreserves ==
    ASSUME IInv, NEW c \in Hosts, ctl' \in [Hosts -> Commands \cup {Idle}],
           OthersStay(c), Knows(c)', hasty \subseteq hasty',
           UNCHANGED <<directory, admitted, artifacts>>
    PROVE  IInv'
<1>1. TypeOK'
  BY DEF IInv, TypeOK, directory, DirectoryOK, NamesOf
<1>2. Grows /\ AdmitsListed
  BY DEF IInv, TypeOK, Grows, AdmitsListed, directory, DirectoryOK, Holds, Readable,
         Settled, NamesOf
<1>3. AdmittedAreRetained'
  BY <1>1, <1>2, RetainedStays DEF IInv, Grows
<1>4. RootFixed'
  BY DEF IInv, RootFixed, directory
<1> QED
  BY <1>1, <1>2, <1>3, <1>4, MovePreserves

-----------------------------------------------------------------------------
(***************************************************************************)
(* The steps.                                                              *)
(***************************************************************************)

\* Nothing is listed, admitted or projected at the start.
LEMMA InitHolds ==
    ASSUME HostInit
    PROVE  IInv
<1>1. TypeOK
  BY DEF HostInit, Empty, TypeOK, DirectoryOK, NamesOf
<1>2. \A c \in Hosts : ctl[c].pc = "idle"
  BY DEF HostInit, Idle
<1>3. \A c \in Hosts : Knows(c)
  BY <1>2 DEF Knows, At
<1> QED
  BY <1>1, <1>3 DEF HostInit, IInv, AdmittedAreRetained, RootFixed, Unredirected

\* A stage that promises nothing is reached without any condition.
LEMMA IdleKnows ==
    ASSUME NEW c, ctl'[c].pc = "idle"
    PROVE  Knows(c)'
  BY DEF Knows, At

\* A command composes a fresh run; it promises nothing yet.
LEMMA StartStep ==
    ASSUME IInv, NEW c \in Hosts, Start(c)
    PROVE  IInv'
<1>1. PICK n \in Nonces, t \in Transactions, r \in Roots : Composed(c, "start", n, t, r)
  BY DEF Start
<1>2. /\ ctl' \in [Hosts -> Commands \cup {Idle}] /\ OthersStay(c)
      /\ ctl'[c].pc = "composed" /\ ctl'[c].intent = "start"
  BY <1>1, ComposedMoves DEF IInv
<1>3. Knows(c)'
  BY <1>2 DEF Knows, At
<1> QED
  BY <1>2, <1>3, ControlPreserves DEF Start

\* A resumed run is the one its evidence names.
LEMMA ResumeStep ==
    ASSUME IInv, NEW c \in Hosts, Resume(c)
    PROVE  IInv'
<1>1. PICK f \in files :
        Composed(c, "resume", f.name, f.content.transaction, f.content.root)
  BY DEF Resume
<1>2. /\ f.name \in Nonces /\ f.content.transaction \in Transactions
      /\ f.content.root \in Roots
      /\ f = [name |-> f.name, content |-> [transaction |-> f.content.transaction,
                                           root |-> f.content.root]]
  BY DEF IInv, TypeOK, Evidences
<1>3. /\ ctl' \in [Hosts -> Commands \cup {Idle}] /\ OthersStay(c)
      /\ ctl'[c].pc = "composed" /\ Evidence(c)' = f
  BY <1>1, <1>2, ComposedMoves DEF IInv
<1>4. files' = files
  BY DEF Resume, directory
<1>5. Knows(c)'
  BY <1>3, <1>4 DEF Knows, At
<1> QED
  BY <1>3, <1>5, ControlPreserves DEF Resume

\* A run that is admitted is never started again, one that is not never resumed.
LEMMA CheckAdmissionStep ==
    ASSUME IInv, NEW c \in Hosts, CheckAdmission(c)
    PROVE  IInv'
<1>1. /\ UNCHANGED <<directory, admitted, artifacts, hasty>> /\ At(c, "composed")
      /\ files' = files /\ TypeOK /\ Knows(c) /\ admitted' = admitted
  BY DEF CheckAdmission, IInv, directory
<1>2. CASE End(c)
  <2>1. /\ ctl' \in [Hosts -> Commands \cup {Idle}] /\ OthersStay(c)
        /\ ctl'[c].pc = "idle"
    BY <1>1, <1>2, EndMoves
  <2> QED
    BY <1>1, <2>1, IdleKnows, ControlPreserves
<1>3. CASE /\ ctl[c].intent = "start" /\ Journal(c) \notin admitted
           /\ Goto(c, "retain")
  <2>1. /\ ctl' \in [Hosts -> Commands \cup {Idle}] /\ OthersStay(c)
        /\ ctl'[c].pc = "retain" /\ Journal(c)' = Journal(c)
    BY <1>1, <1>3, GotoMoves DEF At, Stages
  <2>2. Knows(c)'
    BY <1>1, <1>3, <2>1 DEF Knows, At
  <2> QED
    BY <1>1, <2>1, <2>2, ControlPreserves
<1>4. CASE /\ ctl[c].intent # "start" /\ Journal(c) \in admitted
           /\ Goto(c, "driving")
  <2>1. /\ ctl[c] \in Commands /\ ctl' \in [Hosts -> Commands \cup {Idle}]
        /\ OthersStay(c) /\ ctl'[c].pc = "driving"
        /\ Journal(c)' = Journal(c) /\ Evidence(c)' = Evidence(c)
    BY <1>1, <1>4, GotoMoves DEF At, Stages
  <2>2. ctl[c].intent = "resume"
    BY <1>4, <2>1, OwnRecords
  <2>3. Evidence(c) \in files
    BY <1>1, <2>2 DEF Knows
  <2>4. Knows(c)'
    BY <1>1, <1>4, <2>1, <2>3 DEF Knows, At
  <2> QED
    BY <1>1, <2>1, <2>4, ControlPreserves
<1> QED
  BY <1>2, <1>3, <1>4 DEF CheckAdmission

\* Evidence a command relies on is settled, or its nonce is hasty.
LEMMA RetainStep ==
    ASSUME IInv, NEW c \in Hosts, Retain(c)
    PROVE  IInv'
<1>1. /\ At(c, "retain") /\ TypeOK /\ Knows(c) /\ ~At(c, "idle")
      /\ UNCHANGED <<directory, admitted, artifacts>>
      /\ files' = files /\ doubled' = doubled /\ safe' = safe /\ admitted' = admitted
  BY DEF Retain, IInv, directory, At
<1>2. CASE Holds(Evidence(c)) /\ Rely(c) /\ Goto(c, "launch")
  <2>1. /\ ctl[c] \in Commands /\ ctl' \in [Hosts -> Commands \cup {Idle}]
        /\ OthersStay(c) /\ ctl'[c].pc = "launch" /\ ctl'[c].nonce = ctl[c].nonce
        /\ Evidence(c)' = Evidence(c)
    BY <1>1, <1>2, GotoMoves DEF Stages
  <2>2. hasty \subseteq hasty' /\ (Durable(Evidence(c)) \/ ctl[c].nonce \in hasty')
    BY <1>2 DEF Rely
  <2>3. Durable(Evidence(c)) => Settled(Evidence(c))
    BY <1>2 DEF Durable, Settled, Holds, Readable
  <2>4. Holds(Evidence(c))' /\ (Settled(Evidence(c)) => Settled(Evidence(c))')
    BY <1>1, <1>2, <2>1 DEF Holds, Readable, Settled
  <2>5. Knows(c)'
    BY <2>1, <2>2, <2>3, <2>4 DEF Knows, At
  <2> QED
    BY <1>1, <2>1, <2>2, <2>5, ControlPreserves
<1>3. CASE ~Listed(Evidence(c)) /\ UNCHANGED hasty /\ Goto(c, "write")
  <2>1. /\ ctl' \in [Hosts -> Commands \cup {Idle}] /\ OthersStay(c)
        /\ ctl'[c].pc = "write" /\ Journal(c)' = Journal(c)
    BY <1>1, <1>3, GotoMoves DEF Stages
  <2>2. Journal(c) \notin admitted
    BY <1>1, <1>3 DEF Knows, At
  <2>3. Knows(c)'
    BY <1>1, <2>1, <2>2 DEF Knows, At
  <2> QED
    BY <1>1, <1>3, <2>1, <2>3, ControlPreserves
<1>4. CASE UNCHANGED hasty /\ End(c)
  <2>1. /\ ctl' \in [Hosts -> Commands \cup {Idle}] /\ OthersStay(c)
        /\ ctl'[c].pc = "idle"
    BY <1>1, <1>4, EndMoves
  <2> QED
    BY <1>1, <1>4, <2>1, IdleKnows, ControlPreserves
<1> QED
  BY <1>2, <1>3, <1>4 DEF Retain

\* A step on the directory that keeps files keeps what is projected and admitted.
LEMMA DirectoryPreserves ==
    ASSUME IInv, NEW c \in Hosts, ctl' \in [Hosts -> Commands \cup {Idle}],
           OthersStay(c), Knows(c)', UNCHANGED <<files, admitted, artifacts, hasty>>,
           DirectoryOK', \A g : Holds(g) => Holds(g)', \A g : Settled(g) => Settled(g)'
    PROVE  IInv'
<1>1. TypeOK' /\ Grows /\ AdmitsListed
  BY DEF IInv, TypeOK, Grows, AdmitsListed
<1>2. AdmittedAreRetained'
  BY <1>1, RetainedStays DEF IInv
<1>3. RootFixed'
  BY DEF IInv, RootFixed
<1> QED
  BY <1>1, <1>2, <1>3, MovePreserves

\* New evidence names no admitted run: one that is admitted has evidence already.
LEMMA LinkStep ==
    ASSUME IInv, NEW c \in Hosts, Link(c)
    PROVE  IInv'
<1>1. /\ At(c, "write") /\ TypeOK /\ DirectoryOK /\ Knows(c) /\ ~At(c, "idle")
      /\ UNCHANGED <<admitted, artifacts, hasty>>
  BY DEF Link, IInv, TypeOK, At
<1>2. CASE ~Listed(Evidence(c)) /\ LinkFile(Evidence(c)) /\ Goto(c, "linked")
  <2>1. /\ ctl[c] \in Commands /\ ctl' \in [Hosts -> Commands \cup {Idle}]
        /\ OthersStay(c) /\ ctl'[c].pc = "linked" /\ Evidence(c)' = Evidence(c)
    BY <1>1, <1>2, GotoMoves DEF Stages
  <2>2. PICK e \in Evidences : e = Evidence(c)
    BY <2>1, OwnRecords
  <2>3. /\ DirectoryOK' /\ files' = files \cup {e}
        /\ \A g : Holds(g)' <=> Holds(g)
        /\ \A g : Settled(g) => Settled(g)'
    BY <1>1, <1>2, <2>2, LinkFacts
  <2>4. TypeOK' /\ Grows /\ AdmitsListed
    BY <1>1, <2>1, <2>2, <2>3 DEF TypeOK, Grows, AdmitsListed
  <2>5. AdmittedAreRetained'
    BY <1>1, <2>3, <2>4, RetainedStays DEF IInv
  <2>6. ASSUME NEW a \in artifacts, e.name = a.journal.nonce,
               e.content.transaction = a.journal.transaction
        PROVE  FALSE
    <3>1. a.journal \in admitted /\ a.journal \in Journals
      BY <1>1 DEF TypeOK
    <3>2. Journal(c) = a.journal
      BY <2>1, <2>2, <2>6, <3>1, OwnRecords DEF Journals, Journal
    <3> QED
      BY <1>1, <1>2, <3>1, <3>2 DEF Knows, At
  <2>7. RootFixed'
    BY <1>1, <2>3, <2>6 DEF IInv, RootFixed
  <2>8. Knows(c)'
    BY <2>1, <2>2, <2>3 DEF Knows, At
  <2> QED
    BY <1>1, <2>1, <2>4, <2>5, <2>7, <2>8, MovePreserves
<1>3. CASE Holds(Evidence(c)) /\ UNCHANGED directory /\ Goto(c, "unlinked")
  <2>1. /\ ctl' \in [Hosts -> Commands \cup {Idle}]
        /\ OthersStay(c) /\ ctl'[c].pc = "unlinked" /\ Evidence(c)' = Evidence(c)
    BY <1>1, <1>3, GotoMoves DEF Stages
  <2>2. Holds(Evidence(c))'
    BY <1>3, <2>1 DEF Holds, Readable, directory
  <2>3. Knows(c)'
    BY <2>1, <2>2 DEF Knows, At
  <2> QED
    BY <1>1, <1>3, <2>1, <2>3, ControlPreserves
<1>4. CASE UNCHANGED directory /\ End(c)
  <2>1. /\ ctl' \in [Hosts -> Commands \cup {Idle}] /\ OthersStay(c)
        /\ ctl'[c].pc = "idle"
    BY <1>1, <1>4, EndMoves
  <2> QED
    BY <1>1, <1>4, <2>1, IdleKnows, ControlPreserves
<1> QED
  BY <1>2, <1>3, <1>4 DEF Link

\* Evidence whose temporary name is gone is held.
LEMMA UnlinkStep ==
    ASSUME IInv, NEW c \in Hosts, Unlink(c)
    PROVE  IInv'
<1>1. /\ At(c, "linked") /\ TypeOK /\ DirectoryOK /\ Knows(c) /\ ~At(c, "idle")
      /\ UNCHANGED <<admitted, artifacts, hasty>> /\ UnlinkTemporary(Evidence(c))
      /\ Goto(c, "unlinked")
  BY DEF Unlink, IInv, TypeOK, At
<1>2. /\ ctl' \in [Hosts -> Commands \cup {Idle}]
      /\ OthersStay(c) /\ ctl'[c].pc = "unlinked" /\ Evidence(c)' = Evidence(c)
  BY <1>1, GotoMoves DEF Stages
<1>3. PICK e : e = Evidence(c)
  OBVIOUS
<1>4. /\ DirectoryOK' /\ UNCHANGED <<files, safe>>
      /\ \A g : Holds(g) => Holds(g)'
      /\ e \in files => Holds(e)'
      /\ \A g : Settled(g) => Settled(g)'
  BY <1>1, <1>3, UnlinkFacts
<1>5. Holds(Evidence(c))'
  BY <1>1, <1>2, <1>3, <1>4 DEF Knows, At, Holds, Readable
<1>6. Knows(c)'
  BY <1>2, <1>5 DEF Knows, At
<1> QED
  BY <1>1, <1>2, <1>4, <1>6, DirectoryPreserves

\* A synchronization settles the evidence it is made for.
LEMMA SyncStep ==
    ASSUME IInv, NEW c \in Hosts, Sync(c)
    PROVE  IInv'
<1>1. /\ At(c, "unlinked") /\ TypeOK /\ DirectoryOK /\ Knows(c) /\ ~At(c, "idle")
      /\ UNCHANGED <<admitted, artifacts, hasty>> /\ SyncDirectory /\ Goto(c, "launch")
  BY DEF Sync, IInv, TypeOK, At
<1>2. /\ ctl' \in [Hosts -> Commands \cup {Idle}]
      /\ OthersStay(c) /\ ctl'[c].pc = "launch" /\ Evidence(c)' = Evidence(c)
  BY <1>1, GotoMoves DEF Stages
<1>3. PICK e : e = Evidence(c)
  OBVIOUS
<1>4. /\ DirectoryOK' /\ UNCHANGED <<files, doubled>>
      /\ \A g : Holds(g)' <=> Holds(g)
      /\ \A g : Holds(g) => Settled(g)'
      /\ \A g : Settled(g) => Settled(g)'
  BY <1>1, SyncFacts
<1>5. Holds(e)' /\ Settled(e)'
  BY <1>1, <1>3, <1>4 DEF Knows, At
<1>6. Knows(c)'
  BY <1>2, <1>3, <1>5 DEF Knows, At, Holds, Readable, Settled
<1> QED
  BY <1>1, <1>2, <1>4, <1>6, DirectoryPreserves

\* The run that is admitted has settled evidence, or its nonce is hasty.
LEMMA LaunchStep ==
    ASSUME IInv, NEW c \in Hosts, Launch(c)
    PROVE  IInv'
<1>1. /\ At(c, "launch") /\ TypeOK /\ DirectoryOK /\ Knows(c) /\ ~At(c, "idle")
      /\ UNCHANGED <<directory, artifacts, hasty>> /\ Goto(c, "driving")
      /\ files' = files /\ doubled' = doubled /\ safe' = safe
      /\ admitted' = admitted \cup {Journal(c)}
  BY DEF Launch, Admission, IInv, TypeOK, At, directory
<1>2. /\ ctl[c] \in Commands /\ ctl' \in [Hosts -> Commands \cup {Idle}]
      /\ OthersStay(c) /\ ctl'[c].pc = "driving" /\ Evidence(c)' = Evidence(c)
      /\ Journal(c)' = Journal(c)
  BY <1>1, GotoMoves DEF Stages
<1>3. PICK e \in Evidences : e = Evidence(c)
  BY <1>2, OwnRecords
<1>4. /\ e.name = ctl[c].nonce /\ e.content.transaction = ctl[c].transaction
      /\ Journal(c).nonce = ctl[c].nonce /\ Journal(c).transaction = ctl[c].transaction
      /\ Journal(c) \in Journals
  BY <1>2, <1>3, OwnRecords
<1>5. e \in files /\ (Settled(e) \/ ctl[c].nonce \in hasty)
  BY <1>1, <1>3 DEF Knows, At, Holds
<1>6. Grows
  BY <1>1, StillGrows
<1>7. TypeOK'
  BY <1>1, <1>2, <1>4, <1>6 DEF TypeOK, Grows
<1>8. AdmitsListed
  BY <1>1, <1>4, <1>5 DEF AdmitsListed, NamesOf
<1>9. Journal(c).nonce \in hasty' \/ SettledFor(Journal(c))'
  <2>1. Settled(e) => Settled(e)'
    BY <1>6 DEF Grows
  <2>2. PICK j : j = Journal(c)
    OBVIOUS
  <2>3. Settled(e)' => SettledFor(j)'
    BY <1>4, <2>2 DEF SettledFor
  <2> QED
    BY <1>1, <1>2, <1>4, <1>5, <2>1, <2>2, <2>3 DEF SettledFor
<1>10. AdmittedAreRetained'
  BY <1>1, <1>2, <1>6, <1>7, <1>9, RetainedStays DEF IInv, Grows, SettledFor
<1>11. RootFixed'
  BY <1>1 DEF IInv, RootFixed
<1>12. Knows(c)'
  BY <1>1, <1>2, <1>3, <1>5 DEF Knows, At
<1> QED
  BY <1>1, <1>2, <1>6, <1>7, <1>8, <1>10, <1>11, <1>12, MovePreserves

\* An artifact goes below the root its run's evidence names.
LEMMA ProjectStep ==
    ASSUME IInv, NEW c \in Hosts, Project(c)
    PROVE  IInv'
<1> DEFINE new == [journal |-> Journal(c), root |-> ctl[c].root]
<1>1. /\ At(c, "driving") /\ TypeOK /\ DirectoryOK /\ Knows(c)
      /\ UNCHANGED <<directory, admitted, ctl, hasty>>
      /\ files' = files /\ artifacts' = artifacts \cup {new} /\ RootFixed
  BY DEF Project, IInv, TypeOK, directory
<1>2. ctl[c] \in Commands
  BY <1>1, Busy DEF At
<1>3. /\ Evidence(c) \in files /\ Journal(c) \in admitted /\ ctl[c].root \in Roots
      /\ Evidence(c).name = Journal(c).nonce
      /\ Evidence(c).content.transaction = Journal(c).transaction
      /\ Evidence(c).content.root = ctl[c].root
  BY <1>1, <1>2, OwnRecords DEF Knows, At
<1>4. Grows /\ AdmitsListed
  BY <1>1, StillGrows DEF AdmitsListed
<1>5. TypeOK'
  BY <1>1, <1>3, <1>4 DEF TypeOK, Grows
<1>6. AdmittedAreRetained'
  BY <1>1, <1>4, <1>5, RetainedStays DEF IInv, Grows
<1>7. RootFixed'
  <2>1. ASSUME NEW f \in files, f.name = Journal(c).nonce PROVE f = Evidence(c)
    BY <1>1, <1>3, <2>1 DEF DirectoryOK
  <2> QED
    BY <1>1, <1>3, <2>1 DEF RootFixed
<1>8. Unredirected'
  <2>1. ASSUME NEW a \in artifacts, a.journal = Journal(c) PROVE a.root = ctl[c].root
    BY <1>1, <1>3, <2>1 DEF RootFixed
  <2>2. new.journal = Journal(c) /\ new.root = ctl[c].root
    OBVIOUS
  <2> HIDE DEF new
  <2> QED
    BY <1>1, <2>1, <2>2 DEF IInv, Unredirected
<1>9. \A d \in Hosts : Knows(d)'
  BY <1>1, <1>4, KnowsStay DEF IInv
<1> QED
  BY <1>5, <1>6, <1>7, <1>8, <1>9 DEF IInv

\* A command that returns or is killed promises nothing.
LEMMA EndStep ==
    ASSUME IInv, NEW c \in Hosts, End(c), UNCHANGED <<directory, admitted, artifacts, hasty>>
    PROVE  IInv'
<1>1. /\ ctl' \in [Hosts -> Commands \cup {Idle}] /\ OthersStay(c)
      /\ ctl'[c].pc = "idle"
  BY EndMoves DEF IInv
<1> QED
  BY <1>1, IdleKnows, ControlPreserves

\* An exception takes the temporary name away and leaves the evidence.
LEMMA HostErrorStep ==
    ASSUME IInv, NEW c \in Hosts, HostError(c)
    PROVE  IInv'
<1>1. /\ TypeOK /\ DirectoryOK /\ UNCHANGED <<admitted, artifacts, hasty>>
      /\ UnlinkTemporary(Evidence(c)) /\ End(c)
  BY DEF HostError, IInv, TypeOK
<1>2. /\ ctl' \in [Hosts -> Commands \cup {Idle}] /\ OthersStay(c)
      /\ ctl'[c].pc = "idle"
  BY <1>1, EndMoves
<1>3. PICK e : e = Evidence(c)
  OBVIOUS
<1>4. /\ DirectoryOK' /\ UNCHANGED <<files, safe>>
      /\ \A g : Holds(g) => Holds(g)'
      /\ \A g : Settled(g) => Settled(g)'
  BY <1>1, <1>3, UnlinkFacts
<1> QED
  BY <1>1, <1>2, <1>4, IdleKnows, DirectoryPreserves

\* A power loss ends every command and takes no settled evidence.
LEMMA HostPowerLossStep ==
    ASSUME IInv, HostPowerLoss
    PROVE  IInv'
<1>1. /\ TypeOK /\ DirectoryOK /\ LosePower /\ UNCHANGED <<admitted, artifacts, hasty>>
      /\ \A c \in Hosts : ctl'[c] = Idle
      /\ ctl' \in [Hosts -> Commands \cup {Idle}]
  BY DEF HostPowerLoss, IInv, TypeOK
<1>2. DirectoryOK' /\ files' \subseteq files /\ \A g : Settled(g) => Settled(g)'
  BY <1>1, LoseFacts
<1>3. TypeOK'
  BY <1>1, <1>2 DEF TypeOK
<1>4. AdmittedAreRetained'
  BY <1>1, <1>2, <1>3, RetainedStays DEF IInv
<1>5. RootFixed' /\ Unredirected'
  BY <1>1, <1>2 DEF IInv, RootFixed, Unredirected
<1>6. \A c \in Hosts : Knows(c)'
  BY <1>1, IdleKnows DEF Idle
<1> QED
  BY <1>3, <1>4, <1>5, <1>6 DEF IInv

\* Every step of the host keeps the invariant.
LEMMA StepHolds ==
    ASSUME IInv, [HostNext]_hostVars
    PROVE  IInv'
<1>1. CASE UNCHANGED hostVars
  <2>1. /\ UNCHANGED <<directory, hasty>> /\ files' = files
        /\ UNCHANGED <<ctl, admitted, artifacts>> /\ TypeOK
    BY <1>1 DEF hostVars, directory, IInv
  <2>2. Grows /\ AdmitsListed
    BY <2>1, StillGrows DEF AdmitsListed
  <2>3. TypeOK'
    BY <2>1, <2>2 DEF TypeOK, Grows
  <2>4. AdmittedAreRetained'
    BY <2>1, <2>2, <2>3, RetainedStays DEF IInv, Grows
  <2>5. RootFixed' /\ Unredirected'
    BY <2>1 DEF IInv, RootFixed, Unredirected
  <2>6. \A d \in Hosts : Knows(d)'
    BY <2>1, <2>2, KnowsStay DEF IInv
  <2> QED
    BY <2>3, <2>4, <2>5, <2>6 DEF IInv
<1>2. ASSUME NEW c \in Hosts, HostStep(c) PROVE IInv'
  <2>1. CASE Return(c)
    BY <2>1, EndStep DEF Return
  <2> QED
    BY <1>2, <2>1, StartStep, ResumeStep, CheckAdmissionStep, RetainStep, LinkStep,
       UnlinkStep, SyncStep, LaunchStep, ProjectStep DEF HostStep
<1>3. ASSUME NEW c \in Hosts, HostKill(c) PROVE IInv'
  BY <1>3, EndStep DEF HostKill
<1> QED
  BY <1>1, <1>2, <1>3, HostErrorStep, HostPowerLossStep DEF HostNext

-----------------------------------------------------------------------------
\* The inductive invariant.
THEOREM Invariance == HostSpec => []IInv
<1>1. HostInit => IInv
  BY InitHolds
<1>2. IInv /\ [HostNext]_hostVars => IInv'
  BY StepHolds
<1> QED
  BY <1>1, <1>2, PTL DEF HostSpec

\* The evidence directory, the journals and the commands have their types, and
\* every artifact is of an admitted run.
THEOREM TypeCorrect == HostSpec => []TypeOK
  BY Invariance, PTL DEF IInv

\* Whatever is admitted can be resumed (cli/run_command.cpp retains the evidence
\* of a nonce before launch_transaction_run admits its journal), but for nonces
\* whose evidence was relied on before its writer had synchronized it.
THEOREM RetainedBeforeAdmitted == HostSpec => []AdmittedAreRetained
  BY Invariance, PTL DEF IInv

\* All artifacts of a run are projected below one root, whoever starts or
\* resumes it, although no lock is held from the check to the projection.
THEOREM RootsAreFixed == HostSpec => []Unredirected
  BY Invariance, PTL DEF IInv

\* A nonce names one run.
OneRun ==
    \A i, j \in admitted : i.nonce = j.nonce /\ i.nonce \notin hasty => i = j

\* Two commands that compose different transactions under one nonce are never
\* both admitted, although the nonce has no lock: only evidence relied on before
\* it was synchronized may name a second run after a power loss.
THEOREM NonceNamesOneRun == HostSpec => []OneRun
<1>1. ASSUME TypeOK, AdmittedAreRetained PROVE OneRun
  <2>1. \A f, g \in files : f.name = g.name => f = g
    BY <1>1 DEF TypeOK, DirectoryOK
  <2>2. \A j \in admitted : j.nonce \in hasty \/
          \E f \in files : f.name = j.nonce /\ f.content.transaction = j.transaction
    BY <1>1 DEF AdmittedAreRetained
  <2>3. \A i, j \in Journals :
          i.nonce = j.nonce /\ i.transaction = j.transaction => i = j
    BY DEF Journals
  <2> QED
    BY <1>1, <2>1, <2>2, <2>3 DEF OneRun, TypeOK
<1>2. IInv => OneRun
  BY <1>1 DEF IInv
<1> QED
  BY <1>2, Invariance, PTL

=============================================================================
