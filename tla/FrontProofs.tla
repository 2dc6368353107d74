---------------------------- MODULE FrontProofs -----------------------------
(***************************************************************************)
(* Proofs about where a command puts things, for every runtime root, every *)
(* set of coordinates and any number of dispatches; about what a command   *)
(* line means, for every argument vector; about what evidence says of the  *)
(* nodes of a program, for every program and every identity order; and     *)
(* about how records are written and read, for every table of formats.     *)
(***************************************************************************)
EXTENDS Front, SequenceTheorems, FiniteSetTheorems, WellFoundedInduction, TLAPS

(***************************************************************************)
(* Places.  Everything a dispatch owns is below one of seven roots         *)
(* (Rooms), at a remainder that names the dispatch (Branch).  The command  *)
(* compares the roots, so places of different roots are apart; places of   *)
(* one root are apart because remainders of different dispatches are.      *)
(***************************************************************************)
Path == Seq(Names)

\* Two paths overlap when they agree as far as both go.
LEMMA OverlapIs ==
    ASSUME NEW p \in Path, NEW q \in Path
    PROVE  Overlap(p, q) <=> \A i \in 1..Len(p) : i <= Len(q) => p[i] = q[i]
<1>0. Len(p) \in Nat /\ Len(q) \in Nat
  BY DEF Path
<1>1. ASSUME NEW s \in Path, NEW t \in Path, Len(s) <= Len(t)
      PROVE  IsPrefix(s, t) <=> \A i \in 1..Len(s) : s[i] = t[i]
  <2>1. SubSeq(s, 1, Len(s)) = s
    BY DEF Path
  <2>2. Len(s) \in Nat /\ Len(t) \in Nat
    BY DEF Path
  <2>3. /\ SubSeq(t, 1, Len(s)) \in Path /\ Len(SubSeq(t, 1, Len(s))) = Len(s)
        /\ \A i \in 1..Len(s) : SubSeq(t, 1, Len(s))[i] = t[i]
    BY <1>1, <2>2 DEF Path
  <2>4. (s = SubSeq(t, 1, Len(s))) <=> \A i \in 1..Len(s) : s[i] = t[i]
    BY <2>2, <2>3 DEF Path
  <2> QED
    BY <1>1, <2>1, <2>4 DEF IsPrefix
<1>2. ASSUME NEW s \in Path, NEW t \in Path, IsPrefix(s, t)
      PROVE  Len(s) <= Len(t)
  BY <1>2 DEF IsPrefix
<1>3. CASE Len(p) <= Len(q)
  BY <1>0, <1>1, <1>2, <1>3 DEF Overlap
<1>4. CASE Len(q) <= Len(p)
  BY <1>0, <1>1, <1>2, <1>4 DEF Overlap
<1> QED
  BY <1>0, <1>3, <1>4

\* A path continued: its names, then those of the continuation.
LEMMA Joined ==
    ASSUME NEW p \in Path, NEW s \in Path
    PROVE  /\ p \o s \in Path /\ Len(p \o s) = Len(p) + Len(s)
           /\ Len(p) \in Nat /\ Len(s) \in Nat
           /\ \A i \in 1..Len(p) : (p \o s)[i] = p[i]
           /\ \A i \in 1..Len(s) : (p \o s)[Len(p) + i] = s[i]
  BY DEF Path

\* What overlaps a place below p overlaps p.
LEMMA OverlapBelow ==
    ASSUME NEW p \in Path, NEW q \in Path, NEW s \in Path, Overlap(p \o s, q)
    PROVE  Overlap(p, q)
<1>1. p \o s \in Path /\ Len(p \o s) = Len(p) + Len(s) /\ Len(p) \in Nat /\ Len(s) \in Nat
  BY Joined
<1>2. \A i \in 1..Len(p) : i \in 1..Len(p \o s) /\ (p \o s)[i] = p[i]
  BY <1>1, Joined
<1>3. \A i \in 1..Len(p \o s) : i <= Len(q) => (p \o s)[i] = q[i]
  BY <1>1, OverlapIs
<1>4. \A i \in 1..Len(p) : i <= Len(q) => p[i] = q[i]
  BY <1>2, <1>3
<1> QED
  BY <1>4, OverlapIs

\* Places below the same directory overlap as their remainders do.
LEMMA OverlapSame ==
    ASSUME NEW p \in Path, NEW s \in Path, NEW t \in Path, Overlap(p \o s, p \o t)
    PROVE  Overlap(s, t)
<1>1. p \o s \in Path /\ Len(p \o s) = Len(p) + Len(s) /\ Len(p) \in Nat /\ Len(s) \in Nat
  BY Joined
<1>2. p \o t \in Path /\ Len(p \o t) = Len(p) + Len(t) /\ Len(t) \in Nat
  BY Joined
<1>3. \A i \in 1..Len(p \o s) : i <= Len(p \o t) => (p \o s)[i] = (p \o t)[i]
  BY <1>1, <1>2, OverlapIs
<1>4. ASSUME NEW i \in 1..Len(s), i <= Len(t) PROVE s[i] = t[i]
  <2>1. i \in 1..Len(t)
    BY <1>2, <1>4
  <2>2. (p \o s)[Len(p) + i] = s[i]
    BY Joined
  <2>3. (p \o t)[Len(p) + i] = t[i]
    BY <2>1, Joined
  <2>4. Len(p) + i \in 1..Len(p \o s) /\ Len(p) + i <= Len(p \o t)
    BY <1>1, <1>2, <1>4
  <2> QED
    BY <1>3, <2>2, <2>3, <2>4
<1> QED
  BY <1>4, OverlapIs

\* Overlapping is mutual.
LEMMA OverlapCommutes == \A p, q : Overlap(p, q) <=> Overlap(q, p)
  BY DEF Overlap

\* One name is a path.
LEMMA OneName ==
    ASSUME NEW x \in Names
    PROVE  <<x>> \in Path /\ Len(<<x>>) = 1
  BY DEF Path

\* A directory that overlaps an entry of c, and does not hold c, is in that entry.
LEMMA Inside ==
    ASSUME NEW r \in Path, NEW c \in Path, NEW x \in Names,
           Overlap(r, c \o <<x>>), ~IsPrefix(r, c)
    PROVE  IsPrefix(c \o <<x>>, r)
<1>0. <<x>> \in Path /\ Len(<<x>>) = 1
  BY OneName
<1>1. /\ c \o <<x>> \in Path /\ Len(c \o <<x>>) = Len(c) + 1
      /\ Len(c) \in Nat /\ Len(r) \in Nat
  BY <1>0, Joined DEF Path
<1> SUFFICES ASSUME IsPrefix(r, c \o <<x>>), ~IsPrefix(c \o <<x>>, r) PROVE FALSE
  BY DEF Overlap
<1>2. Len(r) <= Len(c) + 1
  BY <1>1 DEF IsPrefix
<1>3. CASE Len(r) <= Len(c)
  <2>1. SubSeq(c \o <<x>>, 1, Len(r)) = SubSeq(c, 1, Len(r))
    BY <1>1, <1>3 DEF Path
  <2> QED
    BY <1>3, <2>1 DEF IsPrefix
<1>4. CASE Len(r) = Len(c) + 1
  BY <1>1, <1>4 DEF IsPrefix
<1> QED
  BY <1>1, <1>2, <1>3, <1>4

\* An entry of a directory is one name more, wherever the path is cut.
LEMMA Extended ==
    ASSUME NEW p \in Path, NEW q \in Path, NEW x \in Names
    PROVE  /\ Append(p, x) = p \o <<x>>
           /\ (p \o q) \o <<x>> = p \o (q \o <<x>>)
<1>1. p \in Seq(Names) /\ q \in Seq(Names) /\ <<x>> \in Seq(Names)
  BY OneName DEF Path
<1>2. Append(p, x) = p \o <<x>>
  BY <1>1
<1>3. (p \o q) \o <<x>> = p \o (q \o <<x>>)
  BY <1>1, ConcatAssociative
<1> QED
  BY <1>2, <1>3

\* Two names are a path.
LEMMA PairIsPath ==
    ASSUME NEW a \in Names, NEW b \in Names
    PROVE  <<a, b>> \in Path /\ Len(<<a, b>>) = 2
  BY DEF Path

\* A dispatch is the path of its journal's name and its own.
LEMMA DispatchIsPath ==
    ASSUME NEW d \in Dispatches
    PROVE  /\ d \in Path /\ Len(d) = 2 /\ d = <<d[1], d[2]>>
           /\ d[1] \in Names /\ d[2] \in Names
<1>1. d = <<d[1], d[2]>> /\ d[1] \in Names /\ d[2] \in Names
  BY PathAssumption
<1>2. <<d[1], d[2]>> \in Path /\ Len(<<d[1], d[2]>>) = 2
  BY <1>1, PairIsPath
<1> QED
  BY <1>1, <1>2

\* What an opened command has compared, and what it admitted.
CommandOpened ==
    /\ command \in Commands /\ Accepted(command)
    /\ \A d \in admitted :
          /\ d \in Dispatches /\ BuiltInputs[d] \subseteq admitted
          /\ d \in OperationIds => command.operates
          /\ Admissible(d)

\* The inductive invariant of PathSpec.
PathInv ==
    /\ opening \in {"unread", "refused", "opened"}
    /\ opening = "opened" => CommandOpened
    /\ opening # "opened" => admitted = {}

\* A command that is not read has admitted nothing.
LEMMA PathStarts == PathInit => PathInv
  BY DEF PathInit, PathInv

\* Every step keeps the comparisons of the command and of each dispatch true.
LEMMA PathStep == PathInv /\ [PathNext]_pathVars => PathInv'
<1> SUFFICES ASSUME PathInv, [PathNext]_pathVars PROVE PathInv'
  OBVIOUS
<1>1. CASE Open
  <2>1. admitted = {} /\ admitted' = {}
    BY <1>1 DEF Open, PathInv
  <2> QED
    BY <1>1, <2>1 DEF Open, PathInv, CommandOpened
<1>2. ASSUME NEW d \in Dispatches, AdmitSession(d) PROVE PathInv'
  <2>1. /\ CommandOpened /\ BuiltInputs[d] \subseteq admitted /\ Admissible(d)
        /\ d \in OperationIds => command.operates
        /\ opening' = "opened" /\ command' = command /\ admitted' = admitted \cup {d}
    BY <1>2 DEF AdmitSession, PathInv
  <2>2. \A e : Admissible(e)' <=> Admissible(e)
    BY <2>1
       DEF Admissible, ConstructionAdmissible, Root, At, Archive, Source, InputTrees, Installed
  <2> QED
    BY <2>1, <2>2 DEF PathInv, CommandOpened
<1>3. CASE UNCHANGED pathVars
  <2>1. \A e : Admissible(e)' <=> Admissible(e)
    BY <1>3
       DEF pathVars, Admissible, ConstructionAdmissible, Root, At, Archive, Source,
           InputTrees, Installed
  <2> QED
    BY <1>3, <2>1 DEF pathVars, PathInv, CommandOpened
<1> QED
  BY <1>1, <1>2, <1>3 DEF PathNext

\* The directories the command derives are entries of the runtime root.
LEMMA BelowIs == \A a \in OwnNames : Below(a) = Runtime \o <<a>> /\ Below(a) \in Path
<1>1. OwnNames \subseteq Names /\ Runtime \in Seq(Names)
  BY PathAssumption
<1> QED
  BY <1>1 DEF Below, Path

RootNames ==
    {"content", "construction", "output", "artifact", "installed", "resource",
     "temporary", "view"}

\* What an opened command is known to compare, and which root is which.
LEMMA RootFacts ==
    ASSUME CommandOpened
    PROVE  /\ DOMAIN SessionRoots(command) = RootNames
           /\ \A n \in RootNames : Root(n) \in Path
           /\ \A m, n \in RootNames : m # n => ~Overlap(Root(m), Root(n))
           /\ command.catalog \in Path /\ command.artifact \in Path
           /\ command.lifecycle \in Path /\ command.target \in Path /\ command.build \in Path
           /\ command.objects \subseteq Path
           /\ Runtime \in Path /\ LifecycleSessions \in Path
           /\ Root("content") = Below("content")
           /\ Root("construction") = Below("construction-sessions")
           /\ Root("output") = Below("package-outputs")
           /\ Root("artifact") = command.artifact
           /\ Root("installed") = Below("installed-resources")
           /\ Root("resource") = Below("check-resources")
           /\ Root("temporary") = Below("check-temporary")
           /\ Root("view") = command.build
<1>1. DOMAIN SessionRoots(command) = RootNames
  BY DEF SessionRoots, RootNames
<1>2. Runtime \in Path /\ Places \subseteq Path
  BY PathAssumption DEF Path
<1>3. \A n \in OwnNames : Below(n) \in Path /\ Below(n) = Runtime \o <<n>>
  BY BelowIs
<1>4. /\ Root("content") = Below("content")
      /\ Root("construction") = Below("construction-sessions")
      /\ Root("output") = Below("package-outputs")
      /\ Root("artifact") = command.artifact
      /\ Root("installed") = Below("installed-resources")
      /\ Root("resource") = Below("check-resources")
      /\ Root("temporary") = Below("check-temporary")
      /\ Root("view") = command.build
  BY DEF Root, SessionRoots
<1>5. /\ command.catalog \in Path /\ command.artifact \in Path
      /\ command.lifecycle \in Path /\ command.target \in Path /\ command.build \in Path
      /\ command.objects \subseteq Path
  <2>1. command \in Commands
    BY DEF CommandOpened
  <2>2. Append(Runtime, "artifacts") \in Path
    BY <1>3 DEF OwnNames, Below
  <2> QED
    BY <2>1, <2>2, <1>2 DEF Commands, Nowhere
<1>6. LifecycleSessions \in Path
  BY <1>3 DEF LifecycleSessions, OwnNames
<1>7. \A n \in RootNames : Root(n) \in Path
  BY <1>3, <1>4, <1>5 DEF RootNames, OwnNames
<1>8. \A m, n \in RootNames : m # n => ~Overlap(Root(m), Root(n))
  BY <1>1 DEF CommandOpened, Accepted, RootsApart, Root
<1> QED
  BY <1>1, <1>2, <1>4, <1>5, <1>6, <1>7, <1>8

\* The roots below which dispatches own places, and their directories; lifecycle
\* sessions exist when the command operates.
Rooms ==
    {"construction", "output", "artifact", "installed", "resource", "temporary",
     "lifecycle"}

Room(n) == IF n = "lifecycle" THEN LifecycleSessions ELSE Root(n)

InUse(n) == n = "lifecycle" => command.operates

\* s is where, below the root n, the dispatch d may own something.
Branch(n, d, s) ==
    CASE n = "artifact"  -> d \in BuildIds /\ s = <<d[1], ArchiveName(d)>>
      [] n = "lifecycle" -> /\ d \in OperationIds
                            /\ \E node \in Scripts : s = <<SessionName(d, node)>>
      [] n = "resource"  -> \E piece \in Parts : s = d \o <<piece>>
      [] OTHER           -> s = d

\* p is where d may own something.
Placed(d, p) ==
    \E n \in Rooms, s \in Path : InUse(n) /\ p = Room(n) \o s /\ Branch(n, d, s)

\* Every root below which dispatches own places is a path.
LEMMA RoomFacts ==
    ASSUME CommandOpened, NEW n \in Rooms
    PROVE  /\ Room(n) \in Path
           /\ n # "lifecycle" => n \in RootNames \ {"view"} /\ Room(n) = Root(n)
  BY RootFacts DEF Rooms, Room, RootNames

\* No two of those roots overlap.
LEMMA RoomsApart ==
    ASSUME CommandOpened, NEW m \in Rooms, NEW n \in Rooms, m # n, InUse(m), InUse(n)
    PROVE  ~Overlap(Room(m), Room(n))
<1>1. ASSUME NEW k \in Rooms, k # "lifecycle", command.operates
      PROVE  ~Overlap(Room(k), LifecycleSessions)
  <2>1. SessionRoots(command)[k] \in MutableRoots(command)
    BY <1>1, RootFacts, RoomFacts DEF MutableRoots
  <2> QED
    BY <1>1, <2>1, RoomFacts DEF CommandOpened, Accepted, NativeApart, Apart, Root
<1>2. CASE m # "lifecycle" /\ n # "lifecycle"
  BY <1>2, RootFacts, RoomFacts
<1>3. CASE n = "lifecycle"
  BY <1>1, <1>3 DEF Room, InUse
<1>4. CASE m = "lifecycle"
  BY <1>1, <1>4, OverlapCommutes DEF Room, InUse
<1> QED
  BY <1>2, <1>3, <1>4

\* Differently named directories of the runtime root are apart.
LEMMA NamesBelow ==
    ASSUME CommandOpened, NEW a \in OwnNames, NEW b \in OwnNames, a # b
    PROVE  ~Overlap(Below(a), Below(b)) /\ Below(a) \in Path /\ Below(a) = Runtime \o <<a>>
<1>1. <<a>> \in Path /\ <<b>> \in Path /\ Len(<<a>>) = 1 /\ Len(<<b>>) = 1
  BY PathAssumption, OneName
<1>2. Below(a) = Runtime \o <<a>> /\ Below(b) = Runtime \o <<b>> /\ Below(a) \in Path
  BY BelowIs
<1>3. ASSUME Overlap(Below(a), Below(b)) PROVE FALSE
  <2>1. Overlap(<<a>>, <<b>>)
    BY <1>1, <1>2, <1>3, OverlapSame, RootFacts
  <2>2. <<a>>[1] = <<b>>[1]
    BY <1>1, <2>1, OverlapIs
  <2> QED
    BY <2>2
<1> QED
  BY <1>2, <1>3

\* No such root overlaps a store, an object, the view or the managed target.
LEMMA ElsewhereApart ==
    ASSUME CommandOpened, NEW n \in Rooms, InUse(n), NEW q \in Elsewhere
    PROVE  q \in Path /\ ~Overlap(Room(n), q)
<1>1. CASE q \in Stores
  <2>1. PICK a \in {"run", "evidence", "effects", "command-evidence"} : q = Below(a)
    BY <1>1 DEF Stores
  <2>2. a \in OwnNames /\ q \in Path /\ q = Runtime \o <<a>> /\ <<a>> \in Path
    <3>1. a \in OwnNames
      BY DEF OwnNames
    <3>2. a \in Names
      BY <3>1, PathAssumption
    <3> QED
      BY <2>1, <3>1, <3>2, BelowIs, OneName
  <2>3. CASE n # "artifact" /\ n # "lifecycle"
    <3>1. PICK b \in OwnNames \ {"run", "evidence", "effects", "command-evidence"} :
            Room(n) = Below(b)
      BY <2>3, RootFacts DEF OwnNames, Rooms, Room
    <3> QED
      BY <2>1, <2>2, <3>1, NamesBelow
  <2>4. CASE n = "lifecycle"
    BY <2>1, <2>2, <2>4, NamesBelow DEF Room, LifecycleSessions, OwnNames
  <2>5. CASE n = "artifact" /\ command.frontend = "run"
    <3>1. Room(n) = Below("artifacts")
      BY <2>5, RootFacts DEF Room, CommandOpened, Commands, Below
    <3> QED
      BY <2>1, <2>2, <3>1, NamesBelow DEF OwnNames
  <2>6. CASE n = "artifact" /\ command.frontend = "build"
    <3>1. ~Overlap(Runtime, command.artifact)
      BY <2>6 DEF CommandOpened, Accepted, CommandApart
    <3>2. ASSUME Overlap(Room(n), q) PROVE FALSE
      <4>1. Overlap(Runtime \o <<a>>, command.artifact)
        BY <2>2, <2>6, <3>2, RootFacts, OverlapCommutes DEF Room
      <4> QED
        BY <2>2, <3>1, <4>1, RootFacts, OverlapBelow
    <3> QED
      BY <2>2, <3>2
  <2>7. command.frontend \in {"run", "build"}
    BY DEF CommandOpened, Commands
  <2> QED
    BY <2>3, <2>4, <2>5, <2>6, <2>7
<1>2. CASE q \in command.objects
  <2>1. CASE n # "lifecycle"
    <3>1. Room(n) \in {SessionRoots(command)[r] : r \in DOMAIN SessionRoots(command)}
      BY <2>1, RoomFacts, RootFacts DEF Root
    <3> QED
      BY <1>2, <3>1, RootFacts, OverlapCommutes DEF CommandOpened, Accepted, ObjectsApart, Apart
  <2>2. CASE n = "lifecycle"
    BY <1>2, <2>2, RootFacts, OverlapCommutes
       DEF CommandOpened, Accepted, ObjectsApart, Apart, InUse, Room
  <2> QED
    BY <2>1, <2>2
<1>3. CASE q = Root("view")
  <2>1. CASE n # "lifecycle"
    BY <1>3, <2>1, RoomFacts, RootFacts DEF RootNames
  <2>2. CASE n = "lifecycle"
    BY <1>3, <2>2, RootFacts, OverlapCommutes
       DEF CommandOpened, Accepted, NativeApart, Apart, InUse, Room
  <2> QED
    BY <2>1, <2>2
<1>4. CASE command.operates /\ q \in {command.target, command.lifecycle}
  <2>1. CASE n # "lifecycle"
    <3>1. Room(n) \in MutableRoots(command)
      BY <2>1, RoomFacts, RootFacts DEF Root, MutableRoots
    <3> QED
      BY <1>4, <3>1, RootFacts DEF CommandOpened, Accepted, NativeApart, Apart
  <2>2. CASE n = "lifecycle"
    BY <1>4, <2>2, RootFacts, OverlapCommutes
       DEF CommandOpened, Accepted, LifecycleApart, Apart, Room
  <2> QED
    BY <2>1, <2>2
<1> QED
  BY <1>1, <1>2, <1>3, <1>4 DEF Elsewhere

\* A remainder is a path.
LEMMA BranchIsPath ==
    ASSUME NEW d \in Dispatches, NEW n \in Rooms, NEW s, Branch(n, d, s)
    PROVE  s \in Path
<1>1. CASE n = "artifact"
  <2>1. d \in BuildIds /\ s = <<d[1], ArchiveName(d)>>
    BY <1>1 DEF Branch
  <2>2. ArchiveName(d) \in Names /\ d[1] \in Names
    BY <2>1, PathAssumption, DispatchIsPath
  <2> QED
    BY <2>1, <2>2, PairIsPath
<1>2. CASE n = "lifecycle"
  <2>1. d \in OperationIds /\ \E node \in Scripts : s = <<SessionName(d, node)>>
    BY <1>2 DEF Branch
  <2>2. PICK node \in Scripts : s = <<SessionName(d, node)>>
    BY <2>1
  <2>3. SessionName(d, node) \in Names
    BY <2>1, PathAssumption
  <2> QED
    BY <2>2, <2>3, OneName
<1>3. CASE n = "resource"
  <2>1. PICK piece \in Parts : s = d \o <<piece>>
    BY <1>3 DEF Branch
  <2>2. <<piece>> \in Path /\ Len(<<piece>>) = 1
    BY PathAssumption, OneName
  <2> QED
    BY <2>1, <2>2, DispatchIsPath, Joined
<1>4. CASE n \notin {"artifact", "lifecycle", "resource"}
  BY <1>4, DispatchIsPath DEF Branch
<1> QED
  BY <1>1, <1>2, <1>3, <1>4

\* Dispatches whose paths overlap are one dispatch.
LEMMA DispatchesApart ==
    ASSUME NEW d \in Dispatches, NEW e \in Dispatches, Overlap(d, e)
    PROVE  d = e
<1>1. d[1] = e[1] /\ d[2] = e[2]
  BY DispatchIsPath, OverlapIs
<1>2. d = <<d[1], d[2]>> /\ e = <<e[1], e[2]>>
  BY DispatchIsPath
<1> QED
  BY <1>1, <1>2

\* Remainders of one root overlap only for one dispatch.
LEMMA BranchesApart ==
    ASSUME NEW d \in Dispatches, NEW e \in Dispatches, NEW n \in Rooms,
           NEW s, NEW t, Branch(n, d, s), Branch(n, e, t), Overlap(s, t)
    PROVE  d = e
<1>0. s \in Path /\ t \in Path
  BY BranchIsPath
<1>agree. \A i \in 1..Len(s) : i <= Len(t) => s[i] = t[i]
  BY <1>0, OverlapIs
<1>1. CASE n = "artifact"
  <2>1. /\ d \in BuildIds /\ s = <<d[1], ArchiveName(d)>>
        /\ e \in BuildIds /\ t = <<e[1], ArchiveName(e)>>
    BY <1>1 DEF Branch
  <2>2. /\ Len(s) = 2 /\ s[1] = d[1] /\ s[2] = ArchiveName(d)
        /\ Len(t) = 2 /\ t[1] = e[1] /\ t[2] = ArchiveName(e)
    BY <2>1
  <2>3. s[1] = t[1] /\ s[2] = t[2]
    BY <1>agree, <2>2
  <2> QED
    BY <2>1, <2>2, <2>3, PathAssumption
<1>2. CASE n = "lifecycle"
  <2>1. d \in OperationIds /\ e \in OperationIds
    BY <1>2 DEF Branch
  <2>2. PICK node \in Scripts : s = <<SessionName(d, node)>>
    BY <1>2 DEF Branch
  <2>3. PICK other \in Scripts : t = <<SessionName(e, other)>>
    BY <1>2 DEF Branch
  <2>4. /\ Len(s) = 1 /\ s[1] = SessionName(d, node)
        /\ Len(t) = 1 /\ t[1] = SessionName(e, other)
    BY <2>2, <2>3
  <2>5. s[1] = t[1]
    BY <1>agree, <2>4
  <2>6. SessionName(d, node) = SessionName(e, other)
    BY <2>4, <2>5
  <2> QED
    BY <2>1, <2>6, PathAssumption
<1>3. CASE n = "resource"
  <2>1. PICK piece \in Parts : s = d \o <<piece>>
    BY <1>3 DEF Branch
  <2>2. PICK other \in Parts : t = e \o <<other>>
    BY <1>3 DEF Branch
  <2>3. <<piece>> \in Path /\ <<other>> \in Path
    BY PathAssumption, OneName
  <2>4. d \in Path /\ e \in Path
    BY DispatchIsPath
  <2>5. Overlap(d, t)
    BY <1>0, <2>1, <2>3, <2>4, OverlapBelow
  <2>6. Overlap(e, d)
    BY <2>2, <2>3, <2>4, <2>5, OverlapBelow, OverlapCommutes
  <2> QED
    BY <2>6, DispatchesApart
<1>4. CASE n \notin {"artifact", "lifecycle", "resource"}
  BY <1>4, DispatchesApart DEF Branch
<1> QED
  BY <1>1, <1>2, <1>3, <1>4

\* Places of different dispatches are apart.
LEMMA PlacedApart ==
    ASSUME CommandOpened, NEW d \in Dispatches, NEW e \in Dispatches, d # e,
           NEW p, NEW q, Placed(d, p), Placed(e, q)
    PROVE  ~Overlap(p, q)
<1>1. PICK n \in Rooms, s \in Path : InUse(n) /\ p = Room(n) \o s /\ Branch(n, d, s)
  BY DEF Placed
<1>2. PICK m \in Rooms, t \in Path : InUse(m) /\ q = Room(m) \o t /\ Branch(m, e, t)
  BY DEF Placed
<1>3. Room(n) \in Path /\ Room(m) \in Path /\ p \in Path /\ q \in Path
  BY <1>1, <1>2, RoomFacts, Joined
<1> SUFFICES ASSUME Overlap(p, q) PROVE FALSE
  OBVIOUS
<1>4. CASE n = m
  <2>1. Overlap(s, t)
    BY <1>1, <1>2, <1>3, <1>4, OverlapSame
  <2> QED
    BY <1>1, <1>2, <1>4, <2>1, BranchesApart
<1>5. CASE n # m
  <2>1. Overlap(Room(n), q)
    BY <1>1, <1>3, OverlapBelow
  <2>2. Overlap(Room(m), Room(n))
    BY <1>2, <1>3, <2>1, OverlapBelow, OverlapCommutes
  <2> QED
    BY <1>1, <1>2, <1>5, <2>2, RoomsApart
<1> QED
  BY <1>4, <1>5

\* A place is apart from what belongs to no dispatch.
LEMMA PlacedElsewhere ==
    ASSUME CommandOpened, NEW d \in Dispatches, NEW p, Placed(d, p), NEW q \in Elsewhere
    PROVE  ~Overlap(p, q)
<1>1. PICK n \in Rooms, s \in Path : InUse(n) /\ p = Room(n) \o s /\ Branch(n, d, s)
  BY DEF Placed
<1>2. q \in Path /\ ~Overlap(Room(n), q)
  BY <1>1, ElsewhereApart
<1> QED
  BY <1>1, <1>2, RoomFacts, OverlapBelow

\* What a dispatch owns, by kind.
LEMMA OwnedIs ==
    ASSUME NEW d
    PROVE  /\ d \in BuildIds =>
                 Owned(d) = {At("construction", d), At("output", d), Archive(d),
                             At("installed", d)}
           /\ d \in CheckIds =>
                 Owned(d) = {Append(At("resource", d), piece) : piece \in Parts}
                                \cup {At("temporary", d), At("installed", d)}
           /\ d \in OperationIds =>
                 Owned(d) = {LifecycleSession(d, node) : node \in Scripts}
<1>1. /\ ~(d \in BuildIds /\ d \in CheckIds)
      /\ ~(d \in BuildIds /\ d \in OperationIds)
      /\ ~(d \in CheckIds /\ d \in OperationIds)
  BY PathAssumption
<1>2. CASE d \in BuildIds
  BY <1>1, <1>2 DEF Owned, Installed
<1>3. CASE d \in CheckIds
  BY <1>1, <1>3 DEF Owned, Installed
<1>4. CASE d \in OperationIds
  BY <1>1, <1>4 DEF Owned, Installed
<1> QED
  BY <1>2, <1>3, <1>4

\* What a dispatch borrows, by kind.
LEMMA BorrowedIs ==
    ASSUME NEW d
    PROVE  /\ d \in BuildIds =>
                 Borrowed(d) = {Root("view")} \cup Sources(d) \cup InputTrees(d)
           /\ d \in CheckIds =>
                 Borrowed(d) = {Root("view")} \cup {Archive(b) : b \in BuiltInputs[d]}
           /\ d \in OperationIds =>
                 Borrowed(d) = {command.lifecycle} \cup {Archive(b) : b \in BuiltInputs[d]}
<1>1. /\ ~(d \in BuildIds /\ d \in CheckIds)
      /\ ~(d \in BuildIds /\ d \in OperationIds)
      /\ ~(d \in CheckIds /\ d \in OperationIds)
  BY PathAssumption
<1>2. CASE d \in BuildIds
  BY <1>1, <1>2 DEF Borrowed
<1>3. CASE d \in CheckIds
  BY <1>1, <1>3 DEF Borrowed
<1>4. CASE d \in OperationIds
  BY <1>1, <1>4 DEF Borrowed
<1> QED
  BY <1>2, <1>3, <1>4

\* All that an admitted dispatch owns is in its place below some root.
LEMMA OwnedPlaced ==
    ASSUME CommandOpened, NEW d \in admitted, NEW p \in Owned(d)
    PROVE  Placed(d, p)
<1>1. d \in Dispatches /\ d \in Path /\ (d \in OperationIds => command.operates)
  BY DispatchIsPath DEF CommandOpened
<1>2. ASSUME NEW n \in {"construction", "output", "installed", "temporary"}, p = At(n, d)
      PROVE  Placed(d, p)
  <2>1. n \in Rooms /\ InUse(n) /\ Room(n) = Root(n) /\ Branch(n, d, d)
    BY <1>2 DEF Rooms, InUse, Room, Branch
  <2>2. p = Room(n) \o d
    BY <1>2, <2>1 DEF At, Scope
  <2> QED
    BY <1>1, <2>1, <2>2 DEF Placed
<1>3. CASE d \in BuildIds
  <2>1. CASE p = Archive(d)
    <3>1. /\ "artifact" \in Rooms /\ InUse("artifact")
          /\ Room("artifact") = Root("artifact")
          /\ Branch("artifact", d, <<d[1], ArchiveName(d)>>)
      BY <1>3 DEF Rooms, InUse, Room, Branch
    <3>2. <<d[1], ArchiveName(d)>> \in Path
      BY <1>1, <3>1, BranchIsPath
    <3>3. p = Room("artifact") \o <<d[1], ArchiveName(d)>>
      BY <2>1, <3>1 DEF Archive
    <3> QED
      BY <3>1, <3>2, <3>3 DEF Placed
  <2>2. p \in {At("construction", d), At("output", d), Archive(d), At("installed", d)}
    BY <1>3, OwnedIs
  <2> QED
    BY <1>2, <2>1, <2>2
<1>4. CASE d \in CheckIds
  <2>0. d \notin BuildIds
    BY <1>4, PathAssumption
  <2>1. ASSUME NEW piece \in Parts, p = Append(At("resource", d), piece)
        PROVE  Placed(d, p)
    <3>1. /\ "resource" \in Rooms /\ InUse("resource")
          /\ Room("resource") = Root("resource")
          /\ Branch("resource", d, d \o <<piece>>)
      BY DEF Rooms, InUse, Room, Branch
    <3>2. <<piece>> \in Path /\ Root("resource") \in Path
      BY <3>1, PathAssumption, OneName, RoomFacts
    <3>3. d \o <<piece>> \in Path
      BY <1>1, <3>2, Joined
    <3>4. Append(Root("resource") \o d, piece) = Root("resource") \o (d \o <<piece>>)
      <4>1. Root("resource") \o d \in Path /\ piece \in Names
        BY <1>1, <3>2, Joined, PathAssumption
      <4>2. Append(Root("resource") \o d, piece) = (Root("resource") \o d) \o <<piece>>
        BY <1>1, <4>1, Extended
      <4>3. (Root("resource") \o d) \o <<piece>> = Root("resource") \o (d \o <<piece>>)
        BY <1>1, <3>2, <4>1, Extended
      <4> QED
        BY <4>2, <4>3
    <3>5. p = Room("resource") \o (d \o <<piece>>)
      BY <2>1, <3>1, <3>4 DEF At, Scope
    <3> QED
      BY <3>1, <3>3, <3>5 DEF Placed
  <2>2. \/ \E piece \in Parts : p = Append(At("resource", d), piece)
        \/ p \in {At("temporary", d), At("installed", d)}
    BY <1>4, OwnedIs
  <2> QED
    BY <1>2, <2>1, <2>2
<1>5. CASE d \in OperationIds
  <2>0. d \notin BuildIds /\ d \notin CheckIds
    BY <1>5, PathAssumption
  <2>1. PICK node \in Scripts : p = LifecycleSession(d, node)
    BY <1>5, OwnedIs
  <2>2. /\ "lifecycle" \in Rooms /\ InUse("lifecycle")
        /\ Room("lifecycle") = LifecycleSessions
        /\ Branch("lifecycle", d, <<SessionName(d, node)>>)
    BY <1>1, <1>5 DEF Rooms, InUse, Room, Branch
  <2>3. <<SessionName(d, node)>> \in Path
    BY <1>1, <2>2, BranchIsPath
  <2>4. SessionName(d, node) \in Names /\ LifecycleSessions \in Path
    BY <1>5, PathAssumption, RootFacts
  <2>5. p = LifecycleSessions \o <<SessionName(d, node)>>
    BY <2>1, <2>4 DEF LifecycleSession, Path
  <2> QED
    BY <2>2, <2>3, <2>5 DEF Placed
<1> QED
  BY <1>1, <1>3, <1>4, <1>5 DEF Dispatches

\* A place below q overlaps what q is in.
LEMMA PrefixBelow ==
    ASSUME NEW p \in Path, NEW q \in Path, NEW s \in Path, IsPrefix(p, q)
    PROVE  Overlap(p, q \o s)
<1>1. Len(p) \in Nat /\ Len(q) \in Nat /\ Len(p) <= Len(q) /\ Overlap(p, q)
  BY DEF IsPrefix, Overlap, Path
<1>2. q \o s \in Path /\ \A i \in 1..Len(q) : (q \o s)[i] = q[i]
  BY Joined
<1>3. \A i \in 1..Len(p) : i \in 1..Len(q) /\ p[i] = q[i]
  BY <1>1, OverlapIs
<1> QED
  BY <1>2, <1>3, OverlapIs

\* No dispatch owns a place that overlaps the recipe of a construction, but for a
\* recipe whose catalog is inside the roots of the command.
LEMMA SourceApart ==
    ASSUME CommandOpened, NEW d \in Dispatches, NEW p, Placed(d, p),
           NEW e \in admitted, e \in BuildIds, NEW q \in Sources(e)
    PROVE  ~Overlap(p, q)
<1>1. PICK n \in Rooms, s \in Path : InUse(n) /\ p = Room(n) \o s /\ Branch(n, d, s)
  BY DEF Placed
<1>2. /\ q = Source(e)
      /\ ~IsPrefix(Runtime, command.catalog) /\ ~IsPrefix(command.artifact, command.catalog)
  BY DEF Sources
<1>3. Recipe[e] \in Names /\ <<Recipe[e]>> \in Path
  BY PathAssumption, OneName
<1>4. command.catalog \in Path /\ Runtime \in Path /\ command.artifact \in Path
  BY RootFacts
<1>5. q = command.catalog \o <<Recipe[e]>> /\ q \in Path
  <2>1. q = command.catalog \o <<Recipe[e]>>
    BY <1>2, <1>3, <1>4, Extended DEF Source
  <2> QED
    BY <1>3, <1>4, <2>1, Joined
<1>6. e \in Dispatches /\ e \in Path /\ ConstructionAdmissible(e)
  BY DispatchIsPath DEF CommandOpened, Admissible
<1>7. ~Overlap(Source(e), Archive(e)) /\ ~Overlap(Source(e), At("construction", e))
  BY <1>6 DEF ConstructionAdmissible
<1> SUFFICES ASSUME Overlap(p, q) PROVE FALSE
  OBVIOUS
<1>8. Overlap(Room(n), q)
  BY <1>1, <1>5, RoomFacts, OverlapBelow
<1>9. CASE n = "artifact"
  <2>1. IsPrefix(q, command.artifact)
    BY <1>2, <1>3, <1>4, <1>5, <1>8, <1>9, Inside, RootFacts DEF Room
  <2>2. <<e[1], ArchiveName(e)>> \in Path
    BY <1>6, PathAssumption, DispatchIsPath, PairIsPath
  <2>3. Archive(e) = command.artifact \o <<e[1], ArchiveName(e)>>
    BY RootFacts DEF Archive
  <2> QED
    BY <1>2, <1>4, <1>5, <1>7, <2>1, <2>2, <2>3, PrefixBelow
<1>10. CASE n # "artifact"
  <2>1. PICK a \in OwnNames : Room(n) = Below(a)
    BY <1>10, RootFacts DEF Rooms, OwnNames, Room, LifecycleSessions
  <2>2. <<a>> \in Path /\ Room(n) = Runtime \o <<a>>
    <3>1. a \in Names
      BY PathAssumption
    <3> QED
      BY <2>1, <3>1, BelowIs, OneName
  <2>3. Overlap(Runtime, q)
    BY <1>4, <1>5, <1>8, <2>2, OverlapBelow
  <2>4. IsPrefix(q, Runtime)
    BY <1>2, <1>3, <1>4, <1>5, <2>3, Inside
  <2>5. At("construction", e) = (Runtime \o <<"construction-sessions">>) \o e
    <3>1. "construction-sessions" \in OwnNames
      BY DEF OwnNames
    <3> QED
      BY <3>1, RootFacts, BelowIs DEF At, Scope
  <2>6. <<"construction-sessions">> \in Path
    <3>1. "construction-sessions" \in Names
      BY PathAssumption DEF OwnNames
    <3> QED
      BY <3>1, OneName
  <2>7. At("construction", e) = Runtime \o (<<"construction-sessions">> \o e)
    <3>1. /\ Runtime \in Seq(Names) /\ e \in Seq(Names)
          /\ <<"construction-sessions">> \in Seq(Names)
      BY <1>4, <1>6, <2>6 DEF Path
    <3>2. (Runtime \o <<"construction-sessions">>) \o e
             = Runtime \o (<<"construction-sessions">> \o e)
      BY <3>1, ConcatAssociative
    <3> QED
      BY <2>5, <3>2
  <2>8. <<"construction-sessions">> \o e \in Path
    BY <1>6, <2>6, Joined
  <2> QED
    BY <1>2, <1>4, <1>5, <1>7, <2>4, <2>7, <2>8, PrefixBelow
<1> QED
  BY <1>9, <1>10

\* What a dispatch owns is apart from what others borrow, but for its outputs.
LEMMA BorrowedApart ==
    ASSUME CommandOpened, NEW d \in admitted, NEW e \in admitted, d # e, d \notin BuiltInputs[e],
           NEW p \in Owned(d), NEW q \in Borrowed(e)
    PROVE  ~Overlap(p, q)
<1>1. d \in Dispatches /\ e \in Dispatches /\ Placed(d, p)
  BY OwnedPlaced DEF CommandOpened
<1>2. ASSUME NEW b \in BuiltInputs[e], q \in Owned(b) PROVE ~Overlap(p, q)
  <2>1. b \in admitted /\ b \in Dispatches /\ b # d
    BY <1>1 DEF CommandOpened
  <2> QED
    BY <1>1, <1>2, <2>1, OwnedPlaced, PlacedApart
<1>3. ASSUME NEW b \in BuiltInputs[e]
      PROVE  At("output", b) \in Owned(b) /\ Archive(b) \in Owned(b)
  <2>1. b \in BuildIds
    BY <1>1, PathAssumption
  <2> QED
    BY <2>1, OwnedIs
<1>4. CASE q = Root("view")
  BY <1>1, <1>4, PlacedElsewhere DEF Elsewhere
<1>5. CASE e \in BuildIds
  <2>1. CASE q \in Sources(e)
    BY <1>1, <1>5, <2>1, SourceApart
  <2>2. CASE q \in InputTrees(e)
    BY <1>2, <1>3, <2>2 DEF InputTrees
  <2> QED
    BY <1>4, <1>5, <2>1, <2>2, BorrowedIs
<1>6. CASE e \in CheckIds
  <2>1. e \notin BuildIds
    BY <1>6, PathAssumption
  <2> QED
    BY <1>2, <1>3, <1>4, <1>6, BorrowedIs
<1>7. CASE e \in OperationIds
  <2>1. e \notin BuildIds /\ e \notin CheckIds /\ command.operates
    BY <1>7, PathAssumption DEF CommandOpened
  <2>2. command.lifecycle \in Elsewhere
    BY <2>1 DEF Elsewhere
  <2> QED
    BY <1>1, <1>2, <1>3, <1>7, <2>1, <2>2, PlacedElsewhere, BorrowedIs
<1> QED
  BY <1>1, <1>5, <1>6, <1>7 DEF Dispatches

\* The comparisons the command makes imply the ones it does not make.
LEMMA ApartFromInv == PathInv => PrivateApart
<1> SUFFICES ASSUME PathInv, NEW d \in admitted, NEW p \in Owned(d)
             PROVE  /\ \A q \in Elsewhere : ~Overlap(p, q)
                    /\ \A e \in admitted \ {d} :
                          /\ \A q \in Owned(e) : ~Overlap(p, q)
                          /\ d \notin BuiltInputs[e] =>
                                \A q \in Borrowed(e) : ~Overlap(p, q)
  BY DEF PrivateApart, Apart
<1>1. CommandOpened /\ d \in Dispatches /\ Placed(d, p)
  BY OwnedPlaced DEF PathInv, CommandOpened
<1>2. \A q \in Elsewhere : ~Overlap(p, q)
  BY <1>1, PlacedElsewhere
<1>3. ASSUME NEW e \in admitted \ {d}, NEW q \in Owned(e) PROVE ~Overlap(p, q)
  BY <1>1, OwnedPlaced, PlacedApart DEF CommandOpened
<1>4. ASSUME NEW e \in admitted \ {d}, d \notin BuiltInputs[e], NEW q \in Borrowed(e)
      PROVE  ~Overlap(p, q)
  BY <1>1, <1>4, BorrowedApart
<1> QED
  BY <1>2, <1>3, <1>4

(***************************************************************************)
(* Whatever coordinates a command is given and whatever the run is: what a *)
(* dispatch owns stays apart from what others own, and from what they      *)
(* borrow unless it is their declared input (NativePaths, PrivateApart).   *)
(* The comparisons of cli/run_command.cpp and construction.cpp are enough. *)
(***************************************************************************)
THEOREM PathsStayApart == PathSpec => []PrivateApart
<1>1. PathInit => PathInv
  BY PathStarts
<1>2. PathInv /\ [PathNext]_pathVars => PathInv'
  BY PathStep
<1>3. PathInv => PrivateApart
  BY ApartFromInv
<1> QED
  BY <1>1, <1>2, <1>3, PTL DEF PathSpec

-----------------------------------------------------------------------------
(***************************************************************************)
(* The command line.                                                       *)
(***************************************************************************)

\* Argument vectors: how often each option is given.
Lines == [Options -> Nat]

\* The evidence a fresh run of the frontend v leaves.
EvidenceOf(v) == [frontend |-> v, lifecycle_view |-> v = "run", policy |-> v = "run"]

\* The inductive invariant of LineSpec.
LineInv ==
    /\ verb \in Verbs \cup {"none"}
    /\ verb = "none" => verdict = "read"
    /\ verb # "none" => line \in Lines
    /\ verdict \in {"read", "usage", "accepted", "assembled", "refused"}
    /\ verdict = "accepted" => Parses(verb, line)
    /\ verdict = "assembled" => Parses(verb, line)
    /\ retained \in {NoEvidence, EvidenceOf("run"), EvidenceOf("build")}

\* Every option read without a test is one the parser requires.
LEMMA DereferencedGiven ==
    ASSUME NEW v \in Verbs, NEW l \in Lines, Parses(v, l)
    PROVE  Dereferenced(v, Given(l)) \subseteq Given(l)
<1>1. CASE v \in {"inspect-run", "inspect-effect"}
  BY <1>1 DEF Parses, Dereferenced, Inspections
<1>2. CASE v \in {"catalog", "resolve", "transaction"}
  BY <1>2
     DEF Parses, Dereferenced, Inspections, RunLike, StartComplete, Binding, Architecture
<1>3. CASE v = "run"
  BY <1>3
     DEF Parses, Dereferenced, Inspections, RunLike, StartComplete, ResumeComplete,
         RunComplete, Binding, Architecture, Execution, BuildPolicy
<1>4. CASE v = "build"
  BY <1>4
     DEF Parses, Dereferenced, Inspections, RunLike, StartComplete, ResumeComplete,
         BuildComplete, Binding, Architecture, Execution, BuildPolicy
<1> QED
  BY <1>1, <1>2, <1>3, <1>4 DEF Verbs

\* Every option the parser admits is one the form of the command looks at.
LEMMA GivenConsulted ==
    ASSUME NEW v \in Verbs, NEW l \in Lines, Parses(v, l)
    PROVE  Given(l) \subseteq Consulted(v, Given(l))
<1> USE DEF Parses, Consulted, Inspections, Readable
<1>1. CASE v \in {"inspect-run", "inspect-effect"}
  BY <1>1
<1> USE DEF Dereferenced, RunLike, Shared, Native, Catalog, Binding, Architecture,
            Preferences, Intents, Execution, RootViews, LifecycleOptions, Groups,
            BuildPolicy, StartComplete
<1>2. CASE v = "catalog"
  BY <1>2
<1>3. CASE v = "resolve"
  BY <1>3
<1>4. CASE v = "transaction"
  BY <1>4
<1>5. CASE v = "run"
  BY <1>5 DEF ResumeComplete, RunComplete, StartSemantics, Subject
<1>6. CASE v = "build"
  BY <1>6 DEF ResumeComplete, BuildComplete, StartSemantics, Subject
<1> QED
  BY <1>1, <1>2, <1>3, <1>4, <1>5, <1>6 DEF Verbs

\* The host finds nothing wrong with a fresh command that parses.
LEMMA FreshIsComplete ==
    ASSUME NEW v \in RunLike, NEW l \in Lines, Parses(v, l), "resume" \notin Given(l)
    PROVE  /\ Evidence(v, Given(l)) = EvidenceOf(v)
           /\ ~Contradicts(v, Given(l), EvidenceOf(v), FALSE)
<1> USE DEF Parses, Inspections, RunLike, Contradicts, Evidence, EvidenceOf,
            LifecycleOptions, RootViews, BuildPolicy
<1>1. CASE v = "run"
  <2>1. LifecycleOptions \cup RootViews \cup BuildPolicy \cup {"operation-policy"}
            \subseteq Given(l)
    BY <1>1 DEF RunComplete
  <2>2. Evidence(v, Given(l)) = EvidenceOf(v)
    BY <1>1, <2>1
  <2>3. ~Contradicts(v, Given(l), EvidenceOf(v), FALSE)
    BY <1>1, <2>1
  <2> QED
    BY <2>2, <2>3
<1>2. CASE v = "build"
  <2>1. /\ {"build-root-view"} \cup BuildPolicy \subseteq Given(l)
        /\ Given(l) \cap (LifecycleOptions
                          \cup {"lifecycle-root-view", "operation-policy"}) = {}
    BY <1>2 DEF BuildComplete
  <2>2. Evidence(v, Given(l)) = EvidenceOf(v)
    BY <1>2, <2>1
  <2>3. ~Contradicts(v, Given(l), EvidenceOf(v), FALSE)
    BY <1>2, <2>1
  <2> QED
    BY <2>2, <2>3
<1> QED
  BY <1>1, <1>2

\* Nor with a resumed one, whose evidence is that of a fresh one.
LEMMA ResumedIsComplete ==
    ASSUME NEW v \in RunLike, NEW l \in Lines, Parses(v, l), "resume" \in Given(l)
    PROVE  ~Contradicts(v, Given(l), EvidenceOf(v), TRUE)
<1> USE DEF Parses, Inspections, RunLike, ResumeComplete, StartSemantics, Contradicts,
            EvidenceOf, LifecycleOptions, RootViews, BuildPolicy
<1>1. CASE v = "run"
  BY <1>1 DEF RunComplete
<1>2. CASE v = "build"
  BY <1>2 DEF BuildComplete
<1> QED
  BY <1>1, <1>2

\* Nothing is read and no evidence retained.
LEMMA LineStarts == LineInit => LineInv
  BY DEF LineInit, LineInv

\* What is accepted parses, and evidence is that of a complete command.
LEMMA LineStep == LineInv /\ [LineNext]_lineVars => LineInv'
<1> SUFFICES ASSUME LineInv, [LineNext]_lineVars PROVE LineInv'
  OBVIOUS
<1>1. ASSUME NEW v \in Verbs, NEW intent \in Intents, Type(v, intent) PROVE LineInv'
  BY <1>1 DEF Type, LineInv, Lines, Verbs
<1>2. ASSUME NEW o \in Options, NEW n \in 0..2, Edit(o, n) PROVE LineInv'
  <2>1. line' \in Lines
    BY <1>2 DEF Edit, LineInv, Lines
  <2> QED
    BY <1>2, <2>1 DEF Edit, LineInv
<1>3. CASE Parse
  BY <1>3 DEF Parse, LineInv
<1>4. CASE Assemble
  <2> DEFINE g == Given(line)
             resumed == "resume" \in g
             found == IF resumed THEN retained ELSE Evidence(verb, g)
  <2>1. /\ verb \in RunLike /\ verdict = "accepted" /\ verb \in Verbs /\ verb # "none"
        /\ line \in Lines /\ Parses(verb, line) /\ UNCHANGED <<verb, line, edits>>
    BY <1>4 DEF Assemble, LineInv, RunLike, Verbs
  <2>2. CASE resumed /\ retained.frontend # verb
    BY <1>4, <2>1, <2>2 DEF Assemble, LineInv
  <2>3. CASE resumed => retained.frontend = verb
    <3>1. found = EvidenceOf(verb)
      <4>1. CASE resumed
        <5>1. found = retained /\ retained.frontend = verb
          BY <2>3, <4>1
        <5>2. retained.frontend \in {"run", "build"}
          BY <2>1, <5>1 DEF RunLike
        <5>3. NoEvidence.frontend = "none"
          BY DEF NoEvidence
        <5>4. PICK v \in {"run", "build"} : retained = EvidenceOf(v)
          BY <5>2, <5>3 DEF LineInv
        <5>5. EvidenceOf(v).frontend = v
          BY DEF EvidenceOf
        <5> QED
          BY <5>1, <5>4, <5>5
      <4>2. CASE ~resumed
        BY <2>1, <4>2, FreshIsComplete
      <4> QED
        BY <4>1, <4>2
    <3>2. ~Contradicts(verb, g, found, resumed)
      <4>1. CASE resumed
        <5>1. ~Contradicts(verb, g, EvidenceOf(verb), TRUE)
          BY <2>1, <4>1, ResumedIsComplete
        <5>2. resumed = TRUE
          BY <4>1
        <5> HIDE DEF resumed
        <5> QED
          BY <3>1, <5>1, <5>2
      <4>2. CASE ~resumed
        <5>1. ~Contradicts(verb, g, EvidenceOf(verb), FALSE)
          BY <2>1, <4>2, FreshIsComplete
        <5>2. resumed = FALSE
          BY <4>2
        <5> HIDE DEF resumed
        <5> QED
          BY <3>1, <5>1, <5>2
      <4> QED
        BY <4>1, <4>2
    <3>3. verdict' = "assembled" /\ retained' = found
      BY <1>4, <2>3, <3>2 DEF Assemble
    <3>4. retained' \in {NoEvidence, EvidenceOf("run"), EvidenceOf("build")}
      BY <2>1, <3>1, <3>3 DEF RunLike
    <3> QED
      BY <2>1, <3>3, <3>4 DEF LineInv
  <2> QED
    BY <2>2, <2>3
<1>5. CASE Again
  BY <1>5 DEF Again, LineInv
<1>6. CASE UNCHANGED lineVars
  BY <1>6 DEF lineVars, LineInv
<1> QED
  BY <1>1, <1>2, <1>3, <1>4, <1>5, <1>6 DEF LineNext

(***************************************************************************)
(* For every argument vector, at any distance from a complete one: the     *)
(* options a command reads were given, those given are looked at, and the  *)
(* host never contradicts the parser (CommandLine, AcceptedIsComposable).  *)
(***************************************************************************)
THEOREM AcceptedCanBeRun == LineSpec => []AcceptedIsComposable
<1>1. LineInv => AcceptedIsComposable
  <2> SUFFICES ASSUME LineInv PROVE AcceptedIsComposable
    OBVIOUS
  <2>1. ASSUME verdict \in {"accepted", "assembled"}
        PROVE  /\ Dereferenced(verb, Given(line)) \subseteq Given(line)
               /\ Given(line) \subseteq Consulted(verb, Given(line))
    <3>1. verb \in Verbs /\ line \in Lines /\ Parses(verb, line)
      BY <2>1 DEF LineInv
    <3> QED
      BY <3>1, DereferencedGiven, GivenConsulted
  <2> QED
    BY <2>1 DEF AcceptedIsComposable, LineInv
<1> QED
  BY <1>1, LineStarts, LineStep, PTL DEF LineSpec

-----------------------------------------------------------------------------
(***************************************************************************)
(* What evidence says of the nodes of a program.  What one visit of the    *)
(* loop does to the statuses, what a sweep does, and where the loop comes  *)
(* to rest; then what stays true of the evidence the loop is run on.       *)
(***************************************************************************)

\* A set of naturals that holds the first and with every number the next one
\* holds all up to a bound.
LEMMA Upwards ==
    ASSUME NEW m \in Nat, NEW T, 0 \in T,
           \A k \in 0 .. m : k < m /\ k \in T => k + 1 \in T
    PROVE  0 .. m \subseteq T
<1> DEFINE Bad == (0 .. m) \ T
<1> SUFFICES ASSUME Bad # {} PROVE FALSE
  OBVIOUS
<1>1. Bad \subseteq Nat
  OBVIOUS
<1>2. PICK n \in Bad : \A k \in Bad : ~(<<k, n>> \in OpToRel(<, Nat))
  BY <1>1, NatLessThanWellFounded, WFMin
<1>3. \A k \in Bad : ~(k < n)
  BY <1>1, <1>2 DEF OpToRel
<1>4. n \in 0 .. m /\ n \notin T /\ n # 0
  OBVIOUS
<1>5. n - 1 \in 0 .. m /\ n - 1 < m /\ n - 1 < n /\ (n - 1) + 1 = n
  BY <1>4
<1>6. n - 1 \in T
  BY <1>3, <1>5
<1> HIDE DEF Bad
<1> QED
  BY <1>4, <1>5, <1>6

\* A set with a measure has an element of least measure.
LEMMA LeastMeasured ==
    ASSUME NEW S, NEW f \in [S -> Nat], S # {}
    PROVE  \E x \in S : \A y \in S : ~(f[y] < f[x])
<1> DEFINE T == {f[x] : x \in S}
<1>1. T \subseteq Nat /\ T # {}
  OBVIOUS
<1>2. PICK n \in T : \A k \in T : ~(<<k, n>> \in OpToRel(<, Nat))
  BY <1>1, NatLessThanWellFounded, WFMin
<1>3. \A k \in T : ~(k < n)
  BY <1>1, <1>2 DEF OpToRel
<1>4. PICK x \in S : n = f[x]
  OBVIOUS
<1> QED
  BY <1>3, <1>4

-----------------------------------------------------------------------------
\* Units partition the nodes they own, so a node determines its unit.
LEMMA MemberOwner ==
    ASSUME NEW u \in Units, NEW n \in Members(u)
    PROVE  Owner(n) = u /\ n \in Nodes /\ n \notin Retained
  BY ProgramAssumption DEF Owner, Nodes

\* A unit is a member of itself.
LEMMA UnitIsMember == \A u \in Units : u \in Members(u) /\ u \in Nodes
  BY DEF Members, Nodes

\* Every node is retained or has an owner.
LEMMA OwnerIsUnit ==
    ASSUME NEW n \in Nodes, n \notin Retained
    PROVE  Owner(n) \in Units /\ n \in Members(Owner(n))
<1>1. PICK u \in Units : n \in Members(u)
  BY DEF Nodes
<1> QED
  BY <1>1, MemberOwner

\* The results an operation returned are of its own lifecycle nodes.
LEMMA ReturnedOwn ==
    ASSUME NEW u \in Operations, NEW r \in Results(u), NEW flag
    PROVE  Returned(u, r, flag) \subseteq Lifecycle(u) /\ u \notin Returned(u, r, flag)
<1>1. r \in OperationResults(u)
  BY DEF Results
<1>2. Before[u] \in Seq(Nodes) /\ After[u] \in Seq(Nodes) /\ u \notin Lifecycle(u)
  BY ProgramAssumption
<1>3. DOMAIN r.before \subseteq DOMAIN Before[u]
  BY <1>1, <1>2 DEF OperationResults, AllPassed, FailedLast
<1>4. DOMAIN r.after \subseteq DOMAIN After[u]
  BY <1>1, <1>2 DEF OperationResults, AllPassed, FailedLast
<1> QED
  BY <1>2, <1>3, <1>4 DEF Returned, Lifecycle, Range

\* A lifecycle node returned one result.
LEMMA ReturnedOnce ==
    ASSUME NEW u \in Operations, NEW r \in Results(u)
    PROVE  Returned(u, r, TRUE) \cap Returned(u, r, FALSE) = {}
<1>1. r \in OperationResults(u)
  BY DEF Results
<1>2. Before[u] \in Seq(Nodes) /\ After[u] \in Seq(Nodes)
  BY ProgramAssumption
<1>3. DOMAIN r.before \subseteq DOMAIN Before[u]
  BY <1>1, <1>2 DEF OperationResults, AllPassed, FailedLast
<1>4. DOMAIN r.after \subseteq DOMAIN After[u]
  BY <1>1, <1>2 DEF OperationResults, AllPassed, FailedLast
<1>5. /\ \A i, j \in DOMAIN Before[u] : Before[u][i] = Before[u][j] => i = j
      /\ \A i, j \in DOMAIN After[u] : After[u][i] = After[u][j] => i = j
      /\ \A i \in DOMAIN Before[u], j \in DOMAIN After[u] : Before[u][i] # After[u][j]
  BY PhaseAssumption DEF IsInjective, Range
<1> QED
  BY <1>3, <1>4, <1>5 DEF Returned

-----------------------------------------------------------------------------
(* What evidence says of a node by itself.                                  *)

IdleNodes(ev) == UNION {Members(u) : u \in Idle(ev)}

\* The nodes evidence decides are those of units with evidence.
LEMMA DecidedNodes ==
    ASSUME NEW ev, EvidenceType(ev), NEW u \in Units, NEW n \in Members(u)
    PROVE  /\ n \in SatisfiedNodes(ev) <=> ev[u] # None /\ n \in SatisfiedBy(u, ev[u])
           /\ n \in FailedNodes(ev) <=>
                  /\ ev[u] # None /\ ~Succeeded(ev[u])
                  /\ n = u \/ (u \in Operations /\ n \in Returned(u, ev[u], FALSE))
           /\ n \in SatisfiedNodes(ev) \cup FailedNodes(ev) \cup CutOffNodes(ev)
                  <=> ev[u] # None
<1>1. /\ n \notin Retained
      /\ \A w \in Units : n \in Members(w) => w = u
  BY MemberOwner
<1>2. \A w \in Evidenced(ev) : w \in Units /\ ev[w] # None /\ ev[w] \in Results(w)
  BY DEF EvidenceType, Evidenced
<1>3. \A w \in Evidenced(ev) : SatisfiedBy(w, ev[w]) \subseteq Members(w)
  BY <1>2, ReturnedOwn DEF SatisfiedBy, Members
<1>4. \A w \in Evidenced(ev) \cap Operations : Returned(w, ev[w], FALSE) \subseteq Members(w)
  BY <1>2, ReturnedOwn DEF Members
<1>5. n \in SatisfiedNodes(ev) <=> ev[u] # None /\ n \in SatisfiedBy(u, ev[u])
  BY <1>1, <1>2, <1>3 DEF SatisfiedNodes, Evidenced
<1>6. n \in FailedNodes(ev) <=>
          /\ ev[u] # None /\ ~Succeeded(ev[u])
          /\ n = u \/ (u \in Operations /\ n \in Returned(u, ev[u], FALSE))
  <2>1. \A w \in FailedUnits(ev) : w \in Evidenced(ev) /\ w \in Members(w) /\ ~Succeeded(ev[w])
    BY <1>2, UnitIsMember DEF FailedUnits
  <2>2. n \in FailedUnits(ev) => n = u
    BY <1>1, <1>2, <2>1
  <2>3. u \in FailedUnits(ev) <=> ev[u] # None /\ ~Succeeded(ev[u])
    BY DEF FailedUnits, Evidenced
  <2>4. \A w \in FailedUnits(ev) \cap Operations : n \in Returned(w, ev[w], FALSE) => w = u
    BY <1>1, <1>2, <1>4, <2>1
  <2>5. n \in FailedNodes(ev) <=>
            \/ n \in FailedUnits(ev)
            \/ \E w \in FailedUnits(ev) \cap Operations : n \in Returned(w, ev[w], FALSE)
    BY DEF FailedNodes
  <2>6. CASE u \in FailedUnits(ev)
    BY <2>2, <2>3, <2>4, <2>5, <2>6
  <2>7. CASE u \notin FailedUnits(ev)
    BY <2>2, <2>3, <2>4, <2>5, <2>7
  <2> QED
    BY <2>6, <2>7
<1>7. n \in SatisfiedNodes(ev) \cup FailedNodes(ev) \cup CutOffNodes(ev) <=> ev[u] # None
  <2>1. CASE ev[u] = None
    <3>1. ~\E w \in FailedUnits(ev) : n \in Members(w)
      BY <1>1, <1>2, <2>1 DEF FailedUnits
    <3> QED
      BY <1>5, <1>6, <2>1, <3>1 DEF CutOffNodes
  <2>2. CASE ev[u] # None /\ Succeeded(ev[u])
    BY <1>5, <2>2 DEF SatisfiedBy
  <2>3. CASE ev[u] # None /\ ~Succeeded(ev[u])
    <3>1. u \in FailedUnits(ev)
      BY <2>3 DEF FailedUnits, Evidenced
    <3> QED
      BY <2>3, <3>1 DEF CutOffNodes
  <2> QED
    BY <2>1, <2>2, <2>3
<1> QED
  BY <1>5, <1>6, <1>7

\* No node is both satisfied and failed.
LEMMA DecidedOnce ==
    ASSUME NEW ev, EvidenceType(ev)
    PROVE  SatisfiedNodes(ev) \cap FailedNodes(ev) = {}
<1> SUFFICES ASSUME NEW n \in SatisfiedNodes(ev), n \in FailedNodes(ev) PROVE FALSE
  OBVIOUS
<1>1. PICK u \in Evidenced(ev) : ~Succeeded(ev[u]) /\ n \in Members(u)
  <2>1. \A w \in FailedUnits(ev) : w \in Evidenced(ev) /\ ~Succeeded(ev[w]) /\ w \in Members(w)
                                   /\ ev[w] \in Results(w)
    BY UnitIsMember DEF FailedUnits, Evidenced, EvidenceType
  <2>2. \A w \in FailedUnits(ev) \cap Operations : Returned(w, ev[w], FALSE) \subseteq Members(w)
    BY <2>1, ReturnedOwn DEF Members
  <2> QED
    BY <2>1, <2>2 DEF FailedNodes
<1>2. u \in Units /\ ev[u] # None /\ ev[u] \in Results(u)
  BY DEF EvidenceType, Evidenced
<1>3. n \in SatisfiedBy(u, ev[u]) /\ (n = u \/ (u \in Operations /\ n \in Returned(u, ev[u], FALSE)))
  BY <1>1, <1>2, DecidedNodes
<1>4. u \in Operations /\ n \in Returned(u, ev[u], TRUE)
  BY <1>1, <1>3 DEF SatisfiedBy
<1> QED
  BY <1>2, <1>3, <1>4, ReturnedOnce, ReturnedOwn

\* The statuses the loop starts from.
LEMMA AssignedIs ==
    ASSUME NEW ev, EvidenceType(ev)
    PROVE  /\ Assigned(ev) \in [Nodes -> Statuses]
           /\ \A n \in Nodes :
                 Assigned(ev)[n] =
                     IF n \in SatisfiedNodes(ev) THEN "satisfied"
                     ELSE IF n \in FailedNodes(ev) THEN "failed"
                     ELSE IF n \in CutOffNodes(ev) THEN "blocked"
                     ELSE "pending"
<1>1. ASSUME NEW n \in Nodes
      PROVE  Assigned(ev)[n] =
                     IF n \in SatisfiedNodes(ev) THEN "satisfied"
                     ELSE IF n \in FailedNodes(ev) THEN "failed"
                     ELSE IF n \in CutOffNodes(ev) THEN "blocked"
                     ELSE "pending"
  <2>1. CASE n \in Retained
    BY <2>1 DEF Assigned, SatisfiedNodes
  <2>2. CASE n \notin Retained
    <3> DEFINE u == Owner(n)
    <3>1. u \in Units /\ n \in Members(u)
      BY <2>2, OwnerIsUnit
    <3> HIDE DEF u
    <3>2. Assigned(ev)[n] =
              CASE ev[u] = None                       -> "pending"
                [] ev[u] # None /\ Succeeded(ev[u])   -> "satisfied"
                [] OTHER ->
                     IF n = u THEN "failed"
                     ELSE CASE n \in Returned(u, ev[u], TRUE)  -> "satisfied"
                            [] n \in Returned(u, ev[u], FALSE) -> "failed"
                            [] OTHER                           -> "blocked"
      BY <2>2 DEF Assigned, u
    <3>3. CASE ev[u] = None
      BY <3>1, <3>2, <3>3, DecidedNodes
    <3>4. CASE ev[u] # None /\ Succeeded(ev[u])
      <4>1. n \in SatisfiedNodes(ev)
        BY <3>1, <3>4, DecidedNodes DEF SatisfiedBy
      <4> QED
        BY <3>2, <3>4, <4>1
    <3>5. CASE ev[u] # None /\ ~Succeeded(ev[u])
      <4>1. ev[u] \in Results(u)
        BY <3>1, <3>5 DEF EvidenceType, Evidenced
      <4>2. u \in Operations => u \notin Returned(u, ev[u], TRUE)
                                /\ Returned(u, ev[u], TRUE) \cap Returned(u, ev[u], FALSE) = {}
        BY <4>1, ReturnedOnce, ReturnedOwn
      <4>3. n \in SatisfiedNodes(ev) <=> u \in Operations /\ n \in Returned(u, ev[u], TRUE)
        BY <3>1, <3>5, DecidedNodes DEF SatisfiedBy
      <4>4. n \in FailedNodes(ev) <=> n = u \/ (u \in Operations /\ n \in Returned(u, ev[u], FALSE))
        BY <3>1, <3>5, DecidedNodes
      <4>5. n \in SatisfiedNodes(ev) \cup FailedNodes(ev) \cup CutOffNodes(ev)
        BY <3>1, <3>5, DecidedNodes
      <4>6. u \notin Operations => n = u
        BY <3>1 DEF Members
      <4>7. CASE n = u
        BY <3>2, <3>5, <4>2, <4>3, <4>4, <4>7
      <4>8. CASE n # u
        BY <3>2, <3>5, <4>2, <4>3, <4>4, <4>5, <4>6, <4>8
      <4> QED
        BY <4>7, <4>8
    <3> QED
      BY <3>3, <3>4, <3>5
  <2> QED
    BY <2>1, <2>2
<1>2. Assigned(ev) = [n \in Nodes |-> Assigned(ev)[n]]
  BY DEF Assigned
<1>3. \A n \in Nodes : Assigned(ev)[n] \in Statuses
  BY <1>1 DEF Statuses
<1> QED
  BY <1>1, <1>2, <1>3

-----------------------------------------------------------------------------
\* A visit gives every member of an undecided unit one status.
LEMMA VisitIs ==
    ASSUME NEW st \in [Nodes -> Statuses], NEW u \in Units
    PROVE  /\ Visit(st, u) \in [Nodes -> Statuses]
           /\ Derived(st, u) \in {"blocked", "ready", "pending"}
           /\ \A n \in Nodes :
                 Visit(st, u)[n] =
                     IF n \in Members(u) /\ st[u] \notin {"satisfied", "failed"}
                     THEN Derived(st, u) ELSE st[n]
<1>1. Members(u) \subseteq Nodes
  BY MemberOwner
<1>2. Derived(st, u) \in {"blocked", "ready", "pending"}
  BY DEF Derived
<1>3. CASE st[u] \in {"satisfied", "failed"}
  BY <1>2, <1>3 DEF Visit
<1>4. CASE st[u] \notin {"satisfied", "failed"}
  <2>1. Visit(st, u) = [n \in Nodes |-> IF n \in Members(u) THEN Derived(st, u) ELSE st[n]]
    BY <1>4 DEF Visit
  <2> QED
    BY <1>2, <1>4, <2>1 DEF Statuses
<1> QED
  BY <1>3, <1>4

\* What the loop keeps: a unit with evidence has the statuses its evidence
\* gives, the members of another unit share one status, and a status that is
\* not "pending" has its reason.
Sound(ev, st) ==
    /\ st \in [Nodes -> Statuses]
    /\ \A n \in Nodes \ IdleNodes(ev) : st[n] = Assigned(ev)[n]
    /\ \A u \in Idle(ev) :
          /\ st[u] \in {"pending", "ready", "blocked"}
          /\ \A n \in Members(u) : st[n] = st[u]
          /\ st[u] = "ready" => External(u) \subseteq SatisfiedNodes(ev)
          /\ st[u] = "blocked" =>
                /\ u \in BlockedUnits(ev)
                /\ \E n \in External(u) : st[n] \in {"failed", "blocked"}

\* A status that is not "pending" is kept.
Settles(ev, st, next) == \A u \in Idle(ev) : st[u] # "pending" => next[u] = st[u]

\* The nodes of the units with evidence, and the satisfied ones among them.
LEMMA SoundDecided ==
    ASSUME NEW ev, EvidenceType(ev), NEW st, Sound(ev, st), NEW n \in Nodes
    PROVE  /\ n \in IdleNodes(ev) <=> n \notin Retained /\ ev[Owner(n)] = None
           /\ n \in SatisfiedNodes(ev) <=> st[n] = "satisfied"
           /\ n \in IdleNodes(ev) => /\ n \notin SatisfiedNodes(ev) \cup FailedNodes(ev) \cup CutOffNodes(ev)
                                     /\ Owner(n) \in Idle(ev) /\ n \in Members(Owner(n))
           /\ n \in FailedNodes(ev) \cup CutOffNodes(ev) =>
                  n \in SatisfiedNodes(ev) \/ st[n] \in {"failed", "blocked"}
           /\ n \notin IdleNodes(ev) /\ st[n] \in {"failed", "blocked"} =>
                  n \in FailedNodes(ev) \cup CutOffNodes(ev)
           /\ n \notin IdleNodes(ev) => st[n] \in {"satisfied", "failed", "blocked"}
<1>1. n \in IdleNodes(ev) <=> n \notin Retained /\ ev[Owner(n)] = None
  <2>1. \A u \in Idle(ev) : u \in Units /\ ev[u] = None
    BY DEF Idle
  <2>2. n \in IdleNodes(ev) => n \notin Retained /\ ev[Owner(n)] = None
    BY <2>1, MemberOwner DEF IdleNodes
  <2>3. n \notin Retained /\ ev[Owner(n)] = None => n \in IdleNodes(ev)
    BY OwnerIsUnit DEF IdleNodes, Idle
  <2> QED
    BY <2>2, <2>3
<1>2. n \in IdleNodes(ev) => Owner(n) \in Idle(ev) /\ n \in Members(Owner(n))
  BY <1>1, OwnerIsUnit DEF Idle
<1>3. n \in IdleNodes(ev) =>
          n \notin SatisfiedNodes(ev) \cup FailedNodes(ev) \cup CutOffNodes(ev)
  BY <1>1, OwnerIsUnit, DecidedNodes
<1>4. n \notin IdleNodes(ev) =>
          n \in SatisfiedNodes(ev) \cup FailedNodes(ev) \cup CutOffNodes(ev)
  <2>1. CASE n \in Retained
    BY <2>1 DEF SatisfiedNodes
  <2>2. CASE n \notin Retained
    BY <1>1, <2>2, OwnerIsUnit, DecidedNodes
  <2> QED
    BY <2>1, <2>2
<1>5. CASE n \in IdleNodes(ev)
  <2>1. st[n] \in {"pending", "ready", "blocked"}
    BY <1>2, <1>5 DEF Sound
  <2> QED
    BY <1>1, <1>2, <1>3, <1>5, <2>1
<1>6. CASE n \notin IdleNodes(ev)
  <2>1. st[n] = IF n \in SatisfiedNodes(ev) THEN "satisfied"
                ELSE IF n \in FailedNodes(ev) THEN "failed"
                ELSE IF n \in CutOffNodes(ev) THEN "blocked"
                ELSE "pending"
    BY <1>6, AssignedIs DEF Sound
  <2> QED
    BY <1>1, <1>4, <1>6, <2>1
<1> QED
  BY <1>5, <1>6

\* The loop starts sound.
LEMMA AssignedSound ==
    ASSUME NEW ev, EvidenceType(ev)
    PROVE  Sound(ev, Assigned(ev))
<1>1. ASSUME NEW u \in Idle(ev), NEW n \in Members(u)
      PROVE  Assigned(ev)[n] = "pending"
  <2>1. u \in Units /\ ev[u] = None /\ n \in Nodes
    BY MemberOwner DEF Idle
  <2>2. n \notin SatisfiedNodes(ev) \cup FailedNodes(ev) \cup CutOffNodes(ev)
    BY <2>1, DecidedNodes
  <2> QED
    BY <2>1, <2>2, AssignedIs
<1>2. \A u \in Idle(ev) : u \in Members(u)
  BY UnitIsMember DEF Idle
<1> QED
  BY <1>1, <1>2, AssignedIs DEF Sound

\* A visit is sound, and settles.
LEMMA VisitSound ==
    ASSUME NEW ev, EvidenceType(ev), NEW st, Sound(ev, st), NEW u \in Units
    PROVE  Sound(ev, Visit(st, u)) /\ Settles(ev, st, Visit(st, u))
<1> DEFINE next == Visit(st, u)
<1>1. st \in [Nodes -> Statuses]
  BY DEF Sound
<1>2. /\ next \in [Nodes -> Statuses]
      /\ Derived(st, u) \in {"blocked", "ready", "pending"}
      /\ \A n \in Nodes : next[n] = IF n \in Members(u) /\ st[u] \notin {"satisfied", "failed"}
                                    THEN Derived(st, u) ELSE st[n]
  BY <1>1, VisitIs
<1>3. \A v \in Units : v \in Nodes /\ v \in Members(v) /\ Members(v) \subseteq Nodes
                       /\ External(v) \subseteq Nodes
  BY UnitIsMember, MemberOwner DEF External
<1>4. \A v \in Units : \A n \in Members(v) : n \in Members(u) => v = u
  BY MemberOwner
<1> HIDE DEF next
<1>5. CASE u \notin Idle(ev)
  <2>1. u \notin IdleNodes(ev)
    BY <1>5, MemberOwner, UnitIsMember DEF Idle, IdleNodes
  <2>2. u \in SatisfiedNodes(ev) \/ u \in FailedNodes(ev)
    <3>1. ev[u] # None /\ u \in Members(u)
      BY <1>3, <1>5 DEF Idle
    <3>2. Succeeded(ev[u]) => u \in SatisfiedBy(u, ev[u])
      BY <3>1 DEF SatisfiedBy
    <3> QED
      BY <3>1, <3>2, DecidedNodes
  <2>3. st[u] \in {"satisfied", "failed"}
    BY <1>3, <2>1, <2>2, AssignedIs DEF Sound
  <2>4. next = st
    BY <2>3 DEF next, Visit
  <2> QED
    BY <2>4 DEF Settles, next
<1>6. CASE u \in Idle(ev)
  <2>1. st[u] \notin {"satisfied", "failed"}
    BY <1>6 DEF Sound
  <2>2. \A n \in Members(u) : next[n] = Derived(st, u)
    BY <1>2, <1>3, <2>1
  <2>3. \A n \in Nodes \ Members(u) : next[n] = st[n]
    BY <1>2
  <2>4. \A n \in Nodes \ IdleNodes(ev) : next[n] = Assigned(ev)[n]
    BY <1>6, <2>3 DEF Sound, IdleNodes
  <2>5. \A v \in Idle(ev) : v # u => \A n \in Members(v) : next[n] = st[n]
    BY <1>3, <1>4, <2>3 DEF Idle
  <2>6. st[u] = "ready" => Derived(st, u) = "ready"
    <3> SUFFICES ASSUME st[u] = "ready" PROVE Derived(st, u) = "ready"
      OBVIOUS
    <3>1. \A n \in External(u) : st[n] = "satisfied"
      BY <1>3, <1>6, SoundDecided DEF Sound
    <3> QED
      BY <3>1 DEF Derived
  <2>7. st[u] = "blocked" => Derived(st, u) = "blocked"
    <3> SUFFICES ASSUME st[u] = "blocked" PROVE Derived(st, u) = "blocked"
      OBVIOUS
    <3>1. \E n \in External(u) : st[n] \in {"failed", "blocked"}
      BY <1>6 DEF Sound
    <3> QED
      BY <3>1 DEF Derived
  <2>8. Settles(ev, st, next)
    BY <1>3, <2>2, <2>5, <2>6, <2>7 DEF Settles, Sound, Idle
  <2>9. Derived(st, u) = "ready" => External(u) \subseteq SatisfiedNodes(ev)
    <3> SUFFICES ASSUME Derived(st, u) = "ready" PROVE \A n \in External(u) : st[n] = "satisfied"
      BY <1>3, SoundDecided
    <3> QED
      BY DEF Derived
  <2>10. Derived(st, u) = "blocked" => u \in BlockedUnits(ev) /\ \E n \in External(u) : st[n] \in {"failed", "blocked"}
    <3> SUFFICES ASSUME Derived(st, u) = "blocked"
                 PROVE  u \in BlockedUnits(ev) /\ \E n \in External(u) : st[n] \in {"failed", "blocked"}
      OBVIOUS
    <3>1. PICK n \in External(u) : st[n] \in {"failed", "blocked"}
      BY DEF Derived
    <3>2. CASE n \notin IdleNodes(ev)
      <4>1. n \in FailedNodes(ev) \cup CutOffNodes(ev)
        BY <1>3, <3>1, <3>2, SoundDecided
      <4> QED
        BY <1>6, <3>1, <4>1 DEF BlockedUnits, BlockedClosed
    <3>3. CASE n \in IdleNodes(ev)
      <4>1. Owner(n) \in Idle(ev) /\ n \in Members(Owner(n))
        BY <1>3, <3>3, SoundDecided
      <4>2. st[Owner(n)] = "blocked"
        BY <3>1, <4>1 DEF Sound
      <4>3. Owner(n) \in BlockedUnits(ev)
        BY <4>1, <4>2 DEF Sound
      <4> QED
        BY <1>6, <3>1, <4>1, <4>3 DEF BlockedUnits, BlockedClosed
    <3> QED
      BY <3>2, <3>3
  <2>11. \A n \in Nodes : st[n] \in {"failed", "blocked"} => next[n] \in {"failed", "blocked"}
    <3> SUFFICES ASSUME NEW n \in Members(u), st[n] \in {"failed", "blocked"}
                 PROVE  next[n] = "blocked"
      BY <1>3, <2>3
    <3>1. st[u] = "blocked"
      BY <1>6 DEF Sound
    <3> QED
      BY <2>2, <2>7, <3>1
  <2>12. ASSUME NEW v \in Idle(ev)
         PROVE  /\ next[v] \in {"pending", "ready", "blocked"}
                /\ \A n \in Members(v) : next[n] = next[v]
                /\ next[v] = "ready" => External(v) \subseteq SatisfiedNodes(ev)
                /\ next[v] = "blocked" =>
                      /\ v \in BlockedUnits(ev)
                      /\ \E n \in External(v) : next[n] \in {"failed", "blocked"}
    <3>1. v \in Units /\ v \in Members(v) /\ External(v) \subseteq Nodes
      BY <1>3 DEF Idle
    <3>2. CASE v = u
      BY <1>2, <2>2, <2>9, <2>10, <2>11, <3>1, <3>2
    <3>3. CASE v # u
      <4>1. \A n \in Members(v) : next[n] = st[n]
        BY <2>5, <3>3
      <4> QED
        BY <2>11, <3>1, <4>1 DEF Sound
    <3> QED
      BY <3>2, <3>3
  <2> QED
    BY <1>2, <2>4, <2>8, <2>12 DEF Sound, next
<1> QED
  BY <1>5, <1>6

-----------------------------------------------------------------------------
(* A sweep visits the units in order, each visit on what the last one left. *)

Swept(start, m, g) ==
    g = [k \in 0 .. m |-> IF k = 0 THEN start ELSE Visit(g[k - 1], Order[k])]

\* The units are finitely many, and the order names each.
LEMMA OrderIs ==
    /\ Len(Order) \in Nat /\ \A k \in 1 .. Len(Order) : Order[k] \in Units
    /\ \A u \in Units : \E k \in 1 .. Len(Order) : Order[k] = u
    /\ IsFiniteSet(Units)
<1>1. /\ Order \in Seq(Units) /\ Len(Order) \in Nat /\ DOMAIN Order = 1 .. Len(Order)
      /\ Order \in [1 .. Len(Order) -> Units]
  BY OrderAssumption
<1>2. \A u \in Units : \E k \in 1 .. Len(Order) : Order[k] = u
  BY <1>1, OrderAssumption DEF Range
<1>3. Order \in Surjection(1 .. Len(Order), Units)
  BY <1>1, <1>2 DEF Surjection
<1>4. IsFiniteSet(1 .. Len(Order))
  BY <1>1, FS_Interval
<1>5. IsFiniteSet(Units)
  BY <1>3, <1>4, FS_Surjection
<1> QED
  BY <1>1, <1>2, <1>5

\* A sweep of any length exists.
LEMMA SweptExists ==
    ASSUME NEW start, NEW m \in Nat
    PROVE  \E g : Swept(start, m, g)
<1> DEFINE T == {k \in 0 .. m : \E g : Swept(start, k, g)}
<1>1. 0 \in T
  <2> DEFINE g == [k \in 0 .. 0 |-> start]
  <2>1. Swept(start, 0, g)
    BY DEF Swept
  <2> QED
    BY <2>1
<1>2. ASSUME NEW k \in 0 .. m, k < m, k \in T
      PROVE  k + 1 \in T
  <2>1. PICK g : Swept(start, k, g)
    BY <1>2
  <2> DEFINE h == [i \in 0 .. k + 1 |-> IF i = k + 1 THEN Visit(g[k], Order[k + 1]) ELSE g[i]]
  <2>2. \A i \in 0 .. k : g[i] = IF i = 0 THEN start ELSE Visit(g[i - 1], Order[i])
    BY <2>1 DEF Swept
  <2>3. ASSUME NEW i \in 0 .. k + 1
        PROVE  h[i] = IF i = 0 THEN start ELSE Visit(h[i - 1], Order[i])
    <3>1. CASE i = k + 1
      BY <3>1
    <3>2. CASE i # k + 1
      <4>1. i \in 0 .. k /\ h[i] = g[i] /\ (i # 0 => i - 1 \in 0 .. k + 1 /\ i - 1 # k + 1)
        BY <3>2
      <4> QED
        BY <2>2, <4>1
    <3> QED
      BY <3>1, <3>2
  <2>4. Swept(start, k + 1, h)
    BY <2>3 DEF Swept
  <2> QED
    BY <1>2, <2>4
<1>3. 0 .. m \subseteq T
  BY <1>1, <1>2, Upwards
<1> QED
  BY <1>3

\* SweepFrom is where such a sweep ends.
LEMMA SweepIs ==
    ASSUME NEW start
    PROVE  \E g : Swept(start, Len(Order), g) /\ SweepFrom(start) = g[Len(Order)]
<1> DEFINE Step(g) == [k \in 0 .. Len(Order) |-> IF k = 0 THEN start ELSE Visit(g[k - 1], Order[k])]
           after == CHOOSE g : g = Step(g)
<1>1. SweepFrom(start) = after[Len(Order)]
  BY DEF SweepFrom
<1>2. \E g : g = Step(g)
  BY SweptExists, OrderIs DEF Swept
<1>3. after = Step(after)
  BY <1>2
<1>4. Swept(start, Len(Order), after)
  BY <1>3 DEF Swept
<1> QED
  BY <1>1, <1>4

\* A sweep of statuses gives statuses.
LEMMA SweepType ==
    ASSUME NEW st \in [Nodes -> Statuses]
    PROVE  SweepFrom(st) \in [Nodes -> Statuses]
<1> DEFINE N == Len(Order)
<1>1. PICK g : Swept(st, N, g) /\ SweepFrom(st) = g[N]
  BY SweepIs
<1>2. N \in Nat
  BY OrderIs
<1>3. \A k \in 0 .. N : g[k] = IF k = 0 THEN st ELSE Visit(g[k - 1], Order[k])
  BY <1>1 DEF Swept
<1> DEFINE T == {k \in 0 .. N : g[k] \in [Nodes -> Statuses]}
<1>4. 0 \in T
  BY <1>2, <1>3
<1>5. ASSUME NEW k \in 0 .. N, k < N, k \in T PROVE k + 1 \in T
  <2>1. k + 1 \in 0 .. N /\ k + 1 # 0 /\ (k + 1) - 1 = k /\ k + 1 \in 1 .. N
    BY <1>2, <1>5
  <2>2. g[k + 1] = Visit(g[k], Order[k + 1])
    BY <1>3, <2>1
  <2>3. Order[k + 1] \in Units
    BY <2>1, OrderIs
  <2> QED
    BY <1>5, <2>1, <2>2, <2>3, VisitIs
<1>6. 0 .. N \subseteq T
  <2> HIDE DEF N
  <2> QED
    BY <1>2, <1>4, <1>5, Upwards
<1>7. N \in 0 .. N /\ N \in T
  BY <1>2, <1>6
<1> QED
  BY <1>1, <1>7

\* A sweep is sound and settles; one that changes nothing changed nothing at
\* any visit.
LEMMA SweepSound ==
    ASSUME NEW ev, EvidenceType(ev), NEW st, Sound(ev, st)
    PROVE  /\ Sound(ev, SweepFrom(st)) /\ Settles(ev, st, SweepFrom(st))
           /\ SweepFrom(st) = st => \A u \in Units : Visit(st, u) = st
<1> DEFINE N == Len(Order)
<1>1. PICK g : Swept(st, N, g) /\ SweepFrom(st) = g[N]
  BY SweepIs
<1>2. N \in Nat /\ \A k \in 1 .. N : Order[k] \in Units
  BY OrderIs
<1>3. \A k \in 0 .. N : g[k] = IF k = 0 THEN st ELSE Visit(g[k - 1], Order[k])
  BY <1>1 DEF Swept
<1> HIDE DEF N
<1>4. ASSUME NEW k \in 0 .. N, k < N, Sound(ev, g[k])
      PROVE  /\ k + 1 \in 1 .. N /\ g[k + 1] = Visit(g[k], Order[k + 1])
             /\ Sound(ev, g[k + 1]) /\ Settles(ev, g[k], g[k + 1])
  <2>1. k + 1 \in 0 .. N /\ k + 1 # 0 /\ (k + 1) - 1 = k /\ k + 1 \in 1 .. N
    BY <1>2, <1>4
  <2>2. g[k + 1] = Visit(g[k], Order[k + 1])
    BY <1>3, <2>1
  <2> QED
    BY <1>2, <1>4, <2>1, <2>2, VisitSound
<1>5. \A k \in 0 .. N : Sound(ev, g[k]) /\ Settles(ev, st, g[k])
  <2> DEFINE T == {k \in 0 .. N : Sound(ev, g[k]) /\ Settles(ev, st, g[k])}
  <2>1. 0 \in T
    BY <1>2, <1>3 DEF Settles
  <2>2. ASSUME NEW k \in 0 .. N, k < N, k \in T PROVE k + 1 \in T
    <3>1. k + 1 \in 0 .. N /\ Sound(ev, g[k + 1]) /\ Settles(ev, g[k], g[k + 1])
      BY <1>2, <1>4, <2>2
    <3>2. Settles(ev, st, g[k + 1])
      BY <2>2, <3>1 DEF Settles
    <3> QED
      BY <3>1, <3>2
  <2>3. 0 .. N \subseteq T
    BY <1>2, <2>1, <2>2, Upwards
  <2> QED
    BY <2>3
<1>6. ASSUME g[N] = st
      PROVE  \A k \in 0 .. N : g[k] = st
  <2> SUFFICES ASSUME NEW j \in 0 .. N PROVE g[j] = st
    OBVIOUS
  <2> DEFINE T == {k \in 0 .. N : k >= j => Settles(ev, g[j], g[k])}
  <2>1. 0 \in T
    BY <1>2 DEF Settles
  <2>2. ASSUME NEW k \in 0 .. N, k < N, k \in T PROVE k + 1 \in T
    <3>1. k + 1 \in 0 .. N /\ Settles(ev, g[k], g[k + 1])
      BY <1>2, <1>4, <1>5, <2>2
    <3>2. CASE k + 1 = j
      BY <3>1, <3>2 DEF Settles
    <3>3. CASE k + 1 # j /\ k + 1 >= j
      <4>1. k >= j
        BY <3>3
      <4>2. Settles(ev, g[j], g[k])
        BY <2>2, <4>1
      <4> QED
        BY <3>1, <4>2 DEF Settles
    <3> QED
      BY <3>1, <3>2, <3>3
  <2>3. 0 .. N \subseteq T
    <3> HIDE DEF T
    <3> QED
      BY <1>2, <2>1, <2>2, Upwards
  <2>4. Settles(ev, g[j], st) /\ Settles(ev, st, g[j]) /\ Sound(ev, g[j])
    <3>1. N \in T
      BY <1>2, <2>3
    <3> QED
      BY <1>2, <1>5, <1>6, <3>1
  <2>5. \A u \in Idle(ev) : g[j][u] = st[u]
    BY <2>4 DEF Settles, Sound
  <2>6. ASSUME NEW n \in Nodes PROVE g[j][n] = st[n]
    <3>1. CASE n \in IdleNodes(ev)
      <4>1. PICK u \in Idle(ev) : n \in Members(u)
        BY <3>1 DEF IdleNodes
      <4> QED
        BY <2>4, <2>5, <4>1 DEF Sound
    <3>2. CASE n \notin IdleNodes(ev)
      BY <2>4, <3>2 DEF Sound
    <3> QED
      BY <3>1, <3>2
  <2> QED
    BY <2>4, <2>6 DEF Sound
<1>7. ASSUME g[N] = st, NEW u \in Units
      PROVE  Visit(st, u) = st
  <2>1. PICK k \in 1 .. N : Order[k] = u
    BY OrderIs DEF N
  <2>2. k \in 0 .. N /\ k # 0 /\ k - 1 \in 0 .. N
    BY <1>2
  <2>3. g[k] = Visit(g[k - 1], u)
    BY <1>3, <2>1, <2>2
  <2> QED
    BY <1>6, <1>7, <2>2, <2>3
<1> QED
  BY <1>1, <1>2, <1>5, <1>7

-----------------------------------------------------------------------------
(* The loop sweeps until nothing changes.                                   *)

Comes(settle) ==
    settle = [st \in [Nodes -> Statuses] |->
                 IF SweepFrom(st) = st THEN st ELSE settle[SweepFrom(st)]]

\* Where the sweeps from s come to rest: the fixed points in every set that
\* holds s and is closed under sweeps.
Rests(s) ==
    {x \in [Nodes -> Statuses] :
        /\ SweepFrom(x) = x
        /\ \A C \in SUBSET [Nodes -> Statuses] :
              s \in C /\ (\A y \in C : SweepFrom(y) \in C) => x \in C}

\* The loop is a function of the statuses it starts from.
LEMMA ComesExists == \E settle : Comes(settle)
<1> DEFINE D == [Nodes -> Statuses]
           settle == [s \in D |-> CHOOSE x : x \in Rests(s)]
<1>1. ASSUME NEW s \in D, SweepFrom(s) = s
      PROVE  settle[s] = s
  <2>1. s \in Rests(s)
    BY <1>1 DEF Rests
  <2>2. ASSUME NEW x \in Rests(s) PROVE x = s
    <3>1. {s} \in SUBSET D /\ s \in {s} /\ \A y \in {s} : SweepFrom(y) \in {s}
      BY <1>1
    <3>2. x \in {s}
      BY <3>1 DEF Rests
    <3> QED
      BY <3>2
  <2>3. Rests(s) = {s}
    BY <2>1, <2>2
  <2> QED
    BY <2>3
<1>2. ASSUME NEW s \in D, SweepFrom(s) # s
      PROVE  settle[s] = settle[SweepFrom(s)]
  <2> DEFINE t == SweepFrom(s)
  <2>1. t \in D
    BY SweepType
  <2> HIDE DEF t
  <2>2. ASSUME NEW x \in Rests(s) PROVE x \in Rests(t)
    <3>1. x \in D /\ SweepFrom(x) = x
      BY <2>2 DEF Rests
    <3>2. ASSUME NEW C \in SUBSET D, t \in C, \A y \in C : SweepFrom(y) \in C
          PROVE  x \in C
      <4>1. C \cup {s} \in SUBSET D /\ s \in C \cup {s}
            /\ \A y \in C \cup {s} : SweepFrom(y) \in C \cup {s}
        BY <3>2 DEF t
      <4>2. x \in C \cup {s}
        BY <2>2, <4>1 DEF Rests
      <4> QED
        BY <1>2, <3>1, <4>2
    <3> QED
      BY <3>1, <3>2 DEF Rests
  <2>3. ASSUME NEW x \in Rests(t) PROVE x \in Rests(s)
    <3>1. x \in D /\ SweepFrom(x) = x
      BY <2>3 DEF Rests
    <3>2. ASSUME NEW C \in SUBSET D, s \in C, \A y \in C : SweepFrom(y) \in C
          PROVE  x \in C
      <4>1. t \in C
        BY <3>2 DEF t
      <4> QED
        BY <2>3, <3>2, <4>1 DEF Rests
    <3> QED
      BY <3>1, <3>2 DEF Rests
  <2>4. Rests(s) = Rests(t)
    BY <2>2, <2>3
  <2> QED
    BY <2>1, <2>4 DEF t
<1>3. settle = [s \in D |-> settle[s]]
  OBVIOUS
<1> HIDE DEF settle
<1>4. \A s \in D : settle[s] = IF SweepFrom(s) = s THEN s ELSE settle[SweepFrom(s)]
  BY <1>1, <1>2
<1>5. Comes(settle)
  BY <1>3, <1>4 DEF Comes
<1> QED
  BY <1>5

\* The loop ends, with sound statuses that no visit changes: every sweep that
\* changes something leaves fewer units pending.
LEMMA ComesToRest ==
    ASSUME NEW ev, EvidenceType(ev), NEW settle, Comes(settle), NEW st, Sound(ev, st)
    PROVE  /\ Sound(ev, settle[st])
           /\ \A u \in Units : Visit(settle[st], u) = settle[st]
<1> DEFINE Good(s) == /\ Sound(ev, settle[s])
                      /\ \A u \in Units : Visit(settle[s], u) = settle[s]
           Waiting(s) == {u \in Idle(ev) : s[u] = "pending"}
           Bad == {s \in [Nodes -> Statuses] : Sound(ev, s) /\ ~Good(s)}
           size == [s \in Bad |-> Cardinality(Waiting(s))]
<1>1. \A s : Sound(ev, s) => s \in [Nodes -> Statuses]
  BY DEF Sound
<1>2. \A s : IsFiniteSet(Waiting(s)) /\ Cardinality(Waiting(s)) \in Nat
  <2>1. \A s : Waiting(s) \in SUBSET Units
    BY DEF Idle
  <2> QED
    BY <2>1, OrderIs, FS_Subset, FS_CardinalityType
<1>3. SUFFICES ASSUME Bad # {} PROVE FALSE
  BY <1>1
<1>4. size \in [Bad -> Nat]
  BY <1>2
<1> HIDE DEF size
<1>5. PICK s \in Bad : \A y \in Bad : ~(size[y] < size[s])
  BY <1>3, <1>4, LeastMeasured
<1>6. s \in [Nodes -> Statuses] /\ Sound(ev, s) /\ ~Good(s)
  OBVIOUS
<1>7. settle[s] = IF SweepFrom(s) = s THEN s ELSE settle[SweepFrom(s)]
  BY <1>6 DEF Comes
<1>8. SweepFrom(s) # s
  BY <1>6, <1>7, SweepSound
<1> DEFINE y == SweepFrom(s)
<1>9. Sound(ev, y) /\ Settles(ev, s, y) /\ y \in [Nodes -> Statuses]
  BY <1>1, <1>6, SweepSound
<1>10. y \in Bad
  BY <1>6, <1>7, <1>8, <1>9
<1> HIDE DEF y
<1>11. Waiting(y) \subseteq Waiting(s) /\ Waiting(y) # Waiting(s)
  <2>1. Waiting(y) \subseteq Waiting(s)
    BY <1>6, <1>9 DEF Settles, Sound
  <2>2. ASSUME Waiting(y) = Waiting(s) PROVE y = s
    <3>1. \A u \in Idle(ev) : y[u] = s[u]
      BY <1>9, <2>2 DEF Settles
    <3>2. ASSUME NEW n \in Nodes PROVE y[n] = s[n]
      <4>1. CASE n \in IdleNodes(ev)
        <5>1. PICK u \in Idle(ev) : n \in Members(u)
          BY <4>1 DEF IdleNodes
        <5> QED
          BY <1>6, <1>9, <3>1, <5>1 DEF Sound
      <4>2. CASE n \notin IdleNodes(ev)
        BY <1>6, <1>9, <4>2 DEF Sound
      <4> QED
        BY <4>1, <4>2
    <3> QED
      BY <1>6, <1>9, <3>2
  <2> QED
    BY <1>8, <2>1, <2>2 DEF y
<1>12. Cardinality(Waiting(y)) < Cardinality(Waiting(s))
  <2>1. IsFiniteSet(Waiting(s)) /\ Waiting(y) \in SUBSET Waiting(s)
    BY <1>2, <1>11
  <2>2. /\ Cardinality(Waiting(y)) <= Cardinality(Waiting(s))
        /\ Cardinality(Waiting(s)) = Cardinality(Waiting(y)) => Waiting(s) = Waiting(y)
    BY <2>1, FS_Subset
  <2>3. Cardinality(Waiting(y)) \in Nat /\ Cardinality(Waiting(s)) \in Nat
    BY <1>2
  <2> HIDE DEF Waiting
  <2> QED
    BY <1>11, <2>2, <2>3
<1> QED
  BY <1>5, <1>10, <1>12 DEF size

\* The loop comes to rest on the declared status of every node, whatever the
\* evidence: identity order and in-place updates do not show.
LEMMA LoopIsStatus ==
    ASSUME NEW ev, EvidenceType(ev), NEW n \in Nodes
    PROVE  DerivedStatus(ev)[n] = Status(ev, n)
<1> DEFINE Loop(f) == [st \in [Nodes -> Statuses] |->
                          LET next == SweepFrom(st) IN IF next = st THEN st ELSE f[next]]
           settle == CHOOSE f : f = Loop(f)
           st == settle[Assigned(ev)]
<1>1. DerivedStatus(ev) = st
  BY DEF DerivedStatus
<1>2. Comes(settle)
  <2>1. \E f : f = Loop(f)
    BY ComesExists DEF Comes
  <2>2. settle = Loop(settle)
    BY <2>1
  <2> QED
    BY <2>2 DEF Comes
<1> HIDE DEF settle
<1>3. Sound(ev, st) /\ \A u \in Units : Visit(st, u) = st
  BY <1>2, AssignedSound, ComesToRest
<1> HIDE DEF st
<1>4. st \in [Nodes -> Statuses]
  BY <1>3 DEF Sound
<1>5. CASE n \notin IdleNodes(ev)
  <2>1. st[n] = Assigned(ev)[n]
    BY <1>3, <1>5 DEF Sound
  <2>2. n \in SatisfiedNodes(ev) \cup FailedNodes(ev) \cup CutOffNodes(ev)
    <3>1. st[n] \in {"satisfied", "failed", "blocked"}
      BY <1>3, <1>5, SoundDecided
    <3> QED
      BY <2>1, <3>1, AssignedIs
  <2> QED
    BY <1>1, <2>1, <2>2, AssignedIs, DecidedOnce DEF Status, CutOffNodes
<1>6. CASE n \in IdleNodes(ev)
  <2> DEFINE u == Owner(n)
  <2>1. /\ n \notin SatisfiedNodes(ev) \cup FailedNodes(ev) \cup CutOffNodes(ev)
        /\ u \in Idle(ev) /\ n \in Members(u)
    BY <1>3, <1>6, SoundDecided
  <2>2. Status(ev, n) = IF u \in BlockedUnits(ev) THEN "blocked"
                        ELSE IF u \in ReadyUnits(ev) THEN "ready" ELSE "pending"
    BY <2>1 DEF Status
  <2> HIDE DEF u
  <2>3. /\ st[n] = st[u] /\ st[u] \in {"pending", "ready", "blocked"}
        /\ st[u] = "ready" => External(u) \subseteq SatisfiedNodes(ev)
        /\ st[u] = "blocked" => u \in BlockedUnits(ev)
    BY <1>3, <2>1 DEF Sound
  <2>4. ASSUME NEW v \in Idle(ev) PROVE st[v] = Derived(st, v)
    <3>1. v \in Units /\ v \in Members(v) /\ v \in Nodes
      BY UnitIsMember DEF Idle
    <3>2. st[v] \notin {"satisfied", "failed"}
      BY <1>3 DEF Sound
    <3> QED
      BY <1>3, <1>4, <3>1, <3>2, VisitIs
  <2>5. u \in ReadyUnits(ev) => st[u] = "ready"
    <3> SUFFICES ASSUME u \in ReadyUnits(ev) PROVE Derived(st, u) = "ready"
      BY <2>1, <2>4
    <3>1. \A m \in External(u) : m \in Nodes /\ st[m] = "satisfied"
      BY <1>3, SoundDecided DEF ReadyUnits, External
    <3> QED
      BY <3>1 DEF Derived
  <2>6. u \in BlockedUnits(ev) => st[u] = "blocked"
    <3> DEFINE X == {v \in Idle(ev) : st[v] = "blocked"}
    <3>1. ASSUME NEW v \in Idle(ev), NEW m \in External(v), st[m] \in {"failed", "blocked"}
          PROVE  v \in X
      <4>1. Derived(st, v) = "blocked"
        BY <3>1 DEF Derived
      <4> QED
        BY <2>4, <4>1
    <3>2. ASSUME NEW v \in Idle(ev), NEW m \in External(v), m \in FailedNodes(ev) \cup CutOffNodes(ev)
          PROVE  st[m] \in {"failed", "blocked"}
      <4>1. m \in Nodes /\ m \notin SatisfiedNodes(ev)
        BY <3>2, DecidedOnce DEF External, CutOffNodes
      <4> QED
        BY <1>3, <3>2, <4>1, SoundDecided
    <3>3. ASSUME NEW v \in Idle(ev), NEW w \in X, NEW m \in External(v), m \in Members(w)
          PROVE  st[m] \in {"failed", "blocked"}
      BY <1>3, <3>3 DEF Sound
    <3> HIDE DEF X
    <3>4. BlockedClosed(ev, X)
      BY <3>1, <3>2, <3>3 DEF BlockedClosed
    <3>5. X \in SUBSET Idle(ev)
      BY DEF X
    <3>6. u \in BlockedUnits(ev) => u \in X
      BY <3>4, <3>5 DEF BlockedUnits
    <3> QED
      BY <3>6 DEF X
  <2> QED
    BY <1>1, <2>1, <2>2, <2>3, <2>5, <2>6 DEF ReadyUnits
<1> QED
  BY <1>5, <1>6

-----------------------------------------------------------------------------
(* The evidence the loop is run on.                                         *)

\* Evidence is of its unit, and was admitted when every predecessor outside
\* the unit was satisfied.
Grounded ==
    /\ EvidenceType(evidence)
    /\ \A u \in Evidenced(evidence) : External(u) \subseteq SatisfiedNodes(evidence)

\* A unit found ready has its predecessors satisfied and is not blocked.
LEMMA ReadyIs ==
    ASSUME EvidenceType(evidence), NEW u \in Units, ReadyNow(u)
    PROVE  /\ u \in Idle(evidence) /\ u \in ReadyUnits(evidence)
           /\ u \notin BlockedUnits(evidence)
<1>1. evidence[u] = None /\ Status(evidence, u) = "ready"
  BY LoopIsStatus, UnitIsMember DEF ReadyNow
<1>2. u \notin SatisfiedNodes(evidence) \cup FailedNodes(evidence) \cup CutOffNodes(evidence)
  BY <1>1, DecidedNodes, UnitIsMember
<1>3. Owner(u) = u
  BY MemberOwner, UnitIsMember
<1> QED
  BY <1>1, <1>2, <1>3 DEF Status, Idle

\* What new evidence leaves alone: what was satisfied, failed or cut off
\* stays so, and a blocked unit stays blocked.
LEMMA AdmitKeeps ==
    ASSUME NEW ev, EvidenceType(ev), NEW u \in ReadyUnits(ev), NEW r \in Results(u),
           NEW new, new = [ev EXCEPT ![u] = r], u \notin BlockedUnits(ev)
    PROVE  /\ EvidenceType(new)
           /\ SatisfiedNodes(ev) \subseteq SatisfiedNodes(new)
           /\ FailedNodes(ev) \subseteq FailedNodes(new)
           /\ CutOffNodes(ev) \subseteq CutOffNodes(new)
           /\ BlockedUnits(ev) \subseteq BlockedUnits(new)
<1>1. u \in Units /\ ev[u] = None /\ External(u) \subseteq SatisfiedNodes(ev)
  BY DEF ReadyUnits, Idle
<1>2. r # None /\ r \in AllResults
  BY <1>1, ResultAssumption DEF AllResults
<1>3. /\ new \in [Units -> AllResults \cup {None}] /\ new[u] = r
      /\ \A w \in Units : w # u => new[w] = ev[w]
  BY <1>1, <1>2 DEF EvidenceType
<1>4. EvidenceType(new)
  <2>1. ASSUME NEW w \in Evidenced(new) PROVE new[w] \in Results(w)
    BY <1>3, <2>1 DEF EvidenceType, Evidenced
  <2> QED
    BY <1>3, <2>1 DEF EvidenceType
<1>5. \A w \in Evidenced(ev) : w \in Evidenced(new) /\ new[w] = ev[w]
  BY <1>1, <1>3 DEF Evidenced
<1>6. SatisfiedNodes(ev) \subseteq SatisfiedNodes(new)
  BY <1>5 DEF SatisfiedNodes
<1>7. FailedUnits(ev) \subseteq FailedUnits(new)
  BY <1>5 DEF FailedUnits
<1>8. FailedNodes(ev) \subseteq FailedNodes(new)
  <2>1. \A w \in FailedUnits(ev) : w \in FailedUnits(new) /\ new[w] = ev[w]
    BY <1>5, <1>7 DEF FailedUnits
  <2> QED
    BY <2>1 DEF FailedNodes
<1>9. ASSUME NEW n \in CutOffNodes(ev) PROVE n \in CutOffNodes(new)
  <2>1. PICK w \in FailedUnits(ev) : n \in Members(w)
    BY DEF CutOffNodes
  <2>2. w \in Units /\ w # u /\ ev[w] # None /\ new[w] = ev[w]
    BY <1>1, <1>3, <2>1 DEF FailedUnits, Evidenced
  <2>3. n \notin SatisfiedNodes(ev) /\ n \notin FailedNodes(ev)
    BY DEF CutOffNodes
  <2>4. n \notin SatisfiedNodes(new) /\ n \notin FailedNodes(new)
    BY <1>4, <2>1, <2>2, <2>3, DecidedNodes
  <2> QED
    BY <1>7, <2>1, <2>4 DEF CutOffNodes
<1>10. ASSUME NEW v \in BlockedUnits(ev) PROVE v \in BlockedUnits(new)
  <2>1. Idle(new) = Idle(ev) \ {u}
    BY <1>1, <1>2, <1>3 DEF Idle
  <2>2. v \in Idle(new)
    BY <2>1 DEF BlockedUnits
  <2>3. ASSUME NEW S \in SUBSET Idle(new), BlockedClosed(new, S)
        PROVE  v \in S
    <3>1. External(u) \cap (FailedNodes(ev) \cup CutOffNodes(ev)) = {}
      BY <1>1, DecidedOnce DEF CutOffNodes
    <3>2. ~\E w \in S : External(u) \cap Members(w) # {}
      <4> SUFFICES ASSUME NEW w \in S, NEW n \in External(u), n \in Members(w) PROVE FALSE
        OBVIOUS
      <4>1. w \in Units /\ ev[w] = None
        BY <2>1, <2>3 DEF Idle
      <4> QED
        BY <1>1, <4>1, DecidedNodes
    <3>3. \A w \in Idle(ev) :
              \/ External(w) \cap (FailedNodes(ev) \cup CutOffNodes(ev)) # {}
              \/ \E x \in S : External(w) \cap Members(x) # {}
              => w \in S
      <4> TAKE w \in Idle(ev)
      <4>1. CASE w = u
        BY <3>1, <3>2, <4>1
      <4>2. CASE w # u
        BY <1>8, <1>9, <2>1, <2>3, <4>2 DEF BlockedClosed
      <4> QED
        BY <4>1, <4>2
    <3>4. BlockedClosed(ev, S) /\ S \in SUBSET Idle(ev)
      BY <2>1, <3>3 DEF BlockedClosed
    <3> QED
      BY <3>4 DEF BlockedUnits
  <2> QED
    BY <2>2, <2>3 DEF BlockedUnits
<1> QED
  BY <1>4, <1>6, <1>8, <1>9, <1>10

LEMMA DerivationStarts == Init => Grounded
  BY DEF Init, Grounded, EvidenceType, Evidenced

\* A step admits one result for a unit that is ready.
LEMMA DerivationMoves ==
    ASSUME Grounded, Next
    PROVE  \E u \in ReadyUnits(evidence) : \E r \in Results(u) :
               /\ u \notin BlockedUnits(evidence)
               /\ evidence' = [evidence EXCEPT ![u] = r]
<1>1. PICK u \in Units : \E r \in Results(u) : ReadyNow(u) /\ Admit(u, r)
  BY DEF Next, AdvanceConstruction, AdvanceCheck, AdvanceEffect
<1> QED
  BY <1>1, ReadyIs DEF Grounded, Admit

LEMMA DerivationStep == Grounded /\ [Next]_evidence => Grounded'
<1> SUFFICES ASSUME Grounded, [Next]_evidence PROVE Grounded'
  OBVIOUS
<1>1. CASE UNCHANGED evidence
  BY <1>1 DEF Grounded
<1>2. CASE Next
  <2> PICK u \in ReadyUnits(evidence) : \E r \in Results(u) :
            u \notin BlockedUnits(evidence) /\ evidence' = [evidence EXCEPT ![u] = r]
    BY <1>2, DerivationMoves
  <2>1. PICK r \in Results(u) :
            u \notin BlockedUnits(evidence) /\ evidence' = [evidence EXCEPT ![u] = r]
    OBVIOUS
  <2>2. EvidenceType(evidence') /\ SatisfiedNodes(evidence) \subseteq SatisfiedNodes(evidence')
    BY <2>1, AdmitKeeps DEF Grounded
  <2>3. \A v \in Evidenced(evidence') : v = u \/ v \in Evidenced(evidence)
    BY <2>1 DEF Evidenced, Grounded, EvidenceType
  <2>4. External(u) \subseteq SatisfiedNodes(evidence)
    BY DEF ReadyUnits
  <2> QED
    BY <2>2, <2>3, <2>4 DEF Grounded
<1> QED
  BY <1>1, <1>2

LEMMA AlwaysGrounded == Spec => []Grounded
  BY DerivationStarts, DerivationStep, PTL DEF Spec

\* The sum admits evidence as Derivation does.
LEMMA FrontDerives == FrontSpec => Spec
<1>1. FrontInit => Init
  BY DEF FrontInit
<1>2. [FrontNext]_frontVars => [Next]_evidence
  BY DEF FrontNext, Rest, frontVars
<1> QED
  BY <1>1, <1>2, PTL DEF FrontSpec, Spec

\* The loop of derive_statuses computes the declared status of every node
\* (SweepComputesStatus of Derivation), for every program and identity order.
THEOREM SweepIsDeclared == FrontSpec => []SweepIsStatus
<1>1. Grounded => SweepComputesStatus
  BY LoopIsStatus DEF Grounded, SweepComputesStatus
<1> QED
  BY <1>1, AlwaysGrounded, FrontDerives, PTL DEF SweepIsStatus

\* No node is satisfied on top of one that is not (SatisfiedRestsOnSatisfied).
THEOREM SatisfiedIsGrounded == FrontSpec => []SatisfactionIsGrounded
<1>1. ASSUME Grounded, NEW u \in Units, NEW n \in Members(u),
             DerivedStatus(evidence)[n] = "satisfied", NEW m \in External(u)
      PROVE  DerivedStatus(evidence)[m] = "satisfied"
  <2>1. n \in Nodes /\ m \in Nodes /\ EvidenceType(evidence)
    BY <1>1, MemberOwner DEF External, Grounded
  <2>2. Status(evidence, n) = "satisfied"
    BY <1>1, <2>1, LoopIsStatus
  <2>3. n \in SatisfiedNodes(evidence)
    BY <2>2 DEF Status
  <2>4. u \in Evidenced(evidence)
    BY <2>1, <2>3, DecidedNodes DEF Evidenced
  <2>5. m \in SatisfiedNodes(evidence)
    BY <1>1, <2>4 DEF Grounded
  <2>6. Status(evidence, m) = "satisfied"
    BY <2>1, <2>5, DecidedOnce DEF Status, CutOffNodes
  <2> QED
    BY <2>1, <2>6, LoopIsStatus
<1>2. Grounded => SatisfiedRestsOnSatisfied
  BY <1>1 DEF SatisfiedRestsOnSatisfied
<1> QED
  BY <1>2, AlwaysGrounded, FrontDerives, PTL DEF SatisfactionIsGrounded

\* A decided node stays as it was decided (KeepsDecisions).
THEOREM DecisionsAreFinal == FrontSpec => DecisionsStand
<1>1. ASSUME Grounded, Next PROVE KeepsDecisions
  <2> PICK u \in ReadyUnits(evidence) : \E r \in Results(u) :
            u \notin BlockedUnits(evidence) /\ evidence' = [evidence EXCEPT ![u] = r]
    BY <1>1, DerivationMoves
  <2>1. PICK r \in Results(u) :
            u \notin BlockedUnits(evidence) /\ evidence' = [evidence EXCEPT ![u] = r]
    OBVIOUS
  <2>2. EvidenceType(evidence)
    BY <1>1 DEF Grounded
  <2>3. /\ EvidenceType(evidence')
        /\ SatisfiedNodes(evidence) \subseteq SatisfiedNodes(evidence')
        /\ FailedNodes(evidence) \subseteq FailedNodes(evidence')
        /\ CutOffNodes(evidence) \subseteq CutOffNodes(evidence')
        /\ BlockedUnits(evidence) \subseteq BlockedUnits(evidence')
    BY <2>1, <2>2, AdmitKeeps
  <2>4. ASSUME NEW n \in Nodes, Status(evidence, n) \in {"satisfied", "failed", "blocked"}
        PROVE  Status(evidence', n) = Status(evidence, n)
    <3>1. /\ SatisfiedNodes(evidence) \cap FailedNodes(evidence) = {}
          /\ SatisfiedNodes(evidence') \cap FailedNodes(evidence') = {}
      BY <2>2, <2>3, DecidedOnce
    <3>2. CASE n \in SatisfiedNodes(evidence) \cup FailedNodes(evidence) \cup CutOffNodes(evidence)
      BY <2>3, <3>1, <3>2 DEF Status, CutOffNodes
    <3>3. CASE n \notin SatisfiedNodes(evidence) \cup FailedNodes(evidence) \cup CutOffNodes(evidence)
      <4>1. Status(evidence, n) = "blocked" /\ Owner(n) \in BlockedUnits(evidence)
        BY <2>4, <3>3 DEF Status
      <4>2. Owner(n) \in BlockedUnits(evidence') /\ Owner(n) \in Idle(evidence')
        BY <2>3, <4>1 DEF BlockedUnits
      <4>3. n \in Members(Owner(n)) /\ Owner(n) \in Units
        BY <3>3, OwnerIsUnit DEF SatisfiedNodes
      <4>4. n \notin SatisfiedNodes(evidence') \cup FailedNodes(evidence') \cup CutOffNodes(evidence')
        BY <2>3, <4>2, <4>3, DecidedNodes DEF Idle
      <4> QED
        BY <4>1, <4>2, <4>4 DEF Status
    <3> QED
      BY <3>2, <3>3
  <2>5. \A n \in Nodes : /\ DerivedStatus(evidence)[n] = Status(evidence, n)
                         /\ DerivedStatus(evidence')[n] = Status(evidence', n)
    BY <2>2, <2>3, LoopIsStatus
  <2> QED
    BY <2>4, <2>5 DEF KeepsDecisions
<1>2. Grounded /\ [Next]_evidence => [part = "progress" => KeepsDecisions]_evidence
  BY <1>1
<1> QED
  BY <1>2, AlwaysGrounded, FrontDerives, PTL DEF Spec, DecisionsStand

-----------------------------------------------------------------------------
(* The nesting of today's formats, one level on the other.                  *)

W0 == INSTANCE WireLayerProofs WITH
    BodyEncode <- EncodeNone, BodyDecode <- DecodeNone,
    BodyFormed <- FormedNone, BodyFits <- FitsNone, BodySealed <- SealedNone
W1 == INSTANCE WireLayerProofs WITH
    BodyEncode <- Encode0, BodyDecode <- Decode0,
    BodyFormed <- Formed0, BodyFits <- Fits0, BodySealed <- Sealed0
W2 == INSTANCE WireLayerProofs WITH
    BodyEncode <- Encode1, BodyDecode <- Decode1,
    BodyFormed <- Formed1, BodyFits <- Fits1, BodySealed <- Sealed1
W3 == INSTANCE WireLayerProofs WITH
    BodyEncode <- Encode2, BodyDecode <- Decode2,
    BodyFormed <- Formed2, BodyFits <- Fits2, BodySealed <- Sealed2
W4 == INSTANCE WireLayerProofs WITH
    BodyEncode <- Encode3, BodyDecode <- Decode3,
    BodyFormed <- Formed3, BodyFits <- Fits3, BodySealed <- Sealed3

\* Each level of WireFormat is that level of WireLayerProofs.
LEMMA Level0 ==
    /\ \A s, v : Encode0(s, v) = W0!Encode(s, v)
    /\ \A s, w : Decode0(s, w) = W0!Decode(s, w)
    /\ \A s : Formed0(s) = W0!Formed(s)
    /\ \A s, v : Fits0(s, v) = W0!Fits(s, v)
<1>1. \A s, v : Encode0(s, v) = W0!Encode(s, v)
  BY DEF Encode0, L0!Encode, W0!Encode, L0!EncodeField, W0!EncodeField,
         L0!Single, W0!Single, L0!Plain, W0!Plain, L0!Chosen, W0!Chosen,
         L0!Repeated, W0!Repeated
<1>2. \A s, w : Decode0(s, w) = W0!Decode(s, w)
  BY DEF Decode0, L0!Decode, W0!Decode, L0!DecodeField, W0!DecodeField,
         L0!Admits, W0!Admits, L0!Single, W0!Single, L0!Plain, W0!Plain,
         L0!Chosen, W0!Chosen, L0!Repeated, W0!Repeated
<1>3. \A s : Formed0(s) = W0!Formed(s)
  BY DEF Formed0, S0!Formed, W0!Formed, S0!FormedField, W0!FormedField,
         S0!Single, W0!Single, S0!Chosen, W0!Chosen, S0!Repeated, W0!Repeated
<1>4. \A s, v : Fits0(s, v) = W0!Fits(s, v)
  BY DEF Fits0, S0!Fits, W0!Fits, S0!FitsField, W0!FitsField, S0!Single,
         W0!Single, S0!Plain, W0!Plain, S0!Chosen, W0!Chosen, S0!Repeated,
         W0!Repeated
<1> QED
  BY <1>1, <1>2, <1>3, <1>4

LEMMA Level1 ==
    /\ \A s, v : Encode1(s, v) = W1!Encode(s, v)
    /\ \A s, w : Decode1(s, w) = W1!Decode(s, w)
    /\ \A s : Formed1(s) = W1!Formed(s)
    /\ \A s, v : Fits1(s, v) = W1!Fits(s, v)
<1>1. \A s, v : Encode1(s, v) = W1!Encode(s, v)
  BY DEF Encode1, L1!Encode, W1!Encode, L1!EncodeField, W1!EncodeField,
         L1!Single, W1!Single, L1!Plain, W1!Plain, L1!Chosen, W1!Chosen,
         L1!Repeated, W1!Repeated
<1>2. \A s, w : Decode1(s, w) = W1!Decode(s, w)
  BY DEF Decode1, L1!Decode, W1!Decode, L1!DecodeField, W1!DecodeField,
         L1!Admits, W1!Admits, L1!Single, W1!Single, L1!Plain, W1!Plain,
         L1!Chosen, W1!Chosen, L1!Repeated, W1!Repeated
<1>3. \A s : Formed1(s) = W1!Formed(s)
  BY DEF Formed1, S1!Formed, W1!Formed, S1!FormedField, W1!FormedField,
         S1!Single, W1!Single, S1!Chosen, W1!Chosen, S1!Repeated, W1!Repeated
<1>4. \A s, v : Fits1(s, v) = W1!Fits(s, v)
  BY DEF Fits1, S1!Fits, W1!Fits, S1!FitsField, W1!FitsField, S1!Single,
         W1!Single, S1!Plain, W1!Plain, S1!Chosen, W1!Chosen, S1!Repeated,
         W1!Repeated
<1> QED
  BY <1>1, <1>2, <1>3, <1>4

LEMMA Level2 ==
    /\ \A s, v : Encode2(s, v) = W2!Encode(s, v)
    /\ \A s, w : Decode2(s, w) = W2!Decode(s, w)
    /\ \A s : Formed2(s) = W2!Formed(s)
    /\ \A s, v : Fits2(s, v) = W2!Fits(s, v)
<1>1. \A s, v : Encode2(s, v) = W2!Encode(s, v)
  BY DEF Encode2, L2!Encode, W2!Encode, L2!EncodeField, W2!EncodeField,
         L2!Single, W2!Single, L2!Plain, W2!Plain, L2!Chosen, W2!Chosen,
         L2!Repeated, W2!Repeated
<1>2. \A s, w : Decode2(s, w) = W2!Decode(s, w)
  BY DEF Decode2, L2!Decode, W2!Decode, L2!DecodeField, W2!DecodeField,
         L2!Admits, W2!Admits, L2!Single, W2!Single, L2!Plain, W2!Plain,
         L2!Chosen, W2!Chosen, L2!Repeated, W2!Repeated
<1>3. \A s : Formed2(s) = W2!Formed(s)
  BY DEF Formed2, S2!Formed, W2!Formed, S2!FormedField, W2!FormedField,
         S2!Single, W2!Single, S2!Chosen, W2!Chosen, S2!Repeated, W2!Repeated
<1>4. \A s, v : Fits2(s, v) = W2!Fits(s, v)
  BY DEF Fits2, S2!Fits, W2!Fits, S2!FitsField, W2!FitsField, S2!Single,
         W2!Single, S2!Plain, W2!Plain, S2!Chosen, W2!Chosen, S2!Repeated,
         W2!Repeated
<1> QED
  BY <1>1, <1>2, <1>3, <1>4

LEMMA Level3 ==
    /\ \A s, v : Encode3(s, v) = W3!Encode(s, v)
    /\ \A s, w : Decode3(s, w) = W3!Decode(s, w)
    /\ \A s : Formed3(s) = W3!Formed(s)
    /\ \A s, v : Fits3(s, v) = W3!Fits(s, v)
<1>1. \A s, v : Encode3(s, v) = W3!Encode(s, v)
  BY DEF Encode3, L3!Encode, W3!Encode, L3!EncodeField, W3!EncodeField,
         L3!Single, W3!Single, L3!Plain, W3!Plain, L3!Chosen, W3!Chosen,
         L3!Repeated, W3!Repeated
<1>2. \A s, w : Decode3(s, w) = W3!Decode(s, w)
  BY DEF Decode3, L3!Decode, W3!Decode, L3!DecodeField, W3!DecodeField,
         L3!Admits, W3!Admits, L3!Single, W3!Single, L3!Plain, W3!Plain,
         L3!Chosen, W3!Chosen, L3!Repeated, W3!Repeated
<1>3. \A s : Formed3(s) = W3!Formed(s)
  BY DEF Formed3, S3!Formed, W3!Formed, S3!FormedField, W3!FormedField,
         S3!Single, W3!Single, S3!Chosen, W3!Chosen, S3!Repeated, W3!Repeated
<1>4. \A s, v : Fits3(s, v) = W3!Fits(s, v)
  BY DEF Fits3, S3!Fits, W3!Fits, S3!FitsField, W3!FitsField, S3!Single,
         W3!Single, S3!Plain, W3!Plain, S3!Chosen, W3!Chosen, S3!Repeated,
         W3!Repeated
<1> QED
  BY <1>1, <1>2, <1>3, <1>4

LEMMA Level4 ==
    /\ \A s, v : Encode(s, v) = W4!Encode(s, v)
    /\ \A s, w : Decode(s, w) = W4!Decode(s, w)
    /\ \A s : Formed(s) = W4!Formed(s)
    /\ \A s, v : Fits(s, v) = W4!Fits(s, v)
    /\ \A s, v : Sealed(s, v) = W4!Sealed(s, v, <<>>)
<1>1. \A s, v : Encode(s, v) = W4!Encode(s, v)
  BY DEF Encode, L4!Encode, W4!Encode, L4!EncodeField, W4!EncodeField,
         L4!Single, W4!Single, L4!Plain, W4!Plain, L4!Chosen, W4!Chosen,
         L4!Repeated, W4!Repeated
<1>2. \A s, w : Decode(s, w) = W4!Decode(s, w)
  BY DEF Decode, L4!Decode, W4!Decode, L4!DecodeField, W4!DecodeField,
         L4!Admits, W4!Admits, L4!Single, W4!Single, L4!Plain, W4!Plain,
         L4!Chosen, W4!Chosen, L4!Repeated, W4!Repeated
<1>3. \A s : Formed(s) = W4!Formed(s)
  BY DEF Formed, S4!Formed, W4!Formed, S4!FormedField, W4!FormedField,
         S4!Single, W4!Single, S4!Chosen, W4!Chosen, S4!Repeated, W4!Repeated
<1>4. \A s, v : Fits(s, v) = W4!Fits(s, v)
  BY DEF Fits, S4!Fits, W4!Fits, S4!FitsField, W4!FitsField, S4!Single,
         W4!Single, S4!Plain, W4!Plain, S4!Chosen, W4!Chosen, S4!Repeated,
         W4!Repeated
<1>5. \A s, v : Sealed(s, v) = W4!Sealed(s, v, <<>>)
  BY DEF Sealed, S4!Sealed, W4!Sealed, S4!Env, W4!Env, S4!Recomputed,
         W4!Recomputed, S4!Item, W4!Item, S4!NamesOf, W4!NamesOf, S4!Place,
         W4!Place, S4!Digest, W4!Digest
<1> QED
  BY <1>1, <1>2, <1>3, <1>4, <1>5

LEMMA Lowest == W0!Inverts
<1>1. W0!BodyInverts
  BY DEF W0!BodyInverts, FormedNone
<1> QED
  BY <1>1, W0!LayerInverts

LEMMA Second == W1!BodyInverts /\ W1!Inverts
<1>1. /\ \A w : W1!IsWire(w) <=> W0!IsWire(w)
      /\ \A a, b : W1!Cat(a, b) = W0!Cat(a, b)
      /\ \A v, r : W1!Only(v, r) = W0!Only(v, r)
  BY DEF W1!IsWire, W0!IsWire, W1!Cat, W0!Cat, W1!Only, W0!Only
<1>2. ASSUME NEW b, NEW w, Formed0(b), W1!IsWire(w), NEW d \in Decode0(b, w)
      PROVE  /\ d = <<d[1], d[2]>> /\ Fits0(b, d[1]) /\ W1!IsWire(d[2])
             /\ w = W1!Cat(Encode0(b, d[1]), d[2])
  BY <1>1, <1>2, Lowest, Level0 DEF W0!Inverts
<1>3. ASSUME NEW b, NEW v, NEW r, Formed0(b), Fits0(b, v), W1!IsWire(r)
      PROVE  /\ W1!IsWire(Encode0(b, v))
             /\ Decode0(b, W1!Cat(Encode0(b, v), r)) = W1!Only(v, r)
  BY <1>1, <1>3, Lowest, Level0 DEF W0!Inverts
<1>4. W1!BodyInverts
  BY <1>2, <1>3 DEF W1!BodyInverts
<1> QED
  BY <1>4, W1!LayerInverts

LEMMA Third == W2!BodyInverts /\ W2!Inverts
<1>1. /\ \A w : W2!IsWire(w) <=> W1!IsWire(w)
      /\ \A a, b : W2!Cat(a, b) = W1!Cat(a, b)
      /\ \A v, r : W2!Only(v, r) = W1!Only(v, r)
  BY DEF W2!IsWire, W1!IsWire, W2!Cat, W1!Cat, W2!Only, W1!Only
<1>2. ASSUME NEW b, NEW w, Formed1(b), W2!IsWire(w), NEW d \in Decode1(b, w)
      PROVE  /\ d = <<d[1], d[2]>> /\ Fits1(b, d[1]) /\ W2!IsWire(d[2])
             /\ w = W2!Cat(Encode1(b, d[1]), d[2])
  BY <1>1, <1>2, Second, Level1 DEF W1!Inverts
<1>3. ASSUME NEW b, NEW v, NEW r, Formed1(b), Fits1(b, v), W2!IsWire(r)
      PROVE  /\ W2!IsWire(Encode1(b, v))
             /\ Decode1(b, W2!Cat(Encode1(b, v), r)) = W2!Only(v, r)
  BY <1>1, <1>3, Second, Level1 DEF W1!Inverts
<1>4. W2!BodyInverts
  BY <1>2, <1>3 DEF W2!BodyInverts
<1> QED
  BY <1>4, W2!LayerInverts

LEMMA Fourth == W3!BodyInverts /\ W3!Inverts
<1>1. /\ \A w : W3!IsWire(w) <=> W2!IsWire(w)
      /\ \A a, b : W3!Cat(a, b) = W2!Cat(a, b)
      /\ \A v, r : W3!Only(v, r) = W2!Only(v, r)
  BY DEF W3!IsWire, W2!IsWire, W3!Cat, W2!Cat, W3!Only, W2!Only
<1>2. ASSUME NEW b, NEW w, Formed2(b), W3!IsWire(w), NEW d \in Decode2(b, w)
      PROVE  /\ d = <<d[1], d[2]>> /\ Fits2(b, d[1]) /\ W3!IsWire(d[2])
             /\ w = W3!Cat(Encode2(b, d[1]), d[2])
  BY <1>1, <1>2, Third, Level2 DEF W2!Inverts
<1>3. ASSUME NEW b, NEW v, NEW r, Formed2(b), Fits2(b, v), W3!IsWire(r)
      PROVE  /\ W3!IsWire(Encode2(b, v))
             /\ Decode2(b, W3!Cat(Encode2(b, v), r)) = W3!Only(v, r)
  BY <1>1, <1>3, Third, Level2 DEF W2!Inverts
<1>4. W3!BodyInverts
  BY <1>2, <1>3 DEF W3!BodyInverts
<1> QED
  BY <1>4, W3!LayerInverts

LEMMA Highest == W4!BodyInverts /\ W4!Inverts
<1>1. /\ \A w : W4!IsWire(w) <=> W3!IsWire(w)
      /\ \A a, b : W4!Cat(a, b) = W3!Cat(a, b)
      /\ \A v, r : W4!Only(v, r) = W3!Only(v, r)
  BY DEF W4!IsWire, W3!IsWire, W4!Cat, W3!Cat, W4!Only, W3!Only
<1>2. ASSUME NEW b, NEW w, Formed3(b), W4!IsWire(w), NEW d \in Decode3(b, w)
      PROVE  /\ d = <<d[1], d[2]>> /\ Fits3(b, d[1]) /\ W4!IsWire(d[2])
             /\ w = W4!Cat(Encode3(b, d[1]), d[2])
  BY <1>1, <1>2, Fourth, Level3 DEF W3!Inverts
<1>3. ASSUME NEW b, NEW v, NEW r, Formed3(b), Fits3(b, v), W4!IsWire(r)
      PROVE  /\ W4!IsWire(Encode3(b, v))
             /\ Decode3(b, W4!Cat(Encode3(b, v), r)) = W4!Only(v, r)
  BY <1>1, <1>3, Fourth, Level3 DEF W3!Inverts
<1>4. W4!BodyInverts
  BY <1>2, <1>3 DEF W4!BodyInverts
<1> QED
  BY <1>4, W4!LayerInverts

-----------------------------------------------------------------------------
(* A whole record.                                                          *)

IsWire(w) == \E S : w \in Seq(S)

\* What the encoder writes is read back, and only that is.
LEMMA ReadsBack ==
    ASSUME NEW schema, Formed(schema), NEW v, Fits(schema, v)
    PROVE  IsWire(Encode(schema, v)) /\ Decode(schema, Encode(schema, v)) = {<<v, <<>>>>}
<1> DEFINE e == W4!Encode(schema, v)
<1>1. W4!Formed(schema) /\ W4!Fits(schema, v)
  BY Level4
<1>2. W4!IsWire(<<>>)
  BY W4!EmptyWire
<1>3. W4!IsWire(e) /\ W4!Decode(schema, W4!Cat(e, <<>>)) = W4!Only(v, <<>>)
  BY <1>1, <1>2, Highest DEF W4!Inverts
<1>4. W4!Cat(e, <<>>) = e
  BY <1>3, W4!EmptyWire
<1>5. W4!Decode(schema, e) = W4!Only(v, <<>>)
  BY <1>3, <1>4
<1> QED
  BY <1>3, <1>5, Level4 DEF IsWire, W4!IsWire, W4!Only

LEMMA ReadsOnly ==
    ASSUME NEW schema, Formed(schema), NEW w, IsWire(w), NEW d \in Decode(schema, w),
           d[2] = <<>>
    PROVE  Fits(schema, d[1]) /\ w = Encode(schema, d[1])
<1> DEFINE e == W4!Encode(schema, d[1])
<1>1. W4!Formed(schema) /\ W4!IsWire(w) /\ d \in W4!Decode(schema, w)
  BY Level4 DEF IsWire, W4!IsWire
<1>2. W4!Fits(schema, d[1]) /\ w = W4!Cat(e, d[2])
  BY <1>1, Highest DEF W4!Inverts
<1>3. W4!IsWire(e)
  BY <1>1, <1>2, W4!EmptyWire, Highest DEF W4!Inverts
<1>4. W4!Cat(e, <<>>) = e
  BY <1>3, W4!EmptyWire
<1> QED
  BY <1>2, <1>4, Level4

\* A sealed identity stands in the encoding; it is a digest in its domain, and
\* equal ones are over equal fields.
LEMMA IdentityStands ==
    ASSUME NEW schema, Formed(schema), NEW v, Fits(schema, v), NEW s \in Seals(schema)
    PROVE  \E p \in 1 .. Len(Encode(schema, v)) :
               Encode(schema, v)[p] = v[s] /\ (s = 1 => p = 1)
<1>1. s \in 1 .. Len(schema) /\ schema[s].shape \in W4!Single
  BY DEF Seals, W4!Single
<1>2. W4!Formed(schema) /\ W4!Fits(schema, v) /\ W4!BodyInverts
  BY Highest, Level4
<1> QED
  BY <1>1, <1>2, W4!Stands, Level4

LEMMA IdentityCovers ==
    ASSUME NEW schema, Formed(schema),
           \A s \in Seals(schema) : \A j \in DOMAIN schema[s].body :
               schema[s].body[j] \in NamesOf(schema),
           NEW u, Sealed(schema, u), NEW s \in Seals(schema)
    PROVE  /\ \E c : u[s] = Digest(schema[s].lo, c)
           /\ \A v : Sealed(schema, v) /\ u[s] = v[s] =>
                 \A i \in Under(schema, s) : u[i] = v[i]
<1>1. /\ DOMAIN schema = 1 .. Len(schema) /\ W4!Sealed(schema, u, <<>>)
      /\ s \in 1 .. Len(schema) /\ schema[s].shape = "seal"
  BY Level4 DEF W4!Formed, Seals
<1>2. /\ \E c : u[s] = W4!Digest(schema[s].lo, c)
      /\ \A v : W4!Sealed(schema, v, <<>>) /\ u[s] = v[s] =>
            \A j \in DOMAIN schema[s].body :
               schema[s].body[j] \in W4!NamesOf(schema) =>
                   u[W4!Place(schema, schema[s].body[j])] = v[W4!Place(schema, schema[s].body[j])]
  BY <1>1, W4!SealCovers
<1>3. ASSUME NEW v, Sealed(schema, v), u[s] = v[s], NEW i \in Under(schema, s)
      PROVE  u[i] = v[i]
  <2>1. PICK j \in DOMAIN schema[s].body : i = Place(schema, schema[s].body[j])
    BY DEF Under
  <2>2. schema[s].body[j] \in NamesOf(schema)
    OBVIOUS
  <2>3. /\ NamesOf(schema) = W4!NamesOf(schema)
        /\ \A n : Place(schema, n) = W4!Place(schema, n)
    BY DEF Place, NamesOf, W4!Place, W4!NamesOf
  <2>4. W4!Sealed(schema, v, <<>>)
    BY <1>3, Level4
  <2> QED
    BY <1>2, <1>3, <2>1, <2>2, <2>3, <2>4
<1> QED
  BY <1>2, <1>3 DEF Digest, W4!Digest

-----------------------------------------------------------------------------
(* What a load makes of bytes.                                              *)

\* A cell is plain, or a digest, and a digest tells its content.
LEMMA CellsTell ==
    \A d, c, b, e : /\ Digest(d, c) # Plain(b)
                    /\ Len(Digest(d, c)) = 3 /\ Digest(d, c)[2] = d /\ Digest(d, c)[3] = c
                    /\ (Digest(d, c) = Digest(d, e) => c = e)
<1> TAKE d, c, b, e
<1>1. Len(Digest(d, c)) = 3 /\ Digest(d, c)[2] = d /\ Digest(d, c)[3] = c
  BY DEF Digest
<1>2. Len(Plain(b)) = 1
  BY DEF Plain
<1>3. Digest(d, e)[3] = e
  BY DEF Digest
<1> QED
  BY <1>1, <1>2, <1>3

LEMMA PayloadIs ==
    ASSUME NEW name \in Formats, NEW v, Fits(Schema(name), v)
    PROVE  /\ IsWire(Payload(name, v)) /\ Payload(name, v) # <<>>
           /\ Head(Payload(name, v)) = Magic(name)
           /\ Tail(Payload(name, v)) = Encode(Schema(name), v)
           /\ Len(Payload(name, v)) = Len(Encode(Schema(name), v)) + 1
           /\ \A p \in 1 .. Len(Encode(Schema(name), v)) :
                 Payload(name, v)[p + 1] = Encode(Schema(name), v)[p]
<1>1. Formed(Schema(name))
  BY CodecAssumption DEF Schema
<1>2. PICK S : Encode(Schema(name), v) \in Seq(S)
  BY <1>1, ReadsBack DEF IsWire
<1> DEFINE T == S \cup {Magic(name)}
<1>3. Encode(Schema(name), v) \in Seq(T) /\ <<Magic(name)>> \in Seq(T)
  BY <1>2
<1> HIDE DEF T
<1>4. Payload(name, v) \in Seq(T)
  BY <1>3 DEF Payload
<1> QED
  BY <1>3, <1>4, ConcatProperties DEF Payload, IsWire

\* Bytes are opened when they are a payload, closed.
LEMMA OpenedClosed ==
    ASSUME NEW name \in Formats, NEW bytes, IsWire(bytes), NEW payload \in Opened(name, bytes)
    PROVE  IsWire(payload) /\ bytes = Close(name, payload)
<1>1. PICK S : bytes \in Seq(S)
  BY DEF IsWire
<1>2. CASE ~Codecs[name].checksum
  <2>1. payload = bytes
    BY <1>2 DEF Opened
  <2>2. bytes \o <<>> = bytes
    BY <1>1, ConcatEmptySeq
  <2> QED
    BY <1>2, <2>1, <2>2 DEF Close
<1>3. CASE Codecs[name].checksum
  <2>1. /\ bytes # <<>> /\ Last(bytes) = Digest("bytes", payload) /\ payload = Front(bytes)
    BY <1>3 DEF Opened
  <2>2. Front(bytes) \in Seq(S) /\ bytes = Front(bytes) \o <<Last(bytes)>>
    BY <1>1, <2>1 DEF Front, Last
  <2> QED
    BY <1>3, <2>1, <2>2 DEF Close, IsWire
<1> QED
  BY <1>2, <1>3

LEMMA ClosedOpens ==
    ASSUME NEW name \in Formats, NEW payload, IsWire(payload)
    PROVE  Opened(name, Close(name, payload)) = {payload}
<1>1. PICK S : payload \in Seq(S)
  BY DEF IsWire
<1>2. CASE ~Codecs[name].checksum
  <2>1. payload \o <<>> = payload
    BY <1>1, ConcatEmptySeq
  <2> QED
    BY <1>2, <2>1 DEF Opened, Close
<1>3. CASE Codecs[name].checksum
  <2> DEFINE c == Digest("bytes", payload)
             w == payload \o <<c>>
  <2>1. w = Close(name, payload)
    BY <1>3 DEF Close
  <2>2. w # <<>> /\ Last(w) = c /\ Front(w) = payload
    <3>1. payload \in Seq(S \cup {c}) /\ <<c>> \in Seq(S \cup {c})
      BY <1>1
    <3> HIDE DEF c
    <3> QED
      BY <3>1, ConcatProperties DEF Front, Last
  <2> HIDE DEF w
  <2> QED
    BY <1>3, <2>1, <2>2 DEF Opened
<1> QED
  BY <1>2, <1>3

LEMMA AdmittedIs ==
    ASSUME NEW name, NEW v, NEW u \in Admitted(name, v), name # "construction"
    PROVE  u = v
  BY DEF Admitted

\* What is read is sealed, and what was admitted to it fits the schema, agrees
\* with what the caller knows, and has the bytes for its encoding.
LEMMA ParsedIs ==
    ASSUME NEW name \in Formats, NEW bytes, IsWire(bytes), NEW wanted,
           NEW u \in Parsed(name, bytes, wanted)
    PROVE  /\ Sealed(Schema(name), u)
           /\ \E v : /\ Fits(Schema(name), v) /\ u \in Admitted(name, v)
                     /\ bytes = Wire(name, v)
                     /\ \A n \in Codecs[name].expected :
                           Named(name, v, n) = Named(name, wanted, n)
<1> DEFINE Bound(payload, d) ==
               /\ payload # <<>> /\ Head(payload) = Magic(name)
               /\ d \in Decode(Schema(name), Tail(payload)) /\ d[2] = <<>>
               /\ \A n \in Codecs[name].expected : Named(name, d[1], n) = Named(name, wanted, n)
               /\ u \in Admitted(name, d[1])
<1>0. PICK payload \in Opened(name, bytes) : \E d : Bound(payload, d)
  BY DEF Parsed
<1>1. PICK d : Bound(payload, d)
  BY <1>0
<1> DEFINE v == d[1]
<1>2. Sealed(Schema(name), u)
  BY DEF Parsed
<1>3. IsWire(payload) /\ bytes = Close(name, payload)
  BY <1>1, OpenedClosed
<1>4. IsWire(Tail(payload)) /\ payload = <<Magic(name)>> \o Tail(payload)
  <2>1. PICK S : payload \in Seq(S)
    BY <1>3 DEF IsWire
  <2>2. Tail(payload) \in Seq(S) /\ payload = <<Head(payload)>> \o Tail(payload)
    BY <1>1, <2>1
  <2> QED
    BY <1>1, <2>2 DEF IsWire
<1>5. Formed(Schema(name))
  BY CodecAssumption DEF Schema
<1>6. Fits(Schema(name), v) /\ Tail(payload) = Encode(Schema(name), v)
  BY <1>1, <1>4, <1>5, ReadsOnly
<1>7. bytes = Wire(name, v)
  BY <1>3, <1>4, <1>6 DEF Wire, Payload
<1> QED
  BY <1>1, <1>2, <1>6, <1>7

\* What was written is read.
LEMMA WrittenParses ==
    ASSUME NEW name \in Formats, NEW v \in Written(name)
    PROVE  Read(name, Wire(name, v), v) = {v}
<1>1. /\ Fits(Schema(name), v) /\ Sealed(Schema(name), v) /\ Admitted(name, v) = {v}
  BY DEF Written
<1> DEFINE payload == Payload(name, v)
<1>2. IsWire(payload) /\ payload # <<>> /\ Head(payload) = Magic(name)
      /\ Tail(payload) = Encode(Schema(name), v)
  BY <1>1, PayloadIs
<1>3. Formed(Schema(name))
  BY CodecAssumption DEF Schema
<1>4. Decode(Schema(name), Tail(payload)) = {<<v, <<>>>>}
  BY <1>1, <1>2, <1>3, ReadsBack
<1> HIDE DEF payload
<1>5. Opened(name, Wire(name, v)) = {payload}
  BY <1>2, ClosedOpens DEF payload, Wire
<1>6. Parsed(name, Wire(name, v), v) = {v}
  <2> DEFINE Body(q) == IF q # <<>> /\ Head(q) = Magic(name)
                        THEN Decode(Schema(name), Tail(q)) ELSE {}
             parsed == UNION {Body(q) : q \in Opened(name, Wire(name, v))}
             whole == {p[1] : p \in {q \in parsed : q[2] = <<>>}}
             bound == {u \in whole : \A n \in Codecs[name].expected :
                                         Named(name, u, n) = Named(name, v, n)}
             fit == UNION {Admitted(name, u) : u \in bound}
  <2>1. parsed = {<<v, <<>>>>}
    <3>1. Body(payload) = {<<v, <<>>>>}
      BY <1>2, <1>4
    <3> HIDE DEF Body
    <3> QED
      BY <1>5, <3>1
  <2>2. Parsed(name, Wire(name, v), v) = {u \in fit : Sealed(Schema(name), u)}
    BY DEF Parsed
  <2> HIDE DEF parsed
  <2>3. whole = {v}
    <3>1. {q \in parsed : q[2] = <<>>} = {<<v, <<>>>>}
      <4> DEFINE p == <<v, <<>>>>
      <4>1. p[2] = <<>> /\ parsed = {p}
        BY <2>1
      <4> HIDE DEF p
      <4>2. {q \in parsed : q[2] = <<>>} = {p}
        BY <4>1
      <4> QED
        BY <4>2 DEF p
    <3>2. {p[1] : p \in {<<v, <<>>>>}} = {v}
      OBVIOUS
    <3> QED
      BY <3>1, <3>2
  <2> HIDE DEF whole
  <2>4. bound = {v}
    BY <2>3
  <2> HIDE DEF bound
  <2>5. fit = {v}
    BY <1>1, <2>4
  <2> HIDE DEF fit
  <2> QED
    BY <1>1, <2>2, <2>5
<1> QED
  BY <1>6 DEF Read

-----------------------------------------------------------------------------
(* What damage makes of bytes.                                              *)

\* A cell of damaged bytes is a plain one, or one from nearby.
LEMMA DamagedIs ==
    ASSUME NEW bytes, IsWire(bytes), NEW w \in Damaged(bytes)
    PROVE  /\ IsWire(w)
           /\ \A p \in 1 .. Len(w) :
                 \/ \E b : w[p] = Plain(b)
                 \/ \E k \in 1 .. Len(bytes) : w[p] = bytes[k] /\ k <= p + 1
<1>1. PICK S : bytes \in Seq(S)
  BY DEF IsWire
<1> DEFINE T == S \cup {Plain(0), Plain(2)}
<1>2. bytes \in Seq(T) /\ Plain(0) \in T /\ Plain(2) \in T
  BY <1>1
<1>3. Len(bytes) \in Nat /\ DOMAIN bytes = 1 .. Len(bytes)
  BY <1>1
<1> HIDE DEF T
<1>4. CASE \E i \in DOMAIN bytes, c \in {Plain(0), Plain(2)} : w = [bytes EXCEPT ![i] = c]
  <2>1. PICK i \in DOMAIN bytes, c \in {Plain(0), Plain(2)} : w = [bytes EXCEPT ![i] = c]
    BY <1>4
  <2>2. c \in T
    BY <1>2
  <2>3. w \in Seq(T) /\ Len(w) = Len(bytes)
    BY <1>2, <1>3, <2>1, <2>2, ExceptSeq
  <2>4. ASSUME NEW p \in 1 .. Len(w)
        PROVE  (\E b : w[p] = Plain(b)) \/ w[p] = bytes[p]
    BY <1>3, <2>1, <2>3
  <2>5. \A p \in 1 .. Len(w) : p \in 1 .. Len(bytes) /\ p <= p + 1
    BY <1>3, <2>3
  <2> QED
    BY <2>3, <2>4, <2>5 DEF IsWire
<1>5. CASE \E i \in 1 .. Len(bytes) - 1 :
              w = [bytes EXCEPT ![i] = bytes[i + 1], ![i + 1] = bytes[i]]
  <2>1. PICK i \in 1 .. Len(bytes) - 1 :
            w = [bytes EXCEPT ![i] = bytes[i + 1], ![i + 1] = bytes[i]]
    BY <1>5
  <2>2. i \in 1 .. Len(bytes) /\ i + 1 \in 1 .. Len(bytes) /\ i # i + 1
    BY <1>3
  <2>3. bytes[i] \in T /\ bytes[i + 1] \in T
    BY <1>2, <2>2
  <2>4. /\ DOMAIN w = 1 .. Len(bytes)
        /\ \A p \in 1 .. Len(bytes) :
              w[p] = IF p = i + 1 THEN bytes[i] ELSE IF p = i THEN bytes[i + 1] ELSE bytes[p]
    BY <1>3, <2>1, <2>2
  <2>5. \A p \in 1 .. Len(bytes) : w[p] \in T
    BY <1>2, <2>3, <2>4
  <2>6. w = [p \in 1 .. Len(bytes) |-> w[p]]
    BY <2>1, <2>4
  <2>7. w \in Seq(T) /\ Len(w) = Len(bytes)
    BY <1>3, <2>5, <2>6
  <2>8. ASSUME NEW p \in 1 .. Len(w)
        PROVE  \E k \in 1 .. Len(bytes) : w[p] = bytes[k] /\ k <= p + 1
    <3>1. CASE p = i
      BY <2>2, <2>4, <2>7, <3>1
    <3>2. CASE p = i + 1
      BY <2>2, <2>4, <2>7, <3>2
    <3>3. CASE p # i /\ p # i + 1
      BY <2>4, <2>7, <3>3
    <3> QED
      BY <3>1, <3>2, <3>3
  <2> QED
    BY <2>7, <2>8 DEF IsWire
<1>6. CASE \E n \in 0 .. Len(bytes) - 1 : w = SubSeq(bytes, 1, n)
  <2>1. PICK n \in 0 .. Len(bytes) - 1 : w = SubSeq(bytes, 1, n)
    BY <1>6
  <2>2. w \in Seq(T) /\ Len(w) = n /\ \A p \in 1 .. n : w[p] = bytes[p]
    BY <1>2, <1>3, <2>1
  <2>3. \A p \in 1 .. n : p \in 1 .. Len(bytes) /\ p <= p + 1
    BY <1>3
  <2> QED
    BY <2>2, <2>3 DEF IsWire
<1>7. CASE w = Append(bytes, Plain(0))
  <2>1. /\ w \in Seq(T) /\ Len(w) = Len(bytes) + 1 /\ w[Len(bytes) + 1] = Plain(0)
        /\ \A p \in 1 .. Len(bytes) : w[p] = bytes[p]
    BY <1>2, <1>7
  <2>2. ASSUME NEW p \in 1 .. Len(w)
        PROVE  \/ \E b : w[p] = Plain(b)
               \/ \E k \in 1 .. Len(bytes) : w[p] = bytes[k] /\ k <= p + 1
    <3>1. CASE p = Len(bytes) + 1
      BY <2>1, <3>1
    <3>2. CASE p # Len(bytes) + 1
      <4>1. p \in 1 .. Len(bytes) /\ p <= p + 1
        BY <1>3, <2>1, <3>2
      <4> QED
        BY <2>1, <4>1
    <3> QED
      BY <3>1, <3>2
  <2> QED
    BY <2>1, <2>2 DEF IsWire
<1> QED
  BY <1>4, <1>5, <1>6, <1>7 DEF Damaged

\* Bytes that another writer closed are bytes.
LEMMA ClosedIsWire ==
    ASSUME NEW name, NEW payload, IsWire(payload)
    PROVE  IsWire(Close(name, payload))
<1>1. PICK S : payload \in Seq(S)
  BY DEF IsWire
<1> DEFINE c == Digest("bytes", payload)
<1>2. payload \in Seq(S \cup {c}) /\ <<c>> \in Seq(S \cup {c}) /\ <<>> \in Seq(S \cup {c})
  BY <1>1
<1> HIDE DEF c
<1>3. payload \o <<c>> \in Seq(S \cup {c}) /\ payload \o <<>> \in Seq(S \cup {c})
  BY <1>2
<1> QED
  BY <1>3 DEF Close, IsWire, c

\* A record that the program writes is sealed, and its bytes are bytes.
LEMMA WrittenIs ==
    ASSUME NEW name \in Formats, NEW v \in Written(name)
    PROVE  /\ Fits(Schema(name), v) /\ Sealed(Schema(name), v)
           /\ IsWire(Payload(name, v)) /\ IsWire(Wire(name, v))
<1>1. Fits(Schema(name), v) /\ Sealed(Schema(name), v)
  BY DEF Written
<1>2. IsWire(Payload(name, v))
  BY <1>1, PayloadIs
<1> QED
  BY <1>1, <1>2, ClosedIsWire DEF Wire

-----------------------------------------------------------------------------
(* Damaged bytes are refused, or are still the record's.                    *)

\* Where a digest of the bytes follows them, no damage is accepted.
LEMMA ChecksumTells ==
    ASSUME NEW name \in Formats, Codecs[name].checksum, NEW v \in Written(name),
           NEW w \in Damaged(Wire(name, v)), NEW r, Fits(Schema(name), r),
           w = Wire(name, r)
    PROVE  w = Wire(name, v)
<1> DEFINE p == Payload(name, v)
           q == Payload(name, r)
           k == Len(q) + 1
<1>1. PICK S : p \in Seq(S)
  BY WrittenIs DEF IsWire
<1>2. PICK T : q \in Seq(T)
  BY PayloadIs DEF IsWire
<1>3. q # <<>> /\ Head(q) = Magic(name)
  BY PayloadIs
<1>4. Wire(name, v) = p \o <<Digest("bytes", p)>> /\ w = q \o <<Digest("bytes", q)>>
  BY DEF Wire, Close
<1>5. \A i \in 1 .. Len(p) :
          Len(p[i]) = 3 /\ p[i][2] = "bytes" /\ p[i][3] # <<>> => Head(p[i][3]) # Magic(name)
  <2>1. DOMAIN p = 1 .. Len(p)
    BY <1>1
  <2> QED
    BY <2>1 DEF Written, Unentangled
<1>6. IsWire(Wire(name, v))
  BY WrittenIs
<1> HIDE DEF p, q
<1>7. k \in 1 .. Len(w) /\ w[k] = Digest("bytes", q)
  <2> DEFINE c == Digest("bytes", q)
  <2>1. q \in Seq(T \cup {c}) /\ <<c>> \in Seq(T \cup {c})
    BY <1>2
  <2> HIDE DEF c
  <2>2. w = q \o <<c>>
    BY <1>4 DEF c
  <2> QED
    BY <2>1, <2>2, ConcatProperties DEF c
<1>8. PICK i \in 1 .. Len(Wire(name, v)) : w[k] = Wire(name, v)[i]
  BY <1>6, <1>7, DamagedIs, CellsTell
<1>9. \/ i \in 1 .. Len(p) /\ Wire(name, v)[i] = p[i]
      \/ Wire(name, v)[i] = Digest("bytes", p)
  <2> DEFINE c == Digest("bytes", p)
  <2>1. p \in Seq(S \cup {c}) /\ <<c>> \in Seq(S \cup {c})
    BY <1>1
  <2> HIDE DEF c
  <2>2. Wire(name, v) = p \o <<c>>
    BY <1>4 DEF c
  <2> QED
    BY <2>1, <2>2, <1>8, ConcatProperties DEF c
<1>10. CASE Wire(name, v)[i] = Digest("bytes", p)
  <2>1. p = q
    BY <1>7, <1>8, <1>10, CellsTell
  <2> QED
    BY <1>4, <2>1
<1>11. CASE i \in 1 .. Len(p) /\ Wire(name, v)[i] = p[i]
  <2>1. p[i] = Digest("bytes", q)
    BY <1>7, <1>8, <1>11
  <2>2. Len(p[i]) = 3 /\ p[i][2] = "bytes" /\ p[i][3] = q
    BY <2>1, CellsTell
  <2> QED
    BY <1>3, <1>5, <1>11, <2>2
<1> QED
  BY <1>9, <1>10, <1>11

\* Two sealed records of a format that agree on their identities and on what
\* the caller knows agree on every field that is not left unnamed.
LEMMA IdentitiesTell ==
    ASSUME NEW name \in Formats, NEW u, NEW v,
           Sealed(Schema(name), u), Sealed(Schema(name), v),
           \A s \in Seals(Schema(name)) : u[s] = v[s],
           name # "construction" =>
               \A n \in Codecs[name].expected : Named(name, u, n) = Named(name, v, n)
    PROVE  \A i \in 1 .. Len(Schema(name)) :
               Schema(name)[i].name \notin Codecs[name].unnamed => u[i] = v[i]
<1> DEFINE schema == Schema(name)
<1> TAKE i \in 1 .. Len(schema)
<1> HAVE schema[i].name \notin Codecs[name].unnamed
<1>1. /\ Formed(schema) /\ Place(schema, schema[i].name) = i
      /\ \A s \in Seals(schema) : \A j \in DOMAIN schema[s].body :
            schema[s].body[j] \in NamesOf(schema)
      /\ \/ schema[i].name \in Codecs[name].expected /\ name # "construction"
         \/ i \in Seals(schema)
         \/ \E s \in Seals(schema) : i \in Under(schema, s)
  BY CodecAssumption DEF Schema
<1>2. CASE schema[i].name \in Codecs[name].expected /\ name # "construction"
  BY <1>1, <1>2 DEF Named
<1>3. CASE i \in Seals(schema)
  BY <1>3
<1>4. CASE \E s \in Seals(schema) : i \in Under(schema, s)
  BY <1>1, <1>4, IdentityCovers
<1> QED
  BY <1>1, <1>2, <1>3, <1>4

\* Where none does, a retained identity over all others tells.
LEMMA IdentityTells ==
    ASSUME NEW name \in Formats, ~Codecs[name].checksum, NEW v \in Written(name),
           NEW w \in Damaged(Wire(name, v)), NEW r, Fits(Schema(name), r),
           Sealed(Schema(name), r), w = Wire(name, r),
           \A n \in Codecs[name].expected : Named(name, r, n) = Named(name, v, n)
    PROVE  r = v
<1> DEFINE schema == Schema(name)
           p == Payload(name, v)
<1>1. /\ Formed(schema) /\ Codecs[name].unnamed = {}
      /\ \A s \in Seals(schema) : \A j \in DOMAIN schema[s].body :
            schema[s].body[j] \in NamesOf(schema)
  BY CodecAssumption DEF Schema
<1>2. Fits(schema, v) /\ Sealed(schema, v) /\ IsWire(p)
  BY WrittenIs
<1>3. Wire(name, v) = p /\ w = Payload(name, r)
  <2>1. \A x : IsWire(x) => x \o <<>> = x
    BY ConcatEmptySeq DEF IsWire
  <2> QED
    BY <1>2, <2>1, PayloadIs DEF Wire, Close
<1>4. PICK s \in Masters(schema) : \A k \in DOMAIN p :
          Len(p[k]) = 3 /\ p[k][2] = schema[s].lo => p[k] = v[s] \/ (s = 1 /\ k > 3)
  BY DEF Written, Unentangled
<1>5. s \in Seals(schema) /\ Seals(schema) \ {s} \subseteq Under(schema, s)
  BY DEF Masters
<1>6. PICK j \in 1 .. Len(Encode(schema, r)) :
          Encode(schema, r)[j] = r[s] /\ (s = 1 => j = 1)
  BY <1>1, <1>5, IdentityStands
<1>7. j + 1 \in 1 .. Len(w) /\ w[j + 1] = r[s]
  <2>1. Len(Encode(schema, r)) \in Nat
    BY <1>1, ReadsBack DEF IsWire
  <2> QED
    BY <1>3, <1>6, <2>1, PayloadIs
<1>8. \E c : r[s] = Digest(schema[s].lo, c)
  BY <1>1, <1>5, IdentityCovers
<1>9. r[s] = v[s]
  <2>1. PICK k \in 1 .. Len(p) : w[j + 1] = p[k] /\ k <= (j + 1) + 1
    BY <1>2, <1>3, <1>7, <1>8, DamagedIs, CellsTell
  <2>2. Len(p[k]) = 3 /\ p[k][2] = schema[s].lo
    BY <1>7, <1>8, <2>1, CellsTell
  <2>3. k \in DOMAIN p
    BY <1>2, <2>1 DEF IsWire
  <2>4. p[k] = v[s] \/ (s = 1 /\ k > 3)
    BY <1>4, <2>2, <2>3
  <2>5. ~(s = 1 /\ k > 3)
    BY <1>6, <2>1
  <2> QED
    BY <1>7, <2>1, <2>4, <2>5
<1>10. \A t \in Seals(schema) : r[t] = v[t]
  BY <1>1, <1>2, <1>5, <1>9, IdentityCovers
<1>11. \A i \in 1 .. Len(schema) : r[i] = v[i]
  BY <1>1, <1>2, <1>10, IdentitiesTell
<1>12. /\ r = [i \in 1 .. Len(schema) |-> r[i]]
       /\ v = [i \in 1 .. Len(schema) |-> v[i]]
  BY <1>2, Level4 DEF W4!Fits
<1> QED
  BY <1>11, <1>12

-----------------------------------------------------------------------------
(* What a load answers.                                                     *)

\* The bytes are those of the record that was written, of its damage, or of
\* another writer, and the answer is what the decoder makes of them.
CodecInv ==
    /\ origin \in {"nothing", "encoder", "damaged", "another writer"}
    /\ ~read => loaded = {}
    /\ origin = "nothing" => ~read
    /\ origin # "nothing" => format \in Formats /\ stored \in Written(format) /\ IsWire(wire)
    /\ origin = "encoder" => wire = Wire(format, stored)
    /\ origin = "damaged" => wire \in Damaged(Wire(format, stored)) \ {Wire(format, stored)}
    /\ read => loaded = Read(format, wire, stored)

LEMMA CodecStarts == CodecInit => CodecInv
  BY DEF CodecInit, CodecInv

LEMMA CodecStep == CodecInv /\ [CodecNext]_codecVars => CodecInv'
<1> SUFFICES ASSUME CodecInv, [CodecNext]_codecVars PROVE CodecInv'
  OBVIOUS
<1>1. CASE Write
  <2>1. format' \in Formats /\ stored' \in Written(format') /\ wire' = Wire(format', stored')
    BY <1>1 DEF Write
  <2>2. IsWire(wire')
    BY <2>1, WrittenIs
  <2> QED
    BY <1>1, <2>1, <2>2 DEF Write, CodecInv
<1>2. CASE Damage
  <2>1. wire' \in Damaged(wire) \ {wire} /\ IsWire(wire) /\ wire = Wire(format, stored)
    BY <1>2 DEF Damage, CodecInv
  <2>2. IsWire(wire')
    BY <2>1, DamagedIs
  <2> QED
    BY <1>2, <2>1, <2>2 DEF Damage, CodecInv
<1>3. CASE Rewrite
  <2>1. PICK payload \in Damaged(Payload(format, stored)) : wire' = Close(format, payload)
    BY <1>3 DEF Rewrite
  <2>2. IsWire(wire')
    BY <1>3, <2>1, WrittenIs, DamagedIs, ClosedIsWire DEF Rewrite, CodecInv
  <2> QED
    BY <1>3, <2>2 DEF Rewrite, CodecInv
<1>4. CASE Load
  BY <1>4 DEF Load, CodecInv
<1>5. CASE UNCHANGED codecVars
  BY <1>5 DEF codecVars, CodecInv
<1> QED
  BY <1>1, <1>2, <1>3, <1>4, <1>5 DEF CodecNext

\* What is loaded was parsed from the bytes.
LEMMA LoadedIs ==
    ASSUME CodecInv, NEW u \in loaded
    PROVE  /\ read /\ format \in Formats /\ stored \in Written(format)
           /\ IsWire(wire) /\ u \in Parsed(format, wire, stored)
           /\ Codecs[format].reencoded => Wire(format, u) = wire
  BY DEF CodecInv, Read

LEMMA RoundTripsFromInv == CodecInv => RoundTrips
<1> SUFFICES ASSUME CodecInv PROVE RoundTrips
  OBVIOUS
<1>1. ASSUME read, origin = "encoder" PROVE loaded = {stored}
  BY <1>1, WrittenParses DEF CodecInv
<1>2. ASSUME origin = "damaged", NEW u \in loaded PROVE u = stored
  <2>1. /\ format \in Formats /\ stored \in Written(format)
        /\ IsWire(wire) /\ u \in Parsed(format, wire, stored)
    BY LoadedIs
  <2>2. wire \in Damaged(Wire(format, stored)) /\ wire # Wire(format, stored)
    BY <1>2 DEF CodecInv
  <2>3. PICK r : /\ Fits(Schema(format), r) /\ u \in Admitted(format, r)
                 /\ wire = Wire(format, r)
                 /\ \A n \in Codecs[format].expected :
                       Named(format, r, n) = Named(format, stored, n)
    BY <2>1, ParsedIs
  <2>4. Sealed(Schema(format), u)
    BY <2>1, ParsedIs
  <2>5. CASE Codecs[format].checksum
    BY <2>1, <2>2, <2>3, <2>5, ChecksumTells
  <2>6. CASE ~Codecs[format].checksum
    <3>1. u = r
      BY <2>1, <2>3, <2>6, AdmittedIs, CodecAssumption
    <3> QED
      BY <2>1, <2>2, <2>3, <2>4, <2>6, <3>1, IdentityTells
  <2> QED
    BY <2>5, <2>6
<1> QED
  BY <1>1, <1>2 DEF RoundTrips

LEMMA CanonicalFromInv == CodecInv => Canonical
<1> SUFFICES ASSUME CodecInv, NEW u \in loaded PROVE Wire(format, u) = wire
  BY DEF Canonical
<1>1. CASE Codecs[format].reencoded
  BY <1>1, LoadedIs
<1>2. CASE ~Codecs[format].reencoded
  <2>1. format \in Formats /\ IsWire(wire) /\ u \in Parsed(format, wire, stored)
    BY LoadedIs
  <2>2. format # "construction"
    BY <1>2, <2>1, CodecAssumption
  <2>3. PICK r : u \in Admitted(format, r) /\ wire = Wire(format, r)
    BY <2>1, ParsedIs
  <2> QED
    BY <2>2, <2>3, AdmittedIs
<1> QED
  BY <1>1, <1>2

LEMMA NamesFromInv == CodecInv => IdentityNamesContent
<1> SUFFICES ASSUME CodecInv, NEW u \in loaded,
                    \A s \in Seals(Schema(format)) : u[s] = stored[s]
             PROVE  \A i \in 1 .. Len(Schema(format)) :
                        Schema(format)[i].name \notin Codecs[format].unnamed => u[i] = stored[i]
  BY DEF IdentityNamesContent
<1>1. /\ format \in Formats /\ stored \in Written(format)
      /\ IsWire(wire) /\ u \in Parsed(format, wire, stored)
  BY LoadedIs
<1>2. Sealed(Schema(format), u) /\ Sealed(Schema(format), stored)
  BY <1>1, ParsedIs, WrittenIs
<1>3. PICK r : /\ u \in Admitted(format, r)
               /\ \A n \in Codecs[format].expected :
                     Named(format, r, n) = Named(format, stored, n)
  BY <1>1, ParsedIs
<1>4. format # "construction" => u = r
  BY <1>3, AdmittedIs
<1> QED
  BY <1>1, <1>2, <1>3, <1>4, IdentitiesTell

LEMMA AlwaysCodecInv == CodecSpec => []CodecInv
  BY CodecStarts, CodecStep, PTL DEF CodecSpec

\* The sum writes, damages and loads records as RecordCodec does.
LEMMA FrontCodes == FrontSpec => CodecSpec
<1>1. FrontInit => CodecInit
  BY DEF FrontInit
<1>2. [FrontNext]_frontVars => [CodecNext]_codecVars
  BY DEF FrontNext, Rest, frontVars
<1> QED
  BY <1>1, <1>2, PTL DEF FrontSpec, CodecSpec

\* Every codec reads back the record its encoder wrote, and bytes that were
\* damaged where they lay are refused or still are that record (RoundTrips):
\* the decode functions of the codec sources against their encode functions,
\* for every table of formats that CodecAssumption admits.
THEOREM RecordsReturn == FrontSpec => []RoundTrips
  BY AlwaysCodecInv, RoundTripsFromInv, FrontCodes, PTL

\* Whatever bytes a decoder accepts, of this program or another, are those its
\* encoder writes for the record it answers (Canonical), so a record has one
\* retained name.
THEOREM OneEncoding == FrontSpec => []Canonical
  BY AlwaysCodecInv, CanonicalFromInv, FrontCodes, PTL

\* Records with the same retained identities have the same content, whoever
\* wrote them (IdentityNamesContent): no field escapes what its decoder
\* computes again.
THEOREM IdentitiesName == FrontSpec => []IdentityNamesContent
  BY AlwaysCodecInv, NamesFromInv, FrontCodes, PTL
=============================================================================
