---------------------------- MODULE NativePaths ----------------------------
(***************************************************************************)
(* Where a command puts things on the host.  Every coordinate is supplied  *)
(* or derived, none is discovered: cli/run_command.cpp derives the session *)
(* roots from the runtime root, and refuses coordinates that overlap,      *)
(* together with src/run_locator.cpp, src/run_operation.cpp and            *)
(* src/run_runtime.cpp; the locators then place each dispatch below those  *)
(* roots, in a directory of its run journal and dispatch, and              *)
(* src/construction.cpp compares the places of one construction.           *)
(*                                                                         *)
(* A path is the sequence of its names; all are absolute and normalized,   *)
(* which the code requires or does first.                                  *)
(***************************************************************************)
EXTENDS Naturals, Sequences, SequencesExt

CONSTANTS
    Names,         \* what an entry of a directory may be called
    Places,        \* coordinates a caller may supply
    Runtime,       \* the private runtime root
    BuildIds, CheckIds, OperationIds,  \* dispatches; a dispatch is <<journal, name>>
    Recipe,        \* [build -> the directory of its recipe in the catalog]
    BuiltInputs,   \* [dispatch -> builds of its run it takes as input]
    Scripts        \* lifecycle nodes of an operation

VARIABLES
    command,   \* the coordinates of the command
    opening,   \* "unread", "refused" or "opened"
    admitted   \* dispatches with an admitted session

pathVars == <<command, opening, admitted>>

-----------------------------------------------------------------------------
Dispatches == BuildIds \cup CheckIds \cup OperationIds

Overlap(p, q) == IsPrefix(p, q) \/ IsPrefix(q, p)

Apart(ps, qs) == \A p \in ps, q \in qs : ~Overlap(p, q)

Nowhere == {}   \* of an optional coordinate

\* The run frontend names target and lifecycle roots and keeps its artifacts
\* below the runtime root; the build frontend names an artifact root.
Commands ==
    [frontend : {"run"}, build : Places, catalog : Places, operates : BOOLEAN,
     artifact : {Append(Runtime, "artifacts")},
     objects : {Nowhere} \cup {{p} : p \in Places},
     lifecycle : Places, target : Places]
    \cup
    [frontend : {"build"}, build : Places, catalog : Places, operates : {FALSE},
     artifact : Places, objects : {{p} : p \in Places},
     lifecycle : {Runtime}, target : {Runtime}]

\* The build frontend has no lifecycle or target root at all.
Supplied(c, root) == IF c.frontend = "run" THEN {root} ELSE Nowhere

Below(name) == Append(Runtime, name)

\* The names of the directories the command derives.
OwnNames ==
    {"content", "construction-sessions", "package-outputs", "artifacts",
     "installed-resources", "check-resources", "check-temporary", "lifecycle-sessions",
     "run", "evidence", "effects", "command-evidence"}

\* command_sessions: the eight roots of the session configuration.
SessionRoots(c) ==
    [content      |-> Below("content"),
     construction |-> Below("construction-sessions"),
     output       |-> Below("package-outputs"),
     artifact     |-> c.artifact,
     installed    |-> Below("installed-resources"),
     resource     |-> Below("check-resources"),
     temporary    |-> Below("check-temporary"),
     view         |-> c.build]

LifecycleSessions == Below("lifecycle-sessions")

Stores == {Below(s) : s \in {"run", "evidence", "effects", "command-evidence"}}

\* A slip in MutableRoots.
MutableRootsButTemporary(c) ==
    {SessionRoots(c)[r] : r \in DOMAIN SessionRoots(c) \ {"view", "temporary"}}

MutableRoots(c) ==
    {SessionRoots(c)[r] : r \in DOMAIN SessionRoots(c) \ {"view"}}

-----------------------------------------------------------------------------
(***************************************************************************)
(* What the command, the configurations and the runtime compare before     *)
(* anything is admitted.                                                   *)
(***************************************************************************)
RootsApart(c) ==
    \A a, b \in DOMAIN SessionRoots(c) :
        a # b => ~Overlap(SessionRoots(c)[a], SessionRoots(c)[b])

CommandApart(c) ==
    /\ Apart(c.objects, {Runtime, c.build, c.artifact}
                        \cup Supplied(c, c.lifecycle) \cup Supplied(c, c.target))
    /\ c.frontend = "build" => ~Overlap(Runtime, c.artifact)

LifecycleApart(c) ==
    /\ ~Overlap(c.lifecycle, c.target)
    /\ Apart({c.lifecycle, c.target}, {LifecycleSessions})

\* Both executions may share one root view; otherwise every root is apart.
NativeApart(c) ==
    /\ c.build = c.lifecycle \/ ~Overlap(c.build, c.lifecycle)
    /\ Apart({c.build}, {c.target, LifecycleSessions})
    /\ Apart(MutableRoots(c), {c.lifecycle, c.target, LifecycleSessions})

ObjectsApart(c) ==
    /\ Apart(c.objects, {SessionRoots(c)[r] : r \in DOMAIN SessionRoots(c)})
    /\ c.operates => Apart(c.objects, {c.lifecycle, c.target, LifecycleSessions})
    /\ c.objects \cap Stores = {}

Accepted(c) ==
    /\ CommandApart(c) /\ RootsApart(c) /\ ObjectsApart(c)
    /\ c.operates => LifecycleApart(c) /\ NativeApart(c)

PathInit == command = <<>> /\ opening = "unread" /\ admitted = {}

Open ==
    /\ opening = "unread"
    /\ command' \in Commands
    /\ opening' = IF Accepted(command') THEN "opened" ELSE "refused"
    /\ UNCHANGED admitted

-----------------------------------------------------------------------------
(***************************************************************************)
(* The places of one dispatch.                                             *)
(***************************************************************************)
\* dispatch_scope
Scope(d) == d

Root(name) == SessionRoots(command)[name]
At(name, d) == Root(name) \o Scope(d)

Source(d) == Append(command.catalog, Recipe[d])

Installed(d) == At("installed", d)

ArchiveName(d) == d[2] \o ".tar"

Archive(d) == Root("artifact") \o <<d[1], ArchiveName(d)>>

\* native_lifecycle_session_path: a digest of journal, dispatch and node.
SessionName(d, node) == d[1] \o ":" \o d[2] \o ":" \o node

LifecycleSession(d, node) == Append(LifecycleSessions, SessionName(d, node))

InputTrees(d) == {At("output", b) : b \in BuiltInputs[d]}

\* normalize_session_coordinates: what one construction may not mix.
ConstructionAdmissible(d) ==
    LET own == [view |-> Root("view"), content |-> Root("content"),
                session |-> At("construction", d), output |-> At("output", d),
                artifact |-> Archive(d), source |-> Source(d)]
    IN  /\ \A p, q \in DOMAIN own : p # q => ~Overlap(own[p], own[q])
        /\ Apart(InputTrees(d) \cup {Installed(d)}, {own[p] : p \in DOMAIN own})

\* The trees below the resource root of a check.
Parts == {"source", "package", "inputs"}

\* Directories a dispatch fills, clears or has removed for it, by kind of unit.
Owned(d) ==
    CASE d \in BuildIds ->
            {At("construction", d), At("output", d), Archive(d), Installed(d)}
      [] d \in CheckIds ->
            {Append(At("resource", d), part) : part \in Parts}
            \cup {At("temporary", d), Installed(d)}
      [] d \in OperationIds -> {LifecycleSession(d, node) : node \in Scripts}

(***************************************************************************)
(* Paths are sequences of names, a dispatch is of one kind, builds are     *)
(* what is built upon, and names made of other names tell them apart.      *)
(***************************************************************************)
ASSUME PathAssumption ==
    /\ Places \subseteq Seq(Names) /\ Runtime \in Seq(Names)
    /\ OwnNames \cup Parts \subseteq Names
    /\ Dispatches \subseteq Names \X Names /\ Scripts \subseteq Names
    /\ BuildIds \cap CheckIds = {} /\ BuildIds \cap OperationIds = {}
    /\ CheckIds \cap OperationIds = {}
    /\ Recipe \in [BuildIds -> Names]
    /\ BuiltInputs \in [Dispatches -> SUBSET BuildIds]
    /\ \A d, e \in BuildIds :
          /\ ArchiveName(d) \in Names
          /\ d[1] = e[1] /\ ArchiveName(d) = ArchiveName(e) => d = e
    /\ \A d, e \in OperationIds, m, n \in Scripts :
          /\ SessionName(d, m) \in Names
          /\ SessionName(d, m) = SessionName(e, n) => d = e

\* A recipe's directory is compared with the places of its own construction
\* only, so nothing is promised of a catalog inside the roots of the command.
Sources(d) ==
    IF IsPrefix(Runtime, command.catalog) \/ IsPrefix(command.artifact, command.catalog)
    THEN {} ELSE {Source(d)}

\* Places it reads that are not its own.
Borrowed(d) ==
    CASE d \in BuildIds -> {Root("view")} \cup Sources(d) \cup InputTrees(d)
      [] d \in CheckIds -> {Root("view")} \cup {Archive(b) : b \in BuiltInputs[d]}
      [] d \in OperationIds ->
            {command.lifecycle} \cup {Archive(b) : b \in BuiltInputs[d]}

Admissible(d) == d \in BuildIds => ConstructionAdmissible(d)

AdmitSession(d) ==
    /\ opening = "opened" /\ d \notin admitted
    /\ d \in OperationIds => command.operates
    /\ BuiltInputs[d] \subseteq admitted
    /\ Admissible(d)
    /\ admitted' = admitted \cup {d}
    /\ UNCHANGED <<command, opening>>

\* Cleanup removes what is private; the run is over and its names do not
\* come back.
PathNext == Open \/ \E d \in Dispatches : AdmitSession(d)

PathSpec == PathInit /\ [][PathNext]_pathVars

-----------------------------------------------------------------------------
(***************************************************************************)
(* What a dispatch fills, clears or has removed lies apart from everything *)
(* that belongs to anyone else: what another dispatch of this or another   *)
(* run owns, the durable stores, the package objects, the root view, the   *)
(* managed target; and from what another dispatch borrows, unless it is    *)
(* that dispatch's declared input.  A check clears its temporary root and  *)
(* cleanup removes whole trees, so one comparison left out destroys what   *)
(* the comparison protects.  Recipes are excepted where a caller has put   *)
(* their catalog inside the roots of the command (Sources).                *)
(***************************************************************************)
Elsewhere ==
    Stores \cup command.objects \cup {Root("view")}
    \cup (IF command.operates THEN {command.target, command.lifecycle} ELSE {})

PrivateApart ==
    \A d \in admitted :
        /\ Apart(Owned(d), Elsewhere)
        /\ \A e \in admitted \ {d} :
            /\ Apart(Owned(d), Owned(e))
            /\ d \notin BuiltInputs[e] => Apart(Owned(d), Borrowed(e))

=============================================================================
