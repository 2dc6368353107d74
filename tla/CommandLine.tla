----------------------------- MODULE CommandLine -----------------------------
(***************************************************************************)
(* From an argument vector to the command it asks for, and from there to   *)
(* the authority the command host assembles (cli/options.cpp and the first *)
(* half of execute_transaction_run in cli/run_command.cpp).  The parser    *)
(* decides by some forty conditions whether the options given are the      *)
(* options the form of the command takes; what follows reads the options   *)
(* without asking again, and the host checks its own, separate list.       *)
(*                                                                         *)
(* An argument vector is the number of times it gives each option: the     *)
(* order matters only to the precedence of collections and to provenance.  *)
(* The values of options are abstracted; a value refused ends the command. *)
(***************************************************************************)
EXTENDS Naturals

CONSTANT MaxEdits   \* bound: how far an argument vector is from a complete one

VARIABLES
    verb,      \* the command's first word, or "none" between commands
    line,      \* [option -> how often it is given]
    edits,
    verdict,   \* "read", "usage", "accepted", "assembled", "contradicted", "refused"
    retained   \* the command evidence a fresh run left, or NoEvidence

lineVars == <<verb, line, edits, verdict, retained>>

-----------------------------------------------------------------------------
Verbs == {"catalog", "resolve", "transaction", "run", "build",
          "inspect-run", "inspect-effect"}
RunLike == {"run", "build"}

Intents      == {"start", "resume"}
Binding      == {"managed-target", "state-store", "root-view", "state-backend",
                 "publication-domain"}
Architecture == {"build-architecture", "target-architecture"}
Preferences  == {"prefer-catalog", "converge-exact"}
Catalog      == {"collection", "external-revision", "max-document-bytes"}
Subject      == {"subject", "check"}
BuildPolicy  == {"build-parallelism", "build-source-date-epoch"}
Execution    == {"runtime-root", "build-root", "interpreter", "build-user-id",
                 "build-group-id", "max-steps"}
LifecycleOptions == {"lifecycle-root", "target-root", "lifecycle-user-id",
                     "lifecycle-group-id"}
RootViews    == {"build-root-view", "lifecycle-root-view"}
Groups       == {"build-supplementary-group", "lifecycle-supplementary-group"}
Inspections  == [v \in {"inspect-run", "inspect-effect"} |->
                    IF v = "inspect-run" THEN {"run-store", "journal"}
                                         ELSE {"effect-store", "attempt"}]

\* has_native_execution_options
Native == Intents \cup Execution \cup RootViews \cup {"artifact-root"}
          \cup LifecycleOptions \cup Groups \cup BuildPolicy
          \cup {"operation-policy", "package-object-store"}

Shared == Catalog \cup {"canonical-store"} \cup Binding \cup Architecture
          \cup {"goal"} \cup Preferences \cup Native

Options == Shared \cup Subject \cup UNION {Inspections[v] : v \in DOMAIN Inspections}

Repeatable == {"collection", "external-revision", "goal"} \cup Groups

Given(l) == {o \in Options : l[o] > 0}

\* A slip in StartSemantics.
StartSemanticsWithoutPolicies ==
    Catalog \cup Binding \cup Architecture \cup {"goal"} \cup Preferences \cup Subject

\* has_start_semantics: what a resumed command must not declare again.
StartSemantics ==
    Catalog \cup Binding \cup Architecture \cup {"goal"} \cup Preferences \cup Subject
    \cup BuildPolicy \cup {"operation-policy"}

-----------------------------------------------------------------------------
(***************************************************************************)
(* parse_raw and the two inspection parsers.                               *)
(***************************************************************************)
Readable(v, l) ==
    /\ Given(l) \subseteq IF v \in DOMAIN Inspections THEN Inspections[v]
                          ELSE Shared \cup (IF v = "build" THEN Subject ELSE {})
    /\ \A o \in Options \ Repeatable : l[o] <= 1
    /\ ~(Intents \subseteq Given(l))

\* A revision names a collection of the line, each collection at most once.
CatalogComplete(l) ==
    /\ "collection" \in Given(l)
    /\ l["external-revision"] <= l["collection"]

StartComplete(v, g) ==
    IF v = "catalog"
    THEN g \cap ({"canonical-store", "goal"} \cup Binding \cup Architecture
                 \cup Preferences) = {}
    ELSE /\ {"canonical-store"} \cup Binding \cup Architecture \subseteq g
         /\ IF v = "build"
            THEN "subject" \in g /\ g \cap ({"goal"} \cup Preferences) = {}
            ELSE /\ "goal" \in g
                 /\ "converge-exact" \in g => v \in {"transaction", "run"}

ResumeComplete(g) == "canonical-store" \in g /\ g \cap StartSemantics = {}

RunComplete(g) ==
    /\ "artifact-root" \notin g
    /\ Execution \cup LifecycleOptions \subseteq g
    /\ IF "resume" \in g THEN g \cap RootViews = {}
       ELSE RootViews \cup BuildPolicy \cup {"operation-policy"} \subseteq g

BuildComplete(g) ==
    /\ Execution \cup {"package-object-store", "artifact-root"} \subseteq g
    /\ IF "resume" \in g THEN "build-root-view" \notin g
       ELSE BuildPolicy \cup {"build-root-view"} \subseteq g
    /\ g \cap (LifecycleOptions \cup {"lifecycle-root-view", "operation-policy",
                                      "lifecycle-supplementary-group"}) = {}

Parses(v, l) ==
    LET g == Given(l) IN
    /\ Readable(v, l)
    /\ IF v \in DOMAIN Inspections THEN Inspections[v] \subseteq g
       ELSE /\ v \in RunLike => Intents \cap g # {}
            /\ IF v \in RunLike /\ "resume" \in g
               THEN ResumeComplete(g)
               ELSE CatalogComplete(l) /\ StartComplete(v, g)
            /\ CASE v = "run" -> RunComplete(g)
                 [] v = "build" -> BuildComplete(g)
                 [] OTHER -> g \cap Native = {}

-----------------------------------------------------------------------------
(***************************************************************************)
(* Composition: the options each form dereferences, and those it looks at. *)
(***************************************************************************)
Dereferenced(v, g) ==
    CASE v \in DOMAIN Inspections -> Inspections[v]
      [] v = "catalog" -> {}
      [] v \in {"resolve", "transaction"} ->
            {"canonical-store"} \cup Binding \cup Architecture
      [] OTHER ->
            {"canonical-store"} \cup Execution
            \cup (IF v = "build" THEN {"artifact-root"} ELSE {})
            \cup (IF "resume" \in g THEN {}
                  ELSE Binding \cup Architecture \cup BuildPolicy
                       \cup (IF v = "run" THEN {"operation-policy"} ELSE {"subject"}))

Consulted(v, g) ==
    CASE v \in DOMAIN Inspections -> Inspections[v]
      [] v = "catalog" -> Catalog
      [] v \in {"resolve", "transaction"} ->
            Catalog \cup Dereferenced(v, g) \cup {"goal", "prefer-catalog"}
            \cup (IF v = "transaction" THEN {"converge-exact"} ELSE {})
      [] OTHER ->
            Dereferenced(v, g) \cup Intents \cup RootViews \cup LifecycleOptions \cup Groups
            \cup {"package-object-store"}
            \cup (IF "resume" \in g THEN {}
                  ELSE Catalog \cup (IF v = "build" THEN {"check"}
                                     ELSE {"goal"} \cup Preferences))

-----------------------------------------------------------------------------
(***************************************************************************)
(* The authority the host assembles from the command and, on a resume,     *)
(* from the evidence of the fresh run.                                     *)
(***************************************************************************)
NoEvidence == [frontend |-> "none"]

Evidence(v, g) ==
    [frontend |-> v, lifecycle_view |-> "lifecycle-root-view" \in g,
     policy |-> "operation-policy" \in g]

\* Every refusal of the host that is about the shape of the command.
Contradicts(v, g, admitted, resumed) ==
    \/ v = "build" /\ g \cap {"lifecycle-root", "target-root"} # {}
    \/ v = "build" /\ {"lifecycle-user-id", "lifecycle-group-id"} \subseteq g
    \/ v = "run" /\ ~(LifecycleOptions \subseteq g)
    \/ resumed /\ g \cap (RootViews \cup BuildPolicy \cup {"operation-policy"}) # {}
    \/ ~resumed /\ ~({"build-root-view"} \cup BuildPolicy \subseteq g)
    \/ v = "run" /\ ~(admitted.lifecycle_view /\ admitted.policy)
    \/ v = "build" /\ (admitted.lifecycle_view \/ admitted.policy)

-----------------------------------------------------------------------------
\* A complete argument vector of each form.
CompleteLine(v, intent) ==
    CASE v \in DOMAIN Inspections -> Inspections[v]
      [] v = "catalog" -> {"collection"}
      [] v \in {"resolve", "transaction"} ->
            {"collection", "canonical-store", "goal"} \cup Binding \cup Architecture
      [] OTHER ->
            {intent, "canonical-store"} \cup Execution
            \cup (IF v = "run" THEN LifecycleOptions
                  ELSE {"artifact-root", "package-object-store"})
            \cup (IF intent = "resume" THEN {}
                  ELSE {"collection", "build-root-view"}
                       \cup Binding \cup Architecture \cup BuildPolicy
                       \cup (IF v = "run"
                             THEN {"goal", "lifecycle-root-view", "operation-policy"}
                             ELSE {"subject"}))

Blank == <<>>

LineInit ==
    /\ verb = "none" /\ line = Blank /\ edits = 0
    /\ verdict = "read" /\ retained = NoEvidence

Type(v, intent) ==
    /\ verb = "none"
    /\ verb' = v
    /\ line' = [o \in Options |-> IF o \in CompleteLine(v, intent) THEN 1 ELSE 0]
    /\ UNCHANGED <<edits, verdict, retained>>

Edit(o, n) ==
    /\ verb # "none" /\ verdict = "read" /\ edits < MaxEdits
    /\ n # line[o]
    /\ line' = [line EXCEPT ![o] = n]
    /\ edits' = edits + 1
    /\ UNCHANGED <<verb, verdict, retained>>

Parse ==
    /\ verb # "none" /\ verdict = "read"
    /\ verdict' = IF Parses(verb, line) THEN "accepted" ELSE "usage"
    /\ UNCHANGED <<verb, line, edits, retained>>

\* The host of run and build; a fresh run leaves its evidence.
Assemble ==
    LET g == Given(line)
        resumed == "resume" \in g
        admitted == IF resumed THEN retained ELSE Evidence(verb, g)
    IN  /\ verb \in RunLike /\ verdict = "accepted"
        /\ \/ /\ resumed /\ retained.frontend # verb
              /\ verdict' = "refused" /\ UNCHANGED retained
           \/ /\ resumed => retained.frontend = verb
              /\ verdict' = IF Contradicts(verb, g, admitted, resumed)
                            THEN "contradicted" ELSE "assembled"
              /\ retained' = IF verdict' = "assembled" THEN admitted ELSE retained
        /\ UNCHANGED <<verb, line, edits>>

Again ==
    /\ verdict \notin {"read", "contradicted"}
    /\ verb' = "none" /\ line' = Blank /\ edits' = 0 /\ verdict' = "read"
    /\ UNCHANGED retained

LineNext ==
    \/ \E v \in Verbs, intent \in Intents : Type(v, intent)
    \/ \E o \in Options, n \in 0..2 : Edit(o, n)
    \/ Parse \/ Assemble \/ Again

LineSpec == LineInit /\ [][LineNext]_lineVars

-----------------------------------------------------------------------------
(***************************************************************************)
(* What the parser accepts is exactly what the rest of the command reads:  *)
(* every option that is dereferenced without a test was given, every       *)
(* option given is one the form looks at, and the host, whose conditions   *)
(* are written separately, never finds the command or the evidence of the  *)
(* run it resumes contradictory.                                           *)
(***************************************************************************)
AcceptedIsComposable ==
    /\ verdict \in {"accepted", "assembled"} =>
          /\ Dereferenced(verb, Given(line)) \subseteq Given(line)
          /\ Given(line) \subseteq Consulted(verb, Given(line))
    /\ verdict # "contradicted"

=============================================================================
