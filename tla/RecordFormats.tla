---------------------------- MODULE RecordFormats ---------------------------
(***************************************************************************)
(* Today's durable records: the run journal record, the effect-attempt     *)
(* record, the retained construction, check and operation sessions, the    *)
(* attempt and result evidence of a dispatch, the evidence index and the   *)
(* retained operation policy, each as the schema that its hand-written     *)
(* encoder and decoder follow; and, for the runs, records of them.  Only   *)
(* the runs use this module: it is recursive.                              *)
(***************************************************************************)
EXTENDS WireFormat, SequencesExt, FiniteSetsExt, TLC

CONSTANTS TopByte,   \* plain cells are 0 .. TopByte
          MaxItems,  \* the cardinality limit of every collection
          Budget     \* how many fields of a written record differ from default

Field(shape, name, lo, hi, body) ==
    [shape |-> shape, name |-> name, lo |-> lo, hi |-> hi, body |-> body]

\* A fixed-width value that the decoder takes as it stands.
Cell(name) == Field("cell", name, 0, TopByte, <<>>)
\* A byte the decoder admits only in lo .. hi: an enumeration or a Boolean.
Enum(name, lo, hi) == Field("enum", name, lo, hi, <<>>)
Flag(name) == Enum(name, 0, 1)
\* A counted collection; a presence byte is a count of at most one, and a
\* text is a counted collection of characters.
Many(name, lo, hi, body) == Field("many", name, lo, hi, body)
List(name, body) == Many(name, 0, MaxItems, body)
Maybe(name, body) == Many(name, 0, 1, body)
Text(name) == Many(name, 1, MaxItems, <<Cell("character")>>)
\* A kind byte and the fields of that kind.
Either(name, bodies) == Field("either", name, 0, Len(bodies) - 1, bodies)
\* The digest of other fields, retained and recomputed when read.
Seal(name, domain, over) == Field("seal", name, domain, domain, over)

-----------------------------------------------------------------------------
(* The run journal record.                                                  *)

Policy ==
    <<Cell("construction_capacity"), Cell("check_capacity"),
      Enum("failure_containment", 0, 0),
      Seal("policy", "dispatch-policy",
           <<"construction_capacity", "check_capacity", "failure_containment">>)>>

DispatchRecord ==
    <<Seal("record", "dispatch-record",
           <<"dispatch", "state", "attempt_session", "effect_attempt",
             "observations", "terminal_evidence">>),
      Enum("state", 0, 3),
      Seal("dispatch", "dispatch",
           <<"unit", "nonce", "reserved_from_progress", "reserved_state",
             "dependencies">>),
      Enum("kind", 0, 2), Cell("primary_node"),
      Many("members", 1, MaxItems, <<Cell("member")>>),
      Seal("unit", "ready-unit", <<"transaction", "kind", "primary_node", "members">>),
      Cell("nonce"), Cell("reserved_from_progress"), Text("reserved_state"),
      List("dependencies",
           <<Cell("node"), Cell("evidence"),
             Seal("dependency", "dispatch-dependency", <<"node", "evidence">>)>>),
      Maybe("attempt_session", <<Cell("identity")>>),
      Maybe("effect_attempt", <<Cell("identity")>>),
      List("observations", <<Cell("identity")>>),
      Maybe("terminal_evidence", <<Cell("identity")>>)>>

RunRecord ==
    <<Seal("identity", "run-record",
           <<"journal", "transaction", "nonce", "sequence", "previous", "run",
             "progress", "current_state", "policy", "complete", "failed",
             "stopped", "dispatches">>),
      Seal("journal", "run-journal", <<"transaction", "policy", "nonce">>),
      Cell("transaction"), Cell("nonce"), Cell("sequence"),
      Maybe("previous", <<Cell("identity")>>),
      Cell("run"), Cell("progress"), Text("current_state")>>
    \o Policy \o
    <<Flag("complete"), Flag("failed"), Flag("stopped"),
      List("dispatches", DispatchRecord)>>

-----------------------------------------------------------------------------
(* The effect-attempt record.                                               *)

LifecycleFacts(name) == List(name, <<Cell("result"), Flag("succeeded")>>)

EffectRecord ==
    <<Seal("identity", "effect-attempt-record",
           <<"attempt", "session", "nonce", "sequence", "previous",
             "before_total", "after_total", "stage", "active_index", "before",
             "application", "after", "transaction_evidence",
             "publication_request", "publication", "terminal_outcome",
             "reconciled_state">>),
      Cell("attempt"), Cell("session"), Cell("nonce"), Cell("sequence"),
      Maybe("previous", <<Cell("identity")>>),
      Enum("before_total", 0, MaxItems), Enum("after_total", 0, MaxItems),
      Enum("stage", 0, 3), Maybe("active_index", <<Enum("index", 0, MaxItems)>>),
      LifecycleFacts("before"),
      Maybe("application",
            <<Cell("receipt"), Enum("outcome", 1, 3),
              Maybe("journal", <<Text("identity")>>),
              Maybe("completed_evidence", <<Text("identity")>>)>>),
      LifecycleFacts("after"),
      Maybe("transaction_evidence", <<Text("identity")>>),
      Maybe("publication_request", <<Text("identity")>>),
      Maybe("publication",
            <<Cell("receipt"), Enum("outcome", 1, 3),
              Maybe("resulting_snapshot", <<Text("identity")>>)>>),
      Maybe("terminal_outcome", <<Enum("outcome", 0, 3)>>),
      Maybe("reconciled_state", <<Text("identity")>>)>>

-----------------------------------------------------------------------------
(* The retained sessions.                                                   *)

Groups == List("supplementary_groups", <<Enum("group", 0, TopByte)>>)

PackageInputs ==
    List("package_inputs", <<Cell("input"), Cell("resource"), Text("path")>>)

ConstructionSession ==
    <<Seal("session", "construction-session",
           <<"request", "local_source_root", "content_store_root", "root_view",
             "root_view_path", "session_root", "package_output_root",
             "artifact_path", "interpreter", "user_id", "group_id",
             "supplementary_groups", "package_inputs", "compression">>),
      Cell("transaction"), Cell("build_node"),
      Seal("request", "construction-request",
           <<"transaction", "build_node", "build", "max_object_bytes",
             "max_redirects", "allow_http", "allow_https">>),
      Seal("build", "build-request", <<"transaction", "build_node", "build_policy">>),
      Seal("environment", "environment-policy",
           <<"parallelism", "file_creation_mask", "source_date_epoch">>),
      Seal("build_policy", "build-policy", <<"environment", "output_layout">>),
      Cell("parallelism"), Cell("file_creation_mask"),
      Maybe("source_date_epoch", <<Cell("seconds")>>),
      Enum("output_layout", 0, 0),
      Cell("max_object_bytes"), Cell("max_redirects"),
      Flag("allow_http"), Flag("allow_https"),
      Text("local_source_root"), Text("content_store_root"), Cell("root_view"),
      Text("root_view_path"), Text("session_root"), Text("package_output_root"),
      Text("artifact_path"), PackageInputs,
      Cell("interpreter"), Cell("user_id"), Cell("group_id"), Groups,
      Enum("compression", 0, 0)>>

ResourceLimits ==
    <<Seal("limits", "resource-limits",
           <<"cpu_time", "address_space", "file_size", "open_files", "process_count">>),
      Maybe("cpu_time", <<Cell("limit")>>), Maybe("address_space", <<Cell("limit")>>),
      Maybe("file_size", <<Cell("limit")>>), Maybe("open_files", <<Cell("limit")>>),
      Maybe("process_count", <<Cell("limit")>>)>>

CheckSession ==
    <<Seal("session", "check-session",
           <<"request", "execution_request", "source", "source_tree",
             "source_path", "artifact", "package_tree", "package_path",
             "package_inputs", "root_view", "root_view_path", "temporary_root",
             "interpreter", "user_id", "group_id", "supplementary_groups",
             "limits">>),
      Cell("transaction"), Cell("prepared_from_progress"), Cell("check_node"),
      Seal("request", "check-request",
           <<"transaction", "prepared_from_progress", "check_node",
             "construction", "check">>),
      Cell("construction"), Cell("check"), Cell("execution_request"),
      Cell("source"), Cell("source_tree"), Text("source_path"),
      Cell("artifact"), Cell("package_tree"), Text("package_path"),
      PackageInputs, Cell("root_view"), Text("root_view_path"),
      Text("temporary_root"),
      Cell("interpreter"), Cell("user_id"), Cell("group_id"), Groups>>
    \o ResourceLimits

Object ==
    <<Enum("object_kind", 0, 3), Cell("mode"), Cell("uid"), Cell("gid"),
      Maybe("size", <<Cell("bytes")>>),
      Maybe("mtime", <<Text("seconds"), Cell("nanoseconds")>>),
      Maybe("regular_content", <<Text("identity")>>),
      Maybe("symlink_target", <<Text("target")>>),
      Maybe("device", <<Cell("major"), Cell("minor")>>)>>

Observations ==
    <<Text("observation_set"), Text("observed_target"), Enum("completeness", 0, 1),
      List("observations", <<Text("path"), Maybe("object", Object)>>)>>

Target ==
    <<Seal("target", "application-target",
           <<"target_system", "managed_target", "target_root_view",
             "observation_backend", "mutation_backend", "exclusion_domain",
             "active_namespace", "rejected_store", "staging_namespace",
             "journal_namespace", "capabilities", "lifecycle_executor">>),
      Text("target_system"), Text("managed_target"), Text("target_root_view"),
      Text("observation_backend"), Text("mutation_backend"),
      Text("exclusion_domain"), Text("active_namespace"), Text("rejected_store"),
      Text("staging_namespace"), Text("journal_namespace"), Text("capabilities"),
      Maybe("lifecycle_executor", <<Text("identity")>>)>>

Control ==
    <<Seal("control", "application-control",
           <<"recovery", "durability", "cancellation", "maximum_staging_bytes",
             "maximum_recovery_bytes">>),
      Enum("recovery", 0, 1), Enum("durability", 0, 1), Enum("cancellation", 0, 1),
      Maybe("maximum_staging_bytes", <<Cell("bytes")>>),
      Maybe("maximum_recovery_bytes", <<Cell("bytes")>>)>>

LifecycleOrder == <<List("before", <<Cell("node")>>), List("after", <<Cell("node")>>)>>

InstallationReason ==
    <<Maybe("installation_reason",
            <<Either("reason",
                     << <<>>,                                   \* explicit request
                        <<Text("issuer_package")>>,             \* runtime dependency
                        <<Text("issuer_profile"), Text("profile_identity")>>,
                        <<Text("policy")>> >>)>>)>>

Specification ==
    <<Enum("kind", 0, 2), Cell("action_node")>> \o Target \o Control \o Observations
    \o <<Maybe("runtime_closure", <<Text("identity")>>)>>
    \o LifecycleOrder \o InstallationReason

LifecycleConfiguration ==
    <<Cell("execution_root"), Text("execution_root_path"), Text("target_root_path"),
      Text("session_root"), Cell("interpreter"), Cell("user_id"), Cell("group_id"),
      Groups>>

OperationSession ==
    <<Seal("session", "operation-session", <<"request">>),
      Cell("transaction"), Cell("dispatch"), Cell("primary_node"),
      Seal("request", "operation-request",
           <<"transaction", "kind", "action_node", "target", "control",
             "observation_set", "runtime_closure", "before", "after",
             "installation_reason">>)>>
    \o Specification \o LifecycleConfiguration

-----------------------------------------------------------------------------
(* The evidence of a dispatch, its index, and the operation policy.         *)

Owner(kind) ==
    <<Cell("journal"), Cell("transaction"), Cell("dispatch"), Cell("node"),
      Cell("attempt_session")>> \o kind

OwnerNames == <<"journal", "transaction", "dispatch", "node", "attempt_session">>

ConstructionAttempt ==
    <<Seal("identity", "construction-dispatch-attempt",
           OwnerNames \o <<"controller_request", "session_encoding">>)>>
    \o Owner(<<Cell("controller_request"), Text("session_encoding")>>)

CheckAttempt ==
    <<Seal("identity", "check-dispatch-attempt",
           OwnerNames \o <<"controller_request", "construction", "check_request",
                           "session_encoding">>)>>
    \o Owner(<<Cell("controller_request"), Cell("construction"),
               Cell("check_request"), Text("session_encoding")>>)

ConstructionEvidence ==
    <<Seal("identity", "construction-dispatch-evidence",
           OwnerNames \o <<"result", "controller_request", "session_encoding",
                           "materialization", "materialization_encoding",
                           "build_request", "execution_request", "backend",
                           "backend_encoding", "execution", "build", "encoding">>)>>
    \o Owner(<<Cell("result"), Cell("controller_request"), Text("session_encoding"),
               Cell("materialization"), Text("materialization_encoding"),
               Cell("build_request"), Cell("execution_request"), Cell("backend"),
               Text("backend_encoding"), Cell("execution"), Cell("build"),
               Text("encoding")>>)

CheckEvidence ==
    <<Seal("identity", "check-dispatch-evidence",
           OwnerNames \o <<"result", "controller_request", "construction",
                           "session_encoding", "check_request",
                           "execution_request", "backend", "backend_encoding",
                           "execution", "check", "encoding">>)>>
    \o Owner(<<Cell("result"), Cell("controller_request"), Cell("construction"),
               Text("session_encoding"), Cell("check_request"),
               Cell("execution_request"), Cell("backend"), Text("backend_encoding"),
               Cell("execution"), Cell("check"), Text("encoding")>>)

EvidenceIndex ==
    <<Enum("kind", 1, 3)>>
    \o Owner(<<Cell("record"), Cell("result"),
               Seal("checksum", "evidence-index",
                    <<"kind">> \o OwnerNames \o <<"record", "result">>)>>)

OperationPolicy ==
    <<Enum("profile", 1, 2), Seal("snapshot", "operation-policy", <<"profile">>)>>

-----------------------------------------------------------------------------
(* What each codec does around its schema, as RecordCodec explains.         *)

Codec(schema, checksum, reencoded, expected, unnamed) ==
    [schema |-> schema, checksum |-> checksum, reencoded |-> reencoded,
     expected |-> expected, unnamed |-> unnamed]

RunJournalCodec == Codec(RunRecord, FALSE, FALSE, {}, {})
EffectJournalCodec == Codec(EffectRecord, TRUE, FALSE, {}, {})
ConstructionCodec ==
    Codec(ConstructionSession, TRUE, TRUE, {"transaction", "build_node"}, {})
CheckCodec ==
    Codec(CheckSession, TRUE, TRUE,
          {"transaction", "prepared_from_progress", "check_node", "request",
           "construction", "check"}, {})
OperationCodec ==
    Codec(OperationSession, TRUE, TRUE, {"transaction", "dispatch", "primary_node"},
          {"observed_target", "completeness", "observations"}
          \cup {LifecycleConfiguration[i].name : i \in DOMAIN LifecycleConfiguration})
EvidenceCodec(schema) == Codec(schema, TRUE, TRUE, {}, {})
IndexCodec == Codec(EvidenceIndex, FALSE, FALSE,
                    {"kind", "journal", "dispatch", "attempt_session"}, {})
PolicyCodec == Codec(OperationPolicy, TRUE, TRUE, {}, {})

Formats ==
    [run |-> RunJournalCodec, effect |-> EffectJournalCodec,
     construction |-> ConstructionCodec, check |-> CheckCodec,
     operation |-> OperationCodec,
     construction_attempt |-> EvidenceCodec(ConstructionAttempt),
     check_attempt |-> EvidenceCodec(CheckAttempt),
     construction_evidence |-> EvidenceCodec(ConstructionEvidence),
     check_evidence |-> EvidenceCodec(CheckEvidence),
     index |-> IndexCodec, policy |-> PolicyCodec]

-----------------------------------------------------------------------------
(* The values of a schema that differ from a default one in at most k       *)
(* choices: cells are <<b>> by default, and in item i of a collection       *)
(* <<i + 1>>.                                                               *)

RECURSIVE Values(_, _, _), FieldValues(_, _, _), Stamp(_, _, _)

FieldValues(f, k, b) ==
    CASE f.shape = "seal" -> {Plain(0)}
      [] f.shape = "cell" -> {Plain(b)} \cup (IF k > 0 THEN {Plain(TopByte)} ELSE {})
      [] f.shape = "enum" -> IF k > 0 THEN {Plain(c) : c \in f.lo .. f.hi}
                              ELSE {Plain(IF b \in f.lo .. f.hi THEN b ELSE f.lo)}
      [] f.shape = "many" ->
            UNION {LET left == IF n = f.lo THEN k ELSE k - 1
                       item[i \in 1 .. n] == Values(f.body, left, i + 1)
                   IN  {<<n, FlattenSeq(s)>> :
                           s \in {t \in [1 .. n -> UNION {item[i] : i \in 1 .. n}] :
                                     \A i \in 1 .. n : t[i] \in item[i]}} :
                   n \in f.lo .. (IF k > 0 THEN IF f.hi < MaxItems THEN f.hi ELSE MaxItems
                                           ELSE f.lo)}
      [] f.shape = "either" ->
            UNION {{<<n, v>> : v \in Values(f.body[n + 1], k - (IF n = 0 THEN 0 ELSE 1), b)} :
                   n \in 0 .. (IF k > 0 THEN f.hi ELSE 0)}

Values(schema, k, b) ==
    IF schema = <<>> THEN {<<>>}
    ELSE UNION {{<<x>> \o v :
                    x \in FieldValues(Head(schema), j, b), v \in Values(Tail(schema), k - j, b)} :
                j \in 0 .. k}

\* v with every retained identity computed; an identity may be over others.
Stamp(schema, v, outer) ==
    LET items == [i \in DOMAIN schema |->
                     LET f == schema[i]
                     IN  IF f.shape = "many"
                         THEN <<v[i][1],
                                FlattenSeq([j \in 1 .. v[i][1] |->
                                    Stamp(f.body, Item(f, v[i], j), Env(schema, v, outer))])>>
                         ELSE v[i]]
        seals == Reverse(SelectSeq([i \in DOMAIN schema |-> i],
                                   LAMBDA i : schema[i].shape = "seal"))
        refresh(acc, i) ==
            [acc EXCEPT ![i] = Recomputed(schema[i], Env(schema, acc, outer))]
    IN  FoldLeft(refresh, items, seals \o seals \o seals)

\* A schema with some fields held to one value, and the schemas from which
\* records are drafted: an operation is one of three kinds.
Holding(schema, held) ==
    [i \in DOMAIN schema |->
        IF schema[i].name \in DOMAIN held
        THEN [schema[i] EXCEPT !.lo = held[schema[i].name], !.hi = held[schema[i].name]]
        ELSE schema[i]]

Drafts(name) ==
    IF name = "operation"
    THEN {Holding(OperationSession,
                  [kind |-> k, runtime_closure |-> IF k = 2 THEN 0 ELSE 1,
                   installation_reason |-> IF k = 0 THEN 1 ELSE 0]) : k \in 0 .. 2}
    ELSE {Formats[name].schema}

Records ==
    [name \in DOMAIN Formats |->
        UNION {{Stamp(draft, u, <<>>) : u \in Values(draft, Budget, 1)} :
               draft \in Drafts(name)}]
=============================================================================
