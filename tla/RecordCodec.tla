----------------------------- MODULE RecordCodec ----------------------------
(***************************************************************************)
(* What a codec of pkgctl does around the schema of its record, and what   *)
(* becomes of the bytes: a record is written, its bytes may be damaged or  *)
(* be those of another writer, and it is loaded.  Which formats there are  *)
(* is a table; RecordFormats holds today's.  Causal shape (which records   *)
(* exist at all) is the business of RunJournal and EffectAttempt; any      *)
(* record of a schema may be written here.                                 *)
(***************************************************************************)
EXTENDS WireFormat, SequencesExt, FiniteSetsExt, TLC

CONSTANTS
    Codecs,      \* by name: the schema; whether a digest of the bytes follows
                 \* them (checksum); whether a loaded record is encoded again
                 \* and compared (reencoded); the fields the caller supplies
                 \* and the decoder compares (expected); the fields no retained
                 \* identity is over (unnamed)
    Candidates   \* by name: the records of which some may be written

VARIABLES format,  \* the name of the record type that was written
          stored,  \* the record
          wire,    \* its bytes
          origin,  \* "nothing", "encoder", "damaged" or "another writer"
          read,    \* whether it has been loaded
          loaded   \* what the load answered: {record}, or {} for a refusal

codecVars == <<format, stored, wire, origin, read, loaded>>

Formats == DOMAIN Codecs

Schema(name) == Codecs[name].schema

Magic(name) == <<"magic", name>>

\* The field of this name in a record.
Named(name, v, field) == v[Place(Schema(name), field)]

-----------------------------------------------------------------------------
(* What the proofs need of the table.                                       *)

Seals(schema) == {i \in 1 .. Len(schema) : schema[i].shape = "seal"}

\* The places of the fields a retained identity is over.
Under(schema, s) == {Place(schema, schema[s].body[j]) : j \in DOMAIN schema[s].body}

\* The retained identities that are over every other one.
Masters(schema) ==
    {s \in Seals(schema) : Seals(schema) \ {s} \subseteq Under(schema, s)}

\* A schema names its fields and what it refers to; every field is known to the caller, a
\* retained identity or under one; a format has a digest that covers it all;
\* and the decoder that rearranges what it reads compares it with the bytes.
ASSUME CodecAssumption ==
    \A name \in Formats :
        LET codec == Codecs[name]
            schema == codec.schema
        IN  /\ Formed(schema)
            /\ \A i \in 1 .. Len(schema) : Place(schema, schema[i].name) = i
            /\ \A s \in Seals(schema) : \A j \in DOMAIN schema[s].body :
                  schema[s].body[j] \in NamesOf(schema)
            /\ \A i \in 1 .. Len(schema) :
                  \/ schema[i].name \in codec.unnamed
                  \/ schema[i].name \in codec.expected /\ name # "construction"
                  \/ i \in Seals(schema)
                  \/ \E s \in Seals(schema) : i \in Under(schema, s)
            /\ ~codec.checksum => codec.unnamed = {} /\ Masters(schema) # {}
            /\ name = "construction" => codec.checksum /\ codec.reencoded

-----------------------------------------------------------------------------
\* Installations carry a closure and a reason, upgrades a closure, removals
\* neither.
SpecificationAdmitted(v) ==
    LET kind == Named("operation", v, "kind")[1]
    IN  /\ (Named("operation", v, "runtime_closure")[1] # 0) <=> (kind # 2)
        /\ (Named("operation", v, "installation_reason")[1] # 0) <=> (kind = 0)

\* No node twice, on either side.
OrderAdmitted(v) ==
    IsInjective(Named("operation", v, "before")[2] \o Named("operation", v, "after")[2])

\* Admission of a construction session orders the supplementary groups, and
\* refuses a repeated one and the primary group among them; the operation
\* codec refuses a specification its kind does not allow.  What the check
\* backend makes of the groups of a check is not modelled.
Admitted(name, v) ==
    CASE name = "construction" ->
           LET groups == Named(name, v, "supplementary_groups")
               sorted == SortSeq(groups[2], LAMBDA a, b : a[1] < b[1])
           IN  IF IsInjective(groups[2]) /\ Named(name, v, "group_id") \notin Range(groups[2])
               THEN {[v EXCEPT ![Place(Schema(name), "supplementary_groups")] =
                         <<groups[1], sorted>>]}
               ELSE {}
      [] name = "operation" ->
           IF SpecificationAdmitted(v) /\ OrderAdmitted(v) THEN {v} ELSE {}
      [] OTHER -> {v}

Payload(name, v) == <<Magic(name)>> \o Encode(Schema(name), v)

Close(name, payload) ==
    payload \o (IF Codecs[name].checksum THEN <<Digest("bytes", payload)>> ELSE <<>>)

Wire(name, v) == Close(name, Payload(name, v))

\* The bytes a digest covers, or nothing when it does not match them.
Opened(name, bytes) ==
    IF ~Codecs[name].checksum THEN {bytes}
    ELSE IF bytes # <<>> /\ Last(bytes) = Digest("bytes", Front(bytes))
         THEN {Front(bytes)} ELSE {}

\* A slip in Parsed.
ParsedWithoutSeals(name, bytes, wanted) ==
    LET parsed == UNION {IF payload # <<>> /\ Head(payload) = Magic(name)
                         THEN Decode(Schema(name), Tail(payload)) ELSE {} :
                         payload \in Opened(name, bytes)}
        whole == {p[1] : p \in {q \in parsed : q[2] = <<>>}}
        bound == {v \in whole : \A n \in Codecs[name].expected :
                                    Named(name, v, n) = Named(name, wanted, n)}
    IN  UNION {Admitted(name, v) : v \in bound}

\* The record in these bytes, before they are compared with its encoding.
Parsed(name, bytes, wanted) ==
    LET parsed == UNION {IF payload # <<>> /\ Head(payload) = Magic(name)
                         THEN Decode(Schema(name), Tail(payload)) ELSE {} :
                         payload \in Opened(name, bytes)}
        whole == {p[1] : p \in {q \in parsed : q[2] = <<>>}}
        bound == {v \in whole : \A n \in Codecs[name].expected :
                                    Named(name, v, n) = Named(name, wanted, n)}
        admitted == UNION {Admitted(name, v) : v \in bound}
    IN  {v \in admitted : Sealed(Schema(name), v)}

\* A slip in Read.
ReadWithoutReencoding(name, bytes, wanted) == Parsed(name, bytes, wanted)

\* What a load answers: {record}, or {} for a refusal.  wanted is the record
\* the caller is looking for.
Read(name, bytes, wanted) ==
    {v \in Parsed(name, bytes, wanted) :
        Codecs[name].reencoded => Wire(name, v) = bytes}

-----------------------------------------------------------------------------
\* No cell of a record is the digest of the record's own bytes or content:
\* not of any bytes of its format; and where a retained identity is all that
\* protects the bytes, the other cells of its domain, like the identity of the
\* previous record, stand apart from it.
Unentangled(name, v) ==
    LET payload == Payload(name, v)
        schema == Schema(name)
    IN  /\ \A k \in DOMAIN payload :
              Len(payload[k]) = 3 /\ payload[k][2] = "bytes" /\ payload[k][3] # <<>> =>
                  Head(payload[k][3]) # Magic(name)
        /\ ~Codecs[name].checksum =>
              \E s \in Masters(schema) : \A k \in DOMAIN payload :
                  Len(payload[k]) = 3 /\ payload[k][2] = schema[s].lo =>
                      payload[k] = v[s] \/ (s = 1 /\ k > 3)

\* The program writes values of the schema with their identities computed.
Written(name) ==
    {v \in Candidates[name] :
        /\ Fits(Schema(name), v) /\ Sealed(Schema(name), v)
        /\ Admitted(name, v) = {v} /\ Unentangled(name, v)}

CodecInit ==
    /\ format = "none" /\ stored = <<>> /\ wire = <<>> /\ origin = "nothing"
    /\ read = FALSE /\ loaded = {}

Write ==
    /\ origin = "nothing" /\ origin' = "encoder"
    /\ format' \in Formats
    /\ stored' \in Written(format')
    /\ wire' = Wire(format', stored')
    /\ UNCHANGED <<read, loaded>>

\* The bytes with one cell changed, two neighbours exchanged, cut short, or
\* with a cell too many.
Damaged(bytes) ==
    {[bytes EXCEPT ![i] = c] : i \in DOMAIN bytes, c \in {Plain(0), Plain(2)}}
    \cup {[bytes EXCEPT ![i] = bytes[i + 1], ![i + 1] = bytes[i]] :
              i \in 1 .. Len(bytes) - 1}
    \cup {SubSeq(bytes, 1, n) : n \in 0 .. Len(bytes) - 1}
    \cup {Append(bytes, Plain(0))}

\* The bytes rot where they are stored.
Damage ==
    /\ origin = "encoder" /\ ~read
    /\ \E bytes \in Damaged(wire) \ {wire} : wire' = bytes
    /\ origin' = "damaged"
    /\ UNCHANGED <<format, stored, read, loaded>>

\* Another program wrote the bytes, and closed them properly.
Rewrite ==
    /\ origin = "encoder" /\ ~read
    /\ \E payload \in Damaged(Payload(format, stored)) \ {Payload(format, stored)} :
          wire' = Close(format, payload)
    /\ origin' = "another writer"
    /\ UNCHANGED <<format, stored, read, loaded>>

Load ==
    /\ origin # "nothing"
    /\ ~read /\ read' = TRUE
    /\ loaded' = Read(format, wire, stored)
    /\ UNCHANGED <<format, stored, wire, origin>>

CodecNext == Write \/ Damage \/ Rewrite \/ Load
CodecSpec == CodecInit /\ [][CodecNext]_codecVars

-----------------------------------------------------------------------------
(***************************************************************************)
(* Every record the program writes is read back as it was, and one whose   *)
(* bytes changed is either refused or is still that record: the encoder    *)
(* and the decoder of each type agree on every field, its order and its    *)
(* admitted range.                                                         *)
(***************************************************************************)
RoundTrips ==
    /\ (read /\ origin = "encoder") => loaded = {stored}
    /\ origin = "damaged" => loaded \subseteq {stored}

(***************************************************************************)
(* A record has one encoding: whatever bytes a decoder accepts, of this    *)
(* program or another, are the bytes its encoder writes for that record,   *)
(* so comparing or hashing stored bytes compares records.                  *)
(***************************************************************************)
Canonical == \A v \in loaded : Wire(format, v) = wire

(***************************************************************************)
(* A retained identity names the record's content: two accepted records    *)
(* of a type with the same identities agree on every field an identity is  *)
(* over, whoever wrote them.                                               *)
(***************************************************************************)
IdentityNamesContent ==
    \A v \in loaded :
        (\A s \in Seals(Schema(format)) : v[s] = stored[s]) =>
        \A i \in 1 .. Len(Schema(format)) :
            Schema(format)[i].name \notin Codecs[format].unnamed => v[i] = stored[i]
=============================================================================
