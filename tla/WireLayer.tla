----------------------------- MODULE WireLayer ------------------------------
(***************************************************************************)
(* One level of a record encoding.  Every durable record is written by a   *)
(* hand-written encoder and read back by a hand-written decoder that must  *)
(* agree field by field; Encode and Decode interpret a schema the way      *)
(* those writers and readers do.  What is inside a collection or an        *)
(* alternative is a schema of the level below, which is given by constant  *)
(* operators.                                                              *)
(***************************************************************************)
EXTENDS WireCell

CONSTANTS BodyEncode(_, _), BodyDecode(_, _)

EncodeField(f, x) ==
    IF f.shape \in Single THEN <<x>>
    ELSE <<Plain(x[1])>> \o BodyEncode(Chosen(f, x[1]), x[2])

Encode(schema, v) ==
    LET written[k \in 0 .. Len(schema)] ==
            IF k = 0 THEN <<>> ELSE written[k - 1] \o EncodeField(schema[k], v[k])
    IN  written[Len(schema)]

-----------------------------------------------------------------------------
(* Decode(schema, wire) is {<<value, rest>>}, or {} when wire is refused.   *)

DecodeField(f, wire) ==
    IF wire = <<>> THEN {}
    ELSE CASE f.shape \in {"cell", "seal"} -> {<<Head(wire), Tail(wire)>>}
           [] f.shape = "enum" ->
                  IF Admits(f, Head(wire)) THEN {<<Head(wire), Tail(wire)>>} ELSE {}
           [] OTHER ->
                  IF Admits(f, Head(wire))
                  THEN {<<<<Head(wire)[1], d[1]>>, d[2]>> :
                           d \in BodyDecode(Chosen(f, Head(wire)[1]), Tail(wire))}
                  ELSE {}

Decode(schema, wire) ==
    LET parsed[k \in 0 .. Len(schema)] ==
            IF k = 0 THEN {<<<<>>, wire>>}
            ELSE UNION {{<<Append(p[1], d[1]), d[2]>> : d \in DecodeField(schema[k], p[2])} :
                        p \in parsed[k - 1]}
    IN  parsed[Len(schema)]
=============================================================================
