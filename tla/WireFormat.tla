----------------------------- MODULE WireFormat -----------------------------
(***************************************************************************)
(* The nesting of the record encodings.  A collection of a record holds    *)
(* records of its own, to a depth of five in today's formats; each level   *)
(* is WireLayer and WireSchema over the one below, and nothing is below    *)
(* the lowest, whose fields are single cells.                              *)
(***************************************************************************)
EXTENDS WireCell

EncodeNone(schema, v) == <<>>
DecodeNone(schema, wire) == {}
FormedNone(schema) == FALSE
FitsNone(schema, v) == FALSE
SealedNone(schema, v, outer) == TRUE

L0 == INSTANCE WireLayer WITH BodyEncode <- EncodeNone, BodyDecode <- DecodeNone
S0 == INSTANCE WireSchema WITH
    BodyFormed <- FormedNone, BodyFits <- FitsNone, BodySealed <- SealedNone

Encode0(schema, v) == L0!Encode(schema, v)
Decode0(schema, wire) == L0!Decode(schema, wire)
Formed0(schema) == S0!Formed(schema)
Fits0(schema, v) == S0!Fits(schema, v)
Sealed0(schema, v, outer) == S0!Sealed(schema, v, outer)

L1 == INSTANCE WireLayer WITH BodyEncode <- Encode0, BodyDecode <- Decode0
S1 == INSTANCE WireSchema WITH
    BodyFormed <- Formed0, BodyFits <- Fits0, BodySealed <- Sealed0

Encode1(schema, v) == L1!Encode(schema, v)
Decode1(schema, wire) == L1!Decode(schema, wire)
Formed1(schema) == S1!Formed(schema)
Fits1(schema, v) == S1!Fits(schema, v)
Sealed1(schema, v, outer) == S1!Sealed(schema, v, outer)

L2 == INSTANCE WireLayer WITH BodyEncode <- Encode1, BodyDecode <- Decode1
S2 == INSTANCE WireSchema WITH
    BodyFormed <- Formed1, BodyFits <- Fits1, BodySealed <- Sealed1

Encode2(schema, v) == L2!Encode(schema, v)
Decode2(schema, wire) == L2!Decode(schema, wire)
Formed2(schema) == S2!Formed(schema)
Fits2(schema, v) == S2!Fits(schema, v)
Sealed2(schema, v, outer) == S2!Sealed(schema, v, outer)

L3 == INSTANCE WireLayer WITH BodyEncode <- Encode2, BodyDecode <- Decode2
S3 == INSTANCE WireSchema WITH
    BodyFormed <- Formed2, BodyFits <- Fits2, BodySealed <- Sealed2

Encode3(schema, v) == L3!Encode(schema, v)
Decode3(schema, wire) == L3!Decode(schema, wire)
Formed3(schema) == S3!Formed(schema)
Fits3(schema, v) == S3!Fits(schema, v)
Sealed3(schema, v, outer) == S3!Sealed(schema, v, outer)

L4 == INSTANCE WireLayer WITH BodyEncode <- Encode3, BodyDecode <- Decode3
S4 == INSTANCE WireSchema WITH
    BodyFormed <- Formed3, BodyFits <- Fits3, BodySealed <- Sealed3

-----------------------------------------------------------------------------
(* A whole record.                                                          *)

Encode(schema, v) == L4!Encode(schema, v)
Decode(schema, wire) == L4!Decode(schema, wire)
Formed(schema) == S4!Formed(schema)
Fits(schema, v) == S4!Fits(schema, v)
Sealed(schema, v) == S4!Sealed(schema, v, <<>>)
=============================================================================
