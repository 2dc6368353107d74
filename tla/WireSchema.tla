---------------------------- MODULE WireSchema -----------------------------
(***************************************************************************)
(* One level of what the record formats admit: which schemas are formed,   *)
(* which values fit one, and which values bear the digests their fields    *)
(* call for.  The level below is given by constant operators.              *)
(***************************************************************************)
EXTENDS WireCell

CONSTANTS BodyFormed(_), BodyFits(_, _), BodySealed(_, _, _)

FormedField(f) ==
    f.shape \notin Single =>
        /\ f.lo \in Nat /\ f.hi \in Nat
        /\ \A n \in f.lo .. f.hi : BodyFormed(Chosen(f, n))

Formed(schema) ==
    /\ Len(schema) \in Nat /\ DOMAIN schema = 1 .. Len(schema)
    /\ \A i \in 1 .. Len(schema) : FormedField(schema[i])

FitsField(f, x) ==
    /\ f.shape = "enum" => x \in {Plain(b) : b \in f.lo .. f.hi}
    /\ f.shape \notin Single => /\ x = <<x[1], x[2]>> /\ x[1] \in f.lo .. f.hi
                                /\ BodyFits(Chosen(f, x[1]), x[2])

Fits(schema, v) ==
    /\ v = [i \in 1 .. Len(schema) |-> v[i]]
    /\ \A i \in 1 .. Len(schema) : FitsField(schema[i], v[i])

-----------------------------------------------------------------------------
(* The retained identities: outer holds the fields of the record around.   *)

Sealed(schema, v, outer) ==
    LET env == Env(schema, v, outer)
    IN  \A i \in DOMAIN schema :
            LET f == schema[i]
            IN  /\ f.shape = "seal" => v[i] = Recomputed(f, env)
                /\ f.shape = "many" =>
                       \A j \in 1 .. v[i][1] : BodySealed(f.body, Item(f, v[i], j), env)
=============================================================================
