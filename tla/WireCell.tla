------------------------------ MODULE WireCell ------------------------------
(***************************************************************************)
(* What a written record is made of.  A schema is a sequence of fields,    *)
(* and a value of it the sequence of their values.                         *)
(*                                                                         *)
(* A cell stands for a fixed-width value: a byte, an integer, a nonce or   *)
(* an identity.  It is <<b>> for a plain value b, and                      *)
(* <<"sha256", d, c>> for the digest of content c in domain d, which is    *)
(* taken to be injective.                                                  *)
(***************************************************************************)
EXTENDS Integers, Sequences

Plain(b) == <<b>>
Digest(domain, content) == <<"sha256", domain, content>>

\* The fields that take one cell.
Single == {"cell", "enum", "seal"}

\* The fields of n items one after another.
Repeated(body, n) ==
    [i \in 1 .. n * Len(body) |-> body[((i - 1) % Len(body)) + 1]]

\* The fields that follow a count or a kind byte n.
Chosen(f, n) == IF f.shape = "many" THEN Repeated(f.body, n) ELSE f.body[n + 1]

\* A slip in Admits.
AdmitsAllButTheLast(f, cell) == cell \in {Plain(b) : b \in f.lo .. f.hi - 1}

Admits(f, cell) == cell \in {Plain(b) : b \in f.lo .. f.hi}

-----------------------------------------------------------------------------
(* The retained identities: env holds the fields of a record and of those   *)
(* around it.                                                               *)

Place(schema, name) == CHOOSE i \in DOMAIN schema : schema[i].name = name

NamesOf(schema) == {schema[i].name : i \in DOMAIN schema}

Env(schema, v, outer) ==
    [n \in NamesOf(schema) \cup DOMAIN outer |->
        IF n \in NamesOf(schema) THEN v[Place(schema, n)] ELSE outer[n]]

Recomputed(f, env) == Digest(f.lo, [i \in DOMAIN f.body |-> env[f.body[i]]])

\* Item j of a collection.
Item(f, x, j) == SubSeq(x[2], (j - 1) * Len(f.body) + 1, j * Len(f.body))
=============================================================================
