-------------------------- MODULE WireLayerProofs ---------------------------
(***************************************************************************)
(* One level of a record encoding inverts when the level below does: what  *)
(* is decoded is what was encoded, and only that is accepted.              *)
(***************************************************************************)
EXTENDS WireLayer, WireSchema, SequenceTheorems, WellFoundedInduction, TLAPS

IsWire(w) == \E S : w \in Seq(S)

\* a followed by b, by a name the provers do not look into.
Cat(a, b) == a \o b

\* The same of a value and the next field of it.
Add(v, x) == Append(v, x)

\* The answer of a decoder that accepts.
Only(v, rest) == {<<v, rest>>}

\* What a decoder of the level below answers is an encoding, and a fitting
\* value is read back, whatever follows it.
BodyInverts ==
    /\ \A b, w : BodyFormed(b) /\ IsWire(w) =>
          \A d \in BodyDecode(b, w) :
              /\ d = <<d[1], d[2]>> /\ BodyFits(b, d[1]) /\ IsWire(d[2])
              /\ w = Cat(BodyEncode(b, d[1]), d[2])
    /\ \A b, v, r : BodyFormed(b) /\ BodyFits(b, v) /\ IsWire(r) =>
          /\ IsWire(BodyEncode(b, v))
          /\ BodyDecode(b, Cat(BodyEncode(b, v), r)) = Only(v, r)

\* The same of this level.
Inverts ==
    /\ \A b, w : Formed(b) /\ IsWire(w) =>
          \A d \in Decode(b, w) :
              /\ d = <<d[1], d[2]>> /\ Fits(b, d[1]) /\ IsWire(d[2])
              /\ w = Cat(Encode(b, d[1]), d[2])
    /\ \A b, v, r : Formed(b) /\ Fits(b, v) /\ IsWire(r) =>
          /\ IsWire(Encode(b, v))
          /\ Decode(b, Cat(Encode(b, v), r)) = Only(v, r)

-----------------------------------------------------------------------------
(* Wires.                                                                   *)

LEMMA Joined ==
    ASSUME NEW a, NEW b, IsWire(a), IsWire(b)
    PROVE  /\ IsWire(Cat(a, b))
           /\ \A c : IsWire(c) => Cat(Cat(a, b), c) = Cat(a, Cat(b, c))
<1>1. PICK S : a \in Seq(S)
  BY DEF IsWire
<1>2. PICK T : b \in Seq(T)
  BY DEF IsWire
<1>3. a \in Seq(S \cup T) /\ b \in Seq(S \cup T)
  BY <1>1, <1>2
<1>4. IsWire(Cat(a, b))
  BY <1>3 DEF IsWire, Cat
<1>5. ASSUME NEW c, IsWire(c) PROVE Cat(Cat(a, b), c) = Cat(a, Cat(b, c))
  <2>1. PICK U : c \in Seq(U)
    BY <1>5 DEF IsWire
  <2> DEFINE V == (S \cup T) \cup U
  <2>2. a \in Seq(V) /\ b \in Seq(V) /\ c \in Seq(V)
    BY <1>3, <2>1
  <2> HIDE DEF V
  <2> QED
    BY <2>2, ConcatAssociative DEF Cat
<1> QED
  BY <1>4, <1>5

LEMMA Reassociated ==
    ASSUME NEW a, NEW b, NEW c, IsWire(a), IsWire(b), IsWire(c)
    PROVE  Cat(Cat(a, b), c) = Cat(a, Cat(b, c))
  BY Joined

LEMMA Single1 == \A c : IsWire(<<c>>)
<1> TAKE c
<1>1. <<c>> \in Seq({c})
  OBVIOUS
<1> QED
  BY <1>1 DEF IsWire

LEMMA EmptyWire == IsWire(<<>>) /\ \A w : IsWire(w) => Cat(<<>>, w) = w /\ Cat(w, <<>>) = w
<1>1. IsWire(<<>>)
  <2>1. <<>> \in Seq({})
    OBVIOUS
  <2> QED
    BY <2>1 DEF IsWire
<1>2. ASSUME NEW w, IsWire(w) PROVE Cat(<<>>, w) = w /\ Cat(w, <<>>) = w
  <2>1. PICK S : w \in Seq(S)
    BY <1>2 DEF IsWire
  <2> QED
    BY <2>1, ConcatEmptySeq DEF Cat
<1> QED
  BY <1>1, <1>2

LEMMA Leading ==
    ASSUME NEW c, NEW r, IsWire(r)
    PROVE  /\ Cat(<<c>>, r) # <<>>
           /\ Head(Cat(<<c>>, r)) = c
           /\ Tail(Cat(<<c>>, r)) = r
<1>1. PICK S : r \in Seq(S)
  BY DEF IsWire
<1>2. r \in Seq(S \cup {c}) /\ <<c>> \in Seq(S \cup {c})
  BY <1>1
<1> QED
  BY <1>2 DEF Cat

LEMMA Split ==
    ASSUME NEW w, IsWire(w), w # <<>>
    PROVE  /\ w = Cat(<<Head(w)>>, Tail(w))
           /\ IsWire(Tail(w))
<1>1. PICK S : w \in Seq(S)
  BY DEF IsWire
<1>2. Head(w) \in S /\ Tail(w) \in Seq(S)
  BY <1>1
<1>3. w = Cat(<<Head(w)>>, Tail(w))
  BY <1>1, <1>2 DEF Cat
<1> QED
  BY <1>2, <1>3 DEF IsWire

LEMMA Extended ==
    ASSUME NEW k \in Nat, NEW v, v = [i \in 1 .. k |-> v[i]], NEW x
    PROVE  Add(v, x) = [i \in 1 .. k + 1 |-> IF i <= k THEN v[i] ELSE x]
<1> DEFINE S == {v[i] : i \in 1 .. k} \cup {x}
<1>1. v \in Seq(S) /\ x \in S /\ Len(v) = k
  OBVIOUS
<1> HIDE DEF S
<1>2. Add(v, x) \in Seq(S) /\ Len(Add(v, x)) = k + 1
  BY <1>1 DEF Add
<1>3. \A i \in 1 .. k + 1 : Add(v, x)[i] = IF i <= k THEN v[i] ELSE x
  BY <1>1 DEF Add
<1> QED
  BY <1>2, <1>3, SMTT(30)

-----------------------------------------------------------------------------
(* The two recursive functions: what is written of the first k fields, and  *)
(* what is parsed of them.                                                  *)

\* A set of naturals that holds the first and with every number the next one
\* holds all up to a bound.
LEMMA Upwards ==
    ASSUME NEW m \in Nat, NEW T, 0 \in T,
           \A k \in 0 .. m : k < m /\ k \in T => k + 1 \in T
    PROVE  0 .. m \subseteq T
<1> DEFINE Bad == (0 .. m) \ T
<1> SUFFICES ASSUME Bad # {} PROVE FALSE
  OBVIOUS
<1>1. Bad \subseteq Nat
  OBVIOUS
<1>2. PICK n \in Bad : \A k \in Bad : ~(<<k, n>> \in OpToRel(<, Nat))
  BY <1>1, NatLessThanWellFounded, WFMin
<1>3. \A k \in Bad : ~(k < n)
  BY <1>1, <1>2 DEF OpToRel
<1>4. n \in 0 .. m /\ n \notin T /\ n # 0
  OBVIOUS
<1>5. n - 1 \in 0 .. m /\ n - 1 < m /\ n - 1 < n /\ (n - 1) + 1 = n
  BY <1>4
<1>6. n - 1 \in T
  BY <1>3, <1>5
<1> HIDE DEF Bad
<1> QED
  BY <1>4, <1>5, <1>6

Writes(schema, v, m, f) ==
    f = [k \in 0 .. m |-> IF k = 0 THEN <<>> ELSE Cat(f[k - 1], EncodeField(schema[k], v[k]))]

\* What the next field f gives, after each of the results so far.
Onward(f, results) ==
    UNION {{<<Add(p[1], d[1]), d[2]>> : d \in DecodeField(f, p[2])} : p \in results}

Parses(schema, wire, m, f) ==
    f = [k \in 0 .. m |-> IF k = 0 THEN {<<<<>>, wire>>} ELSE Onward(schema[k], f[k - 1])]

LEMMA WritesExists ==
    ASSUME NEW schema, NEW v, NEW m \in Nat
    PROVE  \E f : Writes(schema, v, m, f)
<1> DEFINE T == {k \in 0 .. m : \E f : Writes(schema, v, k, f)}
<1>1. 0 \in T
  <2> DEFINE f == [k \in 0 .. 0 |-> <<>>]
  <2>1. Writes(schema, v, 0, f)
    BY DEF Writes
  <2> QED
    BY <2>1
<1>2. ASSUME NEW k \in 0 .. m, k < m, k \in T
      PROVE  k + 1 \in T
  <2>1. PICK f : Writes(schema, v, k, f)
    BY <1>2
  <2> DEFINE g == [i \in 0 .. k + 1 |-> IF i = k + 1 THEN Cat(f[k], EncodeField(schema[k + 1], v[k + 1])) ELSE f[i]]
  <2>2. \A i \in 0 .. k : f[i] = IF i = 0 THEN <<>> ELSE Cat(f[i - 1], EncodeField(schema[i], v[i]))
    BY <2>1 DEF Writes
  <2>3. ASSUME NEW i \in 0 .. k + 1
        PROVE  g[i] = IF i = 0 THEN <<>> ELSE Cat(g[i - 1], EncodeField(schema[i], v[i]))
    <3>1. CASE i = k + 1
      BY <3>1
    <3>2. CASE i # k + 1
      <4>1. i \in 0 .. k /\ g[i] = f[i] /\ (i # 0 => i - 1 \in 0 .. k + 1 /\ i - 1 # k + 1)
        BY <3>2
      <4> QED
        BY <2>2, <4>1
    <3> QED
      BY <3>1, <3>2
  <2>4. Writes(schema, v, k + 1, g)
    BY <2>3 DEF Writes
  <2> QED
    BY <1>2, <2>4
<1>3. 0 .. m \subseteq T
  BY <1>1, <1>2, Upwards
<1> QED
  BY <1>3

LEMMA ParsesExists ==
    ASSUME NEW schema, NEW wire, NEW m \in Nat
    PROVE  \E f : Parses(schema, wire, m, f)
<1> DEFINE T == {k \in 0 .. m : \E f : Parses(schema, wire, k, f)}
<1>1. 0 \in T
  <2> DEFINE f == [k \in 0 .. 0 |-> {<<<<>>, wire>>}]
  <2>1. Parses(schema, wire, 0, f)
    BY DEF Parses
  <2> QED
    BY <2>1
<1>2. ASSUME NEW k \in 0 .. m, k < m, k \in T
      PROVE  k + 1 \in T
  <2>1. PICK f : Parses(schema, wire, k, f)
    BY <1>2
  <2> DEFINE g == [i \in 0 .. k + 1 |-> IF i = k + 1 THEN Onward(schema[k + 1], f[k]) ELSE f[i]]
  <2>2. \A i \in 0 .. k : f[i] = IF i = 0 THEN {<<<<>>, wire>>} ELSE Onward(schema[i], f[i - 1])
    BY <2>1 DEF Parses
  <2>3. ASSUME NEW i \in 0 .. k + 1
        PROVE  g[i] = IF i = 0 THEN {<<<<>>, wire>>} ELSE Onward(schema[i], g[i - 1])
    <3>1. CASE i = k + 1
      BY <3>1
    <3>2. CASE i # k + 1
      <4>1. i \in 0 .. k /\ g[i] = f[i] /\ (i # 0 => i - 1 \in 0 .. k + 1 /\ i - 1 # k + 1)
        BY <3>2
      <4> QED
        BY <2>2, <4>1
    <3> QED
      BY <3>1, <3>2
  <2>4. Parses(schema, wire, k + 1, g)
    BY <2>3 DEF Parses
  <2> QED
    BY <1>2, <2>4
<1>3. 0 .. m \subseteq T
  BY <1>1, <1>2, Upwards
<1> QED
  BY <1>3

\* The recursion, one field at a time.
LEMMA WritesMore ==
    ASSUME NEW schema, NEW v, NEW m \in Nat, NEW f, Writes(schema, v, m, f),
           NEW k \in 0 .. m, k < m
    PROVE  f[k + 1] = Cat(f[k], EncodeField(schema[k + 1], v[k + 1]))
<1>1. k + 1 \in 0 .. m /\ k + 1 # 0 /\ (k + 1) - 1 = k
  OBVIOUS
<1>2. \A i \in 0 .. m : f[i] = IF i = 0 THEN <<>> ELSE Cat(f[i - 1], EncodeField(schema[i], v[i]))
  BY DEF Writes
<1>3. f[k + 1] = Cat(f[(k + 1) - 1], EncodeField(schema[k + 1], v[k + 1]))
  BY <1>1, <1>2
<1> QED
  BY <1>1, <1>3

LEMMA ParsesMore ==
    ASSUME NEW schema, NEW wire, NEW m \in Nat, NEW f, Parses(schema, wire, m, f),
           NEW k \in 0 .. m, k < m
    PROVE  f[k + 1] = Onward(schema[k + 1], f[k])
<1>1. k + 1 \in 0 .. m /\ k + 1 # 0 /\ (k + 1) - 1 = k
  OBVIOUS
<1>2. \A i \in 0 .. m : f[i] = IF i = 0 THEN {<<<<>>, wire>>} ELSE Onward(schema[i], f[i - 1])
  BY DEF Parses
<1>3. f[k + 1] = Onward(schema[k + 1], f[(k + 1) - 1])
  BY <1>1, <1>2
<1> QED
  BY <1>1, <1>3

LEMMA OnwardOne ==
    ASSUME NEW f, NEW a, NEW w, NEW x, NEW z, DecodeField(f, w) = {<<x, z>>}
    PROVE  Onward(f, {<<a, w>>}) = {<<Add(a, x), z>>}
<1>1. Onward(f, {<<a, w>>}) = {<<Add(a, d[1]), d[2]>> : d \in DecodeField(f, w)}
  <2> DEFINE p == <<a, w>>
             More(q) == {<<Add(q[1], d[1]), d[2]>> : d \in DecodeField(f, q[2])}
  <2>1. Onward(f, {p}) = UNION {More(q) : q \in {p}}
    BY DEF Onward
  <2>2. More(p) = {<<Add(a, d[1]), d[2]>> : d \in DecodeField(f, w)}
    OBVIOUS
  <2> HIDE DEF p, More
  <2>3. UNION {More(q) : q \in {p}} = More(p)
    OBVIOUS
  <2> QED
    BY <2>1, <2>2, <2>3 DEF p
<1>2. {<<Add(a, d[1]), d[2]>> : d \in {<<x, z>>}} = {<<Add(a, x), z>>}
  OBVIOUS
<1> QED
  BY <1>1, <1>2

LEMMA OnwardOnly ==
    \A f, a, w, x, z : DecodeField(f, w) = Only(x, z) =>
        Onward(f, Only(a, w)) = Only(Add(a, x), z)
  BY OnwardOne DEF Only

LEMMA EncodeIs ==
    ASSUME NEW schema, Len(schema) \in Nat, NEW v
    PROVE  \E f : Writes(schema, v, Len(schema), f) /\ Encode(schema, v) = f[Len(schema)]
<1> DEFINE Step(g) == [k \in 0 .. Len(schema) |->
                          IF k = 0 THEN <<>> ELSE Cat(g[k - 1], EncodeField(schema[k], v[k]))]
           f == CHOOSE g : g = Step(g)
<1>1. Encode(schema, v) = f[Len(schema)]
  BY DEF Encode, Cat
<1>2. \E g : g = Step(g)
  <2>1. PICK g : Writes(schema, v, Len(schema), g)
    BY WritesExists
  <2>2. g = Step(g)
    BY <2>1 DEF Writes
  <2> QED
    BY <2>2
<1>3. f = Step(f)
  BY <1>2
<1>4. Writes(schema, v, Len(schema), f)
  BY <1>3 DEF Writes
<1> QED
  BY <1>1, <1>4

LEMMA DecodeIs ==
    ASSUME NEW schema, Len(schema) \in Nat, NEW wire
    PROVE  \E f : Parses(schema, wire, Len(schema), f) /\ Decode(schema, wire) = f[Len(schema)]
<1> DEFINE Step(g) == [k \in 0 .. Len(schema) |->
                          IF k = 0 THEN {<<<<>>, wire>>}
                          ELSE UNION {{<<Add(p[1], d[1]), d[2]>> :
                                          d \in DecodeField(schema[k], p[2])} : p \in g[k - 1]}]
           f == CHOOSE g : g = Step(g)
<1>1. Decode(schema, wire) = f[Len(schema)]
  BY DEF Decode, Add
<1>2. \E g : g = Step(g)
  <2>1. PICK g : Parses(schema, wire, Len(schema), g)
    BY ParsesExists
  <2>2. g = Step(g)
    BY <2>1 DEF Parses, Onward
  <2> QED
    BY <2>2
<1>3. f = Step(f)
  BY <1>2
<1>4. Parses(schema, wire, Len(schema), f)
  BY <1>3 DEF Parses, Onward
<1> QED
  BY <1>1, <1>4

-----------------------------------------------------------------------------
(* One field.                                                               *)

\* What a field decodes as is what it was encoded from.
LEMMA FieldSound ==
    ASSUME BodyInverts, NEW f, FormedField(f), NEW w, IsWire(w), NEW d \in DecodeField(f, w)
    PROVE  /\ d = <<d[1], d[2]>> /\ FitsField(f, d[1]) /\ IsWire(d[2])
           /\ IsWire(EncodeField(f, d[1]))
           /\ w = Cat(EncodeField(f, d[1]), d[2])
<1>1. w # <<>>
  BY DEF DecodeField
<1>2. w = Cat(<<Head(w)>>, Tail(w)) /\ IsWire(Tail(w))
  BY <1>1, Split
<1>3. CASE f.shape \in Single
  <2>1. d = <<Head(w), Tail(w)>> /\ (f.shape = "enum" => Admits(f, Head(w)))
    BY <1>1, <1>3 DEF DecodeField, Single
  <2>2. EncodeField(f, d[1]) = <<Head(w)>> /\ d[2] = Tail(w)
    BY <1>3, <2>1 DEF EncodeField, Cat
  <2>3. FitsField(f, d[1])
    BY <1>3, <2>1 DEF FitsField, Admits
  <2> QED
    BY <1>2, <2>1, <2>2, <2>3, Single1
<1>4. CASE f.shape \notin Single
  <2>1. Admits(f, Head(w))
    BY <1>1, <1>4 DEF DecodeField, Single
  <2>2. PICK e \in BodyDecode(Chosen(f, Head(w)[1]), Tail(w)) : d = <<<<Head(w)[1], e[1]>>, e[2]>>
    BY <1>1, <1>4, <2>1 DEF DecodeField, Single
  <2>3. PICK n \in f.lo .. f.hi : Head(w) = Plain(n)
    BY <2>1 DEF Admits
  <2>4. Head(w)[1] = n
    BY <2>3 DEF Plain
  <2>5. BodyFormed(Chosen(f, n))
    BY <1>4, <2>3 DEF FormedField
  <2>6. /\ BodyFits(Chosen(f, n), e[1]) /\ IsWire(e[2])
        /\ Tail(w) = Cat(BodyEncode(Chosen(f, n), e[1]), e[2])
    BY <1>2, <2>2, <2>4, <2>5 DEF BodyInverts
  <2>7. d[1] = <<n, e[1]>> /\ d[2] = e[2] /\ d = <<d[1], d[2]>>
    BY <2>2, <2>4
  <2>8. EncodeField(f, d[1]) = Cat(<<Head(w)>>, BodyEncode(Chosen(f, n), e[1]))
    BY <1>4, <2>3, <2>7 DEF EncodeField, Cat
  <2>9. IsWire(BodyEncode(Chosen(f, n), e[1])) /\ IsWire(<<Head(w)>>)
    BY <2>5, <2>6, EmptyWire, Single1 DEF BodyInverts
  <2>10. FitsField(f, d[1])
    BY <1>4, <2>3, <2>6, <2>7 DEF FitsField, Single
  <2>11. w = Cat(Cat(<<Head(w)>>, BodyEncode(Chosen(f, n), e[1])), e[2])
    <3> DEFINE a == <<Head(w)>>
               c == BodyEncode(Chosen(f, n), e[1])
               z == e[2]
    <3>1. IsWire(a) /\ IsWire(c) /\ IsWire(z) /\ w = Cat(a, Cat(c, z))
      BY <1>2, <2>6, <2>9
    <3> HIDE DEF a, c, z
    <3>2. Cat(Cat(a, c), z) = Cat(a, Cat(c, z))
      BY <3>1, Reassociated
    <3>3. w = Cat(Cat(a, c), z)
      BY <3>1, <3>2
    <3> QED
      BY <3>3 DEF a, c, z
  <2>12. IsWire(EncodeField(f, d[1]))
    BY <2>8, <2>9, Joined
  <2>13. w = Cat(EncodeField(f, d[1]), d[2])
    BY <2>7, <2>8, <2>11
  <2> QED
    BY <2>6, <2>7, <2>10, <2>12, <2>13
<1> QED
  BY <1>3, <1>4

\* A value that fits is read back, whatever follows it.
LEMMA FieldComplete ==
    ASSUME BodyInverts, NEW f, FormedField(f), NEW x, FitsField(f, x), NEW r, IsWire(r)
    PROVE  /\ IsWire(EncodeField(f, x))
           /\ DecodeField(f, Cat(EncodeField(f, x), r)) = {<<x, r>>}
<1>1. CASE f.shape \in Single
  <2>1. EncodeField(f, x) = <<x>>
    BY <1>1 DEF EncodeField, Cat
  <2>2. f.shape = "enum" => Admits(f, x)
    BY <1>1 DEF FitsField, Admits
  <2>3. Cat(<<x>>, r) # <<>> /\ Head(Cat(<<x>>, r)) = x /\ Tail(Cat(<<x>>, r)) = r
    BY Leading
  <2>4. DecodeField(f, Cat(<<x>>, r)) = {<<x, r>>}
    BY <1>1, <2>2, <2>3 DEF DecodeField, Single
  <2> QED
    BY <2>1, <2>4, Single1
<1>2. CASE f.shape \notin Single
  <2> DEFINE n == x[1]
             b == Chosen(f, n)
             rest == Cat(BodyEncode(b, x[2]), r)
  <2>1. x = <<n, x[2]>> /\ n \in f.lo .. f.hi /\ BodyFits(b, x[2])
    BY <1>2 DEF FitsField
  <2>2. BodyFormed(b)
    BY <1>2, <2>1 DEF FormedField
  <2>3. IsWire(BodyEncode(b, x[2])) /\ BodyDecode(b, rest) = {<<x[2], r>>}
    <3>1. \A v, q : BodyFormed(b) /\ BodyFits(b, v) /\ IsWire(q) =>
              /\ IsWire(BodyEncode(b, v))
              /\ BodyDecode(b, Cat(BodyEncode(b, v), q)) = Only(v, q)
      BY DEF BodyInverts
    <3>2. \A v, q : Only(v, q) = {<<v, q>>}
      BY DEF Only
    <3> HIDE DEF b
    <3> QED
      BY <2>1, <2>2, <3>1, <3>2
  <2>4. EncodeField(f, x) = Cat(<<Plain(n)>>, BodyEncode(b, x[2]))
    BY <1>2 DEF EncodeField, Cat
  <2>5. IsWire(EncodeField(f, x)) /\ IsWire(rest)
    BY <2>3, <2>4, Single1, Joined
  <2>6. Cat(EncodeField(f, x), r) = Cat(<<Plain(n)>>, rest)
    BY <2>3, <2>4, Single1, Joined
  <2> DEFINE w == Cat(EncodeField(f, x), r)
  <2>7. w # <<>> /\ Head(w) = Plain(n) /\ Tail(w) = rest
    BY <2>5, <2>6, Leading
  <2>8. Admits(f, Plain(n)) /\ Plain(n)[1] = n
    BY <2>1 DEF Admits, Plain
  <2> HIDE DEF w, rest
  <2>9. DecodeField(f, w) = {<<<<n, d[1]>>, d[2]>> : d \in BodyDecode(b, rest)}
    BY <1>2, <2>7, <2>8 DEF DecodeField, Single
  <2>10. DecodeField(f, w) = {<<x, r>>}
    BY <2>1, <2>3, <2>9
  <2> QED
    BY <2>5, <2>10 DEF w
<1> QED
  BY <1>1, <1>2

-----------------------------------------------------------------------------
(* All fields of a schema.                                                  *)

\* What the first k fields decode as is what they were encoded from.
LEMMA LayerSound ==
    ASSUME BodyInverts, NEW schema, Formed(schema), NEW w, IsWire(w),
           NEW d \in Decode(schema, w)
    PROVE  /\ d = <<d[1], d[2]>> /\ Fits(schema, d[1]) /\ IsWire(d[2])
           /\ w = Cat(Encode(schema, d[1]), d[2])
<1> DEFINE m == Len(schema)
<1>1. m \in Nat /\ \A i \in 1 .. m : FormedField(schema[i])
  BY DEF Formed
<1>2. PICK got : Parses(schema, w, m, got) /\ Decode(schema, w) = got[m]
  BY <1>1, DecodeIs
<1> HIDE DEF m
<1> DEFINE Written(k, p) ==
              \A v, f : /\ Writes(schema, v, m, f)
                        /\ \A i \in 1 .. k : v[i] = p[1][i]
                        => IsWire(f[k]) /\ w = Cat(f[k], p[2])
           Good(k, p) == /\ p = <<p[1], p[2]>> /\ IsWire(p[2])
                         /\ p[1] = [i \in 1 .. k |-> p[1][i]]
                         /\ \A i \in 1 .. k : FitsField(schema[i], p[1][i])
                         /\ Written(k, p)
           T == {k \in 0 .. m : \A p \in got[k] : Good(k, p)}
<1>3. 0 \in T
  <2>1. got[0] = {<<<<>>, w>>}
    BY <1>1, <1>2 DEF Parses
  <2>2. Written(0, <<<<>>, w>>)
    <3>1. ASSUME NEW v, NEW f, Writes(schema, v, m, f) PROVE IsWire(f[0]) /\ w = Cat(f[0], w)
      <4>1. f[0] = <<>>
        BY <1>1, <3>1 DEF Writes
      <4> QED
        BY <4>1, EmptyWire
    <3> QED
      BY <3>1
  <2> HIDE DEF Written
  <2>3. <<>> = [i \in 1 .. 0 |-> <<>>[i]]
    OBVIOUS
  <2>4. Good(0, <<<<>>, w>>)
    BY <2>2, <2>3
  <2> HIDE DEF Good
  <2> QED
    BY <1>1, <2>1, <2>4
<1>4. ASSUME NEW k \in 0 .. m, k < m, k \in T, NEW q \in got[k + 1]
      PROVE  Good(k + 1, q)
  <2>1. k + 1 \in 1 .. m /\ k \in Nat
    BY <1>1, <1>4
  <2>2. got[k + 1] = Onward(schema[k + 1], got[k])
    BY <1>1, <1>2, <1>4, ParsesMore
  <2> DEFINE g == schema[k + 1]
  <2>3. PICK p \in got[k] : \E d1 \in DecodeField(g, p[2]) : q = <<Add(p[1], d1[1]), d1[2]>>
    BY <1>4, <2>2 DEF Onward
  <2>4. PICK e \in DecodeField(g, p[2]) : q = <<Add(p[1], e[1]), e[2]>>
    BY <2>3
  <2>5. Good(k, p)
    BY <1>4
  <2> HIDE DEF Written
  <2>6. /\ IsWire(p[2]) /\ p[1] = [i \in 1 .. k |-> p[1][i]]
        /\ \A i \in 1 .. k : FitsField(schema[i], p[1][i])
        /\ Written(k, p)
    BY <2>5
  <2>7. FormedField(g)
    BY <1>1, <2>1
  <2>8. /\ FitsField(g, e[1]) /\ IsWire(e[2]) /\ IsWire(EncodeField(g, e[1]))
        /\ p[2] = Cat(EncodeField(g, e[1]), e[2])
    BY <2>6, <2>7, FieldSound
  <2>9. q = <<q[1], q[2]>> /\ q[1] = Add(p[1], e[1]) /\ q[2] = e[2]
    BY <2>4
  <2>10. q[1] = [i \in 1 .. k + 1 |-> IF i <= k THEN p[1][i] ELSE e[1]]
    <3> DEFINE a == p[1]
               x == e[1]
    <3>1. a = [i \in 1 .. k |-> a[i]] /\ q[1] = Add(a, x)
      BY <2>6, <2>9
    <3> HIDE DEF a, x
    <3>2. Add(a, x) = [i \in 1 .. k + 1 |-> IF i <= k THEN a[i] ELSE x]
      BY <2>1, <3>1, Extended
    <3> QED
      BY <3>1, <3>2 DEF a, x
  <2>11. q[1] = [i \in 1 .. k + 1 |-> q[1][i]] /\ q[1][k + 1] = e[1]
         /\ \A i \in 1 .. k : q[1][i] = p[1][i]
    BY <2>1, <2>10
  <2>12. ASSUME NEW i \in 1 .. k + 1 PROVE FitsField(schema[i], q[1][i])
    <3>1. CASE i = k + 1
      BY <2>8, <2>11, <3>1
    <3>2. CASE i # k + 1
      <4>1. i \in 1 .. k
        BY <2>1, <3>2
      <4> QED
        BY <2>6, <2>11, <4>1
    <3> QED
      BY <3>1, <3>2
  <2>13. Written(k + 1, q)
    <3>1. ASSUME NEW v, NEW f, Writes(schema, v, m, f), \A i \in 1 .. k + 1 : v[i] = q[1][i]
          PROVE  IsWire(f[k + 1]) /\ w = Cat(f[k + 1], q[2])
      <4>1. f[k + 1] = Cat(f[k], EncodeField(g, v[k + 1]))
        BY <1>1, <1>4, <3>1, WritesMore
      <4>2. v[k + 1] = e[1]
        BY <2>1, <2>11, <3>1
      <4>3. \A i \in 1 .. k : v[i] = p[1][i]
        BY <2>1, <2>11, <3>1
      <4>4. IsWire(f[k]) /\ w = Cat(f[k], p[2])
        BY <2>6, <3>1, <4>3 DEF Written
      <4> DEFINE a == f[k]
                 b == EncodeField(g, e[1])
                 z == e[2]
      <4>5. IsWire(a) /\ IsWire(b) /\ IsWire(z) /\ w = Cat(a, Cat(b, z))
        BY <2>8, <4>4
      <4>6. f[k + 1] = Cat(a, b) /\ q[2] = z
        BY <2>9, <4>1, <4>2
      <4> HIDE DEF a, b, z
      <4>7. Cat(Cat(a, b), z) = Cat(a, Cat(b, z)) /\ IsWire(Cat(a, b))
        BY <4>5, Joined, SMTT(30)
      <4> QED
        BY <4>5, <4>6, <4>7
    <3> QED
      BY <3>1 DEF Written
  <2> QED
    BY <2>8, <2>9, <2>11, <2>12, <2>13
<1>5. m \in T
  <2> HIDE DEF Good
  <2>1. \A k \in 0 .. m : k < m /\ k \in T => k + 1 \in T
    BY <1>1, <1>4
  <2> HIDE DEF T
  <2>2. 0 .. m \subseteq T
    BY <1>1, <1>3, <2>1, Upwards
  <2> QED
    BY <1>1, <2>2
<1>6. Good(m, d)
  BY <1>2, <1>5
<1>7. PICK f : Writes(schema, d[1], m, f) /\ Encode(schema, d[1]) = f[m]
  BY <1>1, EncodeIs DEF m
<1>8. w = Cat(Encode(schema, d[1]), d[2])
  BY <1>6, <1>7
<1> HIDE DEF Written
<1> QED
  BY <1>6, <1>8 DEF Fits, m

\* A value that fits is read back, whatever follows it.
LEMMA LayerComplete ==
    ASSUME BodyInverts, NEW schema, Formed(schema), NEW v, Fits(schema, v), NEW r, IsWire(r)
    PROVE  /\ IsWire(Encode(schema, v))
           /\ Decode(schema, Cat(Encode(schema, v), r)) = Only(v, r)
<1> DEFINE m == Len(schema)
<1>1. m \in Nat /\ \A i \in 1 .. m : FormedField(schema[i])
  BY DEF Formed
<1>2. v = [i \in 1 .. m |-> v[i]] /\ \A i \in 1 .. m : FitsField(schema[i], v[i])
  BY DEF Fits
<1>3. PICK f : Writes(schema, v, m, f) /\ Encode(schema, v) = f[m]
  BY <1>1, EncodeIs
<1> HIDE DEF m
<1> DEFINE Start(k) == [i \in 1 .. k |-> v[i]]
           Back(k) == \A z, got : IsWire(z) /\ Parses(schema, Cat(f[k], z), m, got) =>
                         got[k] = {<<Start(k), z>>}
           T == {k \in 0 .. m : IsWire(f[k]) /\ Back(k)}
<1>4. 0 \in T
  <2>1. f[0] = <<>>
    BY <1>1, <1>3 DEF Writes
  <2>2. ASSUME NEW z, NEW got, IsWire(z), Parses(schema, Cat(f[0], z), m, got)
        PROVE  got[0] = {<<Start(0), z>>}
    <3>1. got[0] = {<<<<>>, Cat(f[0], z)>>}
      BY <1>1, <2>2 DEF Parses
    <3>2. Cat(f[0], z) = z /\ Start(0) = <<>>
      BY <2>1, <2>2, EmptyWire
    <3> QED
      BY <3>1, <3>2
  <2>3. IsWire(f[0]) /\ Back(0)
    BY <2>1, <2>2, EmptyWire
  <2> HIDE DEF Back
  <2> QED
    BY <1>1, <2>3
<1>5. ASSUME NEW k \in 0 .. m, k < m, k \in T
      PROVE  IsWire(f[k + 1]) /\ Back(k + 1)
  <2>0. k \in 0 .. m /\ k < m /\ m \in Nat
    BY <1>1, <1>5
  <2>1. k + 1 \in 1 .. m /\ k \in Nat
    BY <2>0
  <2> DEFINE g == schema[k + 1]
             e == EncodeField(g, v[k + 1])
  <2>2. f[k + 1] = Cat(f[k], e)
    BY <1>3, <2>0, WritesMore
  <2>3. FormedField(g) /\ FitsField(g, v[k + 1])
    BY <1>1, <1>2, <2>1
  <2>4. IsWire(e)
    BY <2>3, FieldComplete, EmptyWire
  <2>5. IsWire(f[k]) /\ Back(k)
    BY <1>5
  <2>6. ASSUME NEW z, NEW got, IsWire(z), Parses(schema, Cat(f[k + 1], z), m, got)
        PROVE  got[k + 1] = {<<Start(k + 1), z>>}
    <3>1. IsWire(Cat(e, z)) /\ Cat(f[k + 1], z) = Cat(f[k], Cat(e, z))
      <4> HIDE DEF e
      <4>1. IsWire(Cat(e, z))
        BY <2>4, <2>6, Joined
      <4>2. Cat(Cat(f[k], e), z) = Cat(f[k], Cat(e, z))
        BY <2>4, <2>5, <2>6, Reassociated
      <4> QED
        BY <2>2, <4>1, <4>2
    <3>2. got[k] = {<<Start(k), Cat(e, z)>>}
      <4> HIDE DEF e, Start
      <4> QED
        BY <2>5, <2>6, <3>1
    <3>3. got[k + 1] = Onward(g, got[k])
      BY <1>1, <1>5, <2>6, ParsesMore
    <3>4. DecodeField(g, Cat(e, z)) = {<<v[k + 1], z>>}
      BY <2>3, <2>6, FieldComplete
    <3>5. Add(Start(k), v[k + 1]) = Start(k + 1)
      <4>1. Start(k) = [i \in 1 .. k |-> Start(k)[i]]
        OBVIOUS
      <4>2. Add(Start(k), v[k + 1]) =
                [i \in 1 .. k + 1 |-> IF i <= k THEN Start(k)[i] ELSE v[k + 1]]
        <5> HIDE DEF Start
        <5> QED
          BY <2>1, <4>1, Extended
      <4>3. \A i \in 1 .. k + 1 : (IF i <= k THEN Start(k)[i] ELSE v[k + 1]) = v[i]
        BY <2>1
      <4> QED
        BY <4>2, <4>3
    <3> HIDE DEF Start, e, g
    <3>6. Onward(g, {<<Start(k), Cat(e, z)>>}) = {<<Add(Start(k), v[k + 1]), z>>}
      <4>1. DecodeField(g, Cat(e, z)) = Only(v[k + 1], z)
        BY <3>4 DEF Only
      <4>2. Onward(g, Only(Start(k), Cat(e, z))) = Only(Add(Start(k), v[k + 1]), z)
        BY <4>1, OnwardOnly
      <4> QED
        BY <4>2 DEF Only
    <3> QED
      BY <3>2, <3>3, <3>5, <3>6
  <2>7. IsWire(f[k + 1])
    <3> HIDE DEF e
    <3> QED
      BY <2>2, <2>4, <2>5, Joined
  <2> HIDE DEF e, Start
  <2> QED
    BY <2>6, <2>7
<1>6. m \in T
  <2> HIDE DEF Back
  <2>1. \A k \in 0 .. m : k < m /\ k \in T => k + 1 \in T
    BY <1>1, <1>5
  <2> HIDE DEF T
  <2>2. 0 .. m \subseteq T
    BY <1>1, <1>4, <2>1, Upwards
  <2> QED
    BY <1>1, <2>2
<1>7. IsWire(Encode(schema, v))
  BY <1>3, <1>6
<1>8. PICK got : /\ Parses(schema, Cat(Encode(schema, v), r), m, got)
                 /\ Decode(schema, Cat(Encode(schema, v), r)) = got[m]
  BY <1>1, DecodeIs DEF m
<1>9. got[m] = {<<Start(m), r>>}
  <2> HIDE DEF Start
  <2> QED
    BY <1>3, <1>6, <1>8
<1>10. Start(m) = v
  BY <1>2
<1> HIDE DEF Start
<1> QED
  BY <1>7, <1>8, <1>9, <1>10 DEF Only

\* A level inverts when the one below does.
LEMMA LayerInverts == BodyInverts => Inverts
<1> SUFFICES ASSUME BodyInverts PROVE Inverts
  OBVIOUS
<1>1. \A b, w : Formed(b) /\ IsWire(w) =>
          \A d \in Decode(b, w) :
              /\ d = <<d[1], d[2]>> /\ Fits(b, d[1]) /\ IsWire(d[2])
              /\ w = Cat(Encode(b, d[1]), d[2])
  BY LayerSound
<1>2. \A b, v, r : Formed(b) /\ Fits(b, v) /\ IsWire(r) =>
          /\ IsWire(Encode(b, v))
          /\ Decode(b, Cat(Encode(b, v), r)) = Only(v, r)
  BY LayerComplete
<1> QED
  BY <1>1, <1>2 DEF Inverts
-----------------------------------------------------------------------------
(* Where a field stands, and what a retained identity says of others.       *)

LEMMA CatAt ==
    ASSUME NEW a, NEW b, IsWire(a), IsWire(b), NEW p \in 1 .. Len(a)
    PROVE  /\ Len(a) \in Nat /\ p \in 1 .. Len(Cat(a, b)) /\ Cat(a, b)[p] = a[p]
<1>1. PICK S : a \in Seq(S)
  BY DEF IsWire
<1>2. PICK T : b \in Seq(T)
  BY DEF IsWire
<1>3. a \in Seq(S \cup T) /\ b \in Seq(S \cup T)
  BY <1>1, <1>2
<1> QED
  BY <1>3, ConcatProperties DEF Cat

LEMMA CatNext ==
    ASSUME NEW a, IsWire(a), NEW x
    PROVE  /\ Len(a) \in Nat /\ Len(a) + 1 \in 1 .. Len(Cat(a, <<x>>))
           /\ Cat(a, <<x>>)[Len(a) + 1] = x
<1>1. PICK S : a \in Seq(S)
  BY DEF IsWire
<1>2. a \in Seq(S \cup {x}) /\ <<x>> \in Seq(S \cup {x})
  BY <1>1
<1> QED
  BY <1>2, ConcatProperties DEF Cat

\* A field of one cell stands in the encoding, and the first field first.
LEMMA Stands ==
    ASSUME BodyInverts, NEW schema, Formed(schema), NEW v, Fits(schema, v),
           NEW s \in 1 .. Len(schema), schema[s].shape \in Single
    PROVE  /\ IsWire(Encode(schema, v))
           /\ \E p \in 1 .. Len(Encode(schema, v)) :
                 Encode(schema, v)[p] = v[s] /\ (s = 1 => p = 1)
<1> DEFINE m == Len(schema)
           Holds(w) == \E p \in 1 .. Len(w) : w[p] = v[s] /\ (s = 1 => p = 1)
<1>1. m \in Nat /\ \A i \in 1 .. m : FormedField(schema[i])
  BY DEF Formed
<1>2. \A i \in 1 .. m : FitsField(schema[i], v[i])
  BY DEF Fits
<1>3. PICK f : Writes(schema, v, m, f) /\ Encode(schema, v) = f[m]
  BY <1>1, EncodeIs
<1> HIDE DEF m
<1> DEFINE T == {k \in 0 .. m : IsWire(f[k]) /\ (s <= k => Holds(f[k]))}
<1>4. f[0] = <<>> /\ 0 \in T
  <2>1. f[0] = <<>>
    BY <1>1, <1>3 DEF Writes
  <2>2. IsWire(f[0]) /\ ~(s <= 0)
    BY <2>1, EmptyWire
  <2> QED
    BY <1>1, <2>1, <2>2
<1>5. ASSUME NEW k \in 0 .. m, k < m, k \in T
      PROVE  k + 1 \in T
  <2> DEFINE e == EncodeField(schema[k + 1], v[k + 1])
  <2>0. k \in 0 .. m /\ k < m /\ m \in Nat /\ k + 1 \in 0 .. m
    BY <1>1, <1>5
  <2>1. k + 1 \in 1 .. m
    BY <2>0
  <2>2. f[k + 1] = Cat(f[k], e)
    BY <1>3, <2>0, WritesMore
  <2>3. IsWire(e)
    <3>1. FormedField(schema[k + 1]) /\ FitsField(schema[k + 1], v[k + 1])
      BY <1>1, <1>2, <2>1
    <3> QED
      BY <3>1, FieldComplete, EmptyWire
  <2>4. IsWire(f[k]) /\ (s <= k => Holds(f[k]))
    BY <1>5
  <2>5. IsWire(f[k + 1])
    <3> HIDE DEF e
    <3> QED
      BY <2>2, <2>3, <2>4, Joined
  <2>6. CASE s <= k
    <3>1. PICK p \in 1 .. Len(f[k]) : f[k][p] = v[s] /\ (s = 1 => p = 1)
      BY <2>4, <2>6
    <3> DEFINE a == f[k]
    <3> HIDE DEF a, e
    <3>2. p \in 1 .. Len(Cat(a, e)) /\ Cat(a, e)[p] = a[p]
      BY <2>3, <2>4, CatAt DEF a
    <3> QED
      BY <2>0, <2>2, <2>5, <3>1, <3>2 DEF a
  <2>7. CASE s = k + 1
    <3>1. e = <<v[s]>>
      BY <2>7 DEF EncodeField
    <3> DEFINE a == f[k]
    <3>2. k = 0 => a = <<>>
      BY <1>4
    <3> HIDE DEF a, e
    <3>3. /\ Len(a) \in Nat /\ Len(a) + 1 \in 1 .. Len(Cat(a, <<v[s]>>))
          /\ Cat(a, <<v[s]>>)[Len(a) + 1] = v[s]
      BY <2>4, CatNext DEF a
    <3>4. s = 1 => Len(a) + 1 = 1
      BY <2>0, <2>7, <3>2
    <3>5. Holds(f[k + 1])
      BY <2>2, <3>1, <3>3, <3>4 DEF a
    <3> QED
      BY <2>0, <2>5, <3>5
  <2>8. CASE ~(s <= k + 1)
    BY <2>0, <2>5, <2>8
  <2>9. s <= k \/ s = k + 1 \/ ~(s <= k + 1)
    BY <1>1, <2>0 DEF m
  <2> QED
    BY <2>6, <2>7, <2>8, <2>9
<1>6. m \in T
  <2>1. \A k \in 0 .. m : k < m /\ k \in T => k + 1 \in T
    BY <1>5
  <2> HIDE DEF T
  <2>2. 0 .. m \subseteq T
    BY <1>1, <1>4, <2>1, Upwards
  <2> QED
    BY <1>1, <2>2
<1> QED
  BY <1>3, <1>6 DEF m

LEMMA DigestsTell == \A d, b, c : Digest(d, b) = Digest(d, c) => b = c
<1> TAKE d, b, c
<1>1. Digest(d, b)[3] = b /\ Digest(d, c)[3] = c
  BY DEF Digest
<1> QED
  BY <1>1

\* A sealed retained identity is a digest in its domain, and two equal ones
\* are over equal fields.
LEMMA SealCovers ==
    ASSUME NEW schema, DOMAIN schema = 1 .. Len(schema),
           NEW u, Sealed(schema, u, <<>>), NEW s \in 1 .. Len(schema),
           schema[s].shape = "seal"
    PROVE  /\ \E c : u[s] = Digest(schema[s].lo, c)
           /\ \A v : Sealed(schema, v, <<>>) /\ u[s] = v[s] =>
                 \A j \in DOMAIN schema[s].body :
                    schema[s].body[j] \in NamesOf(schema) =>
                        u[Place(schema, schema[s].body[j])] = v[Place(schema, schema[s].body[j])]
<1> DEFINE f == schema[s]
           Content(x) == [j \in DOMAIN f.body |-> Env(schema, x, <<>>)[f.body[j]]]
<1>1. ASSUME NEW x, Sealed(schema, x, <<>>)
      PROVE  x[s] = Digest(f.lo, Content(x))
  BY <1>1 DEF Sealed, Recomputed
<1>2. ASSUME NEW v, Sealed(schema, v, <<>>), u[s] = v[s],
             NEW j \in DOMAIN f.body, f.body[j] \in NamesOf(schema)
      PROVE  u[Place(schema, f.body[j])] = v[Place(schema, f.body[j])]
  <2>1. Content(u) = Content(v)
    <3>1. u[s] = Digest(f.lo, Content(u)) /\ v[s] = Digest(f.lo, Content(v))
      BY <1>1, <1>2
    <3> HIDE DEF Content
    <3> QED
      BY <1>2, <3>1, DigestsTell
  <2>2. Env(schema, u, <<>>)[f.body[j]] = Env(schema, v, <<>>)[f.body[j]]
    <3>1. Content(u)[j] = Content(v)[j]
      BY <2>1
    <3>2. Content(u)[j] = Env(schema, u, <<>>)[f.body[j]]
      BY <1>2
    <3>3. Content(v)[j] = Env(schema, v, <<>>)[f.body[j]]
      BY <1>2
    <3> QED
      BY <3>1, <3>2, <3>3
  <2>3. \A x : Env(schema, x, <<>>)[f.body[j]] = x[Place(schema, f.body[j])]
    BY <1>2 DEF Env
  <2> QED
    BY <2>2, <2>3
<1> QED
  BY <1>1, <1>2
=============================================================================
