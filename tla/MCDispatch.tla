----------------------------- MODULE MCDispatch -----------------------------
(***************************************************************************)
(* A program for the dispatch ledger.  Names: b build, c check, o          *)
(* operation, p and q lifecycle nodes before and after an action, r a      *)
(* retained package.  One chain (a checked build, an operation with a      *)
(* lifecycle node before it) runs beside an operation that is ordered      *)
(* before a second build which uses the retained package that operation    *)
(* replaces, so capacities, the operation lane, the epoch and failures     *)
(* race.                                                                   *)
(***************************************************************************)
EXTENDS DispatchJournal, TLC

CONSTANTS b1, b2, c1, o1, o2, p1, q1, r1

NonceSymmetry == Permutations(Nonces)

TwoBuilds == {b1, b2}
OneCheck  == {c1}
TwoOps    == {o1, o2}
OneRetained == {r1}

MixBefore == (o1 :> <<p1>>) @@ (o2 :> <<>>)
MixAfter  == (o1 :> <<>>) @@ (o2 :> <<q1>>)
MixEdges  == {<<b1, c1>>, <<c1, o1>>, <<p1, o1>>, <<r1, o2>>, <<o2, q1>>, <<q1, b2>>, <<r1, b2>>}
MixRewrites == (o1 :> {}) @@ (o2 :> {r1})

ChecksB1 == (c1 :> b1)
B2UsesR1 == (b1 :> {}) @@ (b2 :> {r1})

\* The order of identities puts the late units first.
LateFirst == (o2 :> 1) @@ (o1 :> 2) @@ (c1 :> 3) @@ (b2 :> 4) @@ (b1 :> 5)

\* The units of this program come one after the other.
ASSUME MixIsOrdered == \E order \in [Units -> 0..2] : Ordered(order)

=============================================================================
