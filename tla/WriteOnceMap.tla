---------------------------- MODULE WriteOnceMap ----------------------------
(***************************************************************************)
(* What a store of immutable files promises: a name is bound to one value  *)
(* and never to another one; what a caller was told to be retained stays.  *)
(* A binding nobody was told of may be lost with the power, and one that   *)
(* was under way may come through it.                                      *)
(***************************************************************************)
CONSTANTS Names, Values, Unbound

VARIABLES bound, kept

Init == bound = [n \in Names |-> Unbound] /\ kept = {}

Bind ==
    /\ \E n \in Names, v \in Values :
         bound[n] = Unbound /\ bound' = [bound EXCEPT ![n] = v]
    /\ kept' = kept

Keep ==
    /\ \E n \in Names : bound[n] # Unbound /\ kept' = kept \cup {n}
    /\ bound' = bound

\* A binding nobody relies on may be lost, one under way may come through.
Crash ==
    /\ bound' \in [Names -> Values \cup {Unbound}]
    /\ \A n \in Names :
         bound[n] \in {Unbound, bound'[n]} \/ (n \notin kept /\ bound'[n] = Unbound)
    /\ kept' = kept

Next == Bind \/ Keep \/ Crash

Spec == Init /\ [][Next]_<<bound, kept>>

=============================================================================
