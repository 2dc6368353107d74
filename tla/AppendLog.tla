------------------------------ MODULE AppendLog ------------------------------
(***************************************************************************)
(* What a journal store promises for one journal: a log of records that    *)
(* grows by one record at a time, whoever appends, and keeps for ever what *)
(* it has acknowledged.  A power loss may take back the last record, if    *)
(* nobody was told that it was written.                                    *)
(***************************************************************************)
EXTENDS Integers, Sequences

CONSTANT Branches   \* what tells two successors of one record apart

VARIABLES log, kept

Init == log = <<>> /\ kept = <<>>

Commit ==
    /\ \E x \in Branches : log' = Append(log, x)
    /\ kept' = kept

Acknowledge ==
    /\ kept' = log
    /\ log' = log

TakeBack ==
    /\ Len(kept) < Len(log)
    /\ log' = SubSeq(log, 1, Len(log) - 1)
    /\ kept' = kept

Next == Commit \/ Acknowledge \/ TakeBack

Spec == Init /\ [][Next]_<<log, kept>>

=============================================================================
