----------------------------- MODULE TxnRecord ------------------------------
(***************************************************************************)
(* What the transaction state table promises of one record: it begins once *)
(* and is then either committed or aborted, for good.                      *)
(***************************************************************************)
VARIABLE record

Init == record = "none"

Next ==
    \/ record = "none" /\ record' = "running"
    \/ record = "running" /\ record' \in {"committed", "aborted"}

Spec == Init /\ [][Next]_record
=============================================================================
