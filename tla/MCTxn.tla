------------------------------- MODULE MCTxn --------------------------------
(***************************************************************************)
(* Instances of Txn: which transactions write what.  A behaviour is one of *)
(* Txn with the transactions of the configuration, or one of two           *)
(* transactions over two keys.                                             *)
(***************************************************************************)
EXTENDS Txn, TLC

CONSTANTS Parts, t1, t2, t3, r1, r2, k1, k2

VARIABLES
    part,    \* the component of the behaviour
    pair_ts, pair_start, pair_client, pair_commit, pair_record, pair_heartbeat, pair_store,
    pair_intent, pair_latch, pair_pc, pair_met, pair_rest, pair_signal, pair_result, pair_leaders


W(type) == [type |-> type, cond |-> "any"]

\* Two transactions put the same key.
Puts == [t \in Txn |-> [k \in Key |-> W("put")]]
PutValues == [t \in Txn |-> IF t = t1 THEN 1 ELSE 0]

\* Three transactions on one key: an unconditional add, an insert unless present, a delete if present.
Mixed == (t1 :> [k \in Key |-> W("add")])
         @@ (t2 :> [k \in Key |-> [type |-> "put", cond |-> "not_exists"]])
         @@ (t3 :> [k \in Key |-> [type |-> "delete", cond |-> "exists"]])
MixedValues == [t \in Txn |-> 1]

\* Two transactions over two keys, one of which only checks the second key for conflicts.
PutNop == [t \in {t1, t2} |-> [k \in {k1, k2} |-> W(IF t = t1 /\ k = k2 THEN "nop" ELSE "put")]]
PairValues == [t \in {t1, t2} |-> IF t = t1 THEN 1 ELSE 0]

Pair == INSTANCE Txn WITH
    ts <- pair_ts, start <- pair_start, client <- pair_client, commit <- pair_commit,
    record <- pair_record, heartbeat <- pair_heartbeat, store <- pair_store, intent <- pair_intent,
    latch <- pair_latch, pc <- pair_pc, met <- pair_met, rest <- pair_rest, signal <- pair_signal,
    result <- pair_result, leaders <- pair_leaders, Txn <- {t1, t2}, Reader <- {}, Key <- {k1, k2},
    Version <- 1 .. 4, Write <- PutNop, Payload <- PairValues, Wrap <- 2, MaxLeaderChange <- 0
pairVars ==
    <<pair_ts, pair_start, pair_client, pair_commit, pair_record, pair_heartbeat, pair_store,
      pair_intent, pair_latch, pair_pc, pair_met, pair_rest, pair_signal, pair_result, pair_leaders>>

\* The components that do not run keep one initial state.
MCInit ==
    /\ part \in Parts
    /\ Init
    /\ Pair!Init

MCNext ==
    \/ /\ part = "txn" /\ Next
       /\ UNCHANGED <<part, pairVars>>
    \/ /\ part = "pair" /\ Pair!Next
       /\ UNCHANGED <<part, vars>>

MCSpec == MCInit /\ [][MCNext]_<<part, vars, pairVars>>

\* Snapshot isolation: every behaviour of clients, records, intents, latches and leader changes is a
\* behaviour of the store in which commits are atomic and reads see the snapshot of their start version.
PairIsolation == Pair!SnapshotIsolation
=============================================================================
