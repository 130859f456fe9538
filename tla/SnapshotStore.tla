---------------------------- MODULE SnapshotStore ---------------------------
(***************************************************************************)
(* What the transactions of Sekas promise, without records, intents or     *)
(* latches: a store of versions in which a transaction takes effect on all *)
(* its keys in one step at one commit version, and a reader sees the state *)
(* of its start version.  Snapshot isolation, with unconditional adds      *)
(* exempt from the first-committer-wins rule.                              *)
(***************************************************************************)
EXTENDS Naturals

CONSTANTS Txn, Reader, Key, Version, Write, Payload, Wrap, Tombstone, Absent

VARIABLES
    start,      \* start version of each client, 0 before it has one
    committed,  \* the transactions that have taken effect
    history,    \* the versions of each key
    reads       \* what each reader got for each key, <<>> before it has read

storeVars == <<start, committed, history, reads>>

Init ==
    /\ start = [c \in Txn \cup Reader |-> 0]
    /\ committed = {}
    /\ history = [k \in Key |-> [v \in Version |-> Absent]]
    /\ reads = [r \in Reader |-> [k \in Key |-> <<>>]]

\* The newest of the given versions that exists: the one element of this set.
Newest(versions, among) ==
    LET visible == {v \in among : versions[v] # Absent}
    IN  IF visible = {}
        THEN {[version |-> 0, content |-> Absent]}
        ELSE {[version |-> v, content |-> versions[v]] :
                 v \in {u \in visible : \A w \in visible : w <= u}}

Latest(k) == CHOOSE e \in Newest(history[k], Version) : TRUE

Exists(k) == Latest(k).content \notin {Absent, Tombstone}

\* The write of t on k may take effect at version c on top of the current state of k.
Admissible(t, k, c) ==
    LET w == Write[t][k]
    IN  /\ w.type = "none" \/ w.cond = "any" \/ (w.cond = "exists") = Exists(k)
        /\ w.type = "none" \/ (w.type = "add" /\ w.cond = "any") \/ Latest(k).version < start[t]
        /\ w.type \in {"none", "nop"} \/ Latest(k).version < c
        \* what a reader has seen does not change
        /\ w.type \in {"none", "nop"} \/ \A r \in Reader : reads[r][k] # <<>> => start[r] < c

NewContent(t, k) ==
    CASE Write[t][k].type = "put" -> Payload[t]
      [] Write[t][k].type = "add" -> ((IF Exists(k) THEN Latest(k).content ELSE 0) + Payload[t]) % Wrap
      [] OTHER -> Tombstone

Start(c, v) ==
    /\ start[c] = 0
    /\ start' = [start EXCEPT ![c] = v]
    /\ UNCHANGED <<committed, history, reads>>

Commit(t, c) ==
    /\ t \notin committed
    /\ 0 < start[t] /\ start[t] < c
    /\ \A k \in Key : Admissible(t, k, c)
    /\ committed' = committed \cup {t}
    /\ history' = [k \in Key |->
                      IF Write[t][k].type \in {"none", "nop"} THEN history[k]
                      ELSE [history[k] EXCEPT ![c] = NewContent(t, k)]]
    /\ UNCHANGED <<start, reads>>

Read(r, k) ==
    /\ start[r] # 0
    /\ reads[r][k] = <<>>
    /\ \E e \in Newest(history[k], {v \in Version : v <= start[r]}) : reads' = [reads EXCEPT ![r][k] = <<e>>]
    /\ UNCHANGED <<start, committed, history>>

Next ==
    \/ \E c \in Txn \cup Reader, v \in Version : Start(c, v)
    \/ \E t \in Txn, c \in Version : Commit(t, c)
    \/ \E r \in Reader, k \in Key : Read(r, k)

Spec == Init /\ [][Next]_storeVars
=============================================================================
