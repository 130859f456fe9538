----------------------------- MODULE TxnIdAlloc -----------------------------
(***************************************************************************)
(* Allocation of transaction ids by the leader of the root group           *)
(* (server/src/root/mod.rs).  A node that steps up reads the persisted     *)
(* bound, persists a higher one and hands out the ids in between from      *)
(* memory; a background task raises the bound.  A node notices that it     *)
(* lost the leadership only when step_leader polls for it.                 *)
(***************************************************************************)
EXTENDS Naturals

CONSTANTS
    Node,
    Client,
    Clock,           \* what timestamp_nanos may return, in any order: clocks differ
    Step,            \* ids a bump adds (5000000000)
    MaxBump,         \* bound on the bumps
    MaxLeaderChange  \* bound on the leader changes

ASSUME TxnIdAllocAssumption ==
    /\ Clock \subseteq Nat /\ Clock # {}
    /\ Step \in Nat \ {0}
    /\ MaxBump \in Nat
    /\ MaxLeaderChange \in Nat

VARIABLES
    leader,   \* the node whose proposals the root group accepts
    meta,     \* the persisted META_TXN_ID_KEY
    role,       \* where step_leader of each node stands
    base,     \* max_txn_id as step_leader read it
    next,     \* next_txn_id of the published RootCore
    max,      \* max_txn_id of the published RootCore, 0 if there is none
    bumper,   \* whether the bumper task of the node runs
    pend,     \* bound that bump_txn_id persisted and has not stored in memory yet, 0 if none
    start,    \* first id a client got (its start version), 0 before
    commit,   \* second id a client got (its commit version), 0 before
    owner,    \* history: the node that read the persisted bound last
    overlap,  \* history: a node persisted a bound after another one had read the previous one
    changes,  \* leader changes so far
    bumps     \* bumps so far

allocVars == <<leader, meta, role, base, next, max, bumper, pend, start, commit, owner, overlap, changes,
          bumps>>

AllocInit ==
    /\ leader \in Node
    /\ meta = 1
    /\ role = [n \in Node |-> "follower"]
    /\ base = [n \in Node |-> 0]
    /\ next = [n \in Node |-> 0]
    /\ max = [n \in Node |-> 0]
    /\ bumper = [n \in Node |-> FALSE]
    /\ pend = [n \in Node |-> 0]
    /\ start = [c \in Client |-> 0]
    /\ commit = [c \in Client |-> 0]
    /\ owner = leader
    /\ overlap = FALSE
    /\ changes = 0
    /\ bumps = 0

Larger(a, b) == IF a < b THEN b ELSE a

LeaderChange(n) ==
    /\ changes < MaxLeaderChange
    /\ n # leader
    /\ leader' = n
    /\ changes' = changes + 1
    /\ UNCHANGED <<meta, role, base, next, max, bumper, pend, start, commit, owner, overlap, bumps>>

\* step_leader up to schema.max_txn_id.  A RootCore that an earlier call left behind stays published.
StepLeader(n) ==
    /\ role[n] = "follower"
    /\ leader = n
    /\ base' = [base EXCEPT ![n] = meta]
    /\ role' = [role EXCEPT ![n] = "init"]
    /\ owner' = n
    /\ UNCHANGED <<leader, meta, next, max, bumper, pend, start, commit, overlap, changes, bumps>>

\* Mutant: the bound follows the local clock only.
BumpPersistClock(n) ==
    /\ pend[n] = 0
    /\ role[n] = "init" \/ (role[n] = "leader" /\ bumper[n])
    /\ leader = n
    /\ bumps < MaxBump
    /\ \E now \in Clock :
          /\ meta' = now + Step
          /\ pend' = [pend EXCEPT ![n] = now + Step]
    /\ overlap' = (overlap \/ owner # n)
    /\ bumps' = bumps + 1
    /\ UNCHANGED <<leader, role, base, next, max, bumper, start, commit, owner, changes>>

\* bump_txn_id up to set_txn_id: by step_leader itself, then by the bumper task.
BumpPersist(n) ==
    /\ pend[n] = 0
    /\ role[n] = "init" \/ (role[n] = "leader" /\ bumper[n])
    /\ leader = n
    /\ bumps < MaxBump
    /\ \E now \in Clock :
          LET bound == Larger(IF role[n] = "init" THEN base[n] ELSE max[n], now) + Step
          IN  /\ meta' = bound
              /\ pend' = [pend EXCEPT ![n] = bound]
    /\ overlap' = (overlap \/ owner # n)
    /\ bumps' = bumps + 1
    /\ UNCHANGED <<leader, role, base, next, max, bumper, start, commit, owner, changes>>

\* bump_txn_id after set_txn_id: the bound is stored, and step_leader publishes its RootCore.
BumpStore(n) ==
    /\ pend[n] # 0
    /\ max' = [max EXCEPT ![n] = pend[n]]
    /\ pend' = [pend EXCEPT ![n] = 0]
    /\ IF role[n] = "init"
       THEN /\ next' = [next EXCEPT ![n] = base[n]]
            /\ bumper' = [bumper EXCEPT ![n] = TRUE]
            /\ role' = [role EXCEPT ![n] = "leader"]
       ELSE UNCHANGED <<next, bumper, role>>
    /\ UNCHANGED <<leader, meta, base, start, commit, owner, overlap, changes, bumps>>

\* set_txn_id fails, though its proposal may have been applied: step_leader returns, the bumper ends.
BumpFail(n) ==
    /\ leader # n
    /\ role[n] = "init" \/ (role[n] = "leader" /\ bumper[n])
    /\ pend' = [pend EXCEPT ![n] = 0]
    /\ bumper' = [bumper EXCEPT ![n] = FALSE]
    /\ role' = [role EXCEPT ![n] = IF @ = "init" THEN "follower" ELSE @]
    /\ UNCHANGED <<leader, meta, base, next, max, start, commit, owner, overlap, changes, bumps>>

\* alloc_txn_id on the node's RootCore, whether or not the node still is the leader.
AllocTxnId(n, c) ==
    /\ max[n] # 0
    /\ next[n] + 1 <= max[n]
    /\ next' = [next EXCEPT ![n] = @ + 1]
    /\ \/ start[c] = 0 /\ start' = [start EXCEPT ![c] = next[n]] /\ UNCHANGED commit
       \/ start[c] # 0 /\ commit[c] = 0 /\ commit' = [commit EXCEPT ![c] = next[n]] /\ UNCHANGED start
    /\ UNCHANGED <<leader, meta, role, base, max, bumper, pend, owner, overlap, changes, bumps>>

\* The loop of step_leader polls and finds that the node is not the leader.
DropLeader(n) ==
    /\ role[n] = "leader"
    /\ leader # n
    /\ role' = [role EXCEPT ![n] = "follower"]
    /\ bumper' = [bumper EXCEPT ![n] = FALSE]
    /\ pend' = [pend EXCEPT ![n] = 0]
    /\ max' = [max EXCEPT ![n] = 0]
    /\ UNCHANGED <<leader, meta, base, next, start, commit, owner, overlap, changes, bumps>>

\* on_step_leader or list_node fails with NotLeader: step_leader returns at once, the bumper is dropped
\* and the RootCore stays published.
AbandonLeader(n) ==
    /\ role[n] = "leader"
    /\ leader # n
    /\ role' = [role EXCEPT ![n] = "follower"]
    /\ bumper' = [bumper EXCEPT ![n] = FALSE]
    /\ pend' = [pend EXCEPT ![n] = 0]
    /\ UNCHANGED <<leader, meta, base, next, max, start, commit, owner, overlap, changes, bumps>>

AllocNext ==
    \E n \in Node :
        \/ LeaderChange(n) \/ StepLeader(n) \/ BumpPersist(n) \/ BumpStore(n) \/ BumpFail(n)
        \/ DropLeader(n) \/ AbandonLeader(n)
        \/ \E c \in Client : AllocTxnId(n, c)

AllocSpec == AllocInit /\ [][AllocNext]_allocVars

-----------------------------------------------------------------------------

\* Every variable has its type.
AllocTypeOK ==
    /\ leader \in Node /\ owner \in Node
    /\ meta \in Nat /\ changes \in Nat /\ bumps \in Nat
    /\ role \in [Node -> {"follower", "init", "leader"}]
    /\ base \in [Node -> Nat] /\ next \in [Node -> Nat] /\ max \in [Node -> Nat]
    /\ bumper \in [Node -> BOOLEAN]
    /\ pend \in [Node -> Nat]
    /\ start \in [Client -> Nat] /\ commit \in [Client -> Nat]
    /\ overlap \in BOOLEAN

Distinct(c, d) ==
    /\ start[c] # 0 => start[c] # commit[c]
    /\ c # d /\ start[c] # 0 => start[c] # start[d] /\ start[c] # commit[d]
    /\ c # d /\ commit[c] # 0 => commit[c] # commit[d]

\* However leaders change, and also if an old leader goes on allocating, an id is handed out once, as
\* long as no node raises the bound after another one has taken it over.
UniqueIds == ~overlap => \A c, d \in Client : Distinct(c, d)

=============================================================================
