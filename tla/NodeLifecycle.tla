--------------------------- MODULE NodeLifecycle ---------------------------
(***************************************************************************)
(* The replicas of one node through their life: src/server/src/node/mod.rs *)
(* creates, serves and removes them one at a time (replica_mutation), a    *)
(* task of its own destroys what a removed one leaves                      *)
(* (src/server/src/node/job/destory_replica.rs), and a node that starts    *)
(* again serves what its states say (src/server/src/bootstrap.rs).  Every  *)
(* write to the disk is a step of its own, and the process may stop        *)
(* between any two of them.  A panic of any task aborts the process        *)
(* (src/bin/src/main.rs).  The root sends its calls in order, sends one    *)
(* again until it is answered, and a copy of it may be late.               *)
(***************************************************************************)
EXTENDS Integers, FiniteSets, Sequences

CONSTANTS
    Replicas,   \* ids of replicas, all of them on this node
    Scenarios   \* script: the calls of the root; init; late; crashes, resends, reads

\* All the replicas are of one group, the calls are about one of them.
Call(kind, r) == [kind |-> kind, r |-> r]
NoOp == [kind |-> "none", r |-> 0, pc |-> "idle"]

VARIABLES
    ident, rootDesc,        \* on disk: the identity of the node, the root nodes
    raft, meta, cf,         \* on disk: raft meta data, replica states, column families
    up,                     \* the process: "down", "boot", "up"
    todo,                   \* replicas that bootstrap has still to serve
    serving, group, route,  \* serving_replicas, the group in serving_groups, route table
    op,                     \* the operation that holds replica_mutation
    destroy,                \* destroy[r]: the next step of the task that destroys r
    reading,                \* replicas with a request that has passed its checks
    sent, net, acked,       \* calls the root has sent, those on their way or waiting, answered
    aborts,                 \* the panics there have been
    budget

disk == <<ident, rootDesc, raft, meta, cf>>
node == <<up, todo, serving, group, route>>
root == <<sent, net, acked>>
vars == <<disk, node, op, destroy, reading, root, aborts, budget>>

Spend(f) == budget[f] > 0 /\ budget' = [budget EXCEPT ![f] = @ - 1]

Init ==
    /\ budget \in Scenarios
    /\ ident = FALSE /\ rootDesc = FALSE
    /\ raft = {} /\ meta = [r \in Replicas |-> "none"] /\ cf = [r \in Replicas |-> "none"]
    /\ up = "down" /\ todo = {} /\ serving = {} /\ group = FALSE /\ route = 0
    /\ op = NoOp /\ destroy = [r \in Replicas |-> "idle"] /\ reading = {}
    /\ sent = <<>> /\ net = {} /\ acked = {}
    /\ aborts = {}

\* The process is gone, with everything that is not on disk.
Stop ==
    /\ up' = "down" /\ todo' = {} /\ serving' = {} /\ group' = FALSE /\ route' = 0
    /\ op' = NoOp /\ destroy' = [r \in Replicas |-> "idle"] /\ reading' = {}
Abort(reason) == Stop /\ aborts' = aborts \cup {reason}

Crash ==
    /\ up # "down"
    /\ Spend("crashes") /\ Stop
    /\ UNCHANGED <<disk, root, aborts>>

-----------------------------------------------------------------------------
(* bootstrap_or_join_cluster *)

First == 1

\* bootstrap_cluster: the first replica is created, but served only by bootstrap...
InitReplica ==
    /\ up = "down" /\ ~ident /\ budget.init /\ meta[First] = "none"
    /\ \/ First \notin raft /\ raft' = raft \cup {First} /\ UNCHANGED meta
       \/ First \in raft /\ meta' = [meta EXCEPT ![First] = "Initial"] /\ UNCHANGED raft
    /\ UNCHANGED <<ident, rootDesc, cf, node, op, destroy, reading, root, aborts, budget>>

\* ...then the root nodes are saved, then the identity.
InitCluster ==
    /\ up = "down" /\ ~ident /\ budget.init /\ meta[First] # "none"
    /\ \/ ~rootDesc /\ rootDesc' = TRUE /\ UNCHANGED ident
       \/ rootDesc /\ ident' = TRUE /\ UNCHANGED rootDesc
    /\ UNCHANGED <<raft, meta, cf, node, op, destroy, reading, root, aborts, budget>>

\* try_join_cluster saves the identity before the root nodes.
JoinIdent ==
    /\ up = "down" /\ ~ident /\ ~budget.init
    /\ ident' = TRUE /\ up' = "joining"
    /\ UNCHANGED <<rootDesc, raft, meta, cf, todo, serving, group, route, op, destroy, reading, root, aborts, budget>>

JoinRoot ==
    /\ up = "joining"
    /\ rootDesc' = TRUE /\ up' = "down"
    /\ UNCHANGED <<ident, raft, meta, cf, todo, serving, group, route, op, destroy, reading, root, aborts, budget>>

Boot ==
    /\ up = "down" /\ ident /\ rootDesc
    /\ up' = "boot"
    /\ todo' = {r \in Replicas : meta[r] \in {"Initial", "Normal"}}
    /\ destroy' = [r \in Replicas |-> IF meta[r] = "Terminated" THEN "cf" ELSE "idle"]
    /\ UNCHANGED <<disk, serving, group, route, op, reading, root, aborts, budget>>

BootServe ==
    /\ up = "boot" /\ op = NoOp /\ todo # {}
    /\ \E r \in todo : op' = [kind |-> "boot", r |-> r, pc |-> "open"]
    /\ UNCHANGED <<disk, node, destroy, reading, root, aborts, budget>>

BootDone ==
    /\ up = "boot" /\ op = NoOp /\ todo = {}
    /\ up' = "up"
    /\ UNCHANGED <<disk, todo, serving, group, route, op, destroy, reading, root, aborts, budget>>

-----------------------------------------------------------------------------
(* The root's calls *)

Last == sent[Len(sent)]
Answer == acked' = acked \cup {Call(op.kind, op.r)} /\ op' = NoOp

Send ==
    /\ Len(sent) < Len(budget.script)
    /\ sent # <<>> => Last \in acked
    /\ sent # <<>> /\ ~budget.late => net = {}
    /\ sent' = Append(sent, budget.script[Len(sent) + 1])
    /\ net' = net \cup {budget.script[Len(sent) + 1]}
    /\ UNCHANGED <<disk, node, op, destroy, reading, acked, aborts, budget>>

\* No answer came: the process has stopped, or the call takes too long.
Resend ==
    /\ sent # <<>> /\ Last \notin acked /\ Last \notin net
    /\ op.kind = "none" \/ budget.late
    /\ net' = net \cup {Last}
    /\ UNCHANGED <<disk, node, op, destroy, reading, sent, acked, aborts, budget>>

\* A call gets the lock.
Start ==
    /\ up = "up" /\ op = NoOp
    /\ \E c \in net :
        /\ net' = net \ {c}
        /\ op' = [kind |-> c.kind, r |-> c.r, pc |-> IF c.kind = "create" THEN "check" ELSE "find"]
    /\ UNCHANGED <<disk, node, destroy, reading, sent, acked, aborts, budget>>

-----------------------------------------------------------------------------
(* create_replica and serve_replica *)

At(pc) == op.pc = pc /\ up # "down"
Goto(pc) == op' = [op EXCEPT !.pc = pc]

ExistsAnother == group

check_replica_existence ==
    /\ At("check")
    /\ \/ op.r \in serving /\ Answer
       \/ op.r \notin serving /\ ExistsAnother /\ op' = NoOp /\ UNCHANGED acked
       \/ op.r \notin serving /\ ~ExistsAnother /\ Goto("raft") /\ UNCHANGED acked
    /\ UNCHANGED <<disk, node, destroy, reading, sent, net, aborts, budget>>

\* Replica::create: write_initial_state cleans the log and writes a new one.
CreateRaft ==
    /\ At("raft")
    /\ raft' = raft \cup {op.r} /\ Goto("state")
    /\ UNCHANGED <<ident, rootDesc, meta, cf, node, destroy, reading, root, aborts, budget>>

CreateState ==
    /\ At("state")
    /\ meta' = [meta EXCEPT ![op.r] = "Initial"] /\ Goto("open")
    /\ UNCHANGED <<ident, rootDesc, raft, cf, node, destroy, reading, root, aborts, budget>>

\* open_group_engine: a column family without a descriptor, or a replica without
\* a column family, is a panic.  The engine of a new replica takes two writes.
OpenEngine ==
    /\ At("open")
    /\ \/ cf[op.r] = "ready" /\ Goto("start") /\ UNCHANGED <<disk, node, destroy, reading, aborts>>
       \/ /\ cf[op.r] = "none" /\ meta[op.r] # "Normal"
          /\ cf' = [cf EXCEPT ![op.r] = "bare"] /\ Goto("commit")
          /\ UNCHANGED <<ident, rootDesc, raft, meta, node, destroy, reading, aborts>>
       \/ cf[op.r] = "bare" /\ Abort("no descriptor") /\ UNCHANGED disk
       \/ cf[op.r] = "none" /\ meta[op.r] = "Normal" /\ Abort("no such group engine") /\ UNCHANGED disk
    /\ UNCHANGED <<root, budget>>

CreateEngine ==
    /\ At("commit")
    /\ \/ cf[op.r] = "bare" /\ cf' = [cf EXCEPT ![op.r] = "ready"] /\ Goto("start")
          /\ UNCHANGED <<node, destroy, reading, aborts>>
       \/ cf[op.r] = "none" /\ Abort("column family handle") /\ UNCHANGED cf
    /\ UNCHANGED <<ident, rootDesc, raft, meta, root, budget>>

ServeReplica_unsaved ==
    /\ At("start") /\ op.r \in raft
    /\ route' = op.r /\ serving' = serving \cup {op.r} /\ group' = TRUE
    /\ todo' = todo \ {op.r}
    /\ IF op.kind = "create" THEN Answer ELSE op' = NoOp /\ UNCHANGED acked
    /\ UNCHANGED <<disk, up, destroy, reading, sent, net, aborts, budget>>

\* start_raft_group, the route tables, and the state Normal.
ServeReplica ==
    /\ At("start") /\ op.r \in raft
    /\ route' = op.r /\ serving' = serving \cup {op.r} /\ group' = TRUE
    /\ todo' = todo \ {op.r}
    /\ meta' = [meta EXCEPT ![op.r] = "Normal"]
    /\ IF op.kind = "create" THEN Answer ELSE op' = NoOp /\ UNCHANGED acked
    /\ UNCHANGED <<ident, rootDesc, raft, cf, up, destroy, reading, sent, net, aborts, budget>>

\* Storage::open finds no state of the replica: the error ends the call.
ServeFails ==
    /\ At("start") /\ op.r \notin raft
    /\ op' = NoOp
    /\ UNCHANGED <<disk, node, destroy, reading, root, aborts, budget>>

-----------------------------------------------------------------------------
(* remove_replica *)

\* The replica is found by its group, shut down, and taken out of the tables.
remove_replica ==
    /\ At("find")
    /\ \/ route = 0 /\ Answer /\ UNCHANGED <<node, destroy, reading, aborts>>
       \/ /\ route # 0 /\ op.r \in serving
          /\ route' = 0 /\ group' = FALSE /\ serving' = serving \ {op.r} /\ Goto("terminate")
          /\ UNCHANGED <<up, todo, destroy, reading, acked, aborts>>
       \/ /\ route # 0 /\ op.r \notin serving
          /\ Abort("replica should exists before removing") /\ UNCHANGED acked
    /\ UNCHANGED <<disk, sent, net, budget>>

RemoveState ==
    /\ At("terminate")
    /\ meta' = [meta EXCEPT ![op.r] = "Terminated"]
    /\ destroy' = [destroy EXCEPT ![op.r] = "cf"]
    /\ Answer
    /\ UNCHANGED <<ident, rootDesc, raft, cf, node, reading, sent, net, aborts, budget>>

\* destory_replica, beside everything else.
DestroyCf(r) ==
    /\ destroy[r] = "cf"
    /\ cf' = [cf EXCEPT ![r] = "none"] /\ destroy' = [destroy EXCEPT ![r] = "raft"]
    /\ UNCHANGED <<ident, rootDesc, raft, meta, node, op, reading, root, aborts, budget>>

DestroyRaft_again(r) ==
    /\ destroy[r] = "raft"
    /\ raft' = raft \ {r} /\ destroy' = [destroy EXCEPT ![r] = "done"]
    /\ UNCHANGED <<ident, rootDesc, meta, cf, node, op, reading, root, aborts, budget>>

DestroyRaft(r) ==
    /\ destroy[r] = "raft"
    /\ raft' = raft \ {r} /\ destroy' = [destroy EXCEPT ![r] = "state"]
    /\ UNCHANGED <<ident, rootDesc, meta, cf, node, op, reading, root, aborts, budget>>

DestroyState(r) ==
    /\ destroy[r] = "state"
    /\ meta' = [meta EXCEPT ![r] = "Tombstone"] /\ destroy' = [destroy EXCEPT ![r] = "idle"]
    /\ UNCHANGED <<ident, rootDesc, raft, cf, node, op, reading, root, aborts, budget>>

\* A request is checked, and later reads the engine of its replica.
ReadStart ==
    /\ up = "up" /\ route # 0 /\ route \notin reading
    /\ Spend("reads")
    /\ reading' = reading \cup {route}
    /\ UNCHANGED <<disk, node, op, destroy, root, aborts>>

ReadEngine(r) ==
    /\ r \in reading
    /\ \/ cf[r] # "none" /\ reading' = reading \ {r} /\ UNCHANGED <<node, op, destroy, aborts>>
       \/ cf[r] = "none" /\ Abort("column family handle")
    /\ UNCHANGED <<disk, root, budget>>

Serve == OpenEngine \/ CreateEngine \/ ServeReplica
Create == check_replica_existence \/ CreateRaft \/ CreateState
Remove == remove_replica \/ RemoveState
Bootstrap == InitReplica \/ InitCluster \/ JoinIdent \/ JoinRoot \/ Boot \/ BootServe \/ BootDone
Destroy(r) == DestroyCf(r) \/ DestroyRaft(r) \/ DestroyState(r)

Next ==
    \/ Crash \/ InitReplica \/ InitCluster \/ JoinIdent \/ JoinRoot \/ Boot \/ BootServe \/ BootDone
    \/ Send \/ Resend \/ Start
    \/ check_replica_existence \/ CreateRaft \/ CreateState
    \/ OpenEngine \/ CreateEngine \/ ServeReplica \/ ServeFails
    \/ remove_replica \/ RemoveState
    \/ ReadStart
    \/ \E r \in Replicas : DestroyCf(r) \/ DestroyRaft(r) \/ DestroyState(r) \/ ReadEngine(r)

Spec == Init /\ [][Next]_vars

-----------------------------------------------------------------------------
\* The types of the state.
TypeOK ==
    /\ raft \subseteq Replicas /\ serving \subseteq Replicas /\ todo \subseteq Replicas
    /\ \A r \in Replicas :
        /\ meta[r] \in {"none", "Initial", "Normal", "Terminated", "Tombstone"}
        /\ cf[r] \in {"none", "bare", "ready"} /\ destroy[r] \in {"idle", "cf", "raft", "state"}
    /\ up \in {"down", "joining", "boot", "up"} /\ route \in Replicas \cup {0} /\ group \in BOOLEAN

Wants(r) == Call("create", r) \in acked /\ \A i \in DOMAIN sent : sent[i] # Call("remove", r)

\* A node serves one replica of a group, the one its tables lead to.
OneReplicaPerGroup ==
    /\ Cardinality(serving) <= 1
    /\ serving # {} <=> group
    /\ route # 0 <=> serving = {route}

\* While calls are not late, what is served is whole: its raft meta data, its
\* column family and its state, which the task that destroys an old replica shares
\* the disk with.
ServedIsWhole ==
    ~budget.late => \A r \in serving : cf[r] = "ready" /\ r \in raft /\ meta[r] = "Normal"

\* A replica whose creation was answered is served whenever the node is up, across
\* every crash, until the root has it removed.
CreatedIsServed == \A r \in Replicas : up = "up" /\ Wants(r) => r \in serving

\* What a removed replica leaves on disk is destroyed in the end, also when the
\* process stops between the answer and any step of the task that destroys it,
\* unless a panic has stopped the node.
RemovedIsGone ==
    \A r \in Replicas :
        Call("remove", r) \in acked => \/ meta[r] = "Tombstone" /\ cf[r] = "none" /\ r \notin raft
                                       \/ aborts # {} \/ budget.late

=============================================================================
