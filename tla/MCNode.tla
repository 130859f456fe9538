------------------------------- MODULE MCNode -------------------------------
(***************************************************************************)
(* What runs inside a node: a behaviour is one of RowLatch (the latches    *)
(* of a replica: two batch writes over the same two keys, a resolver and a *)
(* commit of one of the keys), one of NodeLifecycle (replicas that are     *)
(* created, removed and served again after a crash), one of WriteBarrier   *)
(* (the group commit of raft-engine), or one of WatchKey (a watch of a     *)
(* key through moves of its shard).                                        *)
(***************************************************************************)
EXTENDS RowLatch

CONSTANTS w1, w2, wi, ci

VARIABLES
    part,    \* the component of the behaviour
    node_ident, node_rootDesc, node_raft, node_meta, node_cf, node_up, node_todo, node_serving,
    node_group, node_route, node_op, node_destroy, node_reading, node_sent, node_net, node_acked,
    node_aborts, node_budget,
    barrier_head, barrier_tail, barrier_pending_leader, barrier_pending_index, barrier_next,
    barrier_pc, barrier_group, barrier_output, barrier_sync, barrier_attempt, barrier_todo,
    barrier_log, barrier_synced, barrier_acked, barrier_nospace,
    watch_glog, watch_applied, watch_triggered, watch_leader, watch_reg, watch_hub, watch_stream,
    watch_router, watch_cl, watch_gap, watch_budget


\* RowLatch: latches are held in pairs, handed over and given away.
MCReq == {w1, w2, wi, ci}
MCKeysOf == [r \in MCReq |-> IF r \in {w1, w2} THEN <<1, 2>> ELSE <<2>>]
MCResolver == {wi}
MCSignaller == {ci}

\* NodeLifecycle: a node that joins has its replica replaced; a node that starts the cluster
\* has its first replica removed and gets another one; and the same with late calls.
ToReplica(kind, r) == [kind |-> kind, r |-> r]
Replace == << ToReplica("create", 1), ToReplica("remove", 1), ToReplica("create", 2) >>
NodeScenarios == {
    [script |-> Replace, init |-> FALSE, late |-> FALSE, crashes |-> 3, reads |-> 0],
    [script |-> Tail(Replace), init |-> TRUE, late |-> FALSE, crashes |-> 3, reads |-> 1],
    [script |-> Replace, init |-> FALSE, late |-> TRUE, crashes |-> 1, reads |-> 1]}

\* WriteBarrier: three writers, of which two write a second batch or find no space.
Writers == {"w1", "w2", "w3"}
WritePlans == {
    [todo |-> [w \in Writers |-> <<w = "w1", FALSE>>], nospace |-> 0],
    [todo |-> [w \in Writers |-> <<w = "w2">>], nospace |-> 2]}

\* WatchKey: a watch from the start and from a later version, beside writes, a move of the
\* shard, changes of the leader, and a replica that is sent a snapshot.
WatchCase(from, moves, transfers, snapshots) ==
    [tables |-> {1}, from |-> from, moves |-> moves, transfers |-> transfers,
     snapshots |-> snapshots, greater |-> FALSE]
WatchScenarios == {WatchCase(0, 1, 0, 0), WatchCase(2, 1, 1, 0), WatchCase(0, 0, 1, 1)}

Node == INSTANCE NodeLifecycle WITH
    ident <- node_ident, rootDesc <- node_rootDesc, raft <- node_raft, meta <- node_meta,
    cf <- node_cf, up <- node_up, todo <- node_todo, serving <- node_serving, group <- node_group,
    route <- node_route, op <- node_op, destroy <- node_destroy, reading <- node_reading,
    sent <- node_sent, net <- node_net, acked <- node_acked, aborts <- node_aborts,
    budget <- node_budget, Replicas <- {1, 2}, Scenarios <- NodeScenarios
nodeVars ==
    <<node_ident, node_rootDesc, node_raft, node_meta, node_cf, node_up, node_todo, node_serving,
      node_group, node_route, node_op, node_destroy, node_reading, node_sent, node_net, node_acked,
      node_aborts, node_budget>>

Barrier == INSTANCE WriteBarrier WITH
    head <- barrier_head, tail <- barrier_tail, pending_leader <- barrier_pending_leader,
    pending_index <- barrier_pending_index, next <- barrier_next, pc <- barrier_pc,
    group <- barrier_group, output <- barrier_output, sync <- barrier_sync,
    attempt <- barrier_attempt, todo <- barrier_todo, log <- barrier_log, synced <- barrier_synced,
    acked <- barrier_acked, nospace <- barrier_nospace, Writers <- Writers, MaxAttempts <- 2,
    Plans <- WritePlans
barrierVars ==
    <<barrier_head, barrier_tail, barrier_pending_leader, barrier_pending_index, barrier_next,
      barrier_pc, barrier_group, barrier_output, barrier_sync, barrier_attempt, barrier_todo,
      barrier_log, barrier_synced, barrier_acked, barrier_nospace>>

Watch == INSTANCE WatchKey WITH
    glog <- watch_glog, applied <- watch_applied, triggered <- watch_triggered,
    leader <- watch_leader, reg <- watch_reg, hub <- watch_hub, stream <- watch_stream,
    router <- watch_router, cl <- watch_cl, gap <- watch_gap, budget <- watch_budget,
    MaxVersion <- 2, Scenarios <- WatchScenarios
watchVars ==
    <<watch_glog, watch_applied, watch_triggered, watch_leader, watch_reg, watch_hub, watch_stream,
      watch_router, watch_cl, watch_gap, watch_budget>>

\* The components that do not run keep one initial state.
MCInit ==
    /\ part \in {"latch", "node", "barrier", "watch"}
    /\ Init
    /\ Node!Init
    /\ part # "node" => node_budget = CHOOSE b \in NodeScenarios : TRUE
    /\ Barrier!Init
    /\ part # "barrier" => barrier_nospace = 0
    /\ Watch!Init
    /\ part # "watch" => watch_budget = CHOOSE b \in WatchScenarios : TRUE

MCNext ==
    \/ /\ part = "latch" /\ Next
       /\ UNCHANGED <<part, nodeVars, barrierVars, watchVars>>
    \/ /\ part = "node" /\ Node!Next
       /\ UNCHANGED <<part, vars, barrierVars, watchVars>>
    \/ /\ part = "barrier" /\ Barrier!Next
       /\ UNCHANGED <<part, vars, nodeVars, watchVars>>
    \/ /\ part = "watch" /\ Watch!Next
       /\ UNCHANGED <<part, vars, nodeVars, barrierVars>>

MCSpec == MCInit /\ [][MCNext]_<<part, vars, nodeVars, barrierVars, watchVars>>

(* The runtime polls every future that can make progress.  Nothing is     *)
(* assumed of cancellation or of how long a transaction stays running.     *)
latchFairness ==
    \A r \in Req : WF_vars(part = "latch" /\ Step(r))

\* The process is started again, its tasks run, and the root sends again.
nodeFairness ==
    /\ WF_nodeVars(part = "node" /\ Node!Bootstrap)
    /\ WF_nodeVars(part = "node" /\ Node!Create)
    /\ WF_nodeVars(part = "node" /\ Node!Serve)
    /\ WF_nodeVars(part = "node" /\ Node!ServeFails)
    /\ WF_nodeVars(part = "node" /\ Node!Remove)
    /\ WF_nodeVars(part = "node" /\ Node!Send)
    /\ WF_nodeVars(part = "node" /\ Node!Resend)
    /\ WF_nodeVars(part = "node" /\ Node!Start)
    /\ \A r \in {1, 2} :
        /\ WF_nodeVars(part = "node" /\ Node!Destroy(r))
        /\ WF_nodeVars(part = "node" /\ Node!ReadEngine(r))

\* Every thread runs.
barrierFairness ==
    \A w \in Writers : WF_barrierVars(part = "barrier" /\ Barrier!Step(w))

\* The replicas apply what is committed, the node's task and the client's task run.
watchFairness ==
    /\ \A h \in Watch!Hosts :
        /\ WF_watchVars(part = "watch" /\ Watch!Commit(h))
        /\ WF_watchVars(part = "watch" /\ Watch!trigger_updation_watchers(h))
    /\ WF_watchVars(part = "watch" /\ Watch!Register)
    /\ WF_watchVars(part = "watch" /\ Watch!Scan)
    /\ WF_watchVars(part = "watch" /\ Watch!Events)
    /\ WF_watchVars(part = "watch" /\ Watch!RouterRefresh)
    /\ WF_watchVars(part = "watch" /\ Watch!Open)
    /\ WF_watchVars(part = "watch" /\ Watch!Receive)
    /\ WF_watchVars(part = "watch" /\ Watch!Reopen)

MCFairSpec == MCSpec /\ latchFairness /\ nodeFairness /\ barrierFairness /\ watchFairness

(* Latches taken in sorted order never block each other for good: every   *)
(* request that waits for a latch gets it or is cancelled                  *)
(* (acquire_row_latches).                                                  *)
LatchProgress == \A r \in Req : []<>(part = "latch" => WaitsForNone(r))

\* A node serves one replica of a group, the one its tables lead to.
OneReplicaPerGroup == part = "node" => Node!OneReplicaPerGroup

\* While calls are not late, what is served is whole: its raft meta data, its
\* column family and its state, which the task that destroys an old replica shares
\* the disk with.
ServedIsWhole == part = "node" => Node!ServedIsWhole

\* A replica whose creation was answered is served whenever the node is up, across
\* every crash, until the root has it removed.
CreatedIsServed == part = "node" => Node!CreatedIsServed

\* What a removed replica leaves on disk is destroyed in the end, also when the
\* process stops between the answer and any step of the task that destroys it,
\* unless a panic has stopped the node.
RemovedIsDestroyed == []<>(part = "node" => Node!RemovedIsGone)

\* The writers that pointers lead to are alive: the tail that a new writer is
\* linked to, and the ones that a leader walks over (WriterIter::next), have
\* not left the barrier, whose code is unsafe about it.
NoDanglingWriter == part = "barrier" => Barrier!NoDanglingWriter

\* A writer that leaves the barrier has been processed: the unwrap of its
\* output (Writer::finish) finds one.
LeavesProcessed == part = "barrier" => Barrier!LeavesProcessed

\* Groups follow each other: one leader works at a time.
OneGroupAtATime == part = "barrier" => Barrier!OneGroupAtATime

\* A write that has returned Ok is in the file exactly once, and is synced if it
\* was to be, whoever led its group; one that failed is not there.
AckedIsWritten == part = "barrier" => Barrier!AckedIsWritten

\* Every write returns: no follower and no leader waits for a wake-up that has
\* gone to somebody else.
WritesReturn == \A w \in Writers : []<>(part = "barrier" => Barrier!Returned(w))

\* The node registers the watcher before it scans, and the state machine takes in
\* waiting watchers before it fires a batch: whatever the interleaving of a commit,
\* the registration and the scan, and through moves of the shard and changes of the
\* leader, no version is left out, and the last one the user is given is the
\* newest, unless a snapshot has skipped entries of the replica that is watched.
NothingIsMissed == part = "watch" => Watch!NothingIsMissed

\* "The values below this version are ignored": the user is given no version
\* below the one that was asked for, from the scan or from a watcher.
OldVersionsAreIgnored == part = "watch" => Watch!OldVersionsAreIgnored

\* A version that is committed reaches the user, also when the shard moves away
\* from the group that is watched: the watchers of a shard that moves out are
\* dropped, so the stream ends and the client looks the shard up again.
UpdatesArrive == []<>(part = "watch" => Watch!AllArrived)

\* The replicas of a node are whole: one per group, with all that it needs on disk, and served from the
\* answer to its creation to its removal, whenever the process stops (node/mod.rs, bootstrap.rs).
ReplicasAreWhole ==
    /\ part = "node" => Node!TypeOK
    /\ OneReplicaPerGroup /\ ServedIsWhole /\ CreatedIsServed

\* The write barrier is sound: one leader works at a time, reaches only writers that are still there,
\* and has done the work of all of them when they leave (write_barrier.rs, engine.rs).
WritesAreWhole ==
    /\ part = "barrier" => Barrier!TypeOK
    /\ NoDanglingWriter /\ LeavesProcessed /\ OneGroupAtATime /\ AckedIsWritten

\* A watch of a key is complete, and starts at the version that was asked for (WatchHub, txn.rs).
WatchIsComplete ==
    /\ part = "watch" => Watch!TypeOK
    /\ NothingIsMissed /\ OldVersionsAreIgnored

\* What is started ends: waiting for latches, the destruction of removed replicas, writes of the log,
\* and the way of a version to those who watch its key.
TasksEnd == LatchProgress /\ RemovedIsDestroyed /\ WritesReturn /\ UpdatesArrive
=============================================================================
