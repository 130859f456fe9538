----------------------------- MODULE MCReplica ------------------------------
(***************************************************************************)
(* A replica: a behaviour is one of RecordWrite (the latched writes of a   *)
(* transaction record, two of each kind), one of Execute (the admission of *)
(* requests beside descriptor changes), one of GroupEngine (the state      *)
(* machine and its checkpoints), one of RaftEngine (the log, its purge and *)
(* its recovery, with small files and small batches), or one of            *)
(* SnapManager (the snapshots of the replica on the disk of its node).     *)
(***************************************************************************)
EXTENDS RecordWrite, TLC

CONSTANTS b1, b2, c1, c2, a1, a2, Txn, Meta, NoTxn

VARIABLES
    part,    \* the component of the behaviour
    admission_pc, admission_queue, admission_epoch, admission_seen, admission_intent, admission_log,
    admission_stale, admission_cancels,
    engine_cf, engine_mem, engine_disk, engine_core, engine_obs, engine_pc, engine_snap,
    engine_ckpt, engine_jumped, engine_budget,
    log_disk, log_mts, log_hook, log_wr, log_pg, log_gid, log_cand, log_ref, log_stamp, log_raced,
    log_budget,
    snap_disk, snap_mgr, snap_bin, snap_applied, snap_truncated, snap_last, snap_creating, snap_task,
    snap_stream, snap_removed, snap_poisoned, snap_restarted, snap_budget

Ops == [q \in Req |-> IF q \in {b1, b2} THEN "begin" ELSE IF q \in {c1, c2} THEN "commit" ELSE "abort"]

\* GroupEngine: the entries of a log.
Entry(kind, shard) ==
    [kind |-> kind, shard |-> shard, other |-> 0, key |-> 0, keys |-> {1, 2}, epoch |-> 0, row |-> 0]
PutRow(r) == [Entry("put", 1) EXCEPT !.row = r]

\* A shard is created, written to, split and merged.
SplitLog ==
    << Entry("add", 1), PutRow(1), [Entry("split", 1) EXCEPT !.other = 2, !.key = 2], PutRow(2),
       [Entry("merge", 1) EXCEPT !.other = 2] >>

\* A shard is taken in after a move that was aborted, and moved out.
MoveLog ==
    << Entry("setup", 3), Entry("abort", 3), Entry("setup", 3), [Entry("ingest", 3) EXCEPT !.row = 3],
       Entry("commit", 3), [Entry("apply", 3) EXCEPT !.epoch = 4, !.keys = {3}], Entry("setup", 3) >>

OutLog == << Entry("add", 1), PutRow(1), Entry("setup", 1), Entry("commit", 1), Entry("apply", 1), Entry("add", 2) >>

EngineCase(entries, crashes, flushes, snapshots, checkpoints) ==
    [log |-> entries, crashes |-> crashes, flushes |-> flushes, snapshots |-> snapshots, checkpoints |-> checkpoints]

EngineScenarios == {
    EngineCase(SplitLog, 2, 3, 1, 1), EngineCase(MoveLog, 2, 2, 2, 1), EngineCase(OutLog, 2, 3, 1, 2)
}

\* RaftEngine: the batches of the writers.
Add(g, n, back) == [g |-> g, op |-> "append", n |-> n, back |-> back, k |-> "x", sync |-> FALSE]
AddPut(g, n) == [Add(g, n, 0) EXCEPT !.op = "append_put"]
Cut(g, n) == [Add(g, n, 0) EXCEPT !.op = "compact"]
Clean(g) == [Add(g, 0, 0) EXCEPT !.op = "clean", !.sync = TRUE]
PutKey(g) == [Add(g, 0, 0) EXCEPT !.op = "put"]
Drop(g) == [Add(g, 0, 0) EXCEPT !.op = "del"]

LogCase(scripts, stops, purges) ==
    [scripts |-> scripts, stops |-> stops, purges |-> purges, nospace |-> 0, fill |-> 1]

LogScenarios == {
    \* A group is written and compacted while it is purged
    LogCase(<<<<AddPut(1, 2), Add(1, 1, 0), Cut(1, 1), Add(1, 2, 1)>>>>, 1, 2),
    \* A group is removed and made again beside another one
    LogCase(<<<<AddPut(1, 2), Clean(1), AddPut(1, 1)>>, <<Add(2, 1, 0)>>>>, 1, 2),
    \* Space runs out
    [LogCase(<<<<Add(1, 2, 0), Add(1, 1, 1), Add(1, 1, 0)>>>>, 1, 1) EXCEPT !.nospace = 2],
    \* The rewrite queue is rewritten while the log is overwritten
    LogCase(<<<<AddPut(1, 3), PutKey(1), PutKey(1), Add(1, 2, 2)>>>>, 1, 2),
    \* Larger files
    [LogCase(<<<<AddPut(1, 3), PutKey(1), PutKey(1), Cut(1, 1), PutKey(1), Add(1, 2, 1)>>>>, 1, 2) EXCEPT !.fill = 2],
    \* A heavy group does not compact
    LogCase(<<<<Add(1, 3, 0), PutKey(1), PutKey(1), Add(1, 1, 0), PutKey(1)>>>>, 0, 3),
    \* Keys are deleted and put again
    LogCase(<<<<PutKey(1), Drop(1), PutKey(1)>>, <<PutKey(2), Clean(2)>>>>, 1, 1)
}

\* SnapManager: snapshots are created, downloaded and sent, the replica is removed, the node restarted.
SnapCase(creates, downloads, sends, removes, restarts) ==
    [creates |-> creates, downloads |-> downloads, sends |-> sends, removes |-> removes, restarts |-> restarts]

SnapScenarios == {SnapCase(1, 1, 1, 1, 1), SnapCase(2, 0, 2, 0, 1), SnapCase(0, 2, 1, 0, 0)}

Admission == INSTANCE Execute WITH
    pc <- admission_pc, aclQueue <- admission_queue, epoch <- admission_epoch, seen <- admission_seen,
    intent <- admission_intent, proposals <- admission_log, stale <- admission_stale,
    cancels <- admission_cancels, Txn <- Txn, Meta <- Meta, NoTxn <- NoTxn, MaxCancel <- 1
admissionVars ==
    <<admission_pc, admission_queue, admission_epoch, admission_seen, admission_intent,
      admission_log, admission_stale, admission_cancels>>

Engine == INSTANCE GroupEngine WITH
    cf <- engine_cf, mem <- engine_mem, disk <- engine_disk, core <- engine_core, obs <- engine_obs,
    pc <- engine_pc, snap <- engine_snap, ckpt <- engine_ckpt, jumped <- engine_jumped,
    budget <- engine_budget, Scenarios <- EngineScenarios
engineVars ==
    <<engine_cf, engine_mem, engine_disk, engine_core, engine_obs, engine_pc, engine_snap,
      engine_ckpt, engine_jumped, engine_budget>>

Log == INSTANCE RaftEngine WITH
    disk <- log_disk, mts <- log_mts, hook <- log_hook, wr <- log_wr, pg <- log_pg, gid <- log_gid,
    cand <- log_cand, ref <- log_ref, stamp <- log_stamp, raced <- log_raced, budget <- log_budget,
    Regions <- {1, 2}, Keys <- {"x"}, MaxGroup <- 4, AppendLimit <- 2, RewriteLimit <- 1,
    BatchLimit <- 1, MaxRewriteEntries <- 4, MaxForce <- 1, RecoveryThreads <- 4,
    Scenarios <- LogScenarios
logVars ==
    <<log_disk, log_mts, log_hook, log_wr, log_pg, log_gid, log_cand, log_ref, log_stamp, log_raced,
      log_budget>>

Snaps == INSTANCE SnapManager WITH
    disk <- snap_disk, mgr <- snap_mgr, bin <- snap_bin, applied <- snap_applied,
    truncated <- snap_truncated, last <- snap_last, creating <- snap_creating, task <- snap_task,
    stream <- snap_stream, removed <- snap_removed, poisoned <- snap_poisoned,
    restarted <- snap_restarted, budget <- snap_budget, ReplicaId <- 1, Base <- 2, MaxIndex <- 3,
    Downloads <- {"d1", "d2"}, Streams <- {"s1"}, Scenarios <- SnapScenarios
snapVars ==
    <<snap_disk, snap_mgr, snap_bin, snap_applied, snap_truncated, snap_last, snap_creating, snap_task,
      snap_stream, snap_removed, snap_poisoned, snap_restarted, snap_budget>>

\* The components that do not run keep one initial state.
MCInit ==
    /\ part \in {"record", "admission", "engine", "log", "snaps"}
    /\ Init
    /\ Admission!AdmitInit
    /\ Engine!Init
    /\ part # "engine" => engine_budget = CHOOSE b \in EngineScenarios : TRUE
    /\ Log!Init
    /\ part # "log" => log_budget.nospace = 2
    /\ Snaps!Init
    /\ part # "snaps" => snap_budget.removes = 1

MCNext ==
    \/ /\ part = "record" /\ Next
       /\ UNCHANGED <<part, admissionVars, engineVars, logVars, snapVars>>
    \/ /\ part = "admission" /\ Admission!AdmitNext
       /\ UNCHANGED <<part, vars, engineVars, logVars, snapVars>>
    \/ /\ part = "engine" /\ Engine!Next
       /\ UNCHANGED <<part, vars, admissionVars, logVars, snapVars>>
    \/ /\ part = "log" /\ Log!Next
       /\ UNCHANGED <<part, vars, admissionVars, engineVars, snapVars>>
    \/ /\ part = "snaps" /\ Snaps!Next
       /\ UNCHANGED <<part, vars, admissionVars, engineVars, logVars>>

MCSpec == MCInit /\ [][MCNext]_<<part, vars, admissionVars, engineVars, logVars, snapVars>>

\* A request that changes the descriptor holds meta_acl alone, and what a request found out about the
\* descriptor still holds when its proposal is applied, as long as no request is cancelled: no descriptor
\* change gets in between (Replica::execute).
AdmissionIsFenced == part = "admission" => Admission!WriterExcludes /\ Admission!EpochFenced

\* However the entries are cut into batches, flushed, lost in a crash, applied
\* again or jumped over by a snapshot, the rows, the descriptor and the state of a
\* move are those of the entries up to the applied index, applied one at a time.
StoreIsReplay == part = "engine" => Engine!StoreIsReplay

\* The cached states, which requests are evaluated against, are those of the
\* column family, but for the state of a move that a snapshot has ended.
CoreAgrees == part = "engine" => Engine!CoreAgrees

\* The replica's lease is told of every change of the descriptor, and of every
\* change of the state of a move but those within a snapshot.
ObserverIsTold == part = "engine" => Engine!ObserverIsTold

\* A checkpoint taken beside batches holds just the entries up to the index that
\* its meta data names.
CheckpointIsConsistent == part = "engine" => Engine!CheckpointIsConsistent

\* Snapshots are kept as long as someone needs them, until the first restart: what is listed or sent is
\* whole, raft applies the snapshot it took, and a node that stops before its log is reset can go on
\* (raftgroup/snap, worker.rs, node.rs).
SnapshotsAreKept == part = "snaps" => Snaps!SnapshotsAreKept

\* The entries that the group has committed can be applied: the state a move event
\* needs is there, also when it comes from an entry of the same batch.
EntriesApply == part = "engine" => Engine!EntriesApply

\* Wherever the engine stops, opening it again (Engine::open_with) brings back
\* the entries and keys that are in its files, whatever a purge was doing: only
\* what a lost batch has replaced may be missing, no entry follows the end of
\* the log, and no group that was cleaned comes back.  A batch that is applied
\* while its file is rewritten is left out (see LocationsAreTrue).
NothingIsLost == part = "log" => Log!NothingIsLost

\* The same, but for a batch that is applied while its file is rewritten.
LocationsAreLive == part = "log" => Log!LocationsAreLive

\* A writer reads back what it wrote, with the purge anywhere in its work.
WritersSeeTheirWrites == part = "log" => Log!WritersSeeTheirWrites

\* The files of a queue may be replayed in chunks by machines of their own:
\* their merged state is the same as when they are replayed by one machine
\* (the contract of ReplayMachine).
ChunksAgree == part = "log" => Log!ChunksAgree

\* The state machine of a replica is the replay of its log: what it stores, caches, tells the replica and
\* puts into a checkpoint, through batches, flushes, crashes and snapshots (fsm/mod.rs, engine/group.rs).
StateIsReplay ==
    /\ part = "engine" => Engine!TypeOK
    /\ StoreIsReplay /\ CoreAgrees /\ ObserverIsTold /\ EntriesApply /\ CheckpointIsConsistent

\* raft-engine keeps the logs: whatever a purge is doing, opening it again brings everything back, the
\* tables lead to what is in the files, and writers read what they wrote (purge.rs, memtable.rs).
LogsAreKept ==
    /\ part = "log" => Log!TypeOK
    /\ NothingIsLost /\ LocationsAreLive /\ WritersSeeTheirWrites /\ ChunksAgree
=============================================================================
