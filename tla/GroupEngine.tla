---------------------------- MODULE GroupEngine ----------------------------
(***************************************************************************)
(* The state machine of one replica and the engine that it writes to:      *)
(* src/server/src/replica/fsm/mod.rs applies the committed entries in      *)
(* batches ("plugs"), src/server/src/engine/group.rs keeps the rows, the   *)
(* descriptor, the state of a move and the applied index in one column     *)
(* family and caches the descriptor and the state of the move.  A batch is *)
(* written without the write-ahead log, so a crash takes the column family *)
(* back to what was flushed, and the entries after it are applied again.   *)
(* A snapshot replaces the column family (drop, create, ingest), and a     *)
(* checkpoint reads it (src/server/src/replica/fsm/checkpoint.rs) beside   *)
(* the batches.                                                            *)
(***************************************************************************)
EXTENDS Integers, FiniteSets, SequencesExt

CONSTANTS
    Scenarios   \* log: the committed entries; crashes, flushes, snapshots, checkpoints

VARIABLES
    cf,         \* the column family: "none", "bare" (without states) or "ready"
    mem, disk,  \* what it holds, and what of it is flushed
    core,       \* GroupEngineCore: the cached descriptor and state of the move
    obs,        \* what the observer of the replica (LeaseState) was told
    pc,         \* "create", "closed", "open", the steps of an ingest, "panicked"
    snap,       \* the snapshot being ingested: the index it was taken at
    ckpt,       \* the checkpoint: its iterator, then the files it has written
    jumped,     \* a snapshot has been ingested since the engine was opened
    budget

vars == <<cf, mem, disk, core, obs, pc, snap, ckpt, jumped, budget>>

Spend(f) == budget[f] > 0 /\ budget' = [budget EXCEPT ![f] = @ - 1]
Log == budget.log

NoMove == [shard |-> 0, step |-> "none"]
Desc(epoch, shards) == [epoch |-> epoch, shards |-> shards]
NewDesc == Desc(1, <<>>)
Contents(index, rows, desc, mv) == [index |-> index, rows |-> rows, desc |-> desc, mv |-> mv]
Fresh == Contents(0, {}, NewDesc, NoMove)
CoreOf(c) == [desc |-> c.desc, mv |-> c.mv]
Blank == [desc |-> NewDesc, mv |-> NoMove]
NoCkpt == [pc |-> "idle", view |-> Fresh, index |-> 0]

Init ==
    /\ budget \in Scenarios
    /\ cf = "none" /\ pc = "create"
    /\ mem = Fresh /\ disk = Fresh
    /\ core = Blank /\ obs = Blank
    /\ snap = 0 /\ ckpt = NoCkpt /\ jumped = FALSE

-----------------------------------------------------------------------------
(* Descriptors.  A shard is the set of its keys, under its id. *)

Has(desc, id) == id \in DOMAIN desc.shards
Without(shards, ids) == [i \in DOMAIN shards \ ids |-> shards[i]]
With(shards, id, range) == [i \in DOMAIN shards \cup {id} |-> IF i = id THEN range ELSE shards[i]]

\* apply_split_shard: the old shard keeps the keys below the split key.
CanSplit(desc, e) == Has(desc, e.shard) /\ e.key \in desc.shards[e.shard]
apply_split_shard(desc, e) ==
    LET range == desc.shards[e.shard]
    IN Desc(desc.epoch + 1,
            With(With(desc.shards, e.shard, {k \in range : k < e.key}), e.other, {k \in range : k >= e.key}))

\* apply_merge_shard: the left shard takes the keys of the right one.
CanMerge(desc, e) ==
    /\ Has(desc, e.shard) /\ Has(desc, e.other)
    /\ \A k \in desc.shards[e.shard], l \in desc.shards[e.other] : k < l
apply_merge_shard(desc, e) ==
    Desc(desc.epoch + 1,
         With(Without(desc.shards, {e.other}), e.shard, desc.shards[e.shard] \cup desc.shards[e.other]))

GreaterOf(a, b) == IF a > b THEN a ELSE b

\* apply_moving_shard: the epoch is past those of both groups.
apply_moving_shard(desc, e) ==
    Desc(GreaterOf(desc.epoch, e.epoch) + 1,
         IF Has(desc, e.shard) THEN Without(desc.shards, {e.shard}) ELSE With(desc.shards, e.shard, e.keys))

-----------------------------------------------------------------------------
(* A plug: the batches and states of the entries since start_plug *)

Plug == [rows |-> {}, desc |-> <<>>, mv |-> <<>>, index |-> 0, descUpdated |-> FALSE,
         mvUpdated |-> FALSE, panic |-> FALSE]
Panics(p) == [p EXCEPT !.panic = TRUE]

\* GroupStateMachine::descriptor: the one of the plug before the cached one.
PluggedDesc_cached(p) == core.desc
PluggedDesc(p) == IF p.desc = <<>> THEN core.desc ELSE p.desc[1]

must_move_shard_state(p) == IF p.mv = <<>> THEN core.mv ELSE p.mv[1]

ChangeDesc(p, desc) == [p EXCEPT !.desc = <<desc>>, !.descUpdated = TRUE]
ChangeMove(p, mv, told) ==
    [p EXCEPT !.mv = <<mv>>, !.desc = <<PluggedDesc(p)>>, !.mvUpdated = @ \/ told]

\* The events that follow a Setup need a state, and assert its step.
StepOf(p, e, steps, step) ==
    LET mv == must_move_shard_state(p)
    IN IF mv.step \notin steps THEN Panics(p)
       ELSE ChangeMove(p, [mv EXCEPT !.step = step], step # "Moving" \/ mv.step = "Prepare")

apply_move_shard_event(p, e) ==
    CASE e.kind = "setup" -> ChangeMove(p, [shard |-> e.shard, step |-> "Prepare"], TRUE)
      [] e.kind = "ingest" -> StepOf([p EXCEPT !.rows = @ \cup {e.row}], e, {"Prepare", "Moving"}, "Moving")
      [] e.kind = "commit" -> StepOf(p, e, {"Prepare", "Moving"}, "Moved")
      [] e.kind = "abort" -> StepOf(p, e, {"Prepare"}, "Aborted")
      [] e.kind = "apply" ->
            LET q == StepOf(p, e, {"Moved"}, "Finished")
            IN IF q.panic THEN q ELSE ChangeDesc(q, apply_moving_shard(PluggedDesc(p), e))

apply_proposal(p, e) ==
    CASE e.kind = "put" -> [p EXCEPT !.rows = @ \cup {e.row}]
      [] e.kind = "add" ->
            LET desc == PluggedDesc(p)
            IN IF Has(desc, e.shard) THEN Panics(p)   \* todo!("shard {} already existed in group")
               ELSE ChangeDesc(p, Desc(desc.epoch + 1, With(desc.shards, e.shard, e.keys)))
      [] e.kind = "split" ->
            IF CanSplit(PluggedDesc(p), e) THEN ChangeDesc(p, apply_split_shard(PluggedDesc(p), e)) ELSE Panics(p)
      [] e.kind = "merge" ->
            IF CanMerge(PluggedDesc(p), e) THEN ChangeDesc(p, apply_merge_shard(PluggedDesc(p), e)) ELSE Panics(p)
      [] OTHER -> apply_move_shard_event(p, e)

ApplyEntry(p, e) == IF p.panic THEN p ELSE [apply_proposal(p, e) EXCEPT !.index = p.index + 1]

\* The plug of the entries after the one at index from, up to the one at index to.
PlugOf(from, to) ==
    FoldLeft(LAMBDA p, e : ApplyEntry(p, e), [Plug EXCEPT !.index = from], SubSeq(Log, from + 1, to))

-----------------------------------------------------------------------------
(* The engine *)

Over(mv) == mv.step \in {"Finished", "Aborted"}

\* WriteStates::write: the states go in one batch with the rows; the state of a
\* move that is over is deleted.
WriteStates(c, p) ==
    Contents(p.index, c.rows \cup p.rows,
             IF p.desc = <<>> THEN c.desc ELSE p.desc[1],
             IF p.mv = <<>> THEN c.mv ELSE IF Over(p.mv[1]) THEN NoMove ELSE p.mv[1])

\* apply_core_states, with what is given of the two.
apply_core_states_over(c, desc, mv) ==
    [desc |-> IF desc = <<>> THEN c.desc ELSE desc[1],
     mv |-> IF mv = <<>> THEN c.mv ELSE mv[1]]
apply_core_states(c, desc, mv) ==
    [desc |-> IF desc = <<>> THEN c.desc ELSE desc[1],
     mv |-> IF mv = <<>> THEN c.mv ELSE IF Over(mv[1]) THEN NoMove ELSE mv[1]]

\* flush_updated_events: the observer is told what has changed.
flush_updated_events(p, c) ==
    [desc |-> IF p.descUpdated THEN c.desc ELSE obs.desc,
     mv |-> IF p.mvUpdated THEN c.mv ELSE obs.mv]

\* create: the column family, then its states, synced and flushed.
CreateCf ==
    /\ pc = "create" /\ cf = "none"
    /\ cf' = "bare"
    /\ UNCHANGED <<mem, disk, core, obs, pc, snap, ckpt, jumped, budget>>

CreateCommit ==
    /\ pc = "create" /\ cf = "bare"
    /\ cf' = "ready" /\ pc' = "open"
    /\ mem' = Fresh /\ disk' = Fresh /\ core' = Blank /\ obs' = Blank
    /\ UNCHANGED <<snap, ckpt, jumped, budget>>

\* start_plug, apply for each entry, finish_plug.
ApplyBatch ==
    /\ pc = "open"
    /\ \E n \in mem.index + 1 .. Len(Log) :
         LET p == PlugOf(mem.index, n) IN
         \/ p.panic /\ pc' = "panicked" /\ UNCHANGED <<mem, core, obs>>
         \/ /\ ~p.panic
            /\ mem' = WriteStates(mem, p)
            /\ core' = apply_core_states(core, p.desc, p.mv)
            /\ obs' = flush_updated_events(p, core')
            /\ UNCHANGED pc
    /\ UNCHANGED <<cf, disk, snap, ckpt, jumped, budget>>

\* The memtable of the column family is flushed.
Flush ==
    /\ pc = "open" /\ disk # mem
    /\ Spend("flushes")
    /\ disk' = mem
    /\ UNCHANGED <<cf, mem, core, obs, pc, snap, ckpt, jumped>>

\* The process stops: what was not flushed is gone, and so is a checkpoint.
Crash ==
    /\ pc # "closed" /\ pc # "panicked"
    /\ Spend("crashes")
    /\ mem' = IF cf = "ready" THEN disk ELSE Fresh
    /\ disk' = mem'
    /\ pc' = IF pc = "create" /\ cf = "none" THEN "create" ELSE "closed"
    /\ core' = Blank /\ obs' = Blank /\ jumped' = FALSE
    /\ ckpt' = NoCkpt /\ snap' = 0
    /\ UNCHANGED cf

\* open, and the observer that the replica is started with.  It expects a
\* descriptor in a column family that exists, and a replica to have one.
Open ==
    /\ pc = "closed"
    /\ IF cf = "ready"
       THEN pc' = "open" /\ core' = CoreOf(mem) /\ obs' = CoreOf(mem)
       ELSE pc' = "panicked" /\ UNCHANGED <<core, obs>>
    /\ UNCHANGED <<cf, mem, disk, snap, ckpt, jumped, budget>>

-----------------------------------------------------------------------------
(* Snapshots *)

\* What a replica has when it has applied the first n entries, one at a time:
\* the promise of a snapshot, and the reference for the engine.
ApplyOne(c, e) ==
    LET d == c.desc
        move(step) == [shard |-> e.shard, step |-> step]
    IN [index |-> c.index + 1,
        rows |-> c.rows \cup (IF e.kind \in {"put", "ingest"} THEN {e.row} ELSE {}),
        mv |-> CASE e.kind = "setup" -> move("Prepare") [] e.kind = "ingest" -> move("Moving")
                 [] e.kind = "commit" -> move("Moved") [] e.kind \in {"apply", "abort"} -> NoMove
                 [] OTHER -> c.mv,
        desc |-> CASE e.kind = "add" -> Desc(d.epoch + 1, With(d.shards, e.shard, e.keys))
                   [] e.kind = "split" -> apply_split_shard(d, e)
                   [] e.kind = "merge" -> apply_merge_shard(d, e)
                   [] e.kind = "apply" -> apply_moving_shard(d, e)
                   [] OTHER -> d]
StateAt(n) == FoldLeft(LAMBDA c, e : ApplyOne(c, e), Fresh, SubSeq(Log, 1, n))

\* apply_snapshot of a newer snapshot, ingest: the old column family is dropped,
IngestDrop ==
    /\ pc = "open"
    /\ Spend("snapshots")
    /\ \E n \in mem.index + 1 .. Len(Log) : snap' = n
    /\ pc' = "dropped" /\ cf' = "none"
    /\ UNCHANGED <<mem, disk, core, obs, ckpt, jumped>>

\* an empty one takes its place,
IngestCreate ==
    /\ pc = "dropped"
    /\ pc' = "created" /\ cf' = "bare"
    /\ UNCHANGED <<mem, disk, core, obs, snap, ckpt, jumped, budget>>

\* the files are taken in, the cache is brought up to date with what they hold,
\* and the observer is told of the descriptor.
Ingest ==
    /\ pc = "created"
    /\ cf' = "ready" /\ pc' = "open"
    /\ mem' = StateAt(snap) /\ disk' = mem'
    /\ LET mv == IF mem'.mv = NoMove THEN <<>> ELSE <<mem'.mv>> IN
       core' = apply_core_states(core, <<mem'.desc>>, mv)
    /\ obs' = [obs EXCEPT !.desc = core'.desc]
    /\ snap' = 0 /\ jumped' = TRUE
    /\ UNCHANGED <<ckpt, budget>>

\* checkpoint: the iterator is a view of the column family at one moment; it fails
\* when the column family is not there, or has no states.
CheckpointStart ==
    /\ ckpt.pc = "idle" /\ pc \in {"open", "dropped", "created"}
    /\ Spend("checkpoints")
    /\ ckpt' = IF cf = "ready" THEN [pc |-> "reading", view |-> mem, index |-> 0]
               ELSE [NoCkpt EXCEPT !.pc = "failed"]
    /\ UNCHANGED <<cf, mem, disk, core, obs, pc, snap, jumped>>

SnapshotIndex_late == mem.index
SnapshotIndex == ckpt.view.index

CheckpointFinish ==
    /\ ckpt.pc = "reading" /\ pc # "closed"
    /\ ckpt' = [ckpt EXCEPT !.pc = "done", !.index = SnapshotIndex]
    /\ UNCHANGED <<cf, mem, disk, core, obs, pc, snap, jumped, budget>>

Next ==
    \/ CreateCf \/ CreateCommit \/ ApplyBatch \/ Flush \/ Crash \/ Open
    \/ IngestDrop \/ IngestCreate \/ Ingest
    \/ CheckpointStart \/ CheckpointFinish

Spec == Init /\ [][Next]_vars

-----------------------------------------------------------------------------
\* The types of the state; what is flushed is never ahead of what is written.
TypeOK ==
    /\ cf \in {"none", "bare", "ready"}
    /\ pc \in {"create", "closed", "open", "dropped", "created", "panicked"}
    /\ mem.index \in 0 .. Len(Log) /\ disk.index \in 0 .. mem.index
    /\ core.mv.step \in {"none", "Prepare", "Moving", "Moved"}
    /\ ckpt.pc \in {"idle", "reading", "done", "failed"}

\* However the entries are cut into batches, flushed, lost in a crash, applied
\* again or jumped over by a snapshot, the rows, the descriptor and the state of a
\* move are those of the entries up to the applied index, applied one at a time.
StoreIsReplay == cf = "ready" => mem = StateAt(mem.index) /\ disk = StateAt(disk.index)

\* The cached states, which requests are evaluated against, are those of the
\* column family, but for the state of a move that a snapshot has ended.
CoreAgrees ==
    pc = "open" =>
        /\ core.desc = mem.desc
        /\ core.mv = mem.mv \/ (jumped /\ mem.mv = NoMove)

\* The replica's lease is told of every change of the descriptor, and of every
\* change of the state of a move but those within a snapshot.
ObserverIsTold == pc = "open" => obs.desc = core.desc /\ (obs.mv.step = core.mv.step \/ jumped)

\* A checkpoint taken beside batches holds just the entries up to the index that
\* its meta data names.
CheckpointIsConsistent == ckpt.pc = "done" => ckpt.view = StateAt(ckpt.index)

\* The entries that the group has committed can be applied: the state a move event
\* needs is there, also when it comes from an entry of the same batch.
EntriesApply == pc = "panicked" => cf # "ready"

=============================================================================
