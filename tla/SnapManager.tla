----------------------------- MODULE SnapManager ----------------------------
(***************************************************************************)
(* The snapshots of one replica on the disk of its node (raftgroup/snap):  *)
(* the task that creates one, the tasks that download one, streams that    *)
(* send one, the recycler, the removal of the replica, and a restart of    *)
(* the node, which lists the directories again.                            *)
(*                                                                         *)
(* A directory is named after the index of its snapshot, and so is the id, *)
(* a decimal string; here its digits are to the base Base.  The files of a *)
(* snapshot and its META are on the disk or not; chunks are left out.      *)
(***************************************************************************)
EXTENDS Integers, Sequences, FiniteSets

LOCAL INSTANCE SequencesExt

CONSTANTS ReplicaId, Base,
    MaxIndex,            \* bound on applied entries
    Downloads, Streams,  \* names of tasks
    Scenarios            \* how many tasks, streams, removals and restarts there are: a set of records

VARIABLES
    disk,      \* the directories: path below that of the replica, index of the data, META or not
    mgr,       \* the ReplicaSnapManager: in the map or not, base_dir, next_snapshot_index, snapshots
    bin,       \* the channel to the recycler
    applied,   \* flushed_index of the state machine
    truncated, \* truncated_index of the raft log
    last,      \* last index of the raft log
    creating,  \* is_creating_snapshot
    task,      \* the task that creates, and those that download
    stream,    \* open SnapshotChunkStreams
    removed,   \* the replica was removed
    poisoned,  \* a thread panicked under the lock of the manager
    restarted, \* the node was restarted
    budget     \* what may still happen

replicaVars == <<applied, truncated, last, creating>>
nodeVars == <<removed, poisoned, restarted>>
vars == <<disk, mgr, bin, replicaVars, task, stream, nodeVars, budget>>

Tasks == Downloads \cup {"create"}
Idle == [pc |-> "idle", dir |-> <<>>, index |-> 0, id |-> <<>>]
Closed == [pc |-> "closed", id |-> <<>>, dir |-> <<>>, index |-> 0]
NoManager == [live |-> FALSE, base |-> <<>>, next |-> 0, snaps |-> <<>>]

-----------------------------------------------------------------------------
\* Ids and directories

\* The digits of an id, and the order of ids, which is that of strings.
IdOf(n) == IF n < Base THEN <<n>> ELSE <<n \div Base, n % Base>>

IdLess(a, b) == a[1] < b[1] \/ (a[1] = b[1] /\ Len(a) < Len(b)) \/ (a[1] = b[1] /\ Len(a) = 2 /\ Len(b) = 2 /\ a[2] < b[2])

Whole(dir, index) == [path |-> dir, index |-> index, meta |-> TRUE] \in disk

remove_dir_all(path) == {d \in disk : ~IsPrefix(path, d.path)}

-----------------------------------------------------------------------------
\* The manager

\* The manager of a replica that has none yet.
Entry(m) == IF m.live THEN m ELSE [NoManager EXCEPT !.live = TRUE]

next_snapshot_dir(m) == Append(m.base, m.next)

\* A snapshot goes before those with the same id.
push(snaps, info) ==
    InsertAt(snaps, Cardinality({i \in DOMAIN snaps : IdLess(snaps[i].id, info.id)}) + 1, info)

Info(dir, index) == [id |-> IdOf(dir[Len(dir)]), dir |-> dir, index |-> index, refs |-> 0]

\* The first snapshot with an id: the one that is locked, and the one that is released.
Position(m, id) ==
    LET same == {i \in DOMAIN m.snaps : m.snaps[i].id = id}
    IN  IF same = {} THEN 0 ELSE CHOOSE i \in same : \A j \in same : i <= j

release(m, id) ==
    LET i == Position(m, id)
    IN  IF i = 0 THEN m ELSE [m EXCEPT !.snaps[i].refs = @ - 1]   \* -1: usize::MAX

\* Mutant: a snapshot that is being sent is recycled.
RecyclableInUse(info, to, old) == info.index < to /\ info \in old

\* Old are those that were kept for min_keep_intervals.
Recyclable(info, to, old) == info.index < to /\ info \in old /\ info.refs = 0

\* The index of the last one; 0: there is none.
latest_snap(m) == IF m.snaps = <<>> THEN 0 ELSE Last(m.snaps).index

DirsOf(snaps) == [i \in DOMAIN snaps |-> snaps[i].dir]

-----------------------------------------------------------------------------
\* Tasks

Init ==
    /\ disk = {} /\ mgr = NoManager /\ bin = <<>>
    /\ applied = 1 /\ truncated = 0 /\ last = 1 /\ creating = FALSE
    /\ task = [t \in Tasks |-> Idle] /\ stream = [s \in Streams |-> Closed]
    /\ removed = FALSE /\ poisoned = FALSE /\ restarted = FALSE /\ budget \in Scenarios

Running == ~removed /\ ~poisoned

\* The worker is between two rounds, or takes requests before it advances the raft node.
Between == Running /\ \A t \in Tasks : task[t].pc \notin {"apply", "reset"}
Taking == Running /\ \A t \in Tasks : task[t].pc # "reset"

Spend(what) == budget[what] > 0 /\ budget' = [budget EXCEPT ![what] = @ - 1]

\* The log grows and is applied.
Advance ==
    /\ Between /\ applied < MaxIndex
    /\ applied' = applied + 1 /\ last' = applied + 1
    /\ UNCHANGED <<disk, mgr, bin, truncated, creating, task, stream, nodeVars, budget>>

\* SnapManager::create: the task gets a directory.
Allot(t) ==
    LET m == Entry(mgr)
    IN  /\ mgr' = [m EXCEPT !.next = @ + 1]
        /\ task' = [task EXCEPT ![t] = [Idle EXCEPT !.pc = "write", !.dir = next_snapshot_dir(m)]]

\* Storage::snapshot without a snapshot that is new enough.
CreateSnapshot(request_index) ==
    /\ Between /\ ~creating /\ task["create"].pc = "idle"
    /\ latest_snap(mgr) < request_index
    /\ creating' = TRUE
    /\ Spend("creates") /\ Allot("create")
    /\ UNCHANGED <<disk, bin, applied, truncated, last, stream, nodeVars>>

StartDownload(t) ==
    /\ Taking /\ t \in Downloads /\ task[t].pc = "idle"
    /\ Spend("downloads") /\ Allot(t)
    /\ UNCHANGED <<disk, bin, replicaVars, stream, nodeVars>>

\* The checkpoint, or the files of the chunks: of what is applied here or at the leader.
WriteFiles(t, index) ==
    /\ task[t].pc = "write"
    /\ t = "create" => index = applied /\ \A d \in disk : d.path # task[t].dir
    /\ disk' = {d \in disk : d.path # task[t].dir} \cup {[path |-> task[t].dir, index |-> index, meta |-> FALSE]}
    /\ task' = [task EXCEPT ![t].pc = "meta", ![t].index = index]
    /\ UNCHANGED <<mgr, bin, replicaVars, stream, nodeVars, budget>>

\* The checkpoint, the stream or a file fails; its directory stays as it is.
FailTask(t) ==
    /\ task[t].pc \in {"write", "meta"}
    /\ task' = [task EXCEPT ![t] = IF t = "create" THEN [Idle EXCEPT !.pc = "finished"] ELSE Idle]
    /\ UNCHANGED <<disk, mgr, bin, replicaVars, stream, nodeVars, budget>>

\* META is written beside and renamed; a directory that is gone is an error.
stable_snapshot_meta(t) ==
    /\ task[t].pc = "meta"
    /\ LET d == [path |-> task[t].dir, index |-> task[t].index, meta |-> FALSE]
       IN  /\ d \in disk
           /\ disk' = (disk \ {d}) \cup {[d EXCEPT !.meta = TRUE]}
    /\ task' = [task EXCEPT ![t].pc = "install"]
    /\ UNCHANGED <<mgr, bin, replicaVars, stream, nodeVars, budget>>

\* A replica that is gone from the map is a panic under the lock.
install(t) ==
    /\ task[t].pc = "install" /\ ~poisoned
    /\ IF mgr.live
       THEN /\ LET info == Info(task[t].dir, task[t].index)
               IN  /\ mgr' = [mgr EXCEPT !.snaps = push(@, info)]
                   /\ task' = [task EXCEPT ![t].pc = IF t = "create" THEN "finished" ELSE "installed",
                                           ![t].id = info.id]
            /\ UNCHANGED poisoned
       ELSE poisoned' = TRUE /\ task' = [task EXCEPT ![t] = Idle] /\ UNCHANGED mgr
    /\ UNCHANGED <<disk, bin, replicaVars, stream, removed, restarted, budget>>

CreateSnapshotFinished ==
    /\ Taking /\ task["create"].pc = "finished"
    /\ creating' = FALSE
    /\ task' = [task EXCEPT !["create"] = Idle]
    /\ UNCHANGED <<disk, mgr, bin, applied, truncated, last, stream, nodeVars, budget>>

\* InstallSnapshot: raft takes a snapshot beyond its log, also in place of one it has just taken.
InstallSnapshot(t) ==
    /\ Taking /\ t \in Downloads /\ task[t].pc = "installed"
    /\ LET taken == {u \in Tasks : task[u].pc = "apply"}
       IN  task' = IF task[t].index > applied /\ \A u \in taken : task[t].index > task[u].index
                   THEN [u \in Tasks |-> IF u \in taken THEN Idle
                                         ELSE [task[u] EXCEPT !.pc = IF u = t THEN "apply" ELSE @]]
                   ELSE [task EXCEPT ![t] = Idle]
    /\ UNCHANGED <<disk, mgr, bin, replicaVars, stream, nodeVars, budget>>

\* What apply_snapshot finds for the snapshot of a task.
Applies(m, id) == m.snaps[Position(m, id)].index

\* The state machine takes the snapshot over.
apply_snapshot(t) ==
    /\ Running /\ task[t].pc = "apply"
    /\ Position(mgr, task[t].id) # 0
    /\ applied' = Applies(mgr, task[t].id)
    /\ task' = [task EXCEPT ![t].pc = "reset"]
    /\ UNCHANGED <<disk, mgr, bin, truncated, last, creating, stream, nodeVars, budget>>

\* Then the log is reset to it: the write task of the round reaches the engine.
ResetLog(t) ==
    /\ Running /\ task[t].pc = "reset"
    /\ truncated' = task[t].index /\ last' = task[t].index
    /\ task' = [task EXCEPT ![t] = Idle]
    /\ UNCHANGED <<disk, mgr, bin, applied, creating, stream, nodeVars, budget>>

-----------------------------------------------------------------------------
\* Streams and the recycler

send_snapshot(s, i) ==
    /\ ~poisoned /\ stream[s].pc = "closed" /\ Spend("sends")
    /\ Position(mgr, mgr.snaps[i].id) = i
    /\ mgr' = [mgr EXCEPT !.snaps[i].refs = @ + 1]
    /\ stream' = [stream EXCEPT ![s] = [pc |-> "open", id |-> mgr.snaps[i].id, dir |-> mgr.snaps[i].dir,
                                        index |-> mgr.snaps[i].index]]
    /\ UNCHANGED <<disk, bin, replicaVars, task, nodeVars>>

\* The stream ends, or the one who reads it goes away: its guard is dropped.
DropGuard(s) ==
    /\ ~poisoned /\ stream[s].pc = "open"
    /\ mgr' = release(mgr, stream[s].id)
    /\ stream' = [stream EXCEPT ![s] = Closed]
    /\ UNCHANGED <<disk, bin, replicaVars, task, nodeVars, budget>>

\* A tick compacts the log, and with it the snapshots that nobody needs are recycled (RequiredIndex).
compact_log(to, old) ==
    /\ Between /\ to <= applied
    /\ to > truncated + 1 \/ \E i \in DOMAIN mgr.snaps : Recyclable(mgr.snaps[i], to, old)
    /\ truncated' = IF to > truncated + 1 THEN to - 1 ELSE truncated
    /\ bin' = bin \o DirsOf(SelectSeq(mgr.snaps, LAMBDA x : Recyclable(x, to, old)))
    /\ mgr' = [mgr EXCEPT !.snaps = SelectSeq(@, LAMBDA x : ~Recyclable(x, to, old))]
    /\ UNCHANGED <<disk, applied, last, creating, task, stream, nodeVars, budget>>

\* remove_replica: tasks are aborted where they wait, all snapshots are recycled (All).
RemoveReplica ==
    /\ Running /\ Spend("removes")
    /\ removed' = TRUE
    /\ task' = [t \in Tasks |-> IF task[t].pc \in {"meta", "install"} THEN task[t] ELSE Idle]
    /\ bin' = bin \o DirsOf(mgr.snaps)
    /\ mgr' = NoManager
    /\ UNCHANGED <<disk, replicaVars, stream, poisoned, restarted>>

recycle_snapshot ==
    /\ bin # <<>>
    /\ disk' = remove_dir_all(Head(bin))
    /\ bin' = Tail(bin)
    /\ UNCHANGED <<mgr, replicaVars, task, stream, nodeVars, budget>>

-----------------------------------------------------------------------------
\* A restart

\* The numeric names in the directory of the replica, in order, and those with a snapshot.
list_numeric_path == SetToSortSeq({d.path[1] : d \in disk}, <)

RecoveredDirs == {<<d.path[1]>> : d \in {e \in disk : Len(e.path) = 1 /\ e.meta}}

\* The directories with META are snapshots again; those without are recycled.
Recovered ==
    LET found == SelectSeq(list_numeric_path, LAMBDA n : <<n>> \in RecoveredDirs)
        infos == [i \in DOMAIN found |->
                    Info(<<found[i]>>, (CHOOSE d \in disk : d.path = <<found[i]>> /\ d.meta).index)]
    IN  IF found = <<>> THEN NoManager
        ELSE [live |-> TRUE, base |-> <<ReplicaId>>, next |-> found[Len(found)],
              snaps |-> FoldLeft(push, <<>>, infos)]

\* A removed replica loses what was found; another one applies its latest snapshot if that is ahead
\* of its state (try_apply_fresh_snapshot), and resets its log to it if that does not hold its index.
recovery ==
    /\ Spend("restarts") /\ restarted' = TRUE
    /\ LET lost == SelectSeq(list_numeric_path, LAMBDA n : <<n>> \notin RecoveredDirs)
           latest == IF removed THEN 0 ELSE latest_snap(Recovered)
       IN  /\ mgr' = IF removed THEN NoManager ELSE Recovered
           /\ bin' = [i \in DOMAIN lost |-> <<lost[i]>>] \o (IF removed THEN DirsOf(Recovered.snaps) ELSE <<>>)
           /\ applied' = IF latest > applied THEN latest ELSE applied
           /\ IF latest > last THEN truncated' = latest /\ last' = latest ELSE UNCHANGED <<truncated, last>>
    /\ creating' = FALSE
    /\ task' = [t \in Tasks |-> Idle] /\ stream' = [s \in Streams |-> Closed]
    /\ poisoned' = FALSE
    /\ UNCHANGED <<disk, removed>>

Next ==
    \/ Advance \/ CreateSnapshotFinished \/ RemoveReplica \/ recycle_snapshot \/ recovery
    \/ \E i \in 1 .. MaxIndex : CreateSnapshot(i)
    \/ \E i \in 1 .. MaxIndex, old \in SUBSET {mgr.snaps[j] : j \in DOMAIN mgr.snaps} : compact_log(i, old)
    \/ \E t \in Tasks :
         \/ StartDownload(t) \/ FailTask(t) \/ stable_snapshot_meta(t) \/ install(t) \/ InstallSnapshot(t)
         \/ apply_snapshot(t) \/ ResetLog(t) \/ \E i \in 1 .. MaxIndex : WriteFiles(t, i)
    \/ \E s \in Streams : DropGuard(s) \/ \E i \in DOMAIN mgr.snaps : send_snapshot(s, i)

Spec == Init /\ [][Next]_vars

-----------------------------------------------------------------------------
\* Properties

TypeOK ==
    /\ \A d \in disk : d.index \in 1 .. MaxIndex /\ Len(d.path) \in 1 .. 2
    /\ \A i \in DOMAIN mgr.snaps : mgr.snaps[i].refs \in -1 .. Cardinality(Streams)
    /\ applied \in 1 .. MaxIndex /\ truncated \in 0 .. MaxIndex

\* What is listed is whole, and so is what a stream reads, until it is recycled: a directory goes to the
\* recycler only when no guard is left of it (lock_snap, release, recycle_snapshots).
InUseIsWhole ==
    /\ \A i \in DOMAIN mgr.snaps : Whole(mgr.snaps[i].dir, mgr.snaps[i].index)
    /\ \A s \in Streams : stream[s].pc = "open" => Whole(stream[s].dir, stream[s].index)

\* apply_snapshot finds the snapshot that raft has taken, and that one: "The snapshot should does not be
\* gc before apply", whatever was compacted or installed since the download.
AppliesWhatCame ==
    \A t \in Downloads : task[t].pc = "apply" =>
      Position(mgr, task[t].id) # 0 /\ Applies(mgr, task[t].id) = task[t].index

\* A node that stops between the applied snapshot and the reset of the log can go on: it finds that
\* snapshot, or a later one, and resets the log to it.  Unless a later id has an earlier index: ids are
\* ordered as strings, and tasks get theirs when they start.
CanGoOn ==
    \/ applied <= last
    \/ latest_snap(Recovered) >= applied
    \/ \E i, j \in DOMAIN Recovered.snaps : i < j /\ Recovered.snaps[i].index > Recovered.snaps[j].index

\* Snapshots are kept as long as someone needs them: until the first restart, after which new directories
\* are put into one that recovery takes for a snapshot (ReplicaSnapManager::new in recovery).
SnapshotsAreKept ==
    TypeOK /\ (~restarted /\ ~removed => InUseIsWhole /\ AppliesWhatCame /\ CanGoOn)
=============================================================================
