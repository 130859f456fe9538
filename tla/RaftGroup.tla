------------------------------ MODULE RaftGroup ------------------------------
(***************************************************************************)
(* A raft group of Sekas: the replicas of raft-rs driven by the workers of *)
(* the server (raftgroup/worker.rs, node.rs, applier.rs, storage.rs), the  *)
(* messages between them, crashes, compaction and snapshots.               *)
(*                                                                         *)
(* A worker handles requests one after the other, then takes a Ready:      *)
(* sends what a leader may send at once, applies what is committed, hands  *)
(* the rest to the log writer and waits for it; only then it sends what    *)
(* had to wait for the write. A crash may come at every point of that.     *)
(***************************************************************************)
EXTENDS RaftSteps, FiniteSetsExt

CONSTANTS
    Scenarios,          \* what may happen in one behaviour, and how often
    MaxApply            \* max_committed_size_per_ready, counted in entries

VARIABLES
    core,       \* the volatile state of each replica: Raft, RawNode and Applier
    writing,    \* the write task a worker waits for
    disk,       \* what survives a crash: raft log, state machine, snapshot
    net,        \* net[i][j]: what replica i sent to j and j has not received, one batch per Ready
    downloads,  \* the snapshots that are being downloaded
    budget,     \* what may still happen
    chosen,     \* history: the entries committed by some replica
    leaders,    \* history: who became leader of which term
    reads       \* history: the answered reads, with what was committed when they were asked

vars == <<core, writing, disk, net, downloads, budget, chosen, leaders, reads>>

NoTask ==
    [on |-> FALSE, snap |-> FALSE, hs |-> [term |-> 0, vote |-> 0, commit |-> 0], first |-> 0,
     ents |-> <<>>, msgs |-> EmptyMsgs]

\* AdvanceImpl::send_messages over a Channel per receiver, which keeps the order. Nothing arrives at
\* a replica the scenario cuts off.
SendAll(n, i, msgs) ==
    [n EXCEPT ![i] = [j \in Replica |->
        IF msgs[j] = <<>> \/ <<i, j>> \in budget.cut THEN @[j] ELSE Append(@[j], msgs[j])]]

HardState(r) == [term |-> r.term, vote |-> r.vote, commit |-> r.log.committed]
SoftState(r) == [leader |-> r.leader, state |-> r.state]

-----------------------------------------------------------------------------
(* Start: storage.rs write_initial_state and open, Raft::new, RaftNode::new. *)

\* The entries of a new group: one change per replica, in the order of the ids.
InitialEntries(voters) ==
    LET order == CHOOSE f \in [1 .. Cardinality(voters) -> voters] :
                   \A a, b \in DOMAIN f : a < b => f[a] < f[b]
    IN  [k \in 1 .. Cardinality(voters) |-> ConfEntry(1, <<[type |-> "Add", id |-> order[k]]>>)]

\* A replica of the group, or an empty one that a change of the configuration will add.
InitialDisk(i, voters) ==
    IF i \in voters
    THEN [hs |-> [term |-> 1, vote |-> i, commit |-> Cardinality(voters)],
          base |-> 0, baseTerm |-> 0, ents |-> InitialEntries(voters), local |-> TRUE,
          flushed |-> Cardinality(voters), snapshot |-> NoSnapshot,
          conf |-> [EmptyConf EXCEPT !.incoming = voters, !.ids = voters]]
    ELSE [hs |-> [term |-> 0, vote |-> INVALID_ID, commit |-> 0],
          base |-> 0, baseTerm |-> 0, ents |-> <<>>, local |-> TRUE,
          flushed |-> 0, snapshot |-> NoSnapshot, conf |-> EmptyConf]

\* try_apply_fresh_snapshot and try_reset_storage_state.
Recover(d) ==
    LET s == d.snapshot
        l == NewLog(d.base, d.baseTerm, d.ents)
        fresh == IF d.flushed < s.index
                 THEN [d EXCEPT !.flushed = s.index, !.conf = Restore(s.conf)] ELSE d
    IN  IF d.base < s.index /\ (s.index > last_index(l) \/ term_at(l, s.index) < s.term)
        THEN [fresh EXCEPT !.base = s.index, !.baseTerm = s.term, !.ents = <<>>,
                           !.hs.commit = s.index]
        ELSE fresh

\* The checks of Storage::open and Raft::load_state.
OpenFailure(d) ==
    LET last == d.base + Len(d.ents)
    IN  CASE ~d.local -> "raft local state cannot be decoded"
          [] d.local /\ d.flushed < last /\ d.base > d.flushed -> "there are some missing entries"
          [] d.local /\ (d.hs.commit < d.base \/ d.hs.commit > last) -> "hs.commit is out of range"
          [] OTHER -> ""

\* A replica started from recovered d.
Started(i, d) ==
    LET l == [NewLog(d.base, d.baseTerm, d.ents) EXCEPT
                !.committed = d.hs.commit, !.applied = GreaterOf(@, d.flushed), !.fatal = OpenFailure(d)]
        r == [id |-> i, term |-> d.hs.term, vote |-> d.hs.vote, state |-> "Follower",
              leader |-> INVALID_ID, log |-> l, conf |-> d.conf, prs |-> <<>>, yes |-> {}, no |-> {},
              transferee |-> INVALID_ID, pendingConf |-> 0, readOnly |-> <<>>, readStates |-> <<>>,
              msgs |-> EmptyMsgs, snapshot |-> d.snapshot, creating |-> FALSE,
              since |-> d.flushed, asked |-> {}, nextRead |-> 1, cached |-> {}, prevHs |-> d.hs,
              prevSs |-> [leader |-> INVALID_ID, state |-> "Follower"]]
    IN  r

Init ==
    /\ budget \in Scenarios
    /\ disk = [i \in Replica |-> InitialDisk(i, budget.voters)]
    /\ core = [i \in Replica |-> Started(i, disk[i])]
    /\ writing = [i \in Replica |-> NoTask]
    /\ net = [i \in Replica |-> [j \in Replica |-> <<>>]]
    /\ downloads = {}
    /\ chosen = InitialEntries(budget.voters)
    /\ leaders = {}
    /\ reads = {}

-----------------------------------------------------------------------------
(* What every step keeps up to date: the history. *)

Idle(i) == ~writing[i].on /\ core[i].log.fatal = ""

\* What RawNode::has_ready looks at.
HasReady(r) ==
    \/ r.msgs # EmptyMsgs \/ r.readStates # <<>>
    \/ SoftState(r) # r.prevSs \/ HardState(r) # r.prevHs
    \/ unstable_entries(r.log) # <<>> \/ r.log.snap
    \/ has_next_entries_since(r.log, r.since)

Settled(i) == core[i].log.fatal # "" \/ (~writing[i].on /\ ~HasReady(core[i]))

\* A round of a worker touches only its own replica and adds messages, so in the scenarios without
\* batches a round is over before anything else happens elsewhere; a crash may still cut it short.
\* With batches a worker takes any number of requests, in any interleaving, before it is Ready.
Turn(i) == budget.batches \/ \A j \in Replica \ {i} : Settled(j)

Takes(i) == Idle(i) /\ Turn(i) /\ (budget.batches \/ ~HasReady(core[i]))

Record(i, r) ==
    /\ core' = [core EXCEPT ![i] = r]
    /\ chosen' = IF r.log.committed <= Len(chosen) THEN chosen
                 ELSE chosen \o Between(r.log, Len(chosen) + 1, r.log.committed)
    /\ leaders' = IF r.state = "Leader" THEN leaders \cup {[term |-> r.term, id |-> i]} ELSE leaders

Spend(what) ==
    /\ budget[what] > 0
    /\ budget' = [budget EXCEPT ![what] = @ - 1]

\* A request that only changes the volatile state of replica i.
Local(i, r) == Record(i, r) /\ UNCHANGED <<writing, disk, net, downloads, reads>>

-----------------------------------------------------------------------------
(* Requests of a worker (worker.rs handle_request, node.rs). *)

\* tick_election.
ElectionTimeout(i) ==
    /\ Spend("elections")
    /\ core[i].state # "Leader" /\ promotable(core[i]) /\ Takes(i)
    /\ i \in budget.candidates
    /\ Local(i, hup(core[i], FALSE))

\* tick_heartbeat.
HeartbeatTimeout(i) ==
    /\ Spend("heartbeats")
    /\ core[i].state = "Leader" /\ Takes(i)
    /\ Local(i, bcast_heartbeat(core[i]))

CheckQuorum(i) ==
    /\ Spend("checks")
    /\ core[i].state = "Leader" /\ Takes(i)
    /\ Local(i, LeaderTimeout(core[i]))

\* RaftNode::propose behind check_proposal_early; step_leader drops it on a removed leader.
Propose(i) ==
    /\ Spend("proposals")
    /\ core[i].state = "Leader" /\ core[i].transferee = INVALID_ID /\ Takes(i)
    /\ i \in DOMAIN core[i].prs
    /\ Local(i, propose(core[i], NormalEntry(core[i].term, budget.proposals)))

\* RaftNode::propose_conf_change with has_pending_config_change.
ProposeConfChange(i) ==
    /\ core[i].state = "Leader" /\ core[i].transferee = INVALID_ID /\ Takes(i)
    /\ i \in DOMAIN core[i].prs
    /\ ~has_pending_conf(core[i]) /\ ~joint(core[i].conf)
    /\ \E ccs \in budget.confChanges :
         /\ budget' = [budget EXCEPT !.confChanges = @ \ {ccs}]
         /\ Local(i, propose(core[i], ConfEntry(core[i].term, ccs)))

\* Request::Transfer, which a follower passes on to its leader.
TransferLeader(i) ==
    /\ Spend("transfers")
    /\ Takes(i)
    /\ \E j \in Replica \ {i} :
         Local(i, step_local(core[i], [Msg(core[i], "MsgTransferLeader", i) EXCEPT !.from = j, !.term = 0]))

\* Request::Read with ReadIndex, of a replica that took itself for the leader. The applier numbers
\* the contexts from the start of the process.
ReadIndex(i) ==
    /\ Spend("reads")
    /\ Takes(i) /\ core[i].prevSs.state = "Leader"
    /\ LET r == core[i]
           asking == [r EXCEPT !.nextRead = @ + 1, !.asked = @ \cup {[ctx |-> r.nextRead, floor |-> Len(chosen)]}]
       IN  Local(i, step_local(asking, [Msg(r, "MsgReadIndex", i) EXCEPT
                                     !.from = INVALID_ID, !.term = 0, !.ctx = r.nextRead]))

\* Request::Unreachable.
Unreachable(i) ==
    /\ Spend("unreachable")
    /\ core[i].state = "Leader" /\ Takes(i)
    /\ \E j \in DOMAIN core[i].prs \ {i} :
         /\ Local(i, handle_unreachable(core[i], j))

IsResponse(m) ==
    m.type \in {"MsgAppendResponse", "MsgRequestVoteResponse", "MsgHeartbeatResponse",
                "MsgRequestPreVoteResponse"}

\* RawNode::step drops the responses of replicas it does not know.
RawStep(r, m) == IF IsResponse(m) /\ m.from \notin r.conf.ids THEN r ELSE step(r, m)

RECURSIVE StepAll(_, _)
StepAll(r, msgs) == IF msgs = <<>> THEN r ELSE StepAll(RawStep(r, Head(msgs)), Tail(msgs))

IsSnapshot(m) == m.type = "MsgSnapshot"

\* Request::Message, handle_msg: a batch is stepped message by message, but for the snapshots, which
\* are downloaded first.
Deliver(i) ==
    /\ \E j \in Replica : net[j][i] # <<>>
    /\ Takes(i)
    /\ \E j \in Replica :
         LET batch == Head(net[j][i])
             snapshots == SelectSeq(batch, IsSnapshot)
         IN  /\ net[j][i] # <<>>
             /\ net' = [net EXCEPT ![j][i] = Tail(@)]
             /\ downloads' = downloads \cup {snapshots[k] : k \in DOMAIN snapshots}
             /\ Record(i, StepAll(core[i], SelectSeq(batch, LAMBDA m : ~IsSnapshot(m))))
    /\ UNCHANGED <<writing, disk, budget, reads>>

\* A stream breaks: what was sent on it is lost.
Disconnect(i) ==
    /\ Spend("breaks")
    /\ Turn(i)
    /\ \E j \in Replica : net[i][j] # <<>> /\ net' = [net EXCEPT ![i][j] = <<>>]
    /\ UNCHANGED <<core, writing, disk, downloads, chosen, leaders, reads>>

\* Request::InstallSnapshot, once download_snap has saved the snapshot.
InstallSnapshot(i) ==
    /\ downloads # {} /\ Takes(i)
    /\ \E m \in downloads :
         /\ m.to = i
         /\ downloads' = downloads \ {m}
         /\ disk' = [disk EXCEPT ![i].snapshot = m.snapshot]
         /\ Record(i, step_snapshot([core[i] EXCEPT !.snapshot = m.snapshot], m))
    /\ UNCHANGED <<writing, net, budget, reads>>

\* Request::RejectSnapshot of a download that failed.
RejectSnapshot(i) ==
    /\ Spend("rejects")
    /\ Takes(i)
    /\ \E m \in downloads :
         /\ m.to = i
         /\ downloads' = downloads \ {m}
         /\ net' = [net EXCEPT ![i][m.from] = Append(@,
                <<[Msg(core[i], "MsgSnapStatus", m.from) EXCEPT !.term = 0, !.reject = TRUE]>>)]
    /\ UNCHANGED <<core, writing, disk, chosen, leaders, reads>>

\* dispatch_creating_snap_task and Request::CreateSnapshotFinished: a checkpoint of what is applied.
CreateSnapshot(i) ==
    /\ core[i].creating /\ ~joint(core[i].conf) /\ Takes(i)
    /\ LET r == core[i]
           s == [index |-> r.since, term |-> term_at(r.log, r.since), conf |-> ToConfState(r.conf)]
       IN  /\ core' = [core EXCEPT ![i].creating = FALSE, ![i].snapshot = s]
           /\ disk' = [disk EXCEPT ![i].snapshot = s]
    /\ UNCHANGED <<writing, net, downloads, budget, chosen, leaders, reads>>

-----------------------------------------------------------------------------
(* A round of a worker (node.rs advance, post_advance, applier.rs). *)

RECURSIVE ApplyEntries(_, _)
\* Applier::apply_entries: a change of the configuration is applied to raft at once.
ApplyEntries(r, ents) ==
    IF ents = <<>> THEN r
    ELSE LET e == Head(ents)
             after == IF e.kind = "ConfChangeV2" THEN apply_conf_change(r, e.ccs) ELSE r
         IN  ApplyEntries([after EXCEPT !.since = @ + 1], Tail(ents))

\* The assertions of RawNode::ready and of Storage::write.
ReadyFailure(r) ==
    CASE r.log.snap /\ r.log.base < r.since -> "snapshot below the applied entries"
      [] r.log.snap /\ has_next_entries_since(r.log, r.log.base) -> "has snapshot but also has committed entries"
      [] r.log.snap /\ unstable_entries(r.log) # <<>> -> "Does not stable entries during appling snapshot"
      [] OTHER -> ""

AdvanceApply(r) == commit_apply(r, r.since, TRUE)

\* The committed entries are applied; raft learns how far.
ApplyCommitted(r, ents) == IF ents = <<>> THEN r ELSE AdvanceApply(ApplyEntries(r, ents))

\* RaftNode::handle_apply of the Ready of r: the read states, the committed entries, the snapshot.
Apply(r) ==
    LET taken == [r EXCEPT !.msgs = EmptyMsgs, !.readStates = <<>>,
                           !.cached = @ \cup {r.readStates[k] : k \in DOMAIN r.readStates}]
    IN  IF r.log.snap THEN [taken EXCEPT !.since = r.log.base]
        ELSE ApplyCommitted(taken, next_entries_since(r.log, r.since, MaxApply))

\* The reads whose index is applied are answered, when a read state or an entry is applied.
Answered(r, after) ==
    IF r.readStates = <<>> /\ after.since = r.since THEN {}
    ELSE LET now == IF r.log.snap THEN r.since ELSE after.since
         IN  {rs \in after.cached : rs.index <= now}

Answers(r, done) == {a \in r.asked : \E rs \in done : rs.ctx = a.ctx}

\* RawNode::commit_ready of the Ready of r, with the log l after it was applied.
StableLog(r, l) ==
    IF r.log.snap THEN stable_snap(l, r.log.base)
    ELSE IF unstable_entries(r.log) # <<>> THEN stable_entries(l, last_index(r.log), last_term(r.log))
    ELSE l

CommitReady(r, after, done) ==
    [after EXCEPT !.log = StableLog(r, @), !.prevHs = HardState(r), !.prevSs = SoftState(r),
                  !.cached = @ \ done, !.asked = @ \ Answers(r, done)]

\* RaftNode::build_write_task: what the Ready of r leaves to the log writer.
WriteTask(r) ==
    IF HardState(r) = r.prevHs /\ unstable_entries(r.log) = <<>> /\ ~r.log.snap THEN NoTask
    ELSE [on |-> TRUE, snap |-> r.log.snap, hs |-> HardState(r), first |-> r.log.offset,
          ents |-> unstable_entries(r.log), msgs |-> IF r.state = "Leader" THEN EmptyMsgs ELSE r.msgs]

\* What the Ready of r sends before anything is written: only what a leader sends may go ahead.
SendNow(r) == IF WriteTask(r).on /\ r.state # "Leader" THEN EmptyMsgs ELSE r.msgs

\* The rest of a round in which r became after and the read states done were served.
FinishRound(i, r, after, done) ==
    /\ Record(i, CommitReady(r, after, done))
    /\ reads' = reads \cup {[floor |-> a.floor, got |-> after.since] : a \in Answers(r, done)}

\* RaftNode::advance. The messages of a leader go at once, the others once the task is written.
Advance(i) ==
    /\ Idle(i) /\ HasReady(core[i]) /\ ReadyFailure(core[i]) = ""
    /\ \E after \in {Apply(core[i])} : FinishRound(i, core[i], after, Answered(core[i], after))
    /\ writing' = [writing EXCEPT ![i] = WriteTask(core[i])]
    /\ net' = SendAll(net, i, SendNow(core[i]))
    /\ disk' = IF core[i].log.snap
               THEN [disk EXCEPT ![i].flushed = core[i].log.base, ![i].conf = core[i].conf]
               ELSE disk
    /\ UNCHANGED <<downloads, budget>>

\* Storage::write of a task.
Written(d, l, task) ==
    IF task.snap THEN [d EXCEPT !.hs = [task.hs EXCEPT !.commit = l.base], !.base = l.base,
                                !.baseTerm = l.baseTerm, !.ents = <<>>]
    ELSE [d EXCEPT !.hs = task.hs,
                   !.ents = IF task.ents = <<>> THEN @ ELSE SubSeq(@, 1, task.first - 1 - d.base) \o task.ents]

\* on_persist_ready of the task, then advance_apply_to of its snapshot.
PersistSnapshot(r, task) ==
    IF task.snap THEN WithLog(r, maybe_persist_snap(r.log, r.log.base)) ELSE r

PersistEntries(r, task) ==
    IF task.ents = <<>> THEN r
    ELSE on_persist_entries(r, task.first + Len(task.ents) - 1, task.ents[Len(task.ents)].term)

ApplySnapshot(r, task) == IF task.snap THEN commit_apply(r, r.log.base, TRUE) ELSE r

\* The log writer is done: post_advance.
Persist(i) ==
    /\ writing[i].on /\ core[i].log.fatal = ""
    /\ disk' = [disk EXCEPT ![i] = Written(@, core[i].log, writing[i])]
    /\ net' = SendAll(net, i, writing[i].msgs)
    /\ writing' = [writing EXCEPT ![i] = NoTask]
    /\ \E r \in {ApplySnapshot(PersistEntries(PersistSnapshot(core[i], writing[i]), writing[i]), writing[i])} :
         Record(i, r)
    /\ UNCHANGED <<downloads, budget, reads>>

-----------------------------------------------------------------------------
(* Flushes, compaction and crashes. *)

\* The configuration after the entries up to index to, of the state machine flushed in d.
ConfAt(l, d, to) ==
    LET after[n \in d.flushed .. to] ==
          IF n = d.flushed THEN d.conf
          ELSE IF EntryAt(l, n).kind = "ConfChangeV2" THEN ApplyConf(after[n - 1], EntryAt(l, n).ccs)
          ELSE after[n - 1]
    IN  after[to]

Flushed(i, to) ==
    [disk[i] EXCEPT !.flushed = to, !.conf = ConfAt(core[i].log, disk[i], to)]

\* RaftWorker::compact_log, with the flush that lets it advance. What it required no longer keeps a
\* snapshot from being recycled, once the snapshot is old enough.
CompactLog(i) ==
    /\ Spend("compactions")
    /\ Takes(i)
    /\ \E flushed \in disk[i].flushed .. core[i].since, recycled \in BOOLEAN :
         LET r == core[i]
             d == Flushed(i, flushed)
             acks == {r.prs[j].matched : j \in DOMAIN r.prs}
             to == IF r.state = "Leader" THEN Min(acks \cup {flushed}) ELSE flushed
             l == compact_to(r.log, to)
             compacts == first_index(r.log) < to
             below == compacts /\ to > d.hs.commit
             snapshot == IF recycled /\ r.snapshot.index < to THEN NoSnapshot ELSE r.snapshot
         IN  /\ core' = [core EXCEPT ![i].snapshot = snapshot, ![i].log = IF compacts THEN l ELSE @]
             /\ disk' = [disk EXCEPT ![i] = [d EXCEPT
                    !.snapshot = snapshot, !.local = @ /\ ~below,
                    !.base = IF compacts THEN l.base ELSE @,
                    !.baseTerm = IF compacts THEN l.baseTerm ELSE @,
                    !.ents = IF compacts THEN SubSeq(@, to - d.base, Len(@)) ELSE @]]
    /\ UNCHANGED <<writing, net, downloads, chosen, leaders, reads>>

\* A crash at any point, and the start after it (RaftNode::new). The state machine may have been
\* flushed up to whatever it had applied.
Restart(i) ==
    /\ Spend("crashes")
    /\ core[i].log.fatal = "" /\ Turn(i)
    /\ \E flushed \in disk[i].flushed .. core[i].since :
         LET d == Recover(Flushed(i, flushed))
         IN  /\ budget.flushAhead \/ flushed <= GreaterOf(disk[i].hs.commit, disk[i].flushed)
             /\ disk' = [disk EXCEPT ![i] = d]
             /\ core' = [core EXCEPT ![i] = Started(i, d)]
    /\ writing' = [writing EXCEPT ![i] = NoTask]
    /\ downloads' = {m \in downloads : m.to # i}
    /\ UNCHANGED <<net, chosen, leaders, reads>>

Next ==
    \E i \in Replica :
        \/ ElectionTimeout(i) \/ HeartbeatTimeout(i) \/ CheckQuorum(i)
        \/ Propose(i) \/ ProposeConfChange(i) \/ TransferLeader(i) \/ ReadIndex(i) \/ Unreachable(i)
        \/ Deliver(i) \/ Disconnect(i) \/ InstallSnapshot(i) \/ RejectSnapshot(i) \/ CreateSnapshot(i)
        \/ Advance(i) \/ Persist(i) \/ CompactLog(i) \/ Restart(i)

Spec == Init /\ [][Next]_vars

-----------------------------------------------------------------------------
(* Properties. *)

\* No check of raft-rs, of the applier or of the storage fails (fatal!, assert! and panic! in
\* raft_log.rs, raft.rs, raw_node.rs, applier.rs, storage.rs): the worker never goes down by itself.
NoFatal == \A i \in Replica : core[i].log.fatal = "" /\ (Idle(i) => ReadyFailure(core[i]) = "")

\* At most one replica becomes the leader of a term, whatever is lost, repeated or forgotten by a
\* crash before it was persisted (Raft::step votes, Ready's persisted messages).
OneLeaderPerTerm == \A a, b \in leaders : a.term = b.term => a.id = b.id

\* What a replica has committed is what every other one commits at that index: compaction,
\* snapshots and restarts included.
CommittedAgrees ==
    \A i \in Replica :
      LET l == core[i].log
      IN  \A n \in l.base + 1 .. l.committed : n <= Len(chosen) => EntryAt(l, n) = chosen[n]

\* A leader of the latest term has every committed entry in its log or below its snapshot.
LeaderHasCommitted ==
    \A i \in Replica :
      LET l == core[i].log
      IN  (core[i].state = "Leader" /\ \A a \in leaders : a.term <= core[i].term)
            => /\ last_index(l) >= Len(chosen)
               /\ \A n \in l.base + 1 .. Len(chosen) : EntryAt(l, n) = chosen[n]

\* What a leader takes for acknowledged is on the disk of the peer, or below what the peer has
\* compacted: a worker answers only after the log writer (Ready::persisted_messages).
AckedIsDurable ==
    \A i, j \in Replica :
      (core[i].state = "Leader" /\ j \in DOMAIN core[i].prs /\ disk[j].hs.term = core[i].term)
        => LET m == core[i].prs[j].matched
               d == disk[j]
           IN  /\ m <= d.base + Len(d.ents)
               /\ (m > d.base /\ m > core[i].log.base) => d.ents[m - d.base] = EntryAt(core[i].log, m)

\* A read is answered from a state that has everything committed before it was asked
\* (ReadOnlyOption::Safe, Applier::response_read_states).
ReadsAreLinearizable == \A a \in reads : a.got >= a.floor

\* What is on the disk after a write, a compaction or a crash can be opened again: the committed
\* index of the hard state is in the range of the log ("it must also be consistent with the log
\* range", Storage::compact_to), and the truncated entry is recorded.
DiskCanBeOpened == \A i \in Replica : OpenFailure(Recover(disk[i])) = ""

=============================================================================
