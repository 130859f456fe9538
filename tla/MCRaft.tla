------------------------------- MODULE MCRaft -------------------------------
(***************************************************************************)
(* Consensus in a group: a behaviour is one of ProposalQueue (the answers  *)
(* to proposals), or one of RaftGroup (three replicas that run raft, and a *)
(* scenario that says what may happen and how often).                      *)
(***************************************************************************)
EXTENDS ProposalQueue, TLC

VARIABLES
    part,    \* the component of the behaviour
    raft_core, raft_writing, raft_disk, raft_net, raft_downloads, raft_budget, raft_chosen,
    raft_leaders, raft_reads

Quiet ==
    [voters |-> {1, 2, 3}, candidates |-> {1}, cut |-> {}, batches |-> FALSE, flushAhead |-> FALSE,
     elections |-> 1, heartbeats |-> 0, checks |-> 0, proposals |-> 0, confChanges |-> {},
     transfers |-> 0, reads |-> 0, unreachable |-> 0, breaks |-> 0, rejects |-> 0,
     compactions |-> 0, crashes |-> 0]

Pair == [Quiet EXCEPT !.voters = {1, 2}]
Rivals == [Quiet EXCEPT !.elections = 2, !.candidates = {1, 2}, !.cut = {<<1, 2>>}]
Single(type, id) == <<[type |-> type, id |-> id]>>

RaftScenarios ==
    { \* a crash anywhere
      [Quiet EXCEPT !.proposals = 1, !.crashes = 1],
      [Pair EXCEPT !.elections = 2, !.candidates = {1, 2}, !.proposals = 1, !.crashes = 2],
      \* two leaders that do not hear each other
      [Rivals EXCEPT !.proposals = 1, !.crashes = 1],
      [Rivals EXCEPT !.elections = 3],
      [Rivals EXCEPT !.cut = {<<1, 3>>}, !.proposals = 1],
      [Rivals EXCEPT !.reads = 1, !.heartbeats = 1, !.cut = {<<1, 2>>, <<2, 1>>}],
      \* a leader that gives up or hands over
      [Pair EXCEPT !.transfers = 1, !.proposals = 1, !.checks = 1, !.reads = 1, !.heartbeats = 1],
      [Pair EXCEPT !.proposals = 2, !.unreachable = 1, !.breaks = 1, !.heartbeats = 1],
      [Quiet EXCEPT !.heartbeats = 1, !.breaks = 1],
      [Pair EXCEPT !.elections = 2, !.candidates = {1, 2}, !.reads = 1, !.breaks = 2],
      \* members that come and go, with and without a snapshot
      [Quiet EXCEPT !.proposals = 1, !.confChanges = {Single("Remove", 2)}],
      [Pair EXCEPT !.proposals = 1, !.confChanges = {Single("AddLearner", 3), Single("Add", 3)}],
      [Pair EXCEPT !.proposals = 1, !.confChanges = {Single("Add", 3)}, !.compactions = 1, !.rejects = 1],
      [Pair EXCEPT !.confChanges = {Single("Add", 3)}, !.compactions = 1, !.crashes = 1],
      [Pair EXCEPT !.confChanges = {Single("Add", 3) \o Single("Remove", 2)}, !.elections = 2,
                   !.candidates = {1, 2}],
      \* workers that take several requests per round
      [Pair EXCEPT !.batches = TRUE, !.proposals = 2, !.elections = 2, !.candidates = {1, 2}] }

Group == INSTANCE RaftGroup WITH
    core <- raft_core, writing <- raft_writing, disk <- raft_disk, net <- raft_net,
    downloads <- raft_downloads, budget <- raft_budget, chosen <- raft_chosen,
    leaders <- raft_leaders, reads <- raft_reads, Replica <- {1, 2, 3}, MaxInflight <- 2,
    MaxEntries <- 2, MaxApply <- 2, Scenarios <- RaftScenarios
raftVars ==
    <<raft_core, raft_writing, raft_disk, raft_net, raft_downloads, raft_budget, raft_chosen,
      raft_leaders, raft_reads>>

\* The components that do not run keep one initial state.
MCInit ==
    /\ part \in {"queue", "raft"}
    /\ Init
    /\ Group!Init
    /\ part # "raft" => raft_budget = CHOOSE b \in RaftScenarios : TRUE

MCNext ==
    \/ /\ part = "queue" /\ Next
       /\ UNCHANGED <<part, raftVars>>
    \/ /\ part = "raft" /\ Group!Next
       /\ UNCHANGED <<part, vars>>

MCSpec == MCInit /\ [][MCNext]_<<part, vars, raftVars>>

\* No check of raft-rs, of the applier or of the storage fails (fatal!, assert! and panic! in
\* raft_log.rs, raft.rs, raw_node.rs, applier.rs, storage.rs): the worker never goes down by itself.
NoFatal == part = "raft" => Group!NoFatal

\* At most one replica becomes the leader of a term, whatever is lost, repeated or forgotten by a
\* crash before it was persisted (Raft::step votes, Ready's persisted messages).
OneLeaderPerTerm == part = "raft" => Group!OneLeaderPerTerm

\* What a replica has committed is what every other one commits at that index: compaction,
\* snapshots and restarts included.
CommittedAgrees == part = "raft" => Group!CommittedAgrees

\* A leader of the latest term has every committed entry in its log or below its snapshot.
LeaderHasCommitted == part = "raft" => Group!LeaderHasCommitted

\* What a leader takes for acknowledged is on the disk of the peer, or below what the peer has
\* compacted: a worker answers only after the log writer (Ready::persisted_messages).
AckedIsDurable == part = "raft" => Group!AckedIsDurable

\* A read is answered from a state that has everything committed before it was asked
\* (ReadOnlyOption::Safe, Applier::response_read_states).
ReadsAreLinearizable == part = "raft" => Group!ReadsAreLinearizable

\* What is on the disk after a write, a compaction or a crash can be opened again: the committed
\* index of the hard state is in the range of the log ("it must also be consistent with the log
\* range", Storage::compact_to), and the truncated entry is recorded.
DiskCanBeOpened == part = "raft" => Group!DiskCanBeOpened

\* Raft is safe: a term has one leader, which has all that is committed; replicas agree on it, and what
\* a leader counts as acknowledged is on disk.
LogsAgree == OneLeaderPerTerm /\ CommittedAgrees /\ LeaderHasCommitted /\ AckedIsDurable

\* A worker never goes down by itself, and after a crash it can start from what is on its disk.
WorkersSurvive == NoFatal /\ DiskCanBeOpened
=============================================================================
