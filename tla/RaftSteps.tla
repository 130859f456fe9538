------------------------------ MODULE RaftSteps ------------------------------
(***************************************************************************)
(* The messages and the local requests a replica of raft-rs handles:       *)
(* Raft::step and what it calls (raft.rs), read_only.rs, and the changes   *)
(* of configuration.                                                       *)
(***************************************************************************)
EXTENDS Raft

has_pending_conf(r) == r.pendingConf > r.log.applied

\* Mutant: a new leader answers before it has committed in its term.
commit_to_any_term(r) == TRUE

commit_to_current_term(r) == term_at(r.log, r.log.committed) = r.term

-----------------------------------------------------------------------------
(* Read indices (read_only.rs): readOnly is the queue of pending requests.   *)

\* handle_ready_read_index of one request: a read state here, or an answer to the follower.
ReadyRead(r, rs) ==
    IF rs.from \in {INVALID_ID, r.id}
    THEN [r EXCEPT !.readStates = Append(@, [ctx |-> rs.ctx, index |-> rs.index])]
    ELSE send(r, [Msg(r, "MsgReadIndexResp", rs.from) EXCEPT !.index = rs.index, !.ctx = rs.ctx])

RECURSIVE ReadyReads(_, _)
ReadyReads(r, rss) ==
    IF rss = <<>> THEN r ELSE ReadyReads(ReadyRead(r, Head(rss)), Tail(rss))

add_request(r, m) ==
    IF \E k \in DOMAIN r.readOnly : r.readOnly[k].ctx = m.ctx THEN r
    ELSE [r EXCEPT !.readOnly =
            Append(@, [ctx |-> m.ctx, from |-> m.from, index |-> r.log.committed, acks |-> {r.id}])]

\* advance, once a quorum acknowledged the request at position k: it and all before it are ready.
AdvanceReads(r, k) ==
    IF ~HasQuorum(r.conf, r.readOnly[k].acks) THEN r
    ELSE ReadyReads([r EXCEPT !.readOnly = SubSeq(@, k + 1, Len(@))], SubSeq(r.readOnly, 1, k))

\* recv_ack and advance.
AckRead(r, id, ctx) ==
    IF ~\E k \in DOMAIN r.readOnly : r.readOnly[k].ctx = ctx THEN r
    ELSE LET k == CHOOSE k \in DOMAIN r.readOnly : r.readOnly[k].ctx = ctx
         IN  AdvanceReads([r EXCEPT !.readOnly[k].acks = @ \cup {id}], k)

\* The arm of step_leader for MsgReadIndex.
handle_read_index(r, m) ==
    IF ~commit_to_current_term(r) THEN r
    ELSE IF IsSingleton(r.conf)
    THEN ReadyRead(r, [ctx |-> m.ctx, from |-> m.from, index |-> r.log.committed])
    ELSE bcast_heartbeat_with_ctx(add_request(r, m), m.ctx)

-----------------------------------------------------------------------------
(* The leader. *)

\* A leader heard from a peer.
Heard(pr) == [pr EXCEPT !.recentActive = TRUE, !.mightLost = FALSE]

WithProgress(r, j, pr) == [r EXCEPT !.prs[j] = pr]

\* Where a rejection lets the leader look for the last common entry.
ProbeFrom(r, m) ==
    IF m.logTerm > 0 THEN find_conflict_by_term(r.log, m.hint, m.logTerm) ELSE m.hint

\* The rejection of an append: probe before the conflict.
handle_append_rejection(r, m) ==
    LET pr == Heard(r.prs[m.from])
        lower == maybe_decr_to(pr, m.index, ProbeFrom(r, m))
    IN  IF ~Decreases(pr, m.index) THEN WithProgress(r, m.from, pr)
        ELSE send_append(WithProgress(r, m.from,
                IF pr.state = "Replicate" THEN become_probe(lower) ELSE lower), m.from)

\* The state of the progress pr after an acknowledgement moved it to index.
Acknowledged(pr, index) ==
    CASE pr.state = "Probe" -> become_replicate(pr)
      [] pr.state = "Snapshot" -> IF is_snapshot_caught_up(pr) THEN become_probe(pr) ELSE pr
      [] pr.state = "Replicate" -> [pr EXCEPT !.ins = free_to(@, index)]

\* A leader commits what a quorum has, and tells everyone; else the peer waiting for more gets it.
CommitOrContinue(r, j, waiting) ==
    IF Commits(r) THEN bcast_append(LeaderCommit(r))
    ELSE IF waiting THEN send_append(r, j) ELSE r

\* The transferee that has caught up is told to campaign.
HandOver(r, j) ==
    IF r.transferee = j /\ r.prs[j].matched = last_index(r.log) THEN send_timeout_now(r, j) ELSE r

\* handle_append_response of an accepted append; old is the progress before it.
handle_append_accepted(r, m, old) ==
    IF old.matched >= m.index THEN WithProgress(r, m.from, maybe_update(old, m.index))
    ELSE HandOver(
           send_append_aggressively(
             CommitOrContinue(
               WithProgress(r, m.from, Acknowledged(maybe_update(old, m.index), m.index)),
               m.from, is_paused(old)),
             m.from),
           m.from)

handle_append_response(r, m) ==
    IF m.from \notin DOMAIN r.prs THEN r
    ELSE IF m.reject THEN handle_append_rejection(r, m)
    ELSE handle_append_accepted(r, m, Heard(r.prs[m.from]))

Resumed(pr) ==
    [Heard(pr) EXCEPT !.paused = FALSE,
        !.ins = IF pr.state = "Replicate" /\ full(@) THEN free_first_one(@) ELSE @]

SendIfBehind(r, j) == IF r.prs[j].matched < last_index(r.log) THEN send_append(r, j) ELSE r

AckIfRead(r, m) == IF m.ctx = 0 THEN r ELSE AckRead(r, m.from, m.ctx)

handle_heartbeat_response(r, m) ==
    IF m.from \notin DOMAIN r.prs THEN r
    ELSE AckIfRead(SendIfBehind(WithProgress(r, m.from, Resumed(r.prs[m.from])), m.from), m)

handle_transfer_leader(r, to) ==
    LET moved == [r EXCEPT !.transferee = to]
    IN  IF to \notin DOMAIN r.prs \/ to \in r.conf.learners \/ r.transferee = to THEN r
        ELSE IF to = r.id THEN [r EXCEPT !.transferee = INVALID_ID]
        ELSE IF r.prs[to].matched = last_index(r.log) THEN send_timeout_now(moved, to)
        ELSE send_append(moved, to)

\* handle_snapshot_status: after a failure the peer is probed from its matched index.
handle_snapshot_status(r, from, reject) ==
    IF from \notin DOMAIN r.prs \/ r.prs[from].state # "Snapshot" THEN r
    ELSE LET pr == IF reject THEN [r.prs[from] EXCEPT !.pendingSnapshot = 0] ELSE r.prs[from]
         IN  [r EXCEPT !.prs[from] = [become_probe(pr) EXCEPT !.paused = TRUE]]

handle_unreachable(r, from) ==
    IF from \in DOMAIN r.prs /\ r.prs[from].state = "Replicate"
    THEN [r EXCEPT !.prs[from] = become_probe(@)] ELSE r

\* MsgCheckQuorum, with ProgressTracker::quorum_recently_active.
check_quorum(r) ==
    LET active == {j \in DOMAIN r.prs : j = r.id \/ r.prs[j].recentActive}
        prs == [j \in DOMAIN r.prs |-> [r.prs[j] EXCEPT
                    !.recentActive = (j = r.id),
                    !.mightLost = @ \/ (j # r.id /\ ~r.prs[j].recentActive)]]
    IN  IF HasQuorum(r.conf, active) THEN [r EXCEPT !.prs = prs]
        ELSE become_follower(r, r.term, INVALID_ID)

\* The election timeout of a leader (tick_heartbeat): the quorum is checked and a transfer of the
\* leadership that has not happened is given up.
LeaderTimeout(r) == [check_quorum(r) EXCEPT !.transferee = INVALID_ID]

\* The arm of step_leader for MsgPropose: a refused change becomes an empty entry.
propose(r, e) ==
    LET refused == \/ has_pending_conf(r)
                   \/ joint(r.conf) # (e.ccs = <<>>)
        entry == IF e.kind = "ConfChangeV2" /\ refused THEN NormalEntry(r.term, 0) ELSE e
        after == append_entry(r, entry)
    IN  bcast_append([after EXCEPT !.pendingConf =
            IF entry.kind = "ConfChangeV2" THEN last_index(after.log) ELSE @])

step_leader(r, m) ==
    CASE m.type = "MsgAppendResponse" -> handle_append_response(r, m)
      [] m.type = "MsgHeartbeatResponse" -> handle_heartbeat_response(r, m)
      [] m.type = "MsgReadIndex" -> handle_read_index(r, m)
      [] m.type = "MsgSnapStatus" -> handle_snapshot_status(r, m.from, m.reject)
      [] m.type = "MsgTransferLeader" -> handle_transfer_leader(r, m.from)
      [] OTHER -> r

-----------------------------------------------------------------------------
(* The follower and the candidate. *)

handle_append_entries(r, m) ==
    LET answer == Msg(r, "MsgAppendResponse", m.from)
        after == WithLog(r, maybe_append(r.log, m.index, m.commit, m.first, m.ents))
        hint == find_conflict_by_term(r.log, LesserOf(m.index, last_index(r.log)), m.logTerm)
    IN  IF m.index < r.log.committed
        THEN send(r, [answer EXCEPT !.index = r.log.committed, !.commit = r.log.committed])
        ELSE IF match_term(r.log, m.index, m.logTerm)
        THEN send(after, [answer EXCEPT !.index = m.index + Len(m.ents), !.commit = after.log.committed])
        ELSE send(r, [answer EXCEPT !.index = m.index, !.reject = TRUE, !.hint = hint,
                                    !.logTerm = term_at(r.log, hint), !.commit = r.log.committed])

handle_heartbeat(r, m) ==
    LET after == WithLog(r, commit_to(r.log, m.commit))
    IN  send(after, [Msg(r, "MsgHeartbeatResponse", m.from) EXCEPT
                        !.ctx = m.ctx, !.commit = after.log.committed])

\* The log and the configuration of a snapshot replace those of the replica.
Replaced(r, s, conf) ==
    IF conf = Refused THEN Failed(r, "unable to restore config")
    ELSE [r EXCEPT !.log = log_restore(@, s.index, s.term), !.conf = conf]

\* Raft::restore of a snapshot on a follower: ignored, committed to, or taken.
restore(r, s) ==
    IF \/ s.index < r.log.committed
       \/ r.id \notin s.conf.voters \cup s.conf.learners \cup s.conf.votersOutgoing THEN r
    ELSE IF match_term(r.log, s.index, s.term) THEN WithLog(r, commit_to(r.log, s.index))
    ELSE Replaced(r, s, Restore(s.conf))

\* A restored replica has last_index = committed.
AnswerSnapshot(r, to) ==
    send(r, [Msg(r, "MsgAppendResponse", to) EXCEPT !.index = r.log.committed])

handle_snapshot(r, m) == AnswerSnapshot(restore(r, m.snapshot), m.from)

\* What a follower does with what its leader sends.
FollowLeader(r, m) ==
    CASE m.type = "MsgAppend" -> handle_append_entries(r, m)
      [] m.type = "MsgHeartbeat" -> handle_heartbeat(r, m)

FromLeader == {"MsgAppend", "MsgHeartbeat", "MsgSnapshot"}

\* What the sender of an append, a heartbeat or a snapshot makes of a replica of its term.
Following(r, m) ==
    IF r.state \in {"Candidate", "PreCandidate"} THEN become_follower(r, m.term, m.from)
    ELSE [r EXCEPT !.leader = m.from]

step_candidate(r, m) ==
    IF \/ r.state = "PreCandidate" /\ m.type = "MsgRequestPreVoteResponse"
       \/ r.state = "Candidate" /\ m.type = "MsgRequestVoteResponse"
    THEN maybe_commit_by_vote(poll(r, m.from, ~m.reject), m)
    ELSE r

\* What a follower without a leader drops it otherwise passes on.
Forward(r, m) ==
    IF r.leader = INVALID_ID THEN r ELSE send(r, [m EXCEPT !.to = r.leader])

step_follower(r, m) ==
    CASE m.type = "MsgTimeoutNow" -> IF promotable(r) THEN hup(r, TRUE) ELSE r
      [] m.type = "MsgReadIndex" -> Forward(r, [m EXCEPT !.from = IF @ = INVALID_ID THEN r.id ELSE @])
      [] m.type = "MsgTransferLeader" -> Forward(r, m)
      [] m.type = "MsgReadIndexResp" ->
           [r EXCEPT !.readStates = Append(@, [ctx |-> m.ctx, index |-> m.index]),
                     !.log = maybe_commit(@, m.index, m.term)]
      [] OTHER -> r

\* The answer to a message of an old term.
StepOld(r, m) ==
    CASE m.type \in {"MsgHeartbeat", "MsgAppend"} -> send(r, Msg(r, "MsgAppendResponse", m.from))
      [] m.type = "MsgRequestPreVote" ->
           send(r, [Msg(r, "MsgRequestPreVoteResponse", m.from) EXCEPT !.reject = TRUE])
      [] OTHER -> r

StepCurrent(r, m) ==
    CASE m.type \in {"MsgRequestVote", "MsgRequestPreVote"} -> handle_vote_request(r, m)
      [] m.type \in FromLeader ->
           IF r.state = "Leader" THEN r ELSE FollowLeader(Following(r, m), m)
      [] m.type \notin {"MsgRequestVote", "MsgRequestPreVote"} \cup FromLeader ->
           CASE r.state = "Leader" -> step_leader(r, m)
             [] r.state = "Follower" -> step_follower(r, m)
             [] OTHER -> step_candidate(r, m)

\* A message of a later term makes the replica a follower of that term, but for the pre-votes.
CatchUp(r, m) ==
    IF \/ m.term <= r.term \/ m.type = "MsgRequestPreVote"
       \/ m.type = "MsgRequestPreVoteResponse" /\ ~m.reject THEN r
    ELSE become_follower(r, m.term, IF m.type \in FromLeader THEN m.from ELSE INVALID_ID)

\* Raft::step of what is not a snapshot; a message without a term is a local one.
step(r, m) ==
    IF m.term # 0 /\ m.term < r.term THEN StepOld(r, m) ELSE StepCurrent(CatchUp(r, m), m)

\* Raft::step of a MsgSnapshot.
step_snapshot(r, m) ==
    IF m.term < r.term \/ (m.term = r.term /\ r.state = "Leader") THEN r
    ELSE handle_snapshot(Following(CatchUp(r, m), m), m)

\* RawNode::transfer_leader and read_index: a local message, which a candidate drops.
step_local(r, m) ==
    CASE r.state = "Leader" /\ m.type = "MsgReadIndex" -> handle_read_index(r, m)
      [] r.state = "Leader" /\ m.type = "MsgTransferLeader" -> handle_transfer_leader(r, m.from)
      [] r.state = "Follower" -> Forward(r, [m EXCEPT !.from = IF @ = INVALID_ID THEN r.id ELSE @])
      [] OTHER -> r

-----------------------------------------------------------------------------
(* Configurations, what was applied and what was persisted. *)

\* The reads that the new configuration has a quorum for are ready.
RecheckReads(r) == AckRead(r, r.id, last_pending_request_ctx(r))

\* A transferee that is no longer a voter is given up.
RecheckTransfer(r) ==
    IF r.transferee \in VotersOf(r.conf) THEN r ELSE [r EXCEPT !.transferee = INVALID_ID]

post_conf_change(r) ==
    IF r.state # "Leader" \/ ~promotable(r) THEN r
    ELSE RecheckTransfer(RecheckReads(
            IF Commits(r) THEN bcast_append(LeaderCommit(r)) ELSE SendToPeers(r, FALSE)))

\* ProgressTracker::apply_conf: a new member starts with a progress of its own.
WithConf(r, conf) ==
    IF conf = Refused THEN r
    ELSE post_conf_change([r EXCEPT !.conf = conf, !.prs =
            IF r.state # "Leader" THEN @
            ELSE [j \in conf.ids |-> IF j \in DOMAIN r.prs THEN r.prs[j]
                                     ELSE [NewProgress(last_index(r.log)) EXCEPT !.recentActive = TRUE]]])

\* Raft::apply_conf_change; an error is dropped by the caller.
apply_conf_change(r, ccs) == WithConf(r, NextConf(r.conf, ccs))

\* commit_apply_internal: a leader that applied a change with autoLeave proposes to leave it.
commit_apply(r, applied, check) ==
    LET l == IF check THEN applied_to(r.log, applied) ELSE [r.log EXCEPT !.applied = applied]
        leave == append_entry(WithLog(r, l), ConfEntry(r.term, <<>>))
    IN  IF /\ r.conf.autoLeave /\ r.state = "Leader"
           /\ r.log.applied <= r.pendingConf /\ applied >= r.pendingConf
        THEN [leave EXCEPT !.pendingConf = last_index(leave.log)]
        ELSE WithLog(r, l)

CommitAndTell(r) == IF Commits(r) THEN bcast_append(LeaderCommit(r)) ELSE r

on_persist_entries(r, index, term) ==
    LET after == WithLog(r, maybe_persist(r.log, index, term))
    IN  IF ~Persists(r.log, index, term) \/ r.state # "Leader" THEN after
        ELSE IF r.id \notin DOMAIN r.prs THEN Failed(after, "no progress of self")
        ELSE IF r.prs[r.id].matched >= index
        THEN WithProgress(after, r.id, maybe_update(r.prs[r.id], index))
        ELSE CommitAndTell(WithProgress(after, r.id, maybe_update(r.prs[r.id], index)))
=============================================================================
