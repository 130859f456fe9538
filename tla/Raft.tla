-------------------------------- MODULE Raft --------------------------------
(***************************************************************************)
(* The raft state machine of raft-rs (raft.rs, raft_log.rs, read_only.rs,  *)
(* log_unstable.rs, tracker/ and quorum/), as the server configures it:    *)
(* pre-vote, quorum checks, batched appends and safe read indices; no      *)
(* priorities, no commit groups, no snapshots requested by a follower.     *)
(*                                                                         *)
(* A handler is an operator from the record of a replica to the next one,  *)
(* with the messages it sends appended, per receiver, to msgs. Timers are  *)
(* left out: an election timeout may fire at any time, and a vote request  *)
(* ignored because of a lease is a message that is never delivered. Only   *)
(* a leader keeps progress, since reset starts it anew.                    *)
(***************************************************************************)
EXTENDS RaftConf, Naturals, Sequences

CONSTANTS
    MaxInflight,    \* max_inflight_msgs
    MaxEntries      \* max_size_per_msg, counted in entries

-----------------------------------------------------------------------------
(* RaftLog and Unstable. A log is a record: the entries that follow the      *)
(* truncated entry (base, baseTerm), and the indices the code keeps beside   *)
(* them. The entries below offset are in the storage, the others in          *)
(* Unstable. A snapshot in Unstable (snap) replaces the truncated entry. The *)
(* first check that the code answers with fatal! or a failed assertion is    *)
(* named in fatal.                                                           *)

\* An entry is a term and a payload: val numbers the proposals, 0 is the empty entry; a conf entry
\* carries the changes of a ConfChangeV2.
NormalEntry(term, val) == [term |-> term, kind |-> "Normal", val |-> val, ccs |-> <<>>]
ConfEntry(term, ccs) == [term |-> term, kind |-> "ConfChangeV2", val |-> 0, ccs |-> ccs]

LesserOf(a, b) == IF a < b THEN a ELSE b
GreaterOf(a, b) == IF a > b THEN a ELSE b

\* RaftLog::new over a storage: everything in it is persisted, nothing is unstable.
NewLog(base, baseTerm, ents) ==
    [base |-> base, baseTerm |-> baseTerm, ents |-> ents, committed |-> base, applied |-> base,
     persisted |-> base + Len(ents), offset |-> base + Len(ents) + 1, snap |-> FALSE,
     fatal |-> ""]

Fatal(l, what) == IF l.fatal = "" THEN [l EXCEPT !.fatal = what] ELSE l

first_index(l) == l.base + 1
last_index(l) == l.base + Len(l.ents)
EntryAt(l, i) == l.ents[i - l.base]

\* The entries of the indices lo .. hi.
Between(l, lo, hi) == SubSeq(l.ents, lo - l.base, hi - l.base)
unstable_entries(l) == Between(l, l.offset, last_index(l))

\* term answers 0 outside of the log.
term_at(l, i) ==
    IF i < l.base \/ i > last_index(l) THEN 0
    ELSE IF i = l.base THEN l.baseTerm ELSE EntryAt(l, i).term

last_term(l) == term_at(l, last_index(l))
match_term(l, i, t) == term_at(l, i) = t
commit_info(l) == [index |-> l.committed, term |-> term_at(l, l.committed)]

\* Mutant: entries below the last index are taken for known.
find_conflict_beyond(l, first, ents) ==
    IF first + Len(ents) - 1 <= last_index(l) THEN 0 ELSE GreaterOf(first, last_index(l) + 1)

\* The index of the first of the entries first, first + 1, ... that the log does not have, or 0.
find_conflict(l, first, ents) ==
    LET differs == {k \in DOMAIN ents : ~match_term(l, first + k - 1, ents[k].term)}
    IN  IF differs = {} THEN 0 ELSE first - 1 + (CHOOSE k \in differs : \A n \in differs : k <= n)

\* find_conflict_by_term: the last index up to i whose term is at most t (index 0 has term 0).
find_conflict_by_term(l, i, t) ==
    IF i > last_index(l) THEN i
    ELSE CHOOSE k \in 0 .. i : /\ term_at(l, k) <= t
                               /\ \A n \in k + 1 .. i : term_at(l, n) > t

commit_to(l, to) ==
    IF l.committed >= to THEN l
    ELSE IF last_index(l) < to THEN Fatal(l, "to_commit is out of range")
    ELSE [l EXCEPT !.committed = to]

\* append, with Unstable::truncate_and_append: what followed index after - 1 is dropped.
append(l, after, ents) ==
    IF ents = <<>> THEN l
    ELSE IF after < l.committed THEN Fatal(l, "append is out of range [committed]")
    ELSE [l EXCEPT !.ents = SubSeq(l.ents, 1, after - l.base) \o ents,
                   !.offset = LesserOf(l.offset, after + 1)]

\* maybe_append of the entries first, first + 1, ...; the caller has checked the term of prev. The
\* code takes the entries from position conflict - prev on, wherever they start.
maybe_append(l, prev, committed, first, ents) ==
    LET conflict == find_conflict(l, first, ents)
        kept == SubSeq(ents, conflict - prev, Len(ents))
        after == first - 1 + (conflict - prev) - 1
        appended ==
            IF conflict = 0 THEN l
            ELSE IF conflict <= l.committed THEN Fatal(l, "conflict with committed entry")
            ELSE IF conflict <= prev THEN Fatal(l, "slice index out of range")
            ELSE [append(l, after, kept) EXCEPT !.persisted = LesserOf(@, conflict - 1)]
    IN  commit_to(appended, LesserOf(committed, prev + Len(ents)))

applied_to(l, i) ==
    IF i = 0 THEN l
    ELSE IF i > l.committed \/ i < l.applied THEN Fatal(l, "applied is out of range")
    ELSE [l EXCEPT !.applied = i]

maybe_commit(l, i, t) ==
    IF i > l.committed /\ term_at(l, i) = t THEN commit_to(l, i) ELSE l

\* Whether maybe_persist moves the persisted index.
Persists(l, i, t) ==
    /\ i > l.persisted
    /\ i < (IF l.snap THEN l.base ELSE l.offset)
    /\ term_at(l, i) = t

maybe_persist(l, i, t) == IF Persists(l, i, t) THEN [l EXCEPT !.persisted = i] ELSE l

maybe_persist_snap(l, i) ==
    IF i <= l.persisted THEN l
    ELSE IF i > l.committed \/ i >= l.offset THEN Fatal(l, "snapshot's index is out of range")
    ELSE [l EXCEPT !.persisted = i]

is_up_to_date(l, i, t) == t > last_term(l) \/ (t = last_term(l) /\ i >= last_index(l))

\* max_apply_unpersisted_log_limit is 0.
applied_index_upper_bound(l) == LesserOf(l.committed, l.persisted)

has_next_entries_since(l, since) ==
    applied_index_upper_bound(l) + 1 > GreaterOf(since + 1, first_index(l))

\* At most max entries from index i; the caller has checked i >= first_index(l).
entries(l, i, max) == Between(l, i, LesserOf(last_index(l), i + max - 1))

next_entries_since(l, since, max) ==
    LET low == GreaterOf(since + 1, first_index(l))
        high == applied_index_upper_bound(l)
    IN  IF high < low THEN <<>> ELSE Between(l, low, LesserOf(high, low + max - 1))

\* Unstable::stable_entries of a Ready whose last entry is (i, t).
stable_entries(l, i, t) ==
    IF l.snap \/ last_index(l) < l.offset \/ last_index(l) # i \/ last_term(l) # t
    THEN Fatal(l, "the last one of unstable.slice has different index and term")
    ELSE [l EXCEPT !.offset = i + 1]

stable_snap(l, i) ==
    IF ~l.snap \/ l.base # i THEN Fatal(l, "unstable.snap has different index")
    ELSE [l EXCEPT !.snap = FALSE]

\* RaftLog::restore and Unstable::restore of the snapshot (i, t).
log_restore(l, i, t) ==
    IF i < l.committed THEN Fatal(l, "restore below committed")
    ELSE [l EXCEPT !.base = i, !.baseTerm = t, !.ents = <<>>, !.offset = i + 1, !.snap = TRUE,
                   !.persisted = LesserOf(@, l.committed), !.committed = i]

\* Storage::compact_to(to): to becomes the first index.
compact_to(l, to) ==
    [l EXCEPT !.base = to - 1, !.baseTerm = term_at(l, to - 1),
              !.ents = Between(l, to, last_index(l))]

-----------------------------------------------------------------------------
(* What a leader knows of a peer: Progress, its Inflights, and the index a   *)
(* quorum has acknowledged.                                                  *)

\* Progress::new.
NewProgress(next) ==
    [matched |-> 0, next |-> next, state |-> "Probe", paused |-> FALSE, pendingSnapshot |-> 0,
     recentActive |-> FALSE, mightLost |-> FALSE, ins |-> <<>>]

reset_state(pr, state) ==
    [pr EXCEPT !.paused = FALSE, !.pendingSnapshot = 0, !.state = state, !.ins = <<>>]

\* After a snapshot the peer is probed from behind it.
become_probe(pr) ==
    LET behind == IF pr.state = "Snapshot" /\ pr.pendingSnapshot > pr.matched
                  THEN pr.pendingSnapshot ELSE pr.matched
    IN  [reset_state(pr, "Probe") EXCEPT !.next = behind + 1]

become_replicate(pr) == [reset_state(pr, "Replicate") EXCEPT !.next = pr.matched + 1]

become_snapshot(pr, index) == [reset_state(pr, "Snapshot") EXCEPT !.pendingSnapshot = index]

is_snapshot_caught_up(pr) == pr.state = "Snapshot" /\ pr.matched >= pr.pendingSnapshot

maybe_update(pr, n) ==
    LET next == IF pr.next < n + 1 THEN n + 1 ELSE pr.next
    IN  IF pr.matched < n THEN [pr EXCEPT !.matched = n, !.paused = FALSE, !.next = next]
        ELSE [pr EXCEPT !.next = next]

\* Whether a rejection of the entry at index rejected is not stale.
Decreases(pr, rejected) ==
    IF pr.state = "Replicate" THEN rejected > pr.matched ELSE pr.next = rejected + 1

\* maybe_decr_to of a rejection that is not stale.
maybe_decr_to(pr, rejected, hint) ==
    IF pr.state = "Replicate" THEN [pr EXCEPT !.next = pr.matched + 1]
    ELSE LET next == IF rejected < hint + 1 THEN rejected ELSE hint + 1
         IN  [pr EXCEPT !.next = IF next < 1 THEN 1 ELSE next, !.paused = FALSE]

full(ins) == Len(ins) = MaxInflight

is_paused(pr) ==
    CASE pr.state = "Probe" -> pr.paused
      [] pr.state = "Replicate" -> full(pr.ins)
      [] pr.state = "Snapshot" -> TRUE

\* update_state after the entries up to last were sent.
update_state(pr, last) ==
    IF pr.state = "Replicate" THEN [pr EXCEPT !.next = last + 1, !.ins = Append(@, last)]
    ELSE [pr EXCEPT !.paused = TRUE]

\* Inflights::free_to.
free_to(ins, to) == SelectSeq(ins, LAMBDA n : n > to)

free_first_one(ins) == IF ins = <<>> THEN ins ELSE Tail(ins)

\* MajorityConfig::committed_index without commit groups: position majority of the acknowledged
\* indices in descending order. No voters acknowledge everything.
MajorityCommitted(voters, acked, top) ==
    IF voters = {} THEN top
    ELSE CHOOSE n \in {acked[v] : v \in voters} :
           /\ IsMajority({v \in voters : acked[v] >= n}, voters)
           /\ ~IsMajority({v \in voters : acked[v] > n}, voters)

\* JointConfig::committed_index, ProgressTracker::maximal_committed_index.
maximal_committed_index(c, acked) ==
    LET top == MajorityCommitted(c.incoming, acked, 0)
        out == MajorityCommitted(c.outgoing, acked, top)
    IN  IF out < top THEN out ELSE top

-----------------------------------------------------------------------------
(* The record of a replica and its messages.                                 *)

INVALID_ID == 0

NoSnapshot == [index |-> 0, term |-> 0, conf |-> EmptyConf]

EmptyMsgs == [j \in Replica |-> <<>>]

\* A message with the term of its sender; first is the index of the first of its entries.
Msg(r, type, to) ==
    [type |-> type, from |-> r.id, to |-> to, term |-> r.term, index |-> 0, logTerm |-> 0,
     first |-> 0, ents |-> <<>>, commit |-> 0, commitTerm |-> 0, reject |-> FALSE, hint |-> 0,
     ctx |-> 0, snapshot |-> NoSnapshot]

send(r, m) == [r EXCEPT !.msgs[m.to] = Append(@, m)]

WithLog(r, l) == [r EXCEPT !.log = l]
Failed(r, what) == WithLog(r, Fatal(r.log, what))

promotable(r) == r.id \in VotersOf(r.conf)

-----------------------------------------------------------------------------
(* Sending. A channel is what a leader holds for one peer: its progress,     *)
(* the messages queued for it, and whether a snapshot has to be created.     *)

Channel(r, j) == [pr |-> r.prs[j], msgs |-> r.msgs[j], creating |-> r.creating]

OnChannels(r, out) ==
    [r EXCEPT !.prs = [j \in DOMAIN r.prs |-> out[j].pr],
              !.msgs = [j \in Replica |-> IF j \in DOMAIN r.prs THEN out[j].msgs ELSE @[j]],
              !.creating = @ \/ \E j \in DOMAIN r.prs : out[j].creating]

OnChannel(r, j, c) ==
    [r EXCEPT !.prs[j] = c.pr, !.msgs[j] = c.msgs, !.creating = c.creating]

\* Storage::snapshot answers the latest snapshot there is, or has one created.
prepare_send_snapshot(r, c, to) ==
    IF ~c.pr.recentActive THEN c
    ELSE IF c.creating \/ r.snapshot.index = 0 THEN [c EXCEPT !.creating = TRUE]
    ELSE [c EXCEPT !.pr = become_snapshot(@, r.snapshot.index),
                   !.msgs = Append(@, [Msg(r, "MsgSnapshot", to) EXCEPT !.snapshot = r.snapshot])]

\* util::is_continuous_ents.
is_continuous_ents(m, first) == m.ents # <<>> => m.first + Len(m.ents) = first

\* The position of the append that try_batching extends, or 0.
Batched(c, next, ents) ==
    LET appends == {k \in DOMAIN c.msgs : c.msgs[k].type = "MsgAppend"}
        k == CHOOSE k \in appends : \A n \in appends : k <= n
    IN  IF appends = {} \/ (ents # <<>> /\ ~is_continuous_ents(c.msgs[k], next)) THEN 0 ELSE k

\* try_batching and prepare_send_entries.
SendEntries(r, c, to, ents) ==
    LET next == c.pr.next
        k == Batched(c, next, ents)
        pr == IF ents = <<>> THEN c.pr ELSE update_state(c.pr, next + Len(ents) - 1)
    IN  IF k # 0
        THEN [c EXCEPT !.pr = pr,
                       !.msgs[k].first = IF c.msgs[k].ents = <<>> /\ ents # <<>> THEN next ELSE @,
                       !.msgs[k].ents = @ \o ents,
                       !.msgs[k].commit = r.log.committed]
        ELSE [c EXCEPT !.pr = pr,
                       !.msgs = Append(@, [Msg(r, "MsgAppend", to) EXCEPT
                            !.index = next - 1, !.logTerm = term_at(r.log, next - 1),
                            !.first = next, !.ents = ents, !.commit = r.log.committed])]

maybe_send_append(r, c, to, allowEmpty) ==
    IF is_paused(c.pr) THEN c
    ELSE IF c.pr.next < first_index(r.log)
    THEN IF allowEmpty THEN prepare_send_snapshot(r, c, to) ELSE c
    ELSE LET ents == entries(r.log, c.pr.next, MaxEntries)
         IN  IF ~allowEmpty /\ ents = <<>> THEN c ELSE SendEntries(r, c, to, ents)

send_append(r, j) == OnChannel(r, j, maybe_send_append(r, Channel(r, j), j, TRUE))

RECURSIVE AppendAll(_, _, _)
AppendAll(r, c, to) ==
    LET next == maybe_send_append(r, c, to, FALSE)
    IN  IF next = c THEN c ELSE AppendAll(r, next, to)

send_append_aggressively(r, j) == OnChannel(r, j, AppendAll(r, Channel(r, j), j))

SendToPeers(r, allowEmpty) ==
    OnChannels(r, [j \in DOMAIN r.prs |->
        IF j = r.id THEN Channel(r, j) ELSE maybe_send_append(r, Channel(r, j), j, allowEmpty)])

bcast_append(r) == SendToPeers(r, TRUE)

\* Mutant: a heartbeat carries the committed index of the leader as it is.
bcast_heartbeat_uncapped(r, ctx) ==
    [r EXCEPT !.msgs = [j \in Replica |->
        IF j \in DOMAIN r.prs \ {r.id}
        THEN Append(@[j], [Msg(r, "MsgHeartbeat", j) EXCEPT !.commit = r.log.committed, !.ctx = ctx])
        ELSE @[j]]]

\* send_heartbeat to every peer.
bcast_heartbeat_with_ctx(r, ctx) ==
    [r EXCEPT !.msgs = [j \in Replica |->
        IF j \in DOMAIN r.prs \ {r.id}
        THEN Append(@[j], [Msg(r, "MsgHeartbeat", j) EXCEPT
                !.commit = LesserOf(r.prs[j].matched, r.log.committed), !.ctx = ctx])
        ELSE @[j]]]

last_pending_request_ctx(r) == IF r.readOnly = <<>> THEN 0 ELSE r.readOnly[Len(r.readOnly)].ctx

bcast_heartbeat(r) == bcast_heartbeat_with_ctx(r, last_pending_request_ctx(r))

send_timeout_now(r, to) == send(r, Msg(r, "MsgTimeoutNow", to))

-----------------------------------------------------------------------------
(* Roles and elections. *)

Acked(r) == [j \in VotersOf(r.conf) |-> IF j \in DOMAIN r.prs THEN r.prs[j].matched ELSE 0]

\* Raft::maybe_commit, which notes the index in the progress of the leader itself.
LeaderCommit(r) ==
    LET l == maybe_commit(r.log, maximal_committed_index(r.conf, Acked(r)), r.term)
    IN  WithLog(r, IF l # r.log /\ r.id \notin DOMAIN r.prs THEN Fatal(l, "no progress of self") ELSE l)

Commits(r) == LeaderCommit(r).log.committed > r.log.committed

reset(r, term) ==
    [r EXCEPT !.term = term, !.vote = IF term # r.term THEN INVALID_ID ELSE @,
              !.leader = INVALID_ID, !.transferee = INVALID_ID, !.yes = {}, !.no = {},
              !.pendingConf = 0, !.readOnly = <<>>, !.prs = <<>>]

append_entry(r, e) == WithLog(r, append(r.log, last_index(r.log), <<e>>))

become_follower(r, term, leader) ==
    [reset(r, term) EXCEPT !.leader = leader, !.state = "Follower"]

become_candidate(r) ==
    [reset(r, r.term + 1) EXCEPT !.vote = r.id, !.state = "Candidate"]

become_pre_candidate(r) ==
    [r EXCEPT !.state = "PreCandidate", !.yes = {}, !.no = {}, !.leader = INVALID_ID]

become_leader(r) ==
    LET last == last_index(r.log)
        prs == [j \in r.conf.ids |->
                  IF j = r.id
                  THEN become_replicate([NewProgress(last + 1) EXCEPT !.matched = r.log.persisted])
                  ELSE NewProgress(last + 1)]
        leader == [reset(r, r.term) EXCEPT !.leader = r.id, !.state = "Leader", !.prs = prs,
                                           !.pendingConf = last]
    IN  IF last # r.log.persisted THEN Failed(r, "become_leader with unpersisted entries")
        ELSE append_entry(leader, NormalEntry(r.term, 0))

\* The requests of campaign.
RequestVotes(r, type, term) ==
    LET request(j) == [Msg(r, type, j) EXCEPT
            !.term = term, !.index = last_index(r.log), !.logTerm = last_term(r.log),
            !.commit = commit_info(r.log).index, !.commitTerm = commit_info(r.log).term]
    IN  [r EXCEPT !.msgs = [j \in Replica |->
            IF j \in VotersOf(r.conf) \ {r.id} THEN Append(@[j], request(j)) ELSE @[j]]]

WinsAlone(r) == VoteResult(r.conf, {r.id}, {r.id}) = "Won"

Lead(r) == bcast_append(become_leader(r))

\* campaign(CAMPAIGN_ELECTION) and campaign(CAMPAIGN_TRANSFER).
campaign(r) ==
    LET c == [become_candidate(r) EXCEPT !.yes = {r.id}]
    IN  IF WinsAlone(c) THEN Lead(c) ELSE RequestVotes(c, "MsgRequestVote", c.term)

\* campaign(CAMPAIGN_PRE_ELECTION).
campaign_pre(r) ==
    LET c == [become_pre_candidate(r) EXCEPT !.yes = {r.id}]
    IN  IF WinsAlone(c) THEN campaign(c) ELSE RequestVotes(c, "MsgRequestPreVote", c.term + 1)

poll(r, from, vote) ==
    LET fresh == from \notin r.yes \cup r.no
        c == [r EXCEPT !.yes = IF fresh /\ vote THEN @ \cup {from} ELSE @,
                       !.no = IF fresh /\ ~vote THEN @ \cup {from} ELSE @]
        result == VoteResult(c.conf, c.yes, c.yes \cup c.no)
    IN  CASE result = "Won" /\ c.state = "PreCandidate" -> campaign(c)
          [] result = "Won" /\ c.state # "PreCandidate" -> Lead(c)
          [] result = "Lost" -> become_follower(c, c.term, INVALID_ID)
          [] result = "Pending" -> c

has_unapplied_conf_changes(r, lo, hi) ==
    /\ r.log.applied < r.log.committed
    /\ \E i \in lo .. hi : EntryAt(r.log, i).kind = "ConfChangeV2"

\* A pending snapshot has no entries to apply below it.
hup(r, transfer) ==
    LET low == GreaterOf(r.log.applied + 1, first_index(r.log))
    IN  IF r.state = "Leader" \/ has_unapplied_conf_changes(r, low, r.log.committed) THEN r
        ELSE IF transfer THEN campaign(r) ELSE campaign_pre(r)

maybe_commit_by_vote(r, m) ==
    LET after == WithLog(r, maybe_commit(r.log, m.commit, m.commitTerm))
    IN  IF m.commit = 0 \/ m.commitTerm = 0 \/ m.commit <= r.log.committed \/ r.state = "Leader"
        THEN r
        ELSE IF /\ after.state \in {"Candidate", "PreCandidate"}
                /\ has_unapplied_conf_changes(after, r.log.committed + 1, after.log.committed)
        THEN become_follower(after, after.term, INVALID_ID)
        ELSE after

CanVote(r, m) ==
    \/ r.vote = m.from
    \/ r.vote = INVALID_ID /\ r.leader = INVALID_ID
    \/ m.type = "MsgRequestPreVote" /\ m.term > r.term

\* The arm of Raft::step for MsgRequestVote and MsgRequestPreVote.
handle_vote_request(r, m) ==
    LET pre == m.type = "MsgRequestPreVote"
        type == IF pre THEN "MsgRequestPreVoteResponse" ELSE "MsgRequestVoteResponse"
    IN  IF CanVote(r, m) /\ is_up_to_date(r.log, m.index, m.logTerm)
        THEN [send(r, [Msg(r, type, m.from) EXCEPT !.term = m.term])
                EXCEPT !.vote = IF pre THEN @ ELSE m.from]
        ELSE maybe_commit_by_vote(
                send(r, [Msg(r, type, m.from) EXCEPT !.reject = TRUE,
                            !.commit = commit_info(r.log).index,
                            !.commitTerm = commit_info(r.log).term]), m)
=============================================================================
