----------------------------- MODULE RootSchedule -----------------------------
(***************************************************************************)
(* The scheduler of the root (server/src/root/schedule.rs): it reads the   *)
(* rows of the schema, asks the policies of the allocator what replica,    *)
(* leader or shard to move next (server/src/root/allocator), queues tasks  *)
(* and advances them against the groups, while heartbeats (heartbeat.rs)   *)
(* bring the rows up to date and the operator cordons and drains nodes     *)
(* (mod.rs).  What the rows say is older than the groups.                  *)
(*                                                                         *)
(* The policies read a view of the cluster, a record: nodes (the           *)
(* schedulable ones), replicas and leaders (what each node counts), hosts  *)
(* (group -> nodes of its descriptor), states (group -> nodes with a       *)
(* replica state), leads (group -> nodes whose replica state says leader), *)
(* shards (group -> sequence of shards).  Nodes and groups are numbers, in *)
(* the order the schema lists them.  The code compares floating point      *)
(* means; here both sides are multiplied by the number of nodes.           *)
(***************************************************************************)
EXTENDS Integers, Sequences, FiniteSets, SequencesExt

CONSTANTS RootGroup,   \* ROOT_GROUP_ID
          ReplicaNum   \* REPLICA_PER_GROUP

\* The numbers of S in the order the schema lists them.
Listed(S) == IF S = {} THEN <<>> ELSE SelectSeq([i \in 1 .. Max(S) |-> i], LAMBDA i : i \in S)

Total(count, S) == FoldSet(LAMBDA n, sum : count[n] + sum, 0, S)

\* node_balance_state: further than max(5% of the mean, 2) from the mean.
ReplicaDelta(count, S) ==
    LET total == Total(count, S)
        least == 40 * Cardinality(S)
    IN IF total > least THEN total ELSE least
ReplicaOverfull(c, count, S) ==
    20 * c * Cardinality(S) > 20 * Total(count, S) + ReplicaDelta(count, S)
ReplicaUnderfull(c, count, S) ==
    20 * c * Cardinality(S) < 20 * Total(count, S) - ReplicaDelta(count, S)

\* leader_balance_state and group_balance_state: further than 0.5 from it.
Overfull(c, count, S) == 2 * c * Cardinality(S) > 2 * Total(count, S) + Cardinality(S)
Underfull(c, count, S) == 2 * c * Cardinality(S) < 2 * Total(count, S) - Cardinality(S)

\* rank_node_for_balance: the fullest first, a stable sort of the listed order.
Ranked(count, S) ==
    SortSeq(Listed(S), LAMBDA a, b : count[a] > count[b] \/ (count[a] = count[b] /\ a < b))

First(seq, P(_)) == LET hits == SelectSeq(seq, P) IN IF hits = <<>> THEN <<>> ELSE <<hits[1]>>

\* ReplicaCountPolicy::preferred_remove_replica, in the order of the groups.
preferred_remove_replica(v, src, target) ==
    First(Listed({g \in DOMAIN v.hosts : src \in v.hosts[g]}),
          LAMBDA g : /\ g # RootGroup
                     /\ Cardinality(v.hosts[g] \cup v.states[g]) >= ReplicaNum
                     /\ target \notin v.hosts[g] \cup v.states[g])

\* ReplicaCountPolicy::rebalance_target: the first target that has room is
\* the only one tried.
rebalance_replica(v, src) ==
    LET room == First(Reverse(Ranked(v.replicas, v.nodes)),
                      LAMBDA n : /\ ReplicaUnderfull(v.replicas[n], v.replicas, v.nodes)
                                 /\ ~ReplicaOverfull(v.replicas[n] + 1, v.replicas, v.nodes))
    IN IF room = <<>> THEN <<>>
       ELSE LET gs == preferred_remove_replica(v, src, room[1])
            IN IF gs = <<>> THEN <<>> ELSE <<[group |-> gs[1], src |-> src, dst |-> room[1]]>>

\* ReplicaCountPolicy::compute_balance.
compute_replica_balance(v) ==
    LET srcs == SelectSeq(Ranked(v.replicas, v.nodes),
                          LAMBDA n : /\ ReplicaOverfull(v.replicas[n], v.replicas, v.nodes)
                                     /\ rebalance_replica(v, n) # <<>>)
    IN IF srcs = <<>> THEN <<>> ELSE rebalance_replica(v, srcs[1])

\* LeaderCountPolicy::try_descrease_node_leader_count: the targets of a group.
leader_targets(v, src, g) ==
    SelectSeq(Reverse(Ranked(v.leaders, v.nodes)),
              LAMBDA n : /\ Underfull(v.leaders[n], v.leaders, v.nodes)
                         /\ ~Overfull(v.leaders[n] + 1, v.leaders, v.nodes)
                         /\ n \in v.hosts[g] \ {src})
try_descrease_node_leader_count(v, src) ==
    LET gs == First(Listed({g \in DOMAIN v.hosts \ {RootGroup} : src \in v.hosts[g]}),
                    LAMBDA g : src \in v.leads[g] /\ leader_targets(v, src, g) # <<>>)
    IN IF gs = <<>> THEN <<>>
       ELSE <<[group |-> gs[1], src |-> src, dst |-> leader_targets(v, src, gs[1])[1]]>>

\* LeaderCountPolicy::compute_balance.
compute_leader_balance(v) ==
    LET srcs == SelectSeq(Ranked(v.leaders, v.nodes),
                          LAMBDA n : /\ Overfull(v.leaders[n], v.leaders, v.nodes)
                                     /\ try_descrease_node_leader_count(v, n) # <<>>)
    IN IF srcs = <<>> THEN <<>> ELSE try_descrease_node_leader_count(v, srcs[1])

\* ShardCountPolicy::compute_balance.  The groups come out of a hash map, so
\* any of the fullest gives its first shard to any of the emptiest.
compute_shard_balance(v) ==
    LET gs == DOMAIN v.shards \ {RootGroup}
        count == [g \in gs |-> Len(v.shards[g])]
        srcs == {g \in gs : /\ Overfull(count[g], count, gs)
                            /\ \A h \in gs : count[h] <= count[g]}
        dsts == {g \in gs : /\ Underfull(count[g], count, gs)
                            /\ ~Overfull(count[g] + 1, count, gs)
                            /\ \A h \in gs : count[h] >= count[g]}
    IN {[group |-> s, dst |-> d, shard |-> Head(v.shards[s])] : s \in srcs, d \in dsts}

-----------------------------------------------------------------------------
CONSTANTS Scenarios,     \* records: the cluster at the start, and the budgets
          MaxShard       \* bound on shard ids (splits)

VARIABLES
    cl,      \* the groups: hosts, leader, term, epoch, shards, move in progress
    rows,    \* the schema: descriptors, replica states, node counts and status
    delta,   \* ClusterStats: group -> ScheduleState kept by replace_state
    big,     \* the shards above SPLIT_THRESHOLD
    stat, splits,    \* TableSetStats: <<group, shard>> reported large; split_shards
    tasks, sch,      \* ReconcileScheduler::tasks; what the scheduler is doing
    due, hb,         \* nodes to be heartbeat now; the heartbeats in flight
    dead,            \* nodes whose liveness has expired
    budget
vars == <<cl, rows, delta, big, stat, splits, tasks, sch, due, hb, dead, budget>>

Group == DOMAIN budget.hosts
Nodes == budget.nodes
NoRole == [term |-> 0, lead |-> FALSE, known |-> FALSE]
NoMove == [epoch |-> 0, inc |-> {}, out |-> {}]
NoPull == [src |-> 0, shard |-> 0, epoch |-> 0]
Idle == [pc |-> "idle", nodes |-> {}, snap |-> <<>>, seen |-> <<>>, lost |-> {}, known |-> <<>>,
         big |-> {}]
Polling == [pc |-> "poll", at |-> 1, hot |-> FALSE]

RoleOf(g, n) == [term |-> cl[g].term, lead |-> cl[g].leader = n, known |-> TRUE]
CountOf(n) == [replicas |-> Cardinality({g \in Group : n \in cl[g].hosts}),
               leaders |-> Cardinality({g \in Group : cl[g].leader = n})]

Init ==
    /\ budget \in Scenarios
    /\ cl = [g \in Group |-> [hosts |-> budget.hosts[g], leader |-> budget.leader[g], term |-> 1,
                              epoch |-> 1, shards |-> budget.shards[g], move |-> NoMove,
                              pull |-> NoPull]]
    /\ rows = [desc |-> [g \in Group |-> [hosts |-> cl[g].hosts, epoch |-> 1, shards |-> cl[g].shards]],
               role |-> [g \in Group |-> [n \in Nodes |->
                           IF n \in cl[g].hosts THEN RoleOf(g, n) ELSE NoRole]],
               count |-> [n \in Nodes |-> CountOf(n)],
               status |-> [n \in Nodes |-> "active"]]
    /\ delta = [g \in Group |-> NoMove]
    /\ big = budget.big /\ stat = {} /\ splits = {} /\ tasks = <<>> /\ sch = Polling
    /\ due = Nodes /\ hb = Idle /\ dead = {}

(***************************************************************************)
(* What the allocator sees (source.rs, stats.rs).                          *)
(***************************************************************************)
node_delta(n) == Cardinality({g \in Group : n \in delta[g].inc})
                   - Cardinality({g \in Group : n \in delta[g].out})
node_replica_count(n) ==
    LET c == rows.count[n].replicas + node_delta(n) IN IF c < 0 THEN 0 ELSE c

Schedulable == {n \in Nodes : rows.status[n] = "active" /\ n \notin dead}

refresh_all ==
    [nodes |-> Schedulable,
     replicas |-> [n \in Nodes |-> node_replica_count(n)],
     leaders |-> [n \in Nodes |-> rows.count[n].leaders],
     hosts |-> [g \in Group |-> rows.desc[g].hosts],
     states |-> [g \in Group |-> {n \in Nodes : rows.role[g][n].known}],
     leads |-> [g \in Group |-> {n \in Nodes : rows.role[g][n].lead}],
     shards |-> [g \in Group |-> rows.desc[g].shards]]

\* get_large_shards: not the root group's, and not those being split.
get_large_shards == {gs \in stat : gs[1] # RootGroup /\ gs[2] \notin splits}

(***************************************************************************)
(* poll_and_schedule and generate_schedule_task: the tasks of this round.  *)
(***************************************************************************)
Task(kind, g, src, dst, s) == [kind |-> kind, group |-> g, src |-> src, dst |-> dst, shard |-> s]
AsTask(kind, acts) ==
    IF acts = <<>> THEN <<>> ELSE <<Task(kind, acts[1].group, acts[1].src, acts[1].dst, 0)>>
ShardTasks(v) ==
    LET acts == compute_shard_balance(v) IN
    IF acts = {} THEN {<<>>} ELSE {<<Task("shard", a.group, 0, a.dst, a.shard)>> : a \in acts}

Planned(v) ==
    {AsTask("replica", compute_replica_balance(v)) \o AsTask("leader", compute_leader_balance(v))
       \o st : st \in ShardTasks(v)}

generate_schedule_task ==
    /\ sch.pc = "poll"
    /\ \E v \in {refresh_all} : \E plan \in Planned(v) :
         LET split == SetToSeq(get_large_shards)
             new == plan \o [i \in DOMAIN split |-> Task("split", split[i][1], 0, 0, split[i][2])]
         IN /\ tasks' = tasks \o new
            /\ splits' = splits \cup {split[i][2] : i \in DOMAIN split}
            /\ sch' = [Polling EXCEPT !.pc = IF tasks' = <<>> THEN "sleep" ELSE "free"]
    /\ UNCHANGED <<cl, rows, delta, big, stat, due, hb, dead, budget>>

(***************************************************************************)
(* advance_tasks: one task after the other; an acknowledged one is removed *)
(* and one that failed stays.  Unless some acknowledged task asks to wait, *)
(* the next pass starts at once.                                           *)
(***************************************************************************)
Doing(kind) == sch.pc = "advance" /\ sch.at <= Len(tasks) /\ tasks[sch.at].kind = kind
Cur == tasks[sch.at]
\* SchedResult::ack, SchedResult::next and an error.
Ack(wait) ==
    /\ tasks' = RemoveAt(tasks, sch.at)
    /\ sch' = [sch EXCEPT !.hot = @ /\ ~wait]
Retry == sch' = [sch EXCEPT !.at = @ + 1] /\ UNCHANGED tasks

\* advance_tasks takes the lock of the queue for one pass.
BeginPass ==
    /\ sch.pc = "free"
    /\ sch' = IF tasks = <<>> THEN [Polling EXCEPT !.pc = "sleep"]
              ELSE [pc |-> "advance", at |-> 1, hot |-> TRUE]
    /\ UNCHANGED <<cl, rows, delta, big, stat, splits, tasks, due, hb, dead, budget>>
EndOfPass ==
    /\ sch.pc = "advance" /\ sch.at > Len(tasks)
    /\ sch' = [Polling EXCEPT !.pc = IF sch.hot THEN "free" ELSE "sleep"]
    /\ UNCHANGED <<cl, rows, delta, big, stat, splits, tasks, due, hb, dead, budget>>

\* After the interval of the scheduler a sentinel goes into the queue.
wait_one_heartbeat_tick ==
    /\ sch.pc = "sleep"
    /\ sch' = [sch EXCEPT !.pc = "tick"]
    /\ UNCHANGED <<cl, rows, delta, big, stat, splits, tasks, due, hb, dead, budget>>

Faulty == budget.faults > 0 /\ budget' = [budget EXCEPT !.faults = @ - 1]

\* The call to the group fails, and the task stays in the queue.
TaskFails ==
    /\ sch.pc = "advance" /\ sch.at <= Len(tasks) /\ Cur.kind # "shed"
    /\ Faulty /\ Retry
    /\ UNCHANGED <<cl, rows, delta, big, stat, splits, due, hb, dead>>

\* try_transfer_leader: raft moves the leadership to a replica of the group.
Transferred(c, g, n) ==
    IF n \in c[g].hosts /\ c[g].leader # n
    THEN [c EXCEPT ![g].leader = n, ![g].term = @ + 1] ELSE c

handle_transfer_leader ==
    /\ Doing("leader")
    /\ cl' = Transferred(cl, Cur.group, Cur.dst)
    /\ due' = due \cup {Cur.src, Cur.dst}
    /\ Ack(FALSE)
    /\ UNCHANGED <<rows, delta, big, stat, splits, hb, dead, budget>>

\* try_shed_leader_before_remove: to the first other replica of the row.
ShedFirst(c, g, n) ==
    LET others == rows.desc[g].hosts \ {n} IN
    IF rows.role[g][n].lead /\ others # {}
    THEN Transferred(c, g, CHOOSE m \in others : \A o \in others : m <= o) ELSE c

\* replace_state: kept if it is newer than what is known of the group.
replace_state(d, g, state) ==
    IF d[g] = NoMove \/ d[g].epoch < state.epoch THEN [d EXCEPT ![g] = state] ELSE d

\* The group refuses an epoch that is not its own (the router's is the row's)
\* and a second change.
MoveRefused(c, g) == rows.desc[g].epoch # c[g].epoch \/ c[g].move # NoMove

\* The scheduler of the group counts only the incoming replica.
\* Without a state of the source replica the task is given up.
handle_reallocate_replica ==
    /\ Doing("replica")
    /\ LET g == Cur.group
           known == rows.role[g][Cur.src].known
           c == IF known THEN ShedFirst(cl, g, Cur.src) ELSE cl
           busy == ~known \/ Cur.src \notin rows.desc[g].hosts \/ MoveRefused(c, g)
           state == [epoch |-> c[g].epoch, inc |-> {Cur.dst}, out |-> {}]
       IN /\ cl' = IF busy THEN c ELSE [c EXCEPT ![g].move = [state EXCEPT !.out = {Cur.src}]]
          /\ delta' = IF busy THEN delta ELSE replace_state(delta, g, state)
          /\ Ack(known)
    /\ UNCHANGED <<rows, big, stat, splits, due, hb, dead, budget>>

\* handle_migrate_shard: the target accepts the shard of the row, unless it
\* is moving one already; the shard is pulled later.
handle_migrate_shard ==
    LET g == Cur.group
        s == Cur.shard IN
    /\ Doing("shard")
    /\ \/ /\ s \notin Range(rows.desc[g].shards)
          /\ Ack(TRUE) /\ UNCHANGED <<cl, due>>
       \/ /\ s \in Range(rows.desc[g].shards) /\ cl[Cur.dst].pull # NoPull
          /\ Retry /\ UNCHANGED <<cl, due>>
       \/ /\ s \in Range(rows.desc[g].shards) /\ cl[Cur.dst].pull = NoPull
          /\ cl' = [cl EXCEPT ![Cur.dst].pull =
                       [src |-> g, shard |-> s, epoch |-> rows.desc[g].epoch]]
          /\ due' = due \cup {cl[g].leader, cl[Cur.dst].leader}
          /\ Ack(TRUE)
    /\ UNCHANGED <<rows, delta, big, stat, splits, hb, dead, budget>>

\* handle_split_shard: a shard without a split key is given up, not delayed
\* (SchedResult::delay acknowledges the task), and so is an old epoch; with
\* the epoch of the group, a shard that has left it is an error.
handle_split_shard ==
    LET g == Cur.group
        s == Cur.shard
        current == rows.desc[g].epoch = cl[g].epoch
        here == s \in Range(cl[g].shards)
        new == 1 + Cardinality(UNION {Range(cl[h].shards) : h \in Group}) IN
    /\ Doing("split")
    /\ \/ /\ current /\ ~here
          /\ Retry /\ UNCHANGED <<cl, big, splits>>
       \/ /\ ~current \/ (here /\ s \notin big)
          /\ Ack(FALSE) /\ splits' = splits \ {s} /\ UNCHANGED <<cl, big>>
       \/ /\ current /\ here /\ s \in big
          /\ cl' = [cl EXCEPT ![g].shards = Append(@, new), ![g].epoch = @ + 1]
          /\ big' = big \ {s} /\ splits' = splits \ {s}
          /\ Ack(FALSE)
    /\ UNCHANGED <<rows, delta, stat, due, hb, dead, budget>>

\* handle_shed_leader, one round of its loop: it ends when the node is no
\* longer draining, or when the rows show no leader on it.
LedRows(n) == {g \in Group : rows.role[g][n].lead}
ShedTarget(g, n) == {m \in rows.desc[g].hosts \ {n} : rows.status[m] = "active"}
ShedAll(c, n) ==
    FoldSet(LAMBDA g, acc : LET ms == ShedTarget(g, n) IN
                            IF ms = {} THEN acc
                            ELSE Transferred(acc, g, CHOOSE m \in ms : \A o \in ms : m >= o),
            c, LedRows(n))
handle_shed_leader ==
    LET n == Cur.src IN
    /\ Doing("shed")
    /\ \/ /\ rows.status[n] # "draining"
          /\ Ack(FALSE) /\ UNCHANGED <<cl, rows>>
       \/ /\ rows.status[n] = "draining" /\ LedRows(n) = {}
          /\ rows' = [rows EXCEPT !.status[n] = "drained"]
          /\ Ack(FALSE) /\ UNCHANGED cl
       \/ /\ rows.status[n] = "draining" /\ LedRows(n) # {}
          /\ cl' = ShedAll(cl, n) /\ UNCHANGED <<rows, tasks, sch>>
    /\ UNCHANGED <<delta, big, stat, splits, due, hb, dead, budget>>

(***************************************************************************)
(* The groups.                                                             *)
(***************************************************************************)
Moved(g) == (cl[g].hosts \ cl[g].move.out) \cup cl[g].move.inc

LeaderAfter(g) == IF cl[g].leader \in Moved(g) THEN {cl[g].leader} ELSE Moved(g)

\* The group's own scheduler finishes the move of a replica.
MoveReplicaEnds(g) ==
    /\ cl[g].move # NoMove
    /\ \E n \in LeaderAfter(g) :
         cl' = [cl EXCEPT ![g].hosts = Moved(g), ![g].leader = n, ![g].epoch = @ + 1,
                          ![g].term = IF n = cl[g].leader THEN @ ELSE @ + 1, ![g].move = NoMove]
    /\ UNCHANGED <<rows, delta, big, stat, splits, tasks, sch, due, hb, dead, budget>>

\* Mutant: the source gives the shard to whoever asks.
PullRefusedNever(p) == FALSE

\* The source refuses an old epoch.
PullRefused(p) == p.epoch < cl[p.src].epoch

PullEnds(d) ==
    /\ cl[d].pull # NoPull
    /\ LET p == cl[d].pull
           e == 1 + (IF cl[d].epoch > cl[p.src].epoch THEN cl[d].epoch ELSE cl[p.src].epoch)
       IN cl' = IF PullRefused(p) THEN [cl EXCEPT ![d].pull = NoPull]
                ELSE [cl EXCEPT ![d].pull = NoPull, ![d].epoch = e, ![p.src].epoch = e,
                                ![d].shards = Append(@, p.shard),
                                ![p.src].shards = SelectSeq(@, LAMBDA x : x # p.shard)]
    /\ UNCHANGED <<rows, delta, big, stat, splits, tasks, sch, due, hb, dead, budget>>

\* Another replica of the group is elected.
Elect(g) ==
    /\ Faulty
    /\ \E n \in cl[g].hosts \ {cl[g].leader} : cl' = Transferred(cl, g, n)
    /\ UNCHANGED <<rows, delta, big, stat, splits, tasks, sch, due, hb, dead>>

(***************************************************************************)
(* Heartbeats and reports.                                                 *)
(***************************************************************************)
\* The nodes whose interval is over (the delay queue).
Interval ==
    /\ hb = Idle /\ due = {}
    /\ due' = Nodes
    /\ UNCHANGED <<cl, rows, delta, big, stat, splits, tasks, sch, hb, dead, budget>>

\* try_poll, and send_heartbeat up to the calls: the sentinel is answered
\* before the heartbeats are sent, and the rows of the nodes are read.
PollHeartbeats ==
    /\ hb = Idle /\ (due # {} \/ sch.pc = "tick")
    /\ hb' = IF due = {} THEN Idle
             ELSE [Idle EXCEPT !.pc = "calls", !.nodes = due,
                     !.snap = [n \in due |-> [count |-> rows.count[n], status |-> rows.status[n]]]]
    /\ due' = {}
    /\ sch' = IF sch.pc = "tick" THEN Polling ELSE sch
    /\ UNCHANGED <<cl, rows, delta, big, stat, splits, tasks, dead, budget>>

\* The answers of the nodes, and the list of the groups.
Answers ==
    /\ hb.pc = "calls"
    /\ \/ hb' = [hb EXCEPT !.pc = "handle", !.seen = cl, !.big = big,
                           !.known = [g \in Group |-> rows.desc[g].epoch]]
          /\ UNCHANGED budget
       \/ \E n \in hb.nodes :
            hb' = [hb EXCEPT !.pc = "handle", !.seen = cl, !.big = big, !.lost = {n},
                             !.known = [g \in Group |-> rows.desc[g].epoch]]
          /\ Faulty
    /\ UNCHANGED <<cl, rows, delta, big, stat, splits, tasks, sch, due, dead>>

DescOf(c, g) == [hosts |-> c[g].hosts, epoch |-> c[g].epoch, shards |-> c[g].shards]
SeenRole(c, g, n) == [term |-> c[g].term, lead |-> c[g].leader = n, known |-> TRUE]
\* Mutant: only the first report of a replica is written.
FirstRole(old, new) == IF old.known THEN old ELSE new

\* An older term, or the same role in the same term, is not written.
NewerRole(old, new) == IF old.known /\ new.term <= old.term THEN old ELSE new

\* handle_collect_stats: the row of the node as it was before the call.
handle_collect_stats(r, n) ==
    LET count == [replicas |-> Cardinality({g \in Group : n \in hb.seen[g].hosts}),
                  leaders |-> Cardinality({g \in Group : hb.seen[g].leader = n})]
    IN IF count = hb.snap[n].count THEN r
       ELSE [r EXCEPT !.count[n] = count, !.status[n] = hb.snap[n].status]

NewerDesc(g, n) == hb.seen[g].leader = n /\ hb.seen[g].epoch > hb.known[g]

\* handle_group_detail: descriptors newer than the list of the groups says.
handle_group_detail(r, n) ==
    [r EXCEPT
       !.desc = [g \in Group |->
                   IF NewerDesc(g, n) THEN DescOf(hb.seen, g) ELSE @[g]],
       !.role = [g \in Group |->
                   IF n \in hb.seen[g].hosts
                   THEN [@[g] EXCEPT ![n] = NewerRole(@, SeenRole(hb.seen, g, n))] ELSE @[g]]]

\* handle_group_stats of the groups the node leads.
handle_group_stats(n) ==
    LET led == {g \in Group : hb.seen[g].leader = n}
        told == UNION {Range(hb.seen[g].shards) : g \in led}
    IN {gs \in stat : gs[2] \notin told}
         \cup {gs \in led \X hb.big : gs[2] \in Range(hb.seen[gs[1]].shards)}

\* The state of a group without a task has epoch 0, and replaces nothing.
handle_schedule_state(n) ==
    [g \in Group |-> IF hb.seen[g].leader = n
                     THEN replace_state(delta, g, [hb.seen[g].move EXCEPT !.out = {}])[g]
                     ELSE delta[g]]

\* The answer of one node; one that failed may have expired (liveness.rs).
HandleAnswer ==
    /\ hb.pc = "handle"
    /\ LET n == CHOOSE x \in hb.nodes : \A y \in hb.nodes : x <= y
           rest == hb.nodes \ {n} IN
       /\ hb' = IF rest = {} THEN Idle ELSE [hb EXCEPT !.nodes = rest]
       /\ \/ /\ n \notin hb.lost
             /\ rows' = handle_group_detail(handle_collect_stats(rows, n), n)
             /\ stat' = handle_group_stats(n)
             /\ delta' = handle_schedule_state(n)
             /\ dead' = dead \ {n}
          \/ /\ n \in hb.lost
             /\ dead' \in {dead, dead \cup {n}}
             /\ UNCHANGED <<rows, stat, delta>>
    /\ UNCHANGED <<cl, big, splits, tasks, sch, due, budget>>

\* report: the leader of a group tells its descriptor and its state at once.
report(g) ==
    LET n == cl[g].leader IN
    /\ budget.reports > 0 /\ budget' = [budget EXCEPT !.reports = @ - 1]
    /\ rows' = [rows EXCEPT !.desc[g] = IF @.epoch >= cl[g].epoch THEN @ ELSE DescOf(cl, g),
                            !.role[g][n] = NewerRole(@, RoleOf(g, n))]
    /\ delta' = replace_state(delta, g, [cl[g].move EXCEPT !.out = {}])
    /\ UNCHANGED <<cl, big, stat, splits, tasks, sch, due, hb, dead>>

(***************************************************************************)
(* The operator.                                                           *)
(***************************************************************************)
SetStatus(n, from, to) ==
    /\ n \in budget.ops /\ rows.status[n] \in from
    /\ rows' = [rows EXCEPT !.status[n] = to]
    /\ UNCHANGED <<cl, delta, big, stat, splits, sch, due, hb, dead>>

cordon_node(n) ==
    /\ SetStatus(n, {"active"}, "cordoned")
    /\ budget' = budget /\ UNCHANGED tasks
begin_drain(n) ==
    /\ SetStatus(n, {"cordoned"}, "draining")
    /\ budget' = [budget EXCEPT !.pushes = @ \cup {n}] /\ UNCHANGED tasks
\* sched_leader waits for the lock of the queue.
sched_leader(n) ==
    /\ n \in budget.pushes /\ sch.pc # "advance"
    /\ tasks' = Append(tasks, Task("shed", 0, n, 0, 0))
    /\ budget' = [budget EXCEPT !.pushes = @ \ {n}]
    /\ UNCHANGED <<cl, rows, delta, big, stat, splits, sch, due, hb, dead>>
uncordon_node(n) ==
    /\ SetStatus(n, {"cordoned", "drained"}, "active")
    /\ budget' = [budget EXCEPT !.ops = @ \ {n}] /\ UNCHANGED tasks

Scheduler ==
    \/ generate_schedule_task \/ BeginPass \/ EndOfPass \/ wait_one_heartbeat_tick
    \/ handle_transfer_leader \/ handle_reallocate_replica \/ handle_migrate_shard
    \/ handle_split_shard \/ handle_shed_leader
Heartbeats == Interval \/ PollHeartbeats \/ Answers \/ HandleAnswer

Next ==
    \/ Scheduler \/ TaskFails \/ Heartbeats
    \/ \E g \in Group : MoveReplicaEnds(g) \/ PullEnds(g) \/ Elect(g) \/ report(g)
    \/ \E n \in Nodes : cordon_node(n) \/ begin_drain(n) \/ sched_leader(n) \/ uncordon_node(n)

Spec == Init /\ [][Next]_vars

(***************************************************************************)
(* Properties.                                                             *)
(***************************************************************************)
TypeOK ==
    /\ \A g \in Group : /\ cl[g].hosts \subseteq Nodes /\ cl[g].term \in Nat /\ cl[g].epoch \in Nat
                        /\ cl[g].leader \in cl[g].hosts
                        /\ Range(cl[g].shards) \subseteq 1 .. MaxShard
    /\ rows.status \in [Nodes -> {"active", "cordoned", "draining", "drained"}]
    /\ splits \subseteq 1 .. MaxShard /\ big \subseteq 1 .. MaxShard
    /\ stat \subseteq Group \X (1 .. MaxShard)
    /\ sch.pc \in {"poll", "free", "advance", "sleep", "tick"}
    /\ hb.pc \in {"idle", "calls", "handle"}
    /\ dead \subseteq Nodes /\ due \subseteq Nodes

LeadersOn(n) == Cardinality({g \in Group : cl[g].leader = n})
LeadersAreEven == \A m, n \in Nodes : LeadersOn(m) <= LeadersOn(n) + 1
ShardsAreEven ==
    \A g, h \in Group \ {RootGroup} : Len(cl[g].shards) <= Len(cl[h].shards) + 1

\* LeaderCountPolicy under stale rows: whatever the order of transfers,
\* heartbeats, reports, failed calls and elections, where every node hosts
\* every group the leaders are spread evenly in the end, and stay so.
LeadersBalanced == budget.want = "leaders" => LeadersAreEven

\* ShardCountPolicy under stale rows: the shards are spread evenly in the
\* end, although a move is planned with an epoch the source may have left.
ShardsBalanced == budget.want = "shards" => ShardsAreEven

\* handle_shed_leader: a drain whose groups have another active replica does
\* not go on for ever.
Draining == budget.want = "drain" /\ \E n \in Nodes : rows.status[n] = "draining"

\* ClusterStats::split_shards: a shard that is being split is not queued a
\* second time, though its split failed and the scheduler has polled again.
SplitQueuedOnce ==
    \A i, j \in DOMAIN tasks :
        (tasks[i].kind = "split" /\ tasks[j].kind = "split" /\ tasks[i].shard = tasks[j].shard) => i = j

\* handle_reallocate_replica plans from rows that may be behind the group:
\* no group takes in a replica on a node that has one, or sends one away
\* from a node that has none.
MovesGoElsewhere ==
    \A g \in Group : cl[g].move # NoMove =>
        /\ cl[g].move.inc \cap cl[g].hosts = {}
        /\ cl[g].move.out \subseteq cl[g].hosts

\* try_migrate_shard plans from rows that may be behind: a shard is in one
\* group, once, whatever epoch a move or a split was planned with.
OneHomePerShard ==
    /\ \A g \in Group : Cardinality(Range(cl[g].shards)) = Len(cl[g].shards)
    /\ \A g, h \in Group : g # h => Range(cl[g].shards) \cap Range(cl[h].shards) = {}

================================================================================
