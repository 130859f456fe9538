------------------------------- MODULE MCRoot -------------------------------
(***************************************************************************)
(* The root: a behaviour is one of TxnIdAlloc (ids of transactions), one   *)
(* of RootSchedule (the policies that move leaders, replicas and shards),  *)
(* or one of RootReport (what the root learns of the groups and tells its  *)
(* watchers).                                                              *)
(***************************************************************************)
EXTENDS TxnIdAlloc

VARIABLES
    part,    \* the component of the behaviour
    sched_cl, sched_rows, sched_delta, sched_big, sched_stat, sched_splits, sched_tasks, sched_sch,
    sched_due, sched_hb, sched_dead, sched_budget,
    report_budget, report_group, report_chan, report_report, report_table, report_root, report_due,
    report_hb, report_hub, report_client


\* RootSchedule: groups gs, each on the nodes hs and led by n, with their shards.
Led(gs, hs, n, shards) ==
    [nodes |-> {1, 2}, big |-> {}, faults |-> 0, reports |-> 0, ops |-> {}, pushes |-> {}, want |-> "none",
     hosts |-> [g \in gs |-> hs], leader |-> [g \in gs |-> n], shards |-> shards]
NoShards == [g \in 1 .. 3 |-> <<>>]

SchedScenarios == {
    \* Every leader on node 1.
    [Led(1 .. 3, 1 .. 3, 1, NoShards) EXCEPT !.nodes = 1 .. 3, !.want = "leaders"],
    [Led(1 .. 2, 1 .. 2, 1, NoShards) EXCEPT !.want = "leaders", !.faults = 1, !.reports = 1],
    \* Every shard in group 1.
    [Led(1 .. 2, {1}, 1, <<<<1, 2, 3, 4>>, <<>>>>) EXCEPT !.nodes = {1}, !.want = "shards", !.faults = 1],
    [Led(1 .. 2, {1, 2}, 1, <<<<1, 2, 3>>, <<>>>>) EXCEPT !.want = "shards", !.reports = 1],
    \* Node 1 leads a group and is drained.
    [Led(1 .. 1, {1, 2}, 1, <<<<>>>>) EXCEPT !.want = "drain", !.ops = {1}],
    \* A node that has too many replicas.
    [Led(1 .. 6, {1}, 1, [g \in 1 .. 6 |-> <<>>]) EXCEPT !.want = "moves", !.faults = 1],
    \* A large shard that is also one to move.
    [Led(1 .. 2, {1}, 1, <<<<1, 2, 3>>, <<>>>>) EXCEPT !.nodes = {1}, !.want = "split", !.big = {1}, !.faults = 2]}

\* RootReport: two changes; a change with a lost heartbeat and a broken stream; an election
\* without a client; a change while the root moves.
Budget(chg, elections, moves, breaks, lost, reconnects, watches) ==
    [changes |-> chg, elections |-> elections, moves |-> moves, breaks |-> breaks,
     lost |-> lost, reconnects |-> reconnects, watches |-> watches]
ReportScenarios == {
    Budget(2, 0, 0, 0, 0, 0, TRUE), Budget(1, 0, 0, 0, 1, 1, TRUE), Budget(0, 1, 0, 0, 0, 0, FALSE),
    Budget(1, 0, 0, 1, 0, 0, FALSE), Budget(1, 0, 1, 0, 0, 0, TRUE)}

Sched == INSTANCE RootSchedule WITH
    cl <- sched_cl, rows <- sched_rows, delta <- sched_delta, big <- sched_big, stat <- sched_stat,
    splits <- sched_splits, tasks <- sched_tasks, sch <- sched_sch, due <- sched_due,
    hb <- sched_hb, dead <- sched_dead, budget <- sched_budget, RootGroup <- 0, ReplicaNum <- 1,
    MaxShard <- 5, Scenarios <- SchedScenarios
schedVars ==
    <<sched_cl, sched_rows, sched_delta, sched_big, sched_stat, sched_splits, sched_tasks,
      sched_sch, sched_due, sched_hb, sched_dead, sched_budget>>

Report == INSTANCE RootReport WITH
    budget <- report_budget, group <- report_group, chan <- report_chan, report <- report_report,
    table <- report_table, root <- report_root, due <- report_due, hb <- report_hb,
    hub <- report_hub, client <- report_client, Scenarios <- ReportScenarios
reportVars ==
    <<report_budget, report_group, report_chan, report_report, report_table, report_root,
      report_due, report_hb, report_hub, report_client>>

\* The components that do not run keep one initial state.
MCInit ==
    /\ part \in {"ids", "sched", "report"}
    /\ AllocInit
    /\ part # "ids" => leader = CHOOSE n \in Node : TRUE
    /\ Sched!Init
    /\ part # "sched" => sched_budget = CHOOSE b \in SchedScenarios : TRUE
    /\ Report!Init
    /\ part # "report" => report_budget = CHOOSE b \in ReportScenarios : TRUE

MCNext ==
    \/ /\ part = "ids" /\ AllocNext
       /\ UNCHANGED <<part, schedVars, reportVars>>
    \/ /\ part = "sched" /\ Sched!Next
       /\ UNCHANGED <<part, allocVars, reportVars>>
    \/ /\ part = "report" /\ Report!Next
       /\ UNCHANGED <<part, allocVars, schedVars>>

MCSpec == MCInit /\ [][MCNext]_<<part, allocVars, schedVars, reportVars>>

\* The scheduler and the heartbeats are tasks of the runtime that are woken
\* by timers, and the groups finish what they have accepted.
schedFairness ==
    /\ WF_schedVars(part = "sched" /\ Sched!Scheduler)
    /\ WF_schedVars(part = "sched" /\ Sched!Heartbeats)
    /\ WF_schedVars(part = "sched" /\ Sched!Interval)
    /\ WF_schedVars(part = "sched" /\ \E g \in Sched!Group : Sched!MoveReplicaEnds(g) \/ Sched!PullEnds(g))
    /\ WF_schedVars(part = "sched" /\ \E n \in Sched!Nodes : Sched!sched_leader(n))

(* Elections end, every daemon goes on, and every call is answered.        *)
reportFairness ==
    /\ \A r \in Report!Replicas :
        /\ WF_reportVars(part = "report" /\ Report!Win(r))
        /\ WF_reportVars(part = "report" /\ Report!Follow(r))
        /\ WF_reportVars(part = "report" /\ Report!ReportStep(r))
    /\ \A n \in Report!Roots :
        /\ WF_reportVars(part = "report" /\ Report!step_leader(n))
        /\ WF_reportVars(part = "report" /\ Report!drop_leader(n))
        /\ WF_reportVars(part = "report" /\ Report!BeatStep(n))
    /\ WF_reportVars(part = "report" /\ Report!ClientStep)

MCFairSpec == MCSpec /\ schedFairness /\ reportFairness

\* ClusterStats::split_shards: a shard that is being split is not queued a
\* second time, though its split failed and the scheduler has polled again.
SplitQueuedOnce == part = "sched" => Sched!SplitQueuedOnce

\* handle_reallocate_replica plans from rows that may be behind the group:
\* no group takes in a replica on a node that has one, or sends one away
\* from a node that has none.
MovesGoElsewhere == part = "sched" => Sched!MovesGoElsewhere

\* try_migrate_shard plans from rows that may be behind: a shard is in one
\* group, once, whatever epoch a move or a split was planned with.
OneHomePerShard == part = "sched" => Sched!OneHomePerShard

\* LeaderCountPolicy under stale rows: whatever the order of transfers,
\* heartbeats, reports, failed calls and elections, where every node hosts
\* every group the leaders are spread evenly in the end, and stay so.
LeadersGetBalanced == <>[](part = "sched" => Sched!LeadersBalanced)

\* ShardCountPolicy under stale rows: the shards are spread evenly in the
\* end, although a move is planned with an epoch the source may have left.
ShardsGetBalanced == <>[](part = "sched" => Sched!ShardsBalanced)

\* handle_shed_leader: a drain whose groups have another active replica does
\* not go on for ever.
DrainEnds == []<>(part = "sched" => ~Sched!Draining)

\* A change that is in the rows is known to a watcher of the root leader: the router has seen it, it
\* is in the watcher's updates, or a handler that has written is about to notify (watch.rs).
NothingIsMissed == part = "report" => Report!TypeOK /\ Report!NothingIsMissed

(* The rows end up as the group is, though two handlers that have each     *)
(* compared an epoch or a term with a row may write the older one last:    *)
(* the next heartbeat writes the newer one again.                          *)
RootCatchesUp == <>[](part = "report" => Report!RootIsCurrent)

(* A client whose stream is with the root leader ends up with the newest   *)
(* descriptor of the group, although two handlers may notify in the wrong  *)
(* order (apply_group_descriptor keeps the newest epoch for the shards).   *)
WatcherCatchesUp == <>[](part = "report" => Report!WatcherIsCurrent)

\* What the scheduler plans from rows that are behind does no harm: a shard has one home and is split
\* once, and a replica goes to a node that has none (schedule.rs, stats.rs).
PlansAreSound ==
    /\ part = "sched" => Sched!TypeOK
    /\ SplitQueuedOnce /\ MovesGoElsewhere /\ OneHomePerShard

\* The root converges though its rows lag behind the groups: leaders and shards get balanced, a drain
\* ends, and the rows and the routers of watching clients catch up (allocator, heartbeat.rs, watch.rs).
RootConverges ==
    /\ LeadersGetBalanced /\ ShardsGetBalanced /\ DrainEnds
    /\ RootCatchesUp /\ WatcherCatchesUp
=============================================================================
