------------------------------ MODULE MCClient ------------------------------
(***************************************************************************)
(* The client side in one run: a behaviour is one of RangeScan (a scan by  *)
(* pages), of Routing (a request and the router beside moves of a shard),  *)
(* of RootClient (requests to the root), or of EtcdStore (the etcd layer). *)
(***************************************************************************)
EXTENDS RangeScan, TLC

CONSTANT Parts   \* the components that are run

VARIABLES
    part,    \* the component of the behaviour
    route_grp, route_move, route_down, route_router, route_gc, route_runs, route_crowded,
    route_budget,
    root_root, root_hasCore, root_view, root_mail, root_core, root_lock, root_req, root_budget,
    etcd_exists, etcd_handles, etcd_opener, etcd_rows, etcd_clock, etcd_req, etcd_call

\* RangeScan: bytes 0..2 where 2 stands for 0xFF, groups of two bytes.
Old(k) == Row(k, 1, "old", 0)
Gone(k) == {Row(k, 1, "old", 0), Row(k, 2, Tombstone, 0)}
All == [kind |-> "range", begin |-> <<>>, end |-> NoKey]
ka == <<0>>
kb == <<0, 1, 1>>
kc == <<1>>
kd == <<1, 1>>
ke == <<1, 2>>
Put(k) == k :> "new"
NoWrites == [k \in {} |-> "new"]

Scenario(data, writes, range, limit, split, moved) ==
    [rows |-> data, clock |-> 2, writes |-> writes, range |-> range, limit |-> limit, split |-> split,
     move |-> moved, retries |-> 0, cancel |-> FALSE]

MCScenarios == {
    \* a split and a move between the pages of a scan
    Scenario({Old(ka), Old(kd), Old(ke)}, NoWrites, All, 1, kd, 2),
    \* a transaction over two shards
    Scenario({Old(ka), Old(kd)}, (ka :> "new") @@ (ke :> "new"), All, 1, kd, 0),
    \* a deleted key and a key of three groups
    Scenario({Old(ka), Old(<<1, 0, 0, 0, 1>>)} \cup Gone(kd), Put(kd), All, 2, <<1, 0, 0, 1>>, 1),
    \* new keys before an old one in a shard that moves
    Scenario({Old(ke)}, (ka :> "new") @@ (kd :> "new"), All, 1, NoKey, 1),
    \* keys that extend each other
    Scenario({Old(ka), Old(kb), Old(kc), Old(kd)}, (kd :> Tombstone), All, 0, kc, 1),
    Scenario({Old(ka), Old(kb), Old(kc), Old(kd)}, Put(kb),
             [All EXCEPT !.begin = <<0, 1>>, !.end = kd], 0, kc, 2),
    Scenario({Old(ka), Old(kd), Old(ke), Old(<<2>>)}, Put(ke),
             [kind |-> "prefix", begin |-> kc, end |-> NoKey], 1, NoKey, 1),
    [Scenario({Old(ka), Old(kd)}, Put(ka), All, 1, NoKey, 0) EXCEPT !.cancel = TRUE]}

\* Pages that end at a key which others extend.
Extended == {Scenario({Old(ka), Old(kb), Old(kc)}, NoWrites, All, 1, NoKey, 0)}

\* Routing: groups 1 and 2 of two replicas each, which share node 2.
RouteCase(kind, leaders, configs, shards, failures, moves, losses) ==
    [kind |-> kind, replicas |-> << {1, 2}, {2, 3} >>, leaders |-> leaders, configs |-> configs,
     shards |-> shards, failures |-> failures, moves |-> moves, losses |-> losses, deadline |-> FALSE]

RouteScenarios == {
    RouteCase("write", 1, 0, 0, 0, 1, 1),
    RouteCase("write", 0, 1, 0, 0, 1, 0),
    RouteCase("write", 0, 0, 1, 0, 2, 0),
    RouteCase("write", 1, 0, 0, 1, 0, 0),
    RouteCase("write", 0, 1, 0, 1, 0, 0),
    RouteCase("scan", 0, 1, 0, 0, 1, 0),
    RouteCase("get", 0, 0, 0, 1, 1, 1),
    RouteCase("split", 1, 1, 0, 0, 0, 1),
    RouteCase("create", 0, 1, 0, 0, 1, 1),
    [RouteCase("write", 1, 1, 0, 0, 0, 0) EXCEPT !.deadline = TRUE]}

\* RootClient: root nodes fall, leaders change, the root group loses a node and an answer is
\* lost, beside two requests that share one core, which may be empty or out of date.
MCRoots == << <<2, 3, 1>>, <<2, 3>> >>
RootScenarios == {
    [fails |-> 1, elects |-> 0, replaces |-> 0, lost |-> 0, cached |-> {1}, reqs |-> {1, 2}],
    [fails |-> 0, elects |-> 1, replaces |-> 1, lost |-> 0, cached |-> {3}, reqs |-> {1}],
    [fails |-> 0, elects |-> 0, replaces |-> 1, lost |-> 0, cached |-> {}, reqs |-> {1, 2}],
    [fails |-> 0, elects |-> 1, replaces |-> 0, lost |-> 1, cached |-> {1}, reqs |-> {1}]}

\* EtcdStore: three clients on two layer servers.
EtcdPut(k, v) == [type |-> "put", key |-> k, value |-> v, ignore_value |-> FALSE]
EtcdKeep(k) == [EtcdPut(k, 0) EXCEPT !.ignore_value = TRUE]
EtcdDelete(k, range_end) == [type |-> "delete", key |-> k, range_end |-> range_end]
EtcdRange(k, range_end) ==
    [type |-> "range", key |-> k, range_end |-> range_end, limit |-> 0, revision |-> 0, min_create |-> 0,
     max_create |-> 0, min_mod |-> 0, max_mod |-> 0]
EtcdIf(k, target, result, v) ==
    [key |-> k, target |-> target, union |-> target, result |-> result, value |-> v, range_end |-> <<>>]
EtcdTxn(compares, success, failure) ==
    [type |-> "txn", compare |-> compares, success |-> success, failure |-> failure]

EtcdScenarios == {
    \* one key is put three times
    << EtcdPut(kc, 1), EtcdPut(kc, 2), EtcdKeep(kc) >>,
    \* keys are put into a range that is deleted
    << EtcdPut(kc, 1), EtcdDelete(kc, <<2>>), EtcdPut(kd, 2) >>,
    \* a lock is taken by who creates it, or who changes another key
    << EtcdTxn(<<EtcdIf(kc, "create", "equal", 0)>>, <<EtcdPut(kc, 1)>>, <<EtcdRange(kc, <<>>)>>),
       EtcdTxn(<<EtcdIf(kc, "version", "less", 1), EtcdIf(kd, "mod", "equal", 0)>>, <<EtcdPut(kd, 2)>>,
               <<EtcdDelete(kc, <<>>)>>),
       EtcdPut(kd, 3) >>,
    \* a transaction in a transaction, and a range at an old revision
    << EtcdPut(kc, 1),
       EtcdTxn(<<>>, <<EtcdPut(kd, 2),
                       EtcdTxn(<<EtcdIf(kc, "data", "greater", 0)>>, <<EtcdDelete(kc, <<>>)>>, <<>>)>>, <<>>),
       [EtcdRange(<<0>>, <<0>>) EXCEPT !.limit = 1, !.revision = 1, !.max_mod = 1] >>,
    \* a compare whose union is not that of its target
    << EtcdPut(kc, 1), EtcdTxn(<<[EtcdIf(kc, "mod", "notequal", 0) EXCEPT !.union = "create"]>>, <<>>, <<>>),
       EtcdDelete(<<1>>, <<0>>) >>}

Route == INSTANCE Routing WITH
    grp <- route_grp, move <- route_move, down <- route_down, router <- route_router,
    gc <- route_gc, runs <- route_runs, crowded <- route_crowded, budget <- route_budget,
    Nodes <- {1, 2, 3}, Scenarios <- RouteScenarios
routeVars ==
    <<route_grp, route_move, route_down, route_router, route_gc, route_runs, route_crowded,
      route_budget>>

Root == INSTANCE RootClient WITH
    root <- root_root, hasCore <- root_hasCore, view <- root_view, mail <- root_mail,
    core <- root_core, lock <- root_lock, req <- root_req, budget <- root_budget, Roots <- MCRoots,
    Nodes <- {1, 2, 3}, Discovery <- <<1, 2>>, Requests <- {1, 2}, MaxMail <- 2,
    Scenarios <- RootScenarios
rootVars ==
    <<root_root, root_hasCore, root_view, root_mail, root_core, root_lock, root_req, root_budget>>

Etcd == INSTANCE EtcdStore WITH
    exists <- etcd_exists, handles <- etcd_handles, opener <- etcd_opener, rows <- etcd_rows,
    clock <- etcd_clock, req <- etcd_req, call <- etcd_call, Client <- {1, 2, 3},
    ServerOf <- <<1, 1, 2>>, UserKeys <- {ka, kb, kc, kd, <<2>>}, Scenarios <- EtcdScenarios
etcdVars == <<etcd_exists, etcd_handles, etcd_opener, etcd_rows, etcd_clock, etcd_req, etcd_call>>

\* The components that do not run keep one initial state.
MCInit ==
    /\ part \in Parts
    /\ Init
    /\ part # "scan" => budget = CHOOSE b \in Scenarios : TRUE
    /\ Route!Init
    /\ part # "route" => route_budget = CHOOSE b \in RouteScenarios : TRUE
    /\ Root!Init
    /\ part # "root" => root_budget = CHOOSE b \in RootScenarios : TRUE
    /\ Etcd!Init
    /\ part # "etcd" => etcd_req = CHOOSE b \in EtcdScenarios : TRUE

MCNext ==
    \/ /\ part = "scan" /\ Next
       /\ UNCHANGED <<part, routeVars, rootVars, etcdVars>>
    \/ /\ part = "route" /\ Route!Next
       /\ UNCHANGED <<part, vars, rootVars, etcdVars>>
    \/ /\ part = "root" /\ Root!Next
       /\ UNCHANGED <<part, vars, routeVars, etcdVars>>
    \/ /\ part = "etcd" /\ Etcd!Next
       /\ UNCHANGED <<part, vars, routeVars, rootVars>>

MCSpec == MCInit /\ [][MCNext]_<<part, vars, routeVars, rootVars, etcdVars>>

\* The scanner and its retries run on, the watch stream delivers, and moves end.
scanFairness ==
    /\ []<>(part # "scan" \/ sc.state # "Normal") \/ []<><<ScanStep>>_vars
    /\ WF_vars(part = "scan" /\ Refresh)
    /\ WF_vars(part = "scan" /\ FinishMove)

\* Moves end, a group whose leader is gone elects another one, the watch stream delivers,
\* and the client runs on.
routeFairness ==
    /\ WF_routeVars(part = "route" /\ Route!ClientStep)
    /\ WF_routeVars(part = "route" /\ Route!ApplyFirst)
    /\ WF_routeVars(part = "route" /\ Route!ApplySecond)
    /\ \A g \in Route!Groups :
        /\ WF_routeVars(part = "route" /\ Route!WatchGroup(g))
        /\ WF_routeVars(part = "route" /\ Route!WatchGroupState(g))
        /\ WF_routeVars(/\ part = "route" /\ route_grp[g].leader \in route_down
                        /\ Route!ChangeLeader(g))

\* The tasks of the client run; a leader is elected, serves and sends heartbeats
\* every interval of the root, and a heartbeat under way arrives.
rootFairness ==
    /\ WF_rootVars(part = "root" /\ Root!ElectFirst)
    /\ WF_rootVars(part = "root" /\ Root!Serve)
    /\ \A n \in {1, 2, 3} :
        /\ WF_rootVars(part = "root" /\ Root!StepDown(n))
        /\ WF_rootVars(part = "root" /\ Root!SendHeartbeat(n))
        /\ WF_rootVars(part = "root" /\ Root!update_root(n))
    /\ \A i \in {1, 2} : WF_rootVars(part = "root" /\ Root!RequestStep(i))

MCFairSpec == MCSpec /\ scanFairness /\ routeFairness /\ rootFairness

\* A scan comes to an end: shards that split and move, lost answers and open
\* transactions only delay it.
ScanEnds == []<>(part = "scan" => ScanIsOver)

\* A router that has the last descriptor of both groups finds the shard in a group that serves it
\* (update_shard_by_group_descriptor).
RouterFollowsMoves == part = "route" => Route!RouterFollowsMoves

\* A write is executed at most once, whatever nodes fail, answers are lost, or leaders and
\* epochs the client did not know of (apply_status, retry.rs).
WriteRunsOnce == part = "route" => Route!WriteRunsOnce

\* What the client is told agrees with what was executed: Ok means that it was, and an error
\* other than a lost answer that it was not.
ResultIsTrue == part = "route" => Route!ResultIsTrue

\* A request for a shard is only executed by a group that serves it: no node meets the
\* panic of replica/retry.rs for a shard that is not found.
RunsWhereShardIs == Route!RunsWhereShardIs

\* Every request comes to an end, and not because the group can not be accessed.
RequestsEnd == []<>(part = "route" => Route!RequestIsOver)

\* invoke_with_timeout indexes root_nodes with the cached leader: the index
\* belongs to the descriptor beside it, in the shared core and in every copy, so
\* a replaced descriptor never keeps the leader of the one before.
LeaderIsListed == part = "root" => Root!LeaderIsListed

\* A request that ends with an older descriptor than the one another request has
\* saved meanwhile does not overwrite it: the epoch of the shared core only grows
\* (Client::apply_core), and so does the epoch of each request's copy, however
\* old the descriptors are that the nodes answer with.
EpochsGrow == Root!EpochsGrow

\* Once faults stop, every request reaches the leader: neither the jumps back to
\* the top of the loop on a newer descriptor or a newer term, nor the wait for
\* the refresh lock, go on for ever.
RootRequestsEnd == []<>(part = "root" => Root!RequestsAreOver)

\* The etcd layer is a key-value store with revisions: the versions of a key are a chain, an answer tells
\* what was replaced or deleted at its revision, and a transaction takes the branch its compares choose
\* (layers/etcd/src/store.rs).
EtcdIsTrue == part = "etcd" => Etcd!EtcdIsTrue

\* What a client is told through stale routes is true: a write runs at most once and its result is that
\* of its run, the router follows moves, and the leader of the root is one of the root nodes.
RoutesAreTrue ==
    /\ part = "route" => Route!TypeOK
    /\ part = "root" => Root!TypeOK
    /\ RouterFollowsMoves /\ WriteRunsOnce /\ ResultIsTrue /\ LeaderIsListed

\* No step goes back to an older route: a request runs only where its shard is, and the root descriptor
\* a client keeps is never replaced by an older one (GroupClient::apply_status, Client::apply_core).
RoutesNeverGoBack == RunsWhereShardIs /\ EpochsGrow

\* Scans, requests to groups and requests to the root come to an end.
CallsEnd == ScanEnds /\ RequestsEnd /\ RootRequestsEnd
=============================================================================
