------------------------------- MODULE Routing ------------------------------
\* How a client finds the group, the node and the epoch for a request: the router that
\* the root's watch stream feeds (client/src/rpc/router.rs), the client of one group with
\* its retries (client/src/group_client.rs), and the loop around it that looks the shard
\* up again (client/src/retry.rs), while the shard moves, replicas are replaced, leaders
\* change and nodes fail.
\*
\* There are two groups and one shard that requests are for. A replica is its node.
\* An epoch counts shard changes in tens and configuration changes in ones (2^32 and 1).
EXTENDS Integers, Sequences, FiniteSets

LOCAL INSTANCE SequencesExt
LOCAL INSTANCE FiniteSetsExt

CONSTANTS Nodes, Scenarios

Groups == {1, 2}
ShardDelta == 10
ConfigDelta == 1
None == 0

VARIABLES
    grp,      \* the groups: [epoch, serves, replicas, leader, term, past]; past are earlier leaders
    move,     \* the move of the shard: [step, src, dst, epochs]
    down,     \* nodes that can not be reached
    router,   \* State of the router: [groups, shard]
    gc,       \* GroupClient with the request it invokes
    runs,     \* how often the request was executed
    crowded,  \* a shard was added to a group while it took part in the move
    budget    \* the scenario: the request, and what may still happen

vars == <<grp, move, down, router, gc, runs, crowded, budget>>
clusterVars == <<grp, move, down, crowded>>

Kinds == {"get", "write", "scan", "create", "split"}
Spend(field) == budget' = [budget EXCEPT ![field] = @ - 1]

\* InvokeOpt of each kind of request.
is_read_only_request(kind) == kind \in {"get", "scan"}
accurate_epoch(kind) == kind = "split"
ignore_transport_error(kind) == kind = "split" \/ is_read_only_request(kind)
\* The requests that carry the shard and the key that is_executable looks for.
KeyedRequest(kind) == kind \in {"get", "write"}
PassesRequest(kind) == kind \in {"get", "write", "scan"}

NoGroup == [id |-> None, epoch |-> 0, leader |-> None, term |-> 0, replicas |-> {}]
Idle == [pc |-> "idle", grp |-> None, epoch |-> 0, term |-> 0, leader |-> None, replicas |-> <<>>,
         access |-> None, next |-> 0, answer |-> [kind |-> "none"], result |-> "none"]

Init ==
    /\ budget \in Scenarios
    /\ grp = [g \in Groups |-> [epoch |-> ShardDelta + ConfigDelta, serves |-> g = 1, replicas |-> budget.replicas[g],
                                leader |-> Min(budget.replicas[g]), term |-> 1, past |-> {}]]
    /\ move = [step |-> "none", src |-> 1, dst |-> 2, epochs |-> {}]
    /\ down = {}
    /\ router = [groups |-> [g \in Groups |-> NoGroup], shard |-> [grp |-> None, epoch |-> 0]]
    /\ gc = Idle
    /\ runs = 0
    /\ crowded = FALSE

----------------------------------------------------------------------------
\* The cluster.

ChangeLeader(g) ==
    /\ budget.leaders > 0 \/ grp[g].leader \in down
    /\ \E n \in grp[g].replicas \ (down \cup {grp[g].leader}) :
          grp' = [grp EXCEPT ![g].leader = n, ![g].term = @ + 1,
                             ![g].past = @ \cup {[term |-> grp[g].term, leader |-> grp[g].leader]}]
    /\ budget' = [budget EXCEPT !.leaders = IF grp[g].leader \in down THEN @ ELSE @ - 1]
    /\ UNCHANGED <<move, down, crowded, router, gc, runs>>

ReplaceReplica(g) ==
    /\ budget.configs > 0
    /\ \E n \in grp[g].replicas \ {grp[g].leader}, m \in Nodes \ grp[g].replicas :
          grp' = [grp EXCEPT ![g].replicas = (@ \ {n}) \cup {m}, ![g].epoch = @ + ConfigDelta]
    /\ Spend("configs")
    /\ UNCHANGED <<move, down, crowded, router, gc, runs>>

\* Another shard is created in the group.
AddShard(g) ==
    /\ budget.shards > 0
    /\ grp' = [grp EXCEPT ![g].epoch = @ + ShardDelta]
    /\ crowded' = (crowded \/ move.step # "none")
    /\ Spend("shards")
    /\ UNCHANGED <<move, down, router, gc, runs>>

NodeFails ==
    /\ budget.failures > 0
    /\ \E n \in Nodes : down' = down \cup {n}
    /\ \A g \in Groups : grp[g].replicas \ down' # {}
    /\ Spend("failures")
    /\ UNCHANGED <<grp, move, crowded, router, gc, runs>>

\* The source and the destination agree on the move, and keep both epochs in its descriptor.
SetupMove ==
    /\ budget.moves > 0 /\ move.step = "none"
    /\ LET s == CHOOSE g \in Groups : grp[g].serves
       IN  move' = [step |-> "moving", src |-> s, dst |-> 3 - s, epochs |-> {grp[1].epoch, grp[2].epoch}]
    /\ Spend("moves")
    /\ UNCHANGED <<grp, down, crowded, router, gc, runs>>

\* apply_moving_shard of either group.
apply_moving_shard(g) ==
    /\ grp' = [grp EXCEPT ![g].epoch = Max(move.epochs \cup {@}) + ShardDelta, ![g].serves = g = move.dst]
    /\ UNCHANGED <<down, crowded, router, gc, runs, budget>>

ApplyFirst ==
    /\ move.step = "moving"
    /\ \E g \in Groups : apply_moving_shard(g) /\ move' = [move EXCEPT !.step = IF g = move.src THEN "left" ELSE "arrived"]

ApplySecond ==
    /\ move.step \in {"left", "arrived"}
    /\ apply_moving_shard(IF move.step = "left" THEN move.dst ELSE move.src)
    /\ move' = [move EXCEPT !.step = "none"]

----------------------------------------------------------------------------
\* The router. leader_state of the reports is the leader and its term.

\* apply_group_descriptor: the leader that is known is kept; the shard is taken over
\* when the epoch of the group is higher than the one it was found under.
apply_group_descriptor(g) ==
    LET old == router.groups[g]
        new == [id |-> g, epoch |-> grp[g].epoch, leader |-> old.leader, term |-> old.term, replicas |-> grp[g].replicas]
    IN  [groups |-> [router.groups EXCEPT ![g] = new],
         shard  |-> IF grp[g].serves /\ router.shard.epoch < grp[g].epoch
                    THEN [grp |-> g, epoch |-> grp[g].epoch] ELSE router.shard]

WatchGroup(g) ==
    /\ router.groups[g].epoch < grp[g].epoch
    /\ router' = apply_group_descriptor(g)
    /\ UNCHANGED <<clusterVars, gc, runs, budget>>

WatchGroupState(g) ==
    /\ router.groups[g].id = g /\ router.groups[g].term # grp[g].term
    /\ router' = [router EXCEPT !.groups[g].leader = grp[g].leader, !.groups[g].term = grp[g].term]
    /\ UNCHANGED <<clusterVars, gc, runs, budget>>

\* None when the group has changed since the shard was found in it.
find_group_by_shard ==
    IF router.shard.grp = None THEN NoGroup
    ELSE LET g == router.groups[router.shard.grp]
         IN  IF g.epoch > router.shard.epoch THEN NoGroup ELSE g

----------------------------------------------------------------------------
\* GroupClient.

\* move_node_to_first_element
ToFront(seq, n) ==
    IF \E i \in DOMAIN seq : seq[i] = n
    THEN LET i == CHOOSE i \in DOMAIN seq : seq[i] = n
         IN  [seq EXCEPT ![1] = n, ![i] = seq[1]]
    ELSE seq

\* move_replica_to_first_element: a leader that is not in the replicas is added.
AddToFront(seq, n) == ToFront(IF n \in ToSet(seq) THEN seq ELSE Append(seq, n), n)

\* GroupClient::new: the replicas come in any order, the leader first.
LookUp ==
    /\ gc.pc \in {"idle", "retry"}
    /\ find_group_by_shard # NoGroup
    /\ LET g == find_group_by_shard
       IN  \E order \in SetToSeqs(g.replicas) :
            gc' = [gc EXCEPT !.pc = "pick", !.grp = g.id, !.epoch = g.epoch, !.term = g.term, !.leader = g.leader,
                             !.replicas = IF g.leader \in g.replicas THEN ToFront(order, g.leader) ELSE order,
                             !.access = None, !.next = 0]
    /\ UNCHANGED <<clusterVars, router, runs, budget>>

next_access_node_id_first ==
    IF gc.access # None THEN [node |-> gc.access, next |-> gc.next]
    ELSE IF gc.next <= Len(gc.replicas)
    THEN [node |-> gc.replicas[(gc.next % Len(gc.replicas)) + 1], next |-> gc.next]
    ELSE [node |-> None, next |-> gc.next]

\* next_access_node_id: the first one is tried once more after the others.
next_access_node_id ==
    IF gc.access # None THEN [node |-> gc.access, next |-> gc.next]
    ELSE IF gc.next <= Len(gc.replicas)
    THEN [node |-> gc.replicas[(gc.next % Len(gc.replicas)) + 1], next |-> gc.next + 1]
    ELSE [node |-> None, next |-> gc.next]

\* is_executable of the server and of the client.
is_executable(g) == KeyedRequest(budget.kind) /\ grp[g].serves

\* What node n answers to a request for group g under epoch e. A follower may tell of
\* an earlier term, or of no leader.
Answers(n, g, e) ==
    IF n \in down THEN {[kind |-> "connect"]}
    ELSE IF n \notin grp[g].replicas THEN {[kind |-> "group_not_found"]}
    ELSE IF n # grp[g].leader
    THEN {[kind |-> "not_leader", term |-> t.term, leader |-> t.leader] :
            t \in {x \in grp[g].past : x.leader # n}
                    \cup {[term |-> grp[g].term, leader |-> grp[g].leader], [term |-> grp[g].term, leader |-> None]}}
    ELSE IF e < grp[g].epoch /\ ~is_executable(g)
    THEN {[kind |-> "epoch_not_match", epoch |-> grp[g].epoch, replicas |-> grp[g].replicas, serves |-> grp[g].serves]}
    ELSE {[kind |-> "ok"]} \cup (IF budget.losses > 0 THEN {[kind |-> "transport"]} ELSE {})

\* One round of invoke_with_opt: the request reaches a node, which answers or does not.
Send ==
    LET to == next_access_node_id
    IN  /\ gc.pc = "pick" /\ to.node # None
        /\ \E a \in Answers(to.node, gc.grp, gc.epoch) :
              /\ gc' = [gc EXCEPT !.pc = "wait", !.access = to.node, !.next = to.next, !.answer = a]
              /\ runs' = IF a.kind \in {"ok", "transport"} THEN runs + 1 ELSE runs
              /\ budget' = IF a.kind = "transport" THEN [budget EXCEPT !.losses = @ - 1] ELSE budget
        /\ UNCHANGED <<clusterVars, router>>

Finish(result) == [gc EXCEPT !.pc = "done", !.result = result]

\* RetryState::retry of an error that is retryable; the admin requests return it.
Retry(error) == IF PassesRequest(budget.kind) THEN [gc EXCEPT !.pc = "retry"] ELSE Finish(error)

NotAccessable ==
    /\ gc.pc = "pick" /\ next_access_node_id.node = None
    /\ gc' = Retry("not_accessable")
    /\ UNCHANGED <<clusterVars, router, runs, budget>>

apply_not_leader_status ==
    LET a == gc.answer
        newer == a.leader # None /\ ~(gc.leader # None /\ gc.term >= a.term)
    IN  IF newer
        THEN [gc EXCEPT !.pc = "pick", !.access = a.leader, !.leader = a.leader, !.term = a.term,
                        !.replicas = AddToFront(gc.replicas, a.leader)]
        ELSE [gc EXCEPT !.pc = "pick", !.access = None]

apply_epoch_not_match_status ==
    LET a == gc.answer
    IN  IF accurate_epoch(budget.kind) \/ (PassesRequest(budget.kind) /\ ~(KeyedRequest(budget.kind) /\ a.serves))
        THEN {Retry("epoch_not_match")}
        ELSE {[gc EXCEPT !.pc = "pick", !.replicas = ToFront(order, gc.access), !.epoch = a.epoch, !.next = 1] :
                order \in SetToSeqs(a.replicas)}

ApplyStatus_resend ==
    LET k == gc.answer.kind
        next == [gc EXCEPT !.pc = "pick", !.access = None]
    IN  CASE k = "ok"              -> {Finish("ok")}
          [] k = "not_leader"      -> {apply_not_leader_status}
          [] k = "epoch_not_match" -> apply_epoch_not_match_status
          [] OTHER                 -> {next}

\* apply_status
ApplyStatus ==
    LET k == gc.answer.kind
        next == [gc EXCEPT !.pc = "pick", !.access = None]
    IN  CASE k = "ok"              -> {Finish("ok")}
          [] k = "not_leader"      -> {apply_not_leader_status}
          [] k = "epoch_not_match" -> apply_epoch_not_match_status
          [] k = "transport"       -> {IF ignore_transport_error(budget.kind) THEN next ELSE Finish("transport")}
          [] OTHER                 -> {next}

Receive ==
    /\ gc.pc = "wait"
    /\ \E c \in ApplyStatus : gc' = [c EXCEPT !.answer = [kind |-> "none"]]
    /\ UNCHANGED <<clusterVars, router, runs, budget>>

\* The deadline is looked at after an answer that leads to another round.
DeadlineExceeded ==
    /\ gc.pc = "wait" /\ budget.deadline
    /\ \E c \in ApplyStatus : c.pc = "pick"
    /\ gc' = [Finish("deadline") EXCEPT !.answer = [kind |-> "none"]]
    /\ UNCHANGED <<clusterVars, router, runs, budget>>

ClientStep == LookUp \/ Send \/ NotAccessable \/ Receive

Next ==
    \/ ClientStep \/ DeadlineExceeded
    \/ NodeFails \/ SetupMove \/ ApplyFirst \/ ApplySecond
    \/ \E g \in Groups : ChangeLeader(g) \/ ReplaceReplica(g) \/ AddShard(g) \/ WatchGroup(g) \/ WatchGroupState(g)

Spec == Init /\ [][Next]_vars

----------------------------------------------------------------------------
\* Properties.

\* Groups, router and the request have their types.
TypeOK ==
    /\ \A g \in Groups : grp[g].leader \in grp[g].replicas /\ grp[g].replicas \subseteq Nodes
    /\ router.shard.grp \in Groups \cup {None}
    /\ gc.pc \in {"idle", "pick", "wait", "retry", "done"}
    /\ ToSet(gc.replicas) \subseteq Nodes /\ IsInjective(gc.replicas)
    /\ gc.next <= Len(gc.replicas) + 1

RouterUpToDate == \A g \in Groups : router.groups[g].epoch = grp[g].epoch

\* A router that has the last descriptor of both groups finds the shard in a group that
\* serves it (update_shard_by_group_descriptor asserts it of three sequences of reports).
\* Not when a shard was added to a group during the move: epochs of two groups are compared.
RouterFollowsMoves ==
    RouterUpToDate /\ ~crowded /\ (\E g \in Groups : grp[g].serves) =>
        find_group_by_shard # NoGroup /\ grp[find_group_by_shard.id].serves

\* A write is executed at most once, whatever nodes fail, answers are lost, or leaders and
\* epochs the client did not know of (apply_status, retry.rs).
WriteRunsOnce == ~is_read_only_request(budget.kind) /\ ~ignore_transport_error(budget.kind) => runs <= 1

\* What the client is told agrees with what was executed: Ok means that it was, and an error
\* other than a lost answer that it was not.
ResultIsTrue ==
    gc.pc = "done" /\ ~ignore_transport_error(budget.kind) =>
        IF gc.result \in {"ok", "transport"} THEN runs = 1 ELSE runs = 0

\* A request for a shard is only executed by a group that serves it: no node meets the
\* panic of replica/retry.rs for a shard that is not found.
RunsWhereShardIs ==
    [][runs' # runs /\ PassesRequest(budget.kind) => grp[gc.grp].serves]_vars

\* Every request comes to an end, and not because the group can not be accessed.
RequestIsOver == gc.pc = "done" \/ crowded
=============================================================================
