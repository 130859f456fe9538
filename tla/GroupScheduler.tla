--------------------------- MODULE GroupScheduler ---------------------------
(***************************************************************************)
(* The scheduler every group leader runs (schedule/): a set of tasks that  *)
(* one loop polls, the providers they watch, the table of locks that keeps *)
(* their configuration changes apart, and the actions a task is made of.   *)
(* Beside it are the group whose replicas it changes, the nodes that host  *)
(* them, and what the root knows of them.                                  *)
(*                                                                         *)
(* A task that returned Pending(Some(_)) has a timer and may be polled     *)
(* whenever; one that returned Pending(None) is asleep until an event      *)
(* source it watches fires.  One poll is one step, since the loop polls    *)
(* one task at a time; only ReplicaMigration::poll is two, because the     *)
(* duty it takes is assigned by a request and not by the loop.             *)
(***************************************************************************)
EXTENDS RaftConf

CONSTANTS Node,          \* the nodes of the cluster
          MaxTasks,      \* bounds the tasks a leader starts
          Scenarios      \* the initial groups and the bounds on what happens to them

NumRequired == 3         \* num_required of DurableGroup

VARIABLES desc,          \* the applied descriptor of the group: the role of each replica
          leader,        \* the replica that leads the group and runs the scheduler
          nodeOf,        \* the node of every replica the root has allocated
          hosted,        \* the replicas that run on their nodes
          up,            \* the nodes that are up
          rows,          \* the replicas the root has a state of
          cache,         \* GroupDescProvider
          lost,          \* RaftStateProvider::lost_peers
          states,        \* ReplicaStatesProvider
          promoting,     \* whether the PromoteGroup task is still installed
          orphans,       \* RemoveOrphanReplica::orphan_replicas, and their age
          jobs,          \* the ActionTasks
          locks,         \* GroupLockTable
          nextTask,      \* ScheduleContext::next_task_id
          resting,       \* the tasks whose timer is longer than the one of WatchGroupDescriptor
          asleep,        \* the ActionTasks that wait for the descriptor
          duty,          \* MoveReplicasProvider
          migration,     \* where ReplicaMigration::poll is
          budget         \* what may still happen

groupVars == <<desc, leader, nodeOf, hosted, up, rows>>
providerVars == <<cache, lost, states>>
taskVars == <<promoting, orphans, jobs, locks, nextTask, resting, asleep>>
dutyVars == <<duty, migration>>
vars == <<groupVars, providerVars, taskVars, dutyVars, budget>>

NoDuty == [incoming |-> {}, outgoing |-> {}]
EmptyLocks == [cc |-> 0, replicas |-> {}, states |-> {}]
FirstTask == 10          \* GENERATED_TASK_ID

Voters(d) == WithRoles(d, {"Voter", "IncomingVoter"})
InJoint(d) == WithRoles(d, {"IncomingVoter", "DemotingVoter"}) # {}

\* The scheduler of a new leader; the providers are those of its replica and stay.
FreshTasks ==
    /\ promoting' = TRUE
    /\ orphans' = [r \in {} |-> 0]
    /\ jobs' = {}
    /\ locks' = EmptyLocks
    /\ nextTask' = FirstTask
    /\ resting' = {}
    /\ asleep' = {}
    /\ migration' = IF budget.moves > 0 THEN "poll" ELSE "asleep"

Init ==
    /\ budget \in Scenarios
    /\ desc = [r \in budget.voters |-> "Voter"]
    /\ leader = 1
    /\ nodeOf = [r \in budget.voters |-> r]
    /\ hosted = budget.voters
    /\ up = Node
    /\ rows = budget.voters
    /\ cache = desc /\ lost = {} /\ states = {}
    /\ promoting = TRUE /\ orphans = [r \in {} |-> 0]
    /\ jobs = {} /\ locks = EmptyLocks /\ nextTask = FirstTask
    /\ resting = {} /\ asleep = {}
    /\ duty = NoDuty
    /\ migration = IF budget.moves > 0 THEN "poll" ELSE "asleep"

-----------------------------------------------------------------------------
(* tasks/group/mod.rs: the lock table. *)

\* GroupLockTable::lock and config_change fail on a replica that is locked, and config_change
\* while another one runs.
CanLock(replicas) == replicas \cap locks.replicas = {}
CanChange(replicas) == locks.cc = 0 /\ CanLock(replicas)

LockReplicas(replicas) == [locks EXCEPT !.replicas = @ \cup replicas]

\* The table after config_change(id, ..); the state of the task is reported to the root.
ConfigChangeLock(id, replicas, incoming) ==
    [cc |-> id, replicas |-> locks.replicas \cup replicas,
     states |-> locks.states \cup {[id |-> id, incoming |-> incoming]}]

\* GroupLockTable::release(task_id, locks).
release(id, replicas) ==
    [cc |-> IF locks.cc = id THEN 0 ELSE locks.cc, replicas |-> locks.replicas \ replicas,
     states |-> {s \in locks.states : s.id # id}]

Action(type, add, remove) == [type |-> type, add |-> add, remove |-> remove]

\* An ActionTask; fresh records whether it was decided on the descriptor of the group as it is.
Job(id, replicas, actions) ==
    [id |-> id, locks |-> replicas, actions |-> actions, at |-> 1, doing |-> FALSE,
     fresh |-> cache = desc]

\* ctx.delegate of a task whose locks were taken under lockId.
Delegate(lockId, id, replicas, incoming, actions) ==
    /\ jobs' = jobs \cup {Job(id, replicas, actions)}
    /\ locks' = ConfigChangeLock(lockId, replicas, incoming)
    /\ nextTask' = id + 1
    /\ id < FirstTask + MaxTasks

Peers == DOMAIN cache

\* TaskTimer: a task with a timer is polled when it fires.
TimerFired(task) == task \notin resting

\* CommonEventSource::fire: the tasks that watch the descriptor are active again.
Fired == IF cache = desc THEN asleep ELSE {}

-----------------------------------------------------------------------------
(* What the root does for a group: Root::alloc_replica takes nodes that host *)
(* no replica of the group, as far as the descriptor and the states it has   *)
(* of the replicas tell.                                                     *)

FreeNodes == up \ {nodeOf[r] : r \in DOMAIN desc \cup rows}

NextReplica == Cardinality(DOMAIN nodeOf) + 1

\* The placements of n new replicas, none when there are too few nodes.  Which of the free nodes
\* are taken makes no difference here: the first ones.
Placements(n) ==
    LET ids == NextReplica .. NextReplica + n - 1 IN
    IF ids \subseteq Replica /\ Cardinality(FreeNodes) >= n
    THEN {[r \in ids |-> CHOOSE x \in FreeNodes :
              Cardinality({y \in FreeNodes : y < x}) = r - NextReplica]}
    ELSE {}

Place(p) == nodeOf' = [r \in DOMAIN nodeOf \cup DOMAIN p |->
                          IF r \in DOMAIN p THEN p[r] ELSE nodeOf[r]]

-----------------------------------------------------------------------------
(* tasks/group/durable.rs *)

Online(role) == {r \in Peers : cache[r] = role /\ r \notin lost}
Offline(role) == {r \in Peers : cache[r] = role /\ r \in lost}

\* The sets take(n) of a HashMap's iteration may return.
TakeSome(S, n) ==
    {T \in SUBSET S : Cardinality(T) = IF Cardinality(S) < n THEN Cardinality(S) ELSE n}

replace_voters(learners, voters) ==
    /\ Delegate(nextTask, nextTask, Peers, {},
                <<Action("ReplaceVoters", learners, voters), Action("RemoveLearners", {}, voters)>>)
    /\ UNCHANGED nodeOf

\* cure_group takes a task id for its locks, and another one for its task.
cure_group(placement, voters) ==
    LET incoming == DOMAIN placement IN
    /\ Place(placement)
    /\ Delegate(nextTask, nextTask + 1, Peers \cup incoming, incoming,
                <<Action("CreateReplicas", incoming, {}), Action("AddLearners", incoming, {}),
                  Action("ReplaceVoters", incoming, voters), Action("RemoveLearners", {}, voters)>>)

remove_learners(learners) ==
    /\ Delegate(nextTask, nextTask, Peers, {}, <<Action("RemoveLearners", {}, learners)>>)
    /\ UNCHANGED nodeOf

\* The voters the leader of the group may dismiss, by the index they match.
select_dismiss_voters(n) == TakeSome(Online("Voter") \ {leader}, n)

\* DurableGroup::poll goes on to handle the replicas.
DurableReady ==
    /\ Cardinality(Peers) > 1
    /\ CanChange(Peers)
    /\ ~InJoint(cache)

DismissTooMany ==
    LET exceeds == Cardinality(Voters(cache)) - NumRequired + 1 IN
    \E online \in select_dismiss_voters(exceeds) : replace_voters({}, online)

DismissVoters ==
    LET exceeds == Cardinality(Voters(cache)) - NumRequired IN
    \E offline \in TakeSome(Offline("Voter"), exceeds) :
        \E online \in select_dismiss_voters(exceeds - Cardinality(offline)) :
            replace_voters({}, offline \cup online)

AcquireVoters ==
    LET acquires == NumRequired - Cardinality(Online("Voter")) IN
    IF Online("Learner") # {}
    THEN \E learners \in TakeSome(Online("Learner"), acquires) :
           \E voters \in TakeSome(Offline("Voter"), Cardinality(learners)) :
               replace_voters(learners, voters)
    ELSE \E placement \in Placements(acquires) : cure_group(placement, Offline("Voter"))

\* handle_replica_stats; the last branch removes the learners that are offline, and there are none.
HandleReplicaStats ==
    IF Offline("Learner") # {} THEN remove_learners(Offline("Learner"))
    ELSE IF Cardinality(Voters(cache)) > NumRequired THEN DismissVoters
    ELSE IF Cardinality(Online("Voter")) < NumRequired THEN AcquireVoters
    ELSE Online("Learner") # {} /\ remove_learners(Offline("Learner"))

PollDurable ==
    /\ TimerFired("durable")
    /\ DurableReady
    /\ HandleReplicaStats
    /\ resting' = resting \cup {"durable"}
    /\ UNCHANGED <<desc, leader, hosted, up, rows, providerVars, promoting, orphans, asleep,
                   dutyVars, budget>>

-----------------------------------------------------------------------------
(* tasks/group/promote.rs: a group of one replica gets two more.             *)

PollPromote ==
    /\ promoting /\ locks.cc = 0 /\ TimerFired("promote")
    /\ \/ /\ Cardinality(Peers) > 1
          /\ promoting' = FALSE
          /\ UNCHANGED <<nodeOf, jobs, locks, nextTask, resting>>
       \/ /\ Cardinality(Peers) = 1 /\ CanLock(Peers)
          /\ Cardinality(up) >= NumRequired
          /\ \E placement \in Placements(NumRequired - 1) :
                LET incoming == DOMAIN placement IN
                /\ Place(placement)
                /\ Delegate(nextTask, nextTask, Peers \cup incoming, incoming,
                            <<Action("CreateReplicas", incoming, {}),
                              Action("AddLearners", incoming, {}),
                              Action("ReplaceVoters", incoming, {})>>)
          /\ resting' = resting \cup {"promote"}
          /\ UNCHANGED promoting
    /\ UNCHANGED <<desc, leader, hosted, up, rows, providerVars, orphans, asleep, dutyVars, budget>>

-----------------------------------------------------------------------------
(* tasks/group/migration.rs *)

\* MoveReplicasProvider::assign of a request of the root, which moves one voter to another node;
\* a duty that is still there makes it fail.  The task that watches the provider is woken.
Assign ==
    /\ budget.moves > 0
    /\ duty = NoDuty
    /\ \E placement \in Placements(1), r \in Voters(desc) :
        /\ Place(placement)
        /\ duty' = [incoming |-> DOMAIN placement, outgoing |-> {r}]
    /\ migration' = IF migration = "asleep" THEN "poll" ELSE migration
    /\ budget' = [budget EXCEPT !.moves = @ - 1]
    /\ UNCHANGED <<desc, leader, hosted, up, rows, providerVars, taskVars>>

\* ReplicaMigration::poll up to the call of watch: the duty is taken, and answered.
TakeDuty ==
    /\ migration = "poll"
    /\ duty' = NoDuty
    /\ migration' = "watch"
    /\ IF duty # NoDuty /\ CanChange(Peers \cup duty.incoming)
       THEN Delegate(nextTask, nextTask, Peers \cup duty.incoming, duty.incoming,
                     <<Action("CreateReplicas", duty.incoming, {}),
                       Action("AddLearners", duty.incoming, {}),
                       Action("ReplaceVoters", duty.incoming, duty.outgoing),
                       Action("RemoveLearners", {}, duty.outgoing)>>)
       ELSE UNCHANGED <<jobs, locks, nextTask>>
    /\ UNCHANGED <<groupVars, providerVars, promoting, resting, orphans, asleep, budget>>

\* The rest of the poll: the task subscribes and sleeps.
WatchDuty ==
    /\ migration = "watch"
    /\ migration' = "asleep"
    /\ UNCHANGED <<groupVars, providerVars, taskVars, duty, budget>>

-----------------------------------------------------------------------------
(* The watchers: providers are read again every second, and the states of    *)
(* the replicas every 31 seconds.  A replica is an orphan of 60 seconds only *)
(* after both were read: its age is 1 after the descriptor, 2 after both.    *)

Age(from) == [r \in DOMAIN orphans |-> IF orphans[r] = from THEN from + 1 ELSE orphans[r]]

\* WatchGroupDescriptor::poll and GroupDescProvider::update, which wakes the tasks that watch it.
PollWatchDescriptor ==
    /\ cache # desc \/ resting # {} \/ \E r \in DOMAIN orphans : orphans[r] = 0
    /\ cache' = desc
    /\ asleep' = Fired
    /\ orphans' = Age(0)
    /\ resting' = {}
    /\ UNCHANGED <<groupVars, lost, states, promoting, jobs, locks, nextTask, dutyVars, budget>>

\* WatchRaftState::poll and RaftStateProvider::update.
PollWatchRaftState ==
    LET now == {r \in DOMAIN desc : nodeOf[r] \notin up} IN
    /\ lost # now
    /\ lost' = now
    /\ UNCHANGED <<groupVars, cache, states, taskVars, dutyVars, budget>>

\* WatchReplicaStates::poll; the states stay as they are when the root does not answer.
PollWatchReplicaStates ==
    /\ budget.sweeps > 0
    /\ \/ states' = rows /\ UNCHANGED budget
       \/ /\ budget.faults > 0
          /\ budget' = [budget EXCEPT !.faults = @ - 1]
          /\ UNCHANGED states
    /\ states' # states \/ \E r \in DOMAIN orphans : orphans[r] = 1
    /\ orphans' = Age(1)
    /\ UNCHANGED <<groupVars, cache, lost, promoting, resting, jobs, locks, nextTask, asleep, dutyVars>>

-----------------------------------------------------------------------------
(* tasks/group/orphan_replica.rs *)

\* apply_states.
ApplyStates ==
    LET ids == (DOMAIN orphans \cup states) \ Peers
    IN  [r \in ids |-> IF r \in DOMAIN orphans THEN orphans[r] ELSE 0]

DismissedLocked(found) == {r \in states \cap DOMAIN found : found[r] = 2}

\* get_dismiss_replicas and the test of the lock.
Dismissed(found) == {r \in states \cap DOMAIN found : found[r] = 2 /\ CanLock({r})}

\* dismiss_orphan_replica of every replica that is dismissed, in the order of their ids.
PollOrphan ==
    LET found == ApplyStates
        gone == Dismissed(found)
        idOf(r) == nextTask + Cardinality({s \in gone : s < r})
    IN  /\ budget.sweeps > 0 /\ budget' = [budget EXCEPT !.sweeps = @ - 1]
        /\ Peers # {}
        /\ found # orphans \/ gone # {}
        /\ orphans' = [r \in DOMAIN found \ gone |-> found[r]]
        /\ locks' = [LockReplicas(gone) EXCEPT
                        !.states = @ \cup {[id |-> idOf(r), incoming |-> {}] : r \in gone}]
        /\ jobs' = jobs \cup {Job(idOf(r), {r}, <<Action("RemoveReplica", {}, {r}),
                                                 Action("ClearReplicaState", {}, {r})>>) : r \in gone}
        /\ nextTask' = nextTask + Cardinality(gone)
        /\ UNCHANGED <<groupVars, providerVars, promoting, resting, asleep, dutyVars>>

-----------------------------------------------------------------------------
(* tasks/action.rs and actions/: one poll of an ActionTask.                  *)

Current(j) == j.actions[j.at]

Replace(j, k) == jobs' = (jobs \ {j}) \cup {k}

\* Terminated: ActionTaskWithLocks releases its locks under the id of the task.
Finish(j) == jobs' = jobs \ {j} /\ locks' = release(j.id, j.locks)

Advance(j) ==
    IF j.at = Len(j.actions) THEN Finish(j)
    ELSE Replace(j, [j EXCEPT !.at = @ + 1, !.doing = FALSE]) /\ UNCHANGED locks

Started(j) == Replace(j, [j EXCEPT !.doing = TRUE]) /\ UNCHANGED locks

\* Node::create_replica: another replica of the group on the node makes it fail.
CanCreate(r) == nodeOf[r] \in up /\ \A s \in hosted \ {r} : nodeOf[s] # nodeOf[r]

\* Node::remove_replica takes the replica of the group out of the route table, whichever it is.
RemovedAt(r) == {s \in hosted : nodeOf[s] = nodeOf[r]}

\* CreateReplicas::setup, one replica at a time, the last one first.
CreateReplicas(j) ==
    LET r == CHOOSE x \in Current(j).add : \A y \in Current(j).add : y <= x
        rest == Current(j).add \ {r}
    IN  /\ CanCreate(r)
        /\ hosted' = hosted \cup {r}
        /\ IF rest = {} THEN Advance(j)
           ELSE Replace(j, [j EXCEPT !.actions[j.at].add = rest]) /\ UNCHANGED locks
        /\ UNCHANGED <<desc, rows>>

RemoveReplica(j) ==
    /\ \A r \in Current(j).remove : nodeOf[r] \in up
    /\ hosted' = hosted \ UNION {RemovedAt(r) : r \in Current(j).remove}
    /\ Advance(j)
    /\ UNCHANGED <<desc, rows>>

ClearReplicaState(j) ==
    /\ rows' = rows \ Current(j).remove
    /\ Advance(j)
    /\ UNCHANGED <<desc, hosted>>

\* The changes of AddLearners, ReplaceVoters and RemoveLearners.
ChangesFor(a) ==
    ChangesOf(IF a.type = "AddLearners" THEN "AddLearner" ELSE "Add", a.add)
      \o ChangesOf("Remove", a.remove)

\* try_execute is busy, and tried again, while the configuration is joint.  A request without
\* changes is turned into an empty entry by raft.
ChangeReplicas(j) ==
    LET ccs == ChangesFor(Current(j)) IN
    /\ Current(j).type \in {"AddLearners", "ReplaceVoters", "RemoveLearners"}
    /\ ~j.doing /\ ~InJoint(desc)
    /\ desc' = IF ccs = <<>> THEN desc ELSE ApplyChangeReplicas(desc, ccs)
    /\ Started(j)
    /\ UNCHANGED <<hosted, rows, asleep>>

\* What the poll of a configuration change waits for in the descriptor of the provider.
ChangeDone(a) ==
    CASE a.type = "AddLearners" -> \A r \in a.add : r \in Peers /\ cache[r] = "Learner"
      [] a.type = "ReplaceVoters" -> \A r \in a.add : r \in Peers /\ cache[r] = "Voter"
      [] a.type = "RemoveLearners" -> a.remove \cap Peers = {}
      [] OTHER -> FALSE

PollChange(j) ==
    /\ j.doing /\ j.id \notin asleep
    /\ \/ ChangeDone(Current(j)) /\ Advance(j) /\ UNCHANGED asleep
       \/ ~ChangeDone(Current(j)) /\ asleep' = asleep \cup {j.id} /\ UNCHANGED <<jobs, locks>>
    /\ UNCHANGED <<desc, hosted, rows>>

PollAction ==
    /\ \E j \in jobs :
        \/ Current(j).type = "CreateReplicas" /\ CreateReplicas(j) /\ UNCHANGED asleep
        \/ Current(j).type = "RemoveReplica" /\ RemoveReplica(j) /\ UNCHANGED asleep
        \/ Current(j).type = "ClearReplicaState" /\ ClearReplicaState(j) /\ UNCHANGED asleep
        \/ ChangeReplicas(j)
        \/ PollChange(j)
    /\ UNCHANGED <<leader, nodeOf, up, providerVars, promoting, resting, orphans, nextTask, dutyVars, budget>>

\* An action is aborted: its node stays away or hosts another replica, or the epoch the leader
\* checks has changed.
Abort ==
    /\ \E j \in jobs :
        /\ ~j.doing
        /\ Current(j).type = "CreateReplicas" =>
             \E r \in Current(j).add : ~CanCreate(r)
        /\ Current(j).type = "RemoveReplica" => \E r \in Current(j).remove : nodeOf[r] \notin up
        /\ budget.faults > 0 /\ budget' = [budget EXCEPT !.faults = @ - 1]
        /\ Finish(j)
    /\ UNCHANGED <<groupVars, providerVars, promoting, resting, orphans, nextTask, asleep, dutyVars>>

-----------------------------------------------------------------------------
(* The group, its nodes and the root. *)

\* The raft leader leaves a joint configuration by itself.
LeaveJointly ==
    /\ InJoint(desc)
    /\ desc' = ApplyLeaveJoint(desc)
    /\ UNCHANGED <<leader, nodeOf, hosted, up, rows, providerVars, taskVars, dutyVars, budget>>

\* A replica reports its state to the root.
Report ==
    /\ \E r \in hosted \ rows : nodeOf[r] \in up /\ rows' = rows \cup {r}
    /\ UNCHANGED <<desc, leader, nodeOf, hosted, up, providerVars, taskVars, dutyVars, budget>>

NodeDown ==
    /\ budget.downs > 0 /\ budget' = [budget EXCEPT !.downs = @ - 1]
    /\ \E r \in DOMAIN desc \ {leader} : nodeOf[r] \in up /\ up' = up \ {nodeOf[r]}
    /\ UNCHANGED <<desc, leader, nodeOf, hosted, rows, providerVars, taskVars, dutyVars>>

\* Another voter leads the group; its providers have the descriptor of now, or the one of the day
\* its replica was opened.
LeaderChange ==
    /\ budget.terms > 0 /\ budget' = [budget EXCEPT !.terms = @ - 1]
    /\ \E r \in Voters(desc) : nodeOf[r] \in up /\ leader' = r
    /\ cache' \in {desc, [r \in budget.voters |-> "Voter"]}
    /\ lost' = {} /\ states' = {}
    /\ duty' = NoDuty
    /\ FreshTasks
    /\ UNCHANGED <<desc, nodeOf, hosted, up, rows>>

Next ==
    \/ PollDurable \/ PollPromote \/ TakeDuty \/ WatchDuty
    \/ PollWatchDescriptor \/ PollWatchRaftState \/ PollWatchReplicaStates \/ PollOrphan
    \/ PollAction \/ Abort
    \/ Assign \/ LeaveJointly \/ Report \/ NodeDown \/ LeaderChange

Spec == Init /\ [][Next]_vars

-----------------------------------------------------------------------------
(* Properties. *)

\* The descriptor, the locks and the tasks have their types; every replica has a node.
TypeOK ==
    /\ desc \in UNION {[S -> Role] : S \in SUBSET DOMAIN nodeOf}
    /\ DOMAIN nodeOf \subseteq Replica /\ hosted \cup rows \cup locks.replicas \subseteq DOMAIN nodeOf
    /\ locks.cc \in 0 .. nextTask
    /\ \A j \in jobs : j.id < nextTask /\ j.at \in 1 .. Len(j.actions)

\* A replica is locked exactly while a task that locked it runs, whichever way it ends, and no two
\* tasks have the same replica (GroupLockTable, ActionTaskWithLocks::poll).
LocksAreOwned ==
    /\ locks.replicas = UNION {j.locks : j \in jobs}
    /\ \A j, k \in jobs : j # k => j.locks \cap k.locks = {}

\* The scheduler removes only orphans: no replica a task is about to remove from its node is a
\* member of the group, nor becomes one, though the descriptor and the states the task was decided
\* on are old (RemoveOrphanReplica, GroupLockTable).
OnlyOrphansRemoved ==
    \A j \in jobs : Current(j).type = "RemoveReplica" =>
        Current(j).remove \cap (DOMAIN desc \cup UNION {k.locks : k \in jobs \ {j}}) = {}

\* A task that was decided on the descriptor of the group as it was never leaves fewer than three
\* voters where there were three (DurableGroup, ReplicaMigration).
VotersAreKept ==
    [][\A j \in jobs :
          (j.fresh /\ jobs' # jobs /\ j \notin jobs' /\ leader' = leader
             /\ Cardinality(Voters(desc)) >= NumRequired)
             => Cardinality(Voters(desc')) >= NumRequired]_vars

=============================================================================
