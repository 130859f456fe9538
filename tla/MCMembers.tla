----------------------------- MODULE MCMembers ------------------------------
(***************************************************************************)
(* The members of a group: a behaviour is one of Membership (changes as    *)
(* raft and the descriptor see them), or one of GroupScheduler (the        *)
(* replicas that the leader of a group adds, promotes and removes).        *)
(***************************************************************************)
EXTENDS Membership

VARIABLES
    part,    \* the component of the behaviour
    sched_desc, sched_leader, sched_nodeOf, sched_hosted, sched_up, sched_rows, sched_cache,
    sched_lost, sched_states, sched_promoting, sched_orphans, sched_jobs, sched_locks,
    sched_nextTask, sched_resting, sched_asleep, sched_duty, sched_migration, sched_budget


MCInitVoters == {{1}, {1, 2}}

\* What may happen to a group of one or three voters.
Calm == [voters |-> {1, 2, 3}, moves |-> 0, faults |-> 0, downs |-> 0, terms |-> 0, sweeps |-> 0]
SchedScenarios ==
    {[Calm EXCEPT !.voters = {1}, !.terms = 1],
     [Calm EXCEPT !.voters = {1}, !.faults = 1, !.sweeps = 2],
     [Calm EXCEPT !.moves = 1, !.downs = 1],
     [Calm EXCEPT !.moves = 1, !.terms = 1, !.faults = 1],
     [Calm EXCEPT !.moves = 1, !.sweeps = 2],
     [Calm EXCEPT !.downs = 1, !.terms = 1, !.faults = 1],
     [Calm EXCEPT !.downs = 1, !.terms = 1, !.sweeps = 2],
     [Calm EXCEPT !.downs = 2]}

Sched == INSTANCE GroupScheduler WITH
    desc <- sched_desc, leader <- sched_leader, nodeOf <- sched_nodeOf, hosted <- sched_hosted,
    up <- sched_up, rows <- sched_rows, cache <- sched_cache, lost <- sched_lost,
    states <- sched_states, promoting <- sched_promoting, orphans <- sched_orphans,
    jobs <- sched_jobs, locks <- sched_locks, nextTask <- sched_nextTask, resting <- sched_resting,
    asleep <- sched_asleep, duty <- sched_duty, migration <- sched_migration,
    budget <- sched_budget, Replica <- 1 .. 5, Node <- 1 .. 5, MaxTasks <- 4,
    Scenarios <- SchedScenarios
schedVars ==
    <<sched_desc, sched_leader, sched_nodeOf, sched_hosted, sched_up, sched_rows, sched_cache,
      sched_lost, sched_states, sched_promoting, sched_orphans, sched_jobs, sched_locks,
      sched_nextTask, sched_resting, sched_asleep, sched_duty, sched_migration, sched_budget>>

\* The components that do not run keep one initial state.
MCInit ==
    /\ part \in {"conf", "sched"}
    /\ Init
    /\ part # "conf" => DOMAIN descs[1] = {1}
    /\ Sched!Init
    /\ part # "sched" => sched_budget = CHOOSE b \in SchedScenarios : TRUE

MCNext ==
    \/ /\ part = "conf" /\ Next
       /\ UNCHANGED <<part, schedVars>>
    \/ /\ part = "sched" /\ Sched!Next
       /\ UNCHANGED <<part, vars>>

MCSpec == MCInit /\ [][MCNext]_<<part, vars, schedVars>>

\* A replica is locked exactly while a task that locked it runs, whichever way it ends, and no two
\* tasks have the same replica (GroupLockTable, ActionTaskWithLocks::poll).
LocksAreOwned == part = "sched" => Sched!LocksAreOwned

\* The scheduler removes only orphans: no replica a task is about to remove from its node is a
\* member of the group, nor becomes one, though the descriptor and the states the task was decided
\* on are old (RemoveOrphanReplica, GroupLockTable).
OnlyOrphansRemoved == part = "sched" => Sched!OnlyOrphansRemoved

\* A task that was decided on the descriptor of the group as it was never leaves fewer than three
\* voters where there were three (DurableGroup, ReplicaMigration).
VotersAreKept == Sched!VotersAreKept

\* The tasks of a group's scheduler keep apart: a replica is locked for the one task that changes it,
\* and only orphans are removed from their nodes.
TasksKeepApart ==
    /\ part = "sched" => Sched!TypeOK
    /\ LocksAreOwned /\ OnlyOrphansRemoved
=============================================================================
