----------------------------- MODULE Membership -----------------------------
(***************************************************************************)
(* The life of a group's membership: the leader proposes the changes the   *)
(* scheduler's actions build and leaves joint states by itself, every      *)
(* replica applies the committed changes both to the tracker of raft and   *)
(* to the descriptor of the group, and a replica that restarts or installs *)
(* a snapshot rebuilds the tracker from a descriptor.  The log holds the   *)
(* committed configuration changes only, so an index counts them.          *)
(***************************************************************************)
EXTENDS RaftConf

CONSTANTS
    InitVoters,          \* the possible sets of initial voters
    Required,            \* voters a group is to have (num_required)
    MaxLog,              \* bound: configuration changes
    MaxElections,        \* bound: changes of leader
    MaxRestores,         \* bound: restarts and installed snapshots
    RestoreInJoint       \* whether a replica restores a descriptor of a joint state

\* No replica has the id 0, a group starts with voters and is to have some.
ASSUME MembershipAssumption ==
    /\ 0 \notin Replica
    /\ InitVoters \subseteq (SUBSET Replica) \ {{}}
    /\ Required \in Nat \ {0}
    /\ MaxLog \in Nat /\ MaxElections \in Nat /\ MaxRestores \in Nat
    /\ RestoreInJoint \in BOOLEAN

VARIABLES
    log,                 \* the committed configuration changes
    descs,               \* descs[n + 1]: the roles in the GroupDesc after n changes, on any replica
    confs,               \* confs[n + 1]: the configuration n changes make, without restarts
    lead,                \* the leader, or None
    conf,                \* conf[i]: ProgressTracker::conf of replica i
    applied,             \* applied[i]: changes replica i has applied
    flushed,             \* flushed[i]: changes in the flushed state of its engine, at least
    elections, restores

vars == <<log, descs, confs, lead, conf, applied, flushed, elections, restores>>

None == 0

DescOf(i) == descs[applied[i] + 1]

\* Logs, descriptors and configurations are well formed, and nothing is applied that is not committed.
TypeOK ==
    /\ log \in Seq(Seq(Change)) /\ Len(log) <= MaxLog
    /\ Len(descs) = Len(log) + 1 /\ Len(confs) = Len(log) + 1
    /\ \A n \in DOMAIN descs : DOMAIN descs[n] \subseteq Replica /\ \A r \in DOMAIN descs[n] : descs[n][r] \in Role
    /\ lead \in Replica \cup {None}
    /\ conf \in [Replica -> Configuration]
    /\ \A i \in Replica : flushed[i] <= applied[i] /\ applied[i] <= Len(log)
    /\ elections \in 0 .. MaxElections
    /\ restores \in 0 .. MaxRestores

Init ==
    \E voters \in InitVoters :
      LET d == [r \in voters |-> "Voter"]
          c == Restore(ConfStateFromDescriptor(d))
      IN  /\ log = <<>> /\ descs = <<d>> /\ confs = <<c>>
          /\ lead \in voters
          /\ conf = [i \in Replica |-> c]
          /\ applied = [i \in Replica |-> 0]
          /\ flushed = [i \in Replica |-> 0]
          /\ elections = 0
          /\ restores = 0

-----------------------------------------------------------------------------
(* The changes of AddLearners, RemoveLearners and ReplaceVoters, for the     *)
(* descriptor d the scheduler reads.                                         *)

AddLearners(d) ==
    {ChangesOf("AddLearner", S) : S \in (SUBSET (Replica \ DOMAIN d)) \ {{}}}

RemoveLearners(d) ==
    {ChangesOf("Remove", S) : S \in SUBSET WithRoles(d, {"Learner"})}

\* DurableGroup, PromoteGroup and ReplicaMigration demote no more voters than they add, unless
\* more than required are left.
ReplaceVoters(d) ==
    LET voters == WithRoles(d, {"Voter"})
        swaps == {st \in (SUBSET WithRoles(d, {"Learner"})) \X (SUBSET voters) :
                    /\ st # <<{}, {}>>
                    /\ \/ Cardinality(st[2]) <= Cardinality(st[1])
                       \/ Cardinality(voters \ st[2]) >= Required}
    IN  {ChangesOf("Add", st[1]) \o ChangesOf("Remove", st[2]) : st \in swaps}

\* The change becomes committed; what its application does on a replica that applied all
\* earlier ones is recorded beside it.
Commit(ccs) ==
    /\ log' = Append(log, ccs)
    /\ descs' = Append(descs, ApplyChangeReplicas(descs[Len(descs)], ccs))
    /\ confs' = Append(confs, ApplyConf(confs[Len(confs)], ccs))
    /\ UNCHANGED <<lead, conf, applied, flushed, elections, restores>>

\* RaftWorker::handle_conf_change and Raft::step_leader: a change is dropped while an earlier
\* one is not applied, when the leader is no longer a member, and when leaving and being in a
\* joint state do not go together.
ProposeConfChange(i) ==
    /\ i = lead /\ i \in conf[i].ids
    /\ Len(log) < MaxLog
    /\ applied[i] = Len(log)
    /\ \E ccs \in AddLearners(DescOf(i)) \cup RemoveLearners(DescOf(i)) \cup ReplaceVoters(DescOf(i)) :
         /\ joint(conf[i]) <=> ccs = <<>>
         /\ Commit(ccs)

\* Raft::commit_apply_internal: a leader that has applied its last configuration change leaves
\* the joint state it was asked to leave.
AutoLeave(i) ==
    /\ i = lead
    /\ Len(log) < MaxLog
    /\ applied[i] = Len(log)
    /\ conf[i].autoLeave
    /\ Commit(<<>>)

\* Applier::apply_conf_change and GroupStateMachine::apply_change_replicas.
ApplyConfChange(i) ==
    /\ applied[i] < Len(log)
    /\ conf' = [conf EXCEPT ![i] = ApplyConf(@, log[applied[i] + 1])]
    /\ applied' = [applied EXCEPT ![i] = @ + 1]
    /\ UNCHANGED <<log, descs, confs, lead, flushed, elections, restores>>

\* Replica i goes on from the flushed state after n changes, with the configuration the
\* descriptor of that state describes.
RestoreFrom(i, n) ==
    /\ restores < MaxRestores
    /\ RestoreInJoint \/ ~joint(confs[n + 1])
    /\ conf' = [conf EXCEPT ![i] = Restore(ConfStateFromDescriptor(descs[n + 1]))]
    /\ applied' = [applied EXCEPT ![i] = n]
    /\ flushed' = [flushed EXCEPT ![i] = n]
    /\ restores' = restores + 1
    /\ lead' = IF lead = i THEN None ELSE lead
    /\ UNCHANGED <<log, descs, confs, elections>>

\* RaftNode::new after a crash; any state since the last known flush may have been flushed.
Restart(i) == \E n \in flushed[i] .. applied[i] : RestoreFrom(i, n)

\* RaftNode::try_apply_fresh_snapshot of a snapshot another replica made.
InstallSnapshot(i) ==
    /\ i # lead
    /\ \E j \in Replica \ {i} : \E n \in applied[i] + 1 .. applied[j] : RestoreFrom(i, n)

\* A replica that can win an election: a voter of its own configuration whose log has every
\* committed change.  Raft::hup keeps it from campaigning while a change it knows to be
\* committed is not applied, and it knows of all but the last one.
Electable(i) == i \in VotersOf(conf[i]) /\ applied[i] + 1 >= Len(log)

Elect(i) ==
    /\ lead = None
    /\ Electable(i)
    /\ lead' = i
    /\ UNCHANGED <<log, descs, confs, conf, applied, flushed, elections, restores>>

\* Raft::become_follower of the leader.
StepDown ==
    /\ lead # None /\ elections < MaxElections
    /\ lead' = None
    /\ elections' = elections + 1
    /\ UNCHANGED <<log, descs, confs, conf, applied, flushed, restores>>

Next ==
    \/ StepDown
    \/ \E i \in Replica :
        \/ ProposeConfChange(i)
        \/ AutoLeave(i)
        \/ ApplyConfChange(i)
        \/ Restart(i)
        \/ InstallSnapshot(i)
        \/ Elect(i)

Spec == Init /\ [][Next]_vars

-----------------------------------------------------------------------------
\* Every quorum of a replica that could win an election meets every quorum of every other such
\* replica and of the leader, so no two leaders decide apart (Changer, has_pending_conf and
\* the restored ConfState together).
QuorumsOverlap ==
    \A i, j \in {r \in Replica : Electable(r) \/ r = lead} :
      \A p, q \in SUBSET Replica :
        HasQuorum(conf[i], p) /\ HasQuorum(conf[j], q) => p \cap q # {}

\* A replica votes and commits with the voters its applied changes make, and leaves a joint
\* state as they say, whether it applied them itself or restored them from a descriptor.
ConfAgrees ==
    \A i \in Replica :
      LET c == conf[i]
          made == confs[applied[i] + 1]
      IN  <<c.incoming, c.outgoing, c.autoLeave>> = <<made.incoming, made.outgoing, made.autoLeave>>

\* The descriptor lists the voters of raft: the incoming half, and in a joint state the outgoing
\* half, are the ones its roles name, and raft's learners are learners of the descriptor.
DescriptorMatchesConf ==
    \A n \in DOMAIN confs :
      LET c == confs[n]
          d == descs[n]
      IN  /\ c.incoming = WithRoles(d, {"Voter", "IncomingVoter"})
          /\ joint(c) => c.outgoing \ c.incoming = WithRoles(d, {"DemotingVoter"})
          /\ ~joint(c) => WithRoles(d, {"IncomingVoter", "DemotingVoter"}) = {}
          /\ c.learners \subseteq WithRoles(d, {"Learner"})

\* check_not_in_joint_state and the unreachable arm of apply_enter_joint do not panic, and raft
\* does not refuse on one replica a change the leader let through.
NoChangeRefused ==
    \A i \in Replica :
      applied[i] < Len(log) =>
        LET ccs == log[applied[i] + 1] IN
        /\ NextConf(conf[i], ccs) # Refused
        /\ \A k \in DOMAIN ccs : NotInJoint(DescOf(i), ccs[k].id)

\* Replicas and descriptors agree on the members: a replica that has applied a change, was restored from
\* a descriptor or restarted has the configuration of its index, its descriptor names the same voters
\* and learners, and no replica refuses a change (apply_change_replicas, conf_state).
MembersAgree == TypeOK /\ ConfAgrees /\ DescriptorMatchesConf /\ NoChangeRefused
=============================================================================
