------------------------------ MODULE RaftConf ------------------------------
(***************************************************************************)
(* The configuration of a raft group: the majority quorums of raft-rs      *)
(* (quorum/), the Changer that computes the next configuration from a      *)
(* ConfChangeV2 (confchange/), the Configuration a ConfState restores, and *)
(* beside them the replica roles the state machine of a group keeps in its *)
(* GroupDesc, from which a restarted replica rebuilds its ConfState.       *)
(***************************************************************************)
EXTENDS Naturals, FiniteSets, Sequences

CONSTANT Replica        \* the ids of replicas

ASSUME ReplicaAssumption == IsFiniteSet(Replica)

ChangeType == {"Add", "AddLearner", "Remove"}
Change == [type : ChangeType, id : Replica]

\* tracker::Configuration, with the keys of the ProgressMap in ids.
Configuration ==
    [incoming : SUBSET Replica, outgoing : SUBSET Replica, learners : SUBSET Replica,
     learnersNext : SUBSET Replica, autoLeave : BOOLEAN, ids : SUBSET Replica]

EmptyConf ==
    [incoming |-> {}, outgoing |-> {}, learners |-> {}, learnersNext |-> {},
     autoLeave |-> FALSE, ids |-> {}]

-----------------------------------------------------------------------------
(* quorum/majority.rs and quorum/joint.rs *)

majority(total) == total \div 2 + 1

VotersOf(c) == c.incoming \cup c.outgoing

\* The set q contains a majority of the voters; an empty set of voters is won by anybody.
IsMajority(q, voters) ==
    voters = {} \/ Cardinality(q \cap voters) >= majority(Cardinality(voters))

\* ProgressTracker::has_quorum.
HasQuorum(c, q) == IsMajority(q, c.incoming) /\ IsMajority(q, c.outgoing)

\* MajorityConfig::vote_result of the voters that answered yes and of those that answered.
MajorityVote(voters, yes, answered) ==
    IF IsMajority(yes, voters) THEN "Won"
    ELSE IF IsMajority(yes \cup (voters \ answered), voters) THEN "Pending" ELSE "Lost"

\* JointConfig::vote_result.
VoteResult(c, yes, answered) ==
    LET i == MajorityVote(c.incoming, yes, answered)
        o == MajorityVote(c.outgoing, yes, answered)
    IN  IF i = "Won" /\ o = "Won" THEN "Won"
        ELSE IF "Lost" \in {i, o} THEN "Lost" ELSE "Pending"

IsSingleton(c) == c.outgoing = {} /\ Cardinality(c.incoming) = 1

-----------------------------------------------------------------------------
(* confchange/changer.rs: an operation returns the next configuration, or    *)
(* Refused where it returns an error.                                        *)

\* Stands for an error; no configuration the Changer returns has autoLeave outside a joint one.
Refused == [EmptyConf EXCEPT !.autoLeave = TRUE]

joint(c) == c.outgoing # {}

\* Changer::make_voter, make_learner and remove on the incoming half of a configuration; the
\* outgoing voters o never change.
ApplyOne(m, o, cc) ==
    CASE cc.type = "Add" ->
           [incoming |-> m.incoming \cup {cc.id}, learners |-> m.learners \ {cc.id},
            learnersNext |-> m.learnersNext \ {cc.id}, ids |-> m.ids \cup {cc.id}]
      [] cc.type = "AddLearner" ->
           IF cc.id \notin m.ids
           THEN [m EXCEPT !.learners = @ \cup {cc.id}, !.ids = @ \cup {cc.id}]
           ELSE IF cc.id \in m.learners THEN m
           ELSE [incoming |-> m.incoming \ {cc.id},
                 learners |-> m.learners \cup ({cc.id} \ o),
                 learnersNext |-> (m.learnersNext \ {cc.id}) \cup ({cc.id} \cap o),
                 ids |-> m.ids]
      [] cc.type = "Remove" ->
           IF cc.id \notin m.ids THEN m
           ELSE [incoming |-> m.incoming \ {cc.id}, learners |-> m.learners \ {cc.id},
                 learnersNext |-> m.learnersNext \ {cc.id},
                 ids |-> m.ids \ ({cc.id} \ o)]

\* The loop of Changer::apply.
ApplyAll(m, o, ccs) ==
    LET after[n \in 0 .. Len(ccs)] ==
            IF n = 0 THEN m ELSE ApplyOne(after[n - 1], o, ccs[n])
    IN  after[Len(ccs)]

Members(c) ==
    [incoming |-> c.incoming, learners |-> c.learners, learnersNext |-> c.learnersNext,
     ids |-> c.ids]

WithMembers(m, o, auto) ==
    [incoming |-> m.incoming, outgoing |-> o, learners |-> m.learners,
     learnersNext |-> m.learnersNext, autoLeave |-> auto, ids |-> m.ids]

\* check_invariants.
CheckInvariants(c) ==
    /\ VotersOf(c) \cup c.learners \cup c.learnersNext \subseteq c.ids
    /\ c.learners \cap VotersOf(c) = {}
    /\ c.learnersNext \subseteq c.outgoing
    /\ ~joint(c) => c.learnersNext = {} /\ ~c.autoLeave

Checked(c) == IF CheckInvariants(c) THEN c ELSE Refused

\* The result of Changer::apply, which refuses to remove the last voter.
Applied(c) == IF c.incoming = {} THEN Refused ELSE Checked(c)

EnterJoint(c, auto, ccs) ==
    IF joint(c) \/ ~CheckInvariants(c) \/ c.incoming = {} THEN Refused
    ELSE Applied(WithMembers(ApplyAll(Members(c), c.incoming, ccs), c.incoming, auto))

LeaveJoint(c) ==
    IF ~joint(c) \/ ~CheckInvariants(c) THEN Refused
    ELSE LET learners == c.learners \cup c.learnersNext
             gone == c.outgoing \ (c.incoming \cup learners)
         IN  Checked([incoming |-> c.incoming, outgoing |-> {}, learners |-> learners,
                      learnersNext |-> {}, autoLeave |-> FALSE, ids |-> c.ids \ gone])

Simple(c, ccs) ==
    IF joint(c) \/ ~CheckInvariants(c) THEN Refused
    ELSE LET next == WithMembers(ApplyAll(Members(c), {}, ccs), {}, c.autoLeave)
             changed == (next.incoming \ c.incoming) \cup (c.incoming \ next.incoming)
         IN  IF Cardinality(changed) > 1 THEN Refused ELSE Applied(next)

NextConfAtOnce(c, ccs) ==
    IF ccs = <<>> THEN LeaveJoint(c)
    ELSE Applied(WithMembers(ApplyAll(Members(c), {}, ccs), {}, c.autoLeave))

\* ConfChangeV2::enter_joint and leave_joint with the transition Auto that
\* encode_to_conf_change sets, and the choice Raft::apply_conf_change makes.
NextConf(c, ccs) ==
    IF ccs = <<>> THEN LeaveJoint(c)
    ELSE IF Len(ccs) > 1 THEN EnterJoint(c, TRUE, ccs)
    ELSE Simple(c, ccs)

\* A refused change leaves the configuration as it is: Applier::apply_entries drops the error
\* (unwrap_or_default).
ApplyConf(c, ccs) ==
    LET next == NextConf(c, ccs) IN IF next = Refused THEN c ELSE next

-----------------------------------------------------------------------------
(* confchange/restore.rs: a configuration from a ConfState. *)

ConfState ==
    [voters : SUBSET Replica, votersOutgoing : SUBSET Replica, learners : SUBSET Replica,
     learnersNext : SUBSET Replica, autoLeave : BOOLEAN]

\* Configuration::to_conf_state.
ToConfState(c) ==
    [voters |-> c.incoming, votersOutgoing |-> c.outgoing, learners |-> c.learners,
     learnersNext |-> c.learnersNext, autoLeave |-> c.autoLeave]

\* The changes of one type to every member of a set, in some order.
ChangesOf(type, S) ==
    LET order == CHOOSE f \in [1 .. Cardinality(S) -> S] : \A x \in S : \E k \in DOMAIN f : f[k] = x
    IN  [k \in 1 .. Cardinality(S) |-> [type |-> type, id |-> order[k]]]

\* to_conf_change_single: what is applied on top of the outgoing voters.
IncomingChanges(cs) ==
    ChangesOf("Remove", cs.votersOutgoing) \o ChangesOf("Add", cs.voters)
      \o ChangesOf("AddLearner", cs.learners) \o ChangesOf("AddLearner", cs.learnersNext)

\* Changes applied one by one as simple changes, until one is refused.
SimpleAll(c, ccs) ==
    LET after[n \in 0 .. Len(ccs)] ==
            IF n = 0 THEN c
            ELSE IF after[n - 1] = Refused THEN Refused ELSE Simple(after[n - 1], <<ccs[n]>>)
    IN  after[Len(ccs)]

\* confchange::restore on an empty tracker.
Restore(cs) ==
    IF cs.votersOutgoing = {} THEN SimpleAll(EmptyConf, IncomingChanges(cs))
    ELSE LET old == SimpleAll(EmptyConf, ChangesOf("Add", cs.votersOutgoing))
         IN  IF old = Refused THEN Refused
             ELSE EnterJoint(old, cs.autoLeave, IncomingChanges(cs))

-----------------------------------------------------------------------------
(* replica/fsm/mod.rs: the roles of the replicas in the descriptor of the    *)
(* group, a function of the ids it lists.                                    *)

Role == {"Voter", "Learner", "IncomingVoter", "DemotingVoter"}

WithRole(desc, id, role) ==
    [x \in DOMAIN desc \cup {id} |-> IF x = id THEN role ELSE desc[x]]

Without(desc, ids) == [x \in DOMAIN desc \ ids |-> desc[x]]

\* check_not_in_joint_state does not panic.
NotInJoint(desc, id) ==
    id \in DOMAIN desc => desc[id] \notin {"IncomingVoter", "DemotingVoter"}

\* apply_simple_change.
ApplySimpleChange(desc, cc) ==
    CASE cc.type = "Add" -> WithRole(desc, cc.id, "Voter")
      [] cc.type = "AddLearner" -> WithRole(desc, cc.id, "Learner")
      [] cc.type = "Remove" -> Without(desc, {cc.id})

\* One change of apply_enter_joint.
EnterJointOne(desc, cc) ==
    LET role == IF cc.id \in DOMAIN desc THEN desc[cc.id] ELSE "None" IN
    CASE cc.type = "Add" /\ role \in {"Learner", "None"} -> WithRole(desc, cc.id, "IncomingVoter")
      [] cc.type \in {"AddLearner", "Remove"} /\ role = "Voter" -> WithRole(desc, cc.id, "DemotingVoter")
      [] cc.type = "AddLearner" /\ role = "None" -> WithRole(desc, cc.id, "Learner")
      [] OTHER -> desc

\* apply_enter_joint; learners that are removed go at the end.
ApplyEnterJoint(desc, ccs) ==
    LET after[n \in 0 .. Len(ccs)] ==
            IF n = 0 THEN desc ELSE EnterJointOne(after[n - 1], ccs[n])
        outgoingLearners == {ccs[n].id : n \in {k \in DOMAIN ccs :
            /\ ccs[k].type = "Remove"
            /\ ccs[k].id \in DOMAIN after[k - 1]
            /\ after[k - 1][ccs[k].id] = "Learner"}}
    IN  Without(after[Len(ccs)], outgoingLearners)

\* apply_leave_joint.
ApplyLeaveJoint(desc) ==
    [x \in DOMAIN desc |-> CASE desc[x] = "IncomingVoter" -> "Voter"
                             [] desc[x] = "DemotingVoter" -> "Learner"
                             [] OTHER -> desc[x]]

\* GroupStateMachine::apply_change_replicas.
ApplyChangeReplicas(desc, ccs) ==
    IF ccs = <<>> THEN ApplyLeaveJoint(desc)
    ELSE IF Len(ccs) > 1 THEN ApplyEnterJoint(desc, ccs)
    ELSE ApplySimpleChange(desc, ccs[1])

WithRoles(desc, roles) == {x \in DOMAIN desc : desc[x] \in roles}

ConfStateAllVoting(desc) ==
    [voters |-> DOMAIN desc, votersOutgoing |-> {}, learners |-> {}, learnersNext |-> {},
     autoLeave |-> FALSE]

\* raftgroup::conf_state_from_group_descriptor.
ConfStateFromDescriptor(desc) ==
    [voters |-> WithRoles(desc, {"Voter", "IncomingVoter"}),
     votersOutgoing |-> WithRoles(desc, {"DemotingVoter"}),
     learners |-> WithRoles(desc, {"Learner"}),
     learnersNext |-> WithRoles(desc, {"DemotingVoter"}),
     autoLeave |-> FALSE]
=============================================================================
