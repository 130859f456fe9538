-------------------------- MODULE MembershipProofs --------------------------
(***************************************************************************)
(* The members of a group, for any finite set of replicas, any changes the *)
(* scheduler builds, any number of them, and any restarts: every replica   *)
(* has the voters of the changes it applied, no replica refuses a change,  *)
(* and the quorums of the replicas that can lead always meet.              *)
(***************************************************************************)
EXTENDS ConfChangeProofs

-----------------------------------------------------------------------------
\* Restoring a configuration

\* The changes of one type to every member of a set.
AreChangesOf(s, type, T) ==
    /\ s \in Seq(Change)
    /\ Len(s) = Cardinality(T)
    /\ \A k \in 1 .. Len(s) : s[k].type = type /\ s[k].id \in T
    /\ \A x \in T : \E k \in 1 .. Len(s) : s[k].id = x
    /\ s = <<>> <=> T = {}

LEMMA ChangesOfSet ==
    \A T \in SUBSET Replica, type \in ChangeType : AreChangesOf(ChangesOf(type, T), type, T)
<1> SUFFICES ASSUME NEW T \in SUBSET Replica, NEW type \in ChangeType, NEW s, s = ChangesOf(type, T)
             PROVE  AreChangesOf(s, type, T)
  OBVIOUS
<1> DEFINE n == Cardinality(T)
           onto(f) == \A x \in T : \E k \in DOMAIN f : f[k] = x
           order == CHOOSE f \in [1 .. n -> T] : onto(f)
<1>1. IsFiniteSet(T) /\ n \in Nat /\ ExistsBijection(1 .. n, T)
  BY ReplicaAssumption, FS_Subset, FS_CardinalityType, ZenonT(40)
<1> HIDE DEF n
<1>2. \E f \in [1 .. n -> T] : onto(f)
  BY <1>1, ZenonT(40) DEF ExistsBijection, Bijection, Surjection
<1>3. order \in [1 .. n -> T] /\ onto(order)
  <2> HIDE DEF onto
  <2> QED BY <1>2
<1>4. s = [k \in 1 .. n |-> [type |-> type, id |-> order[k]]]
  BY DEF ChangesOf, n
<1> HIDE DEF order
<1>5. \A k \in 1 .. n : order[k] \in T /\ order[k] \in Replica
  BY <1>3
<1>6. s \in [1 .. n -> Change] /\ \A k \in 1 .. n : s[k].type = type /\ s[k].id = order[k]
  BY <1>4, <1>5 DEF Change
<1>7. s \in Seq(Change) /\ Len(s) = n
  BY <1>1, <1>6
<1>8. \A x \in T : \E k \in 1 .. n : s[k].id = x
  BY <1>3, <1>6
<1>9. s = <<>> <=> T = {}
  <2>1. s = <<>> <=> n = 0
    BY <1>7
  <2>2. n = 0 <=> T = {}
    BY <1>1, FS_EmptySet DEF n
  <2> QED BY <2>1, <2>2
<1> QED BY <1>3, <1>5, <1>6, <1>7, <1>8, <1>9, ZenonT(40) DEF AreChangesOf, n

\* One change of confchange::restore, on the configuration the earlier ones made.
SimpleStep(c, cc) == IF c = Refused THEN Refused ELSE Simple(c, <<cc>>)

\* restore goes through its changes one by one.
LEMMA SimpleAllLoop ==
    ASSUME NEW c, NEW ccs, Len(ccs) \in Nat
    PROVE  \E g : /\ SimpleAll(c, ccs) = g[Len(ccs)]
                 /\ g[0] = c
                 /\ \A n \in 1 .. Len(ccs) : g[n] = SimpleStep(g[n - 1], ccs[n])
<1> DEFINE N == Len(ccs)
           P(k) == \E g : g = [n \in 0 .. k |-> IF n = 0 THEN c ELSE SimpleStep(g[n - 1], ccs[n])]
           S == {k \in 0 .. N : P(k)}
<1>1. P(0)
  <2> DEFINE g == [n \in 0 .. 0 |-> c]
  <2>1. g = [n \in 0 .. 0 |-> IF n = 0 THEN c ELSE SimpleStep(g[n - 1], ccs[n])]
    OBVIOUS
  <2> HIDE DEF g
  <2> QED BY <2>1
<1>2. ASSUME NEW k \in 0 .. N - 1, P(k) PROVE P(k + 1)
  <2>0. k \in Nat
    OBVIOUS
  <2>1. PICK g : g = [n \in 0 .. k |-> IF n = 0 THEN c ELSE SimpleStep(g[n - 1], ccs[n])]
    BY <1>2, ZenonT(40)
  <2> DEFINE last == SimpleStep(g[k], ccs[k + 1])
             h == [n \in 0 .. k + 1 |-> IF n <= k THEN g[n] ELSE last]
  <2>2. \A i \in 0 .. k : g[i] = IF i = 0 THEN c ELSE SimpleStep(g[i - 1], ccs[i])
    BY <2>1
  <2>3. (\A n \in 0 .. k : h[n] = g[n]) /\ h[k + 1] = last
    <3> HIDE DEF last
    <3> QED BY <2>0
  <2>4. h = [n \in 0 .. k + 1 |-> h[n]]
    <3> HIDE DEF last
    <3> QED OBVIOUS
  <2> HIDE DEF h
  <2>5. ASSUME NEW n \in 0 .. k + 1
        PROVE  h[n] = IF n = 0 THEN c ELSE SimpleStep(h[n - 1], ccs[n])
    <3>1. CASE n = k + 1
      <4>1. n - 1 = k /\ n # 0 /\ k \in 0 .. k
        BY <2>0, <3>1
      <4> QED BY <2>3, <3>1, <4>1
    <3>2. CASE n # k + 1
      <4>1. n \in 0 .. k /\ (n # 0 => n - 1 \in 0 .. k)
        BY <2>0, <3>2
      <4> QED BY <2>2, <2>3, <4>1
    <3> QED BY <3>1, <3>2
  <2>6. h = [n \in 0 .. k + 1 |-> IF n = 0 THEN c ELSE SimpleStep(h[n - 1], ccs[n])]
    BY <2>4, <2>5, ZenonT(40)
  <2> QED BY <2>6
<1>3. P(N)
  <2> HIDE DEF P
  <2>1. 0 \in S /\ \A k \in 0 .. N - 1 : k \in S => k + 1 \in S
    BY <1>1, <1>2
  <2>2. 0 .. N \subseteq S
    BY <2>1, UpTo, Zenon
  <2> QED BY <2>2
<1> DEFINE after[n \in 0 .. N] == IF n = 0 THEN c ELSE SimpleStep(after[n - 1], ccs[n])
<1>4. after = [n \in 0 .. N |-> IF n = 0 THEN c ELSE SimpleStep(after[n - 1], ccs[n])]
  BY <1>3, ZenonT(40) DEF after
<1>5. SimpleAll(c, ccs) = after[N]
  BY DEF SimpleAll, SimpleStep
<1> HIDE DEF after
<1>6. \A n \in 1 .. N : n \in 0 .. N /\ n # 0
  OBVIOUS
<1>7. after[0] = c /\ \A n \in 1 .. N : after[n] = SimpleStep(after[n - 1], ccs[n])
  BY <1>4, <1>6, SMTT(30), SMTT(40)
<1> QED BY <1>5, <1>7

\* From nothing, changes that begin with a voter and add voters and learners build a configuration
\* with those voters.
LEMMA SimpleAllSound ==
    ASSUME NEW ccs \in Seq(Change), Consistent(ccs), ccs # <<>>, ccs[1].type = "Add",
           \A k \in 1 .. Len(ccs) : ccs[k].type \in {"Add", "AddLearner"},
           NEW c, c = SimpleAll(EmptyConf, ccs)
    PROVE  /\ Plain(c) /\ c.incoming = MadeOf("Add", ccs, Len(ccs)) /\ c.incoming # {}
           /\ c.learners \subseteq MadeOf("AddLearner", ccs, Len(ccs))
<1> DEFINE N == Len(ccs)
<1>0. N \in Nat /\ N # 0
  OBVIOUS
<1>1. PICK g : /\ c = g[N] /\ g[0] = EmptyConf
               /\ \A n \in 1 .. N : g[n] = SimpleStep(g[n - 1], ccs[n])
  BY <1>0, SimpleAllLoop, SMTT(30), SMTT(40)
<1> DEFINE P(n) == /\ Plain(g[n]) /\ g[n].incoming = MadeOf("Add", ccs, n)
                   /\ g[n].learners \subseteq MadeOf("AddLearner", ccs, n)
           S == {n \in 0 .. N : P(n)}
<1>2. P(0)
  <2>1. MadeOf("Add", ccs, 0) = {}
    BY DEF MadeOf
  <2>2. EmptyConf \in Configuration /\ EmptyConf.incoming = {} /\ EmptyConf.learners = {}
    BY ZenonT(40) DEF EmptyConf, Configuration
  <2>3. CheckInvariants(EmptyConf) /\ ~joint(EmptyConf)
    BY DEF CheckInvariants, EmptyConf, VotersOf, joint
  <2> QED BY <1>1, <2>1, <2>2, <2>3, ZenonT(40) DEF Plain
<1>3. \A n \in 1 .. N : ccs[1].id \in MadeOf("Add", ccs, n)
  <2>1. ccs[1] \in Change
    BY <1>0, SMTT(30), SMTT(40)
  <2> QED BY <1>0, <2>1 DEF MadeOf, Change
<1>4. ASSUME NEW n \in 0 .. N - 1, P(n) PROVE P(n + 1)
  <2> DEFINE cc == ccs[n + 1]
  <2>1. /\ n + 1 \in 1 .. N /\ cc \in Change
        /\ MadeOf("Add", ccs, n + 1) = IF cc.type = "Add" THEN MadeOf("Add", ccs, n) \cup {cc.id}
                                      ELSE MadeOf("Add", ccs, n)
        /\ MadeOf("AddLearner", ccs, n + 1) =
             IF cc.type = "AddLearner" THEN MadeOf("AddLearner", ccs, n) \cup {cc.id}
             ELSE MadeOf("AddLearner", ccs, n)
    BY OneMore, ZenonT(40)
  <2>2. (n + 1) - 1 = n /\ n \in Nat
    OBVIOUS
  <2>3. g[n] # Refused
    <3>1. g[n].autoLeave = FALSE
      BY <1>4, MembersSound, Zenon
    <3> QED BY <3>1 DEF Refused, EmptyConf
  <2>4. g[n + 1] = Simple(g[n], <<cc>>)
    BY <1>1, <2>1, <2>2, <2>3 DEF SimpleStep
  <2>5. cc.type # "Add" => cc.id \notin MadeOf("Add", ccs, n)
    <3>1. \A k \in 1 .. n : k \in 1 .. N
      BY <2>1, <2>2
    <3>2. \A k \in 1 .. n : ccs[k].id = cc.id => ccs[k].type = cc.type
      BY <2>1, <3>1 DEF Consistent
    <3> HIDE DEF cc
    <3> QED BY <3>2, ZenonT(40) DEF MadeOf
  <2> HIDE DEF cc
  <2>7. IncomingAfterOne(g[n].incoming, cc) = MadeOf("Add", ccs, n + 1)
    BY <1>4, <2>1, <2>5, Zenon DEF IncomingAfterOne
  <2>8. MadeOf("Add", ccs, n + 1) # {}
    BY <1>3, <2>1
  <2>9. /\ Plain(g[n + 1]) /\ g[n + 1].incoming = IncomingAfterOne(g[n].incoming, cc)
        /\ g[n + 1].learners \subseteq LearnersAfterOne(g[n].learners, cc)
    <3>1. Plain(g[n]) /\ IncomingAfterOne(g[n].incoming, cc) # {}
      BY <1>4, <2>7, <2>8
    <3> HIDE DEF P
    <3> QED BY <2>1, <2>4, <3>1, SimpleSound, ZenonT(40)
  <2>10. LearnersAfterOne(g[n].learners, cc) \subseteq MadeOf("AddLearner", ccs, n + 1)
    BY <1>4, <2>1 DEF LearnersAfterOne
  <2> QED BY <2>7, <2>9, <2>10
<1>5. P(N)
  <2> HIDE DEF P
  <2>1. 0 \in S /\ \A k \in 0 .. N - 1 : k \in S => k + 1 \in S
    BY <1>0, <1>2, <1>4
  <2>2. 0 .. N \subseteq S
    BY <1>0, <2>1, UpTo, Zenon
  <2> QED BY <1>0, <2>2, SMTT(30), SMTT(40)
<1> QED BY <1>0, <1>1, <1>3, <1>5, SMTT(30), SMTT(40)

\* A configuration restored from a descriptor outside a joint state has the voters it names.
LEMMA RestoreSound ==
    ASSUME NEW d \in Desc, Settled(d), NEW x0, RoleOf(d, x0) = "Voter",
           NEW c, c = Restore(ConfStateFromDescriptor(d))
    PROVE  /\ Sound(c) /\ ~joint(c) /\ c.autoLeave = FALSE /\ c.outgoing = {}
           /\ c.incoming = WithRoles(d, {"Voter", "IncomingVoter"})
           /\ c.learners \subseteq WithRoles(d, {"Learner"})
<1> DEFINE cs == ConfStateFromDescriptor(d)
           V == WithRoles(d, {"Voter", "IncomingVoter"})
           L == WithRoles(d, {"Learner"})
           A == ChangesOf("Add", V)
           B == ChangesOf("AddLearner", L)
           ccs == A \o B
<1>1. WithRoles(d, {"DemotingVoter"}) = {}
  BY DEF WithRoles, Settled
<1>2. /\ cs.votersOutgoing = {} /\ cs.voters = V /\ cs.learners = L /\ cs.learnersNext = {}
  BY <1>1 DEF ConfStateFromDescriptor
<1>3. /\ V \in SUBSET Replica /\ L \in SUBSET Replica /\ V \cap L = {} /\ V # {}
      /\ {} \in SUBSET Replica
  <2>1. DOMAIN d \in SUBSET Replica
    BY DescIs
  <2>2. x0 \in V
    BY DEF RoleOf, WithRoles
  <2> QED BY <2>1, <2>2 DEF WithRoles
<1> HIDE DEF V, L
<1>4. "Add" \in ChangeType /\ "AddLearner" \in ChangeType /\ "Remove" \in ChangeType
  BY DEF ChangeType
<1>5. ChangesOf("Remove", {}) = <<>> /\ ChangesOf("AddLearner", {}) = <<>>
  BY <1>3, <1>4, ChangesOfSet, Zenon DEF AreChangesOf
<1>6. /\ A \in Seq(Change) /\ A # <<>>
      /\ \A k \in 1 .. Len(A) : A[k].type = "Add" /\ A[k].id \in V
      /\ \A x \in V : \E k \in 1 .. Len(A) : A[k].id = x
  <2>1. AreChangesOf(A, "Add", V)
    BY <1>3, <1>4, ChangesOfSet, ZenonT(40)
  <2> HIDE DEF A
  <2> QED BY <1>3, <2>1, ZenonT(40) DEF AreChangesOf
<1>7. /\ B \in Seq(Change)
      /\ \A k \in 1 .. Len(B) : B[k].type = "AddLearner" /\ B[k].id \in L
  <2>1. AreChangesOf(B, "AddLearner", L)
    BY <1>3, <1>4, ChangesOfSet, ZenonT(40)
  <2> HIDE DEF B
  <2> QED BY <2>1, ZenonT(40) DEF AreChangesOf
<1>8. IncomingChanges(cs) = ccs
  <2>1. IncomingChanges(cs) = <<>> \o A \o B \o <<>>
    BY <1>2, <1>5, ZenonT(40) DEF IncomingChanges
  <2> HIDE DEF A, B
  <2> QED BY <1>6, <1>7, <2>1, SMTT(30), SMTT(40)
<1>9. c = SimpleAll(EmptyConf, ccs)
  BY <1>2, <1>8 DEF Restore
<1> HIDE DEF A, B
<1>10. /\ ccs \in Seq(Change) /\ Len(ccs) = Len(A) + Len(B) /\ Len(A) \in Nat /\ Len(B) \in Nat
       /\ \A k \in 1 .. Len(A) : ccs[k] = A[k]
       /\ \A k \in Len(A) + 1 .. Len(A) + Len(B) : ccs[k] = B[k - Len(A)]
  BY <1>6, <1>7
<1> HIDE DEF ccs
<1>11. \A k \in 1 .. Len(ccs) : \/ ccs[k].type = "Add" /\ ccs[k].id \in V
                                \/ ccs[k].type = "AddLearner" /\ ccs[k].id \in L
  <2> SUFFICES ASSUME NEW k \in 1 .. Len(ccs)
               PROVE  \/ ccs[k].type = "Add" /\ ccs[k].id \in V
                      \/ ccs[k].type = "AddLearner" /\ ccs[k].id \in L
    OBVIOUS
  <2>1. CASE k \in 1 .. Len(A)
    BY <1>6, <1>10, <2>1, ZenonT(40)
  <2>2. CASE k \notin 1 .. Len(A)
    <3>1. k \in Len(A) + 1 .. Len(A) + Len(B) /\ k - Len(A) \in 1 .. Len(B)
      BY <1>10, <2>2
    <3> QED BY <1>7, <1>10, <3>1, ZenonT(40)
  <2> QED BY <2>1, <2>2
<1>12. Len(A) # 0 /\ 1 \in 1 .. Len(A) /\ ccs # <<>> /\ ccs[1].type = "Add"
  <2>1. Len(A) # 0
    BY <1>6
  <2>2. 1 \in 1 .. Len(A) /\ Len(ccs) # 0
    BY <1>10, <2>1, SMTT(30), SMTT(40)
  <2> QED BY <1>6, <1>10, <2>1, <2>2, SMTT(30), SMTT(40)
<1>13. Consistent(ccs)
  BY <1>3, <1>11 DEF Consistent
<1>14. \A k \in 1 .. Len(ccs) : ccs[k].type \in {"Add", "AddLearner"}
  BY <1>11
<1>15. /\ Plain(c) /\ c.incoming = MadeOf("Add", ccs, Len(ccs)) /\ c.incoming # {}
       /\ c.learners \subseteq MadeOf("AddLearner", ccs, Len(ccs))
  BY <1>9, <1>10, <1>12, <1>13, <1>14, SimpleAllSound, Zenon
<1>16. MadeOf("Add", ccs, Len(ccs)) = V
  <2>1. \A x \in V : \E k \in 1 .. Len(ccs) : ccs[k].id = x /\ ccs[k].type = "Add"
    <3>1. \A k \in 1 .. Len(A) : k \in 1 .. Len(ccs)
      BY <1>10
    <3> QED BY <1>6, <1>10, <3>1, ZenonT(40)
  <2>2. \A k \in 1 .. Len(ccs) : ccs[k].type = "Add" => ccs[k].id \in V
    BY <1>11
  <2> QED BY <1>3, <2>1, <2>2, ZenonT(40) DEF MadeOf
<1>17. c.learnersNext = {} /\ c.outgoing = {} /\ c.autoLeave = FALSE
  BY <1>15, MembersSound, Zenon
<1>18. MadeOf("AddLearner", ccs, Len(ccs)) \subseteq L
  BY <1>11 DEF MadeOf
<1> QED BY <1>15, <1>16, <1>17, <1>18, ZenonT(40) DEF Sound, Plain, V, L

-----------------------------------------------------------------------------
\* The changes of the scheduler

\* A joint state can be left.
LEMMA LeavingAccepted == ASSUME NEW c, Sound(c), joint(c) PROVE Accepts(c, <<>>)
<1>1. <<>> \in Seq(Change) /\ Len(<<>>) = 0
  OBVIOUS
<1>2. IncomingAfter(c.incoming, <<>>, 0) = c.incoming /\ Consistent(<<>>)
  BY <1>1 DEF IncomingAfter, Touched, MadeOf, Consistent
<1> QED BY <1>1, <1>2 DEF Accepts, Sound

\* What the scheduler asks for, reading the descriptor that goes with the configuration, raft takes.
LEMMA ScheduledAccepted ==
    ASSUME NEW c, Sound(c), ~joint(c), NEW d, Matches(c, d), NEW ccs, ccs # <<>>,
           ccs \in AddLearners(d) \cup RemoveLearners(d) \cup ReplaceVoters(d)
    PROVE  Accepts(c, ccs)
<1> DEFINE V == WithRoles(d, {"Voter"})
           L == WithRoles(d, {"Learner"})
<1>0. MatchesRoles(c, d)
  BY MatchesByRoles, ZenonT(40)
<1>1. /\ DOMAIN d \in SUBSET Replica /\ c.incoming = V /\ V \in SUBSET Replica /\ L \in SUBSET Replica
      /\ V \cap L = {} /\ V # {} /\ V \subseteq DOMAIN d
  <2>1. DOMAIN d \in SUBSET Replica
    BY <1>0, DescIs, ZenonT(40) DEF MatchesRoles
  <2>2. \A x : x \in c.incoming <=> x \in V
    BY <1>0 DEF MatchesRoles, WithRoles, RoleOf
  <2>3. c.incoming # {} /\ c.incoming \in SUBSET Replica
    BY DEF Sound, Configuration
  <2>4. c.incoming = V
    BY <2>2, <2>3, Zenon
  <2> QED BY <2>1, <2>3, <2>4, ZenonT(40) DEF WithRoles
<1> HIDE DEF V, L
<1>2. "Add" \in ChangeType /\ "AddLearner" \in ChangeType /\ "Remove" \in ChangeType
  BY DEF ChangeType
<1>3. ASSUME NEW T \in SUBSET Replica, NEW type \in ChangeType, T \cap V = {}, ccs = ChangesOf(type, T)
      PROVE  Accepts(c, ccs)
  <2>1. AreChangesOf(ccs, type, T)
    BY <1>3, ChangesOfSet, ZenonT(40)
  <2>2. ccs \in Seq(Change) /\ Consistent(ccs)
    BY <2>1 DEF AreChangesOf, Consistent
  <2>3. Touched(ccs, Len(ccs)) \subseteq T
    BY <2>1, ZenonT(40) DEF AreChangesOf, Touched
  <2>4. IncomingAfter(c.incoming, ccs, Len(ccs)) # {}
    BY <1>1, <1>3, <2>3, ZenonT(40) DEF IncomingAfter
  <2> QED BY <2>2, <2>4, ZenonT(40) DEF Accepts
<1>4. CASE ccs \in AddLearners(d)
  <2>1. PICK T \in SUBSET (Replica \ DOMAIN d) : ccs = ChangesOf("AddLearner", T)
    BY <1>4, ZenonT(40) DEF AddLearners
  <2>2. T \in SUBSET Replica /\ T \cap V = {}
    BY <1>1
  <2> QED BY <1>2, <1>3, <2>1, <2>2, ZenonT(40)
<1>5. CASE ccs \in RemoveLearners(d)
  <2>1. PICK T \in SUBSET L : ccs = ChangesOf("Remove", T)
    BY <1>5, ZenonT(40) DEF RemoveLearners, L
  <2>2. T \in SUBSET Replica /\ T \cap V = {}
    BY <1>1, ZenonT(40)
  <2> QED BY <1>2, <1>3, <2>1, <2>2, ZenonT(40)
<1>6. CASE ccs \in ReplaceVoters(d)
  <2>1. PICK st \in (SUBSET L) \X (SUBSET V) :
              /\ st # <<{}, {}>>
              /\ Cardinality(st[2]) <= Cardinality(st[1]) \/ Cardinality(V \ st[2]) >= Required
              /\ ccs = ChangesOf("Add", st[1]) \o ChangesOf("Remove", st[2])
    BY <1>6, Zenon DEF ReplaceVoters, V, L
  <2>2. PICK S \in SUBSET L, T \in SUBSET V : st = <<S, T>>
    BY <2>1, SMTT(30), SMTT(40)
  <2>3. PICK A, B : A = ChangesOf("Add", S) /\ B = ChangesOf("Remove", T)
    BY ZenonT(40)
  <2>4. ccs = A \o B /\ S \in SUBSET Replica /\ T \in SUBSET Replica
    BY <1>1, <2>1, <2>2, <2>3, ZenonT(40)
  <2>5. AreChangesOf(A, "Add", S) /\ AreChangesOf(B, "Remove", T)
    BY <1>2, <2>3, <2>4, ChangesOfSet, ZenonT(40)
  <2>6. A \in Seq(Change) /\ B \in Seq(Change)
    BY <2>5, ZenonT(40) DEF AreChangesOf
  <2>7. /\ ccs \in Seq(Change) /\ Len(ccs) = Len(A) + Len(B) /\ Len(A) \in Nat /\ Len(B) \in Nat
        /\ \A k \in 1 .. Len(A) : ccs[k] = A[k]
        /\ \A k \in Len(A) + 1 .. Len(A) + Len(B) : ccs[k] = B[k - Len(A)]
    BY <2>4, <2>6, SMTT(30), SMTT(40)
  <2>8. ASSUME NEW k \in 1 .. Len(ccs)
        PROVE  \/ ccs[k].type = "Add" /\ ccs[k].id \in S
               \/ ccs[k].type = "Remove" /\ ccs[k].id \in T
    <3>1. CASE k \in 1 .. Len(A)
      BY <2>5, <2>7, <3>1, ZenonT(40) DEF AreChangesOf
    <3>2. CASE k \notin 1 .. Len(A)
      <4>1. k \in Len(A) + 1 .. Len(A) + Len(B) /\ k - Len(A) \in 1 .. Len(B)
        BY <2>7, <3>2
      <4> QED BY <2>5, <2>7, <4>1, SMTT(30), SMTT(40) DEF AreChangesOf
    <3> QED BY <3>1, <3>2, ZenonT(40)
  <2>9. S \cap T = {}
    BY <1>1
  <2>10. Consistent(ccs)
    BY <2>8, <2>9, ZenonT(40) DEF Consistent
  <2>11. IncomingAfter(c.incoming, ccs, Len(ccs)) # {}
    <3>1. CASE S # {}
      <4>1. PICK x \in S : TRUE
        BY <3>1, ZenonT(40)
      <4>2. PICK k \in 1 .. Len(A) : A[k].id = x /\ A[k].type = "Add"
        BY <2>5, <4>1, ZenonT(40) DEF AreChangesOf
      <4>3. k \in 1 .. Len(ccs) /\ ccs[k] = A[k]
        BY <2>7, SMTT(30), SMTT(40)
      <4> QED BY <2>4, <4>1, <4>2, <4>3, ZenonT(40) DEF IncomingAfter, MadeOf
    <3>2. CASE S = {}
      <4>1. T # {} /\ (Cardinality(T) <= Cardinality({}) \/ Cardinality(V \ T) >= Required)
        BY <2>1, <2>2, <3>2, ZenonT(40)
      <4>2. IsFiniteSet(T) /\ IsFiniteSet(V \ T)
        BY <1>1, <2>4, ReplicaAssumption, FS_Subset, ZenonT(40)
      <4>3. Cardinality({}) = 0 /\ Cardinality(T) # 0 /\ Cardinality(T) \in Nat
        BY <4>1, <4>2, FS_EmptySet, FS_CardinalityType, ZenonT(40)
      <4>4. Cardinality(V \ T) >= Required /\ Required \in Nat \ {0}
        BY <4>1, <4>3, MembershipAssumption, SMTT(30), SMTT(40)
      <4>5. Cardinality(V \ T) # 0
        BY <4>4
      <4>6. V \ T # {}
        BY <4>3, <4>5, Zenon
      <4>7. Touched(ccs, Len(ccs)) \subseteq T
        BY <2>8, <3>2, ZenonT(40) DEF Touched
      <4> QED BY <1>1, <4>6, <4>7, ZenonT(40) DEF IncomingAfter
    <3> QED BY <3>1, <3>2, ZenonT(40)
  <2> QED BY <2>7, <2>10, <2>11, ZenonT(40) DEF Accepts
<1> QED BY <1>4, <1>5, <1>6, ZenonT(40)

-----------------------------------------------------------------------------
\* The inductive invariant

\* Two configurations vote alike and leave joint states alike.
Same(c, b) == c.incoming = b.incoming /\ c.outgoing = b.outgoing /\ c.autoLeave = b.autoLeave

\* The committed changes: the configuration and the descriptor after each of them go together, and
\* each change is one that the configuration before it takes.
LogInv ==
    /\ log \in Seq(Seq(Change)) /\ Len(log) <= MaxLog
    /\ descs \in Seq(Desc) /\ Len(descs) = Len(log) + 1
    /\ confs \in Seq(Configuration) /\ Len(confs) = Len(log) + 1
    /\ \A n \in 1 .. Len(log) + 1 : Sound(confs[n]) /\ Matches(confs[n], descs[n])
    /\ \A n \in 1 .. Len(log) : Accepts(confs[n], log[n]) /\ confs[n + 1] = ApplyConf(confs[n], log[n])

\* The replicas: each has the voters of the changes it applied, and the leader lacks at most the last.
ReplicaInv ==
    /\ conf \in [Replica -> Configuration]
    /\ applied \in [Replica -> Nat] /\ flushed \in [Replica -> Nat]
    /\ \A i \in Replica :
         /\ flushed[i] <= applied[i] /\ applied[i] <= Len(log)
         /\ Sound(conf[i]) /\ Same(conf[i], confs[applied[i] + 1])

LeadInv == lead \in Replica \cup {None} /\ (lead # None => applied[lead] + 1 >= Len(log))

MembersInv ==
    /\ LogInv
    /\ ReplicaInv
    /\ LeadInv
    /\ elections \in 0 .. MaxElections /\ restores \in 0 .. MaxRestores

\* Configurations that vote alike make the same of a change.
LEMMA SameNext ==
    ASSUME NEW c, NEW b, Sound(c), Sound(b), Same(c, b), NEW ccs, Accepts(b, ccs),
           NEW d, d = ApplyConf(c, ccs), NEW a, a = ApplyConf(b, ccs)
    PROVE  Accepts(c, ccs) /\ Sound(d) /\ Sound(a) /\ Same(d, a) /\ NextConf(c, ccs) # Refused
<1>1. Accepts(c, ccs)
  BY DEF Accepts, Same, joint
<1>2. PICK x, y : x = NextConf(c, ccs) /\ y = NextConf(b, ccs)
  BY ZenonT(40)
<1>3. /\ Sound(x) /\ x # Refused /\ x = d
      /\ x.incoming = IncomingAfter(c.incoming, ccs, Len(ccs)) /\ x.outgoing = OutgoingAfter(c, ccs)
  BY <1>1, <1>2, AcceptedSound, ZenonT(40)
<1>4. /\ Sound(y) /\ y = a
      /\ y.incoming = IncomingAfter(b.incoming, ccs, Len(ccs)) /\ y.outgoing = OutgoingAfter(b, ccs)
  BY <1>2, AcceptedSound, ZenonT(40)
<1>5. x.incoming = y.incoming /\ x.outgoing = y.outgoing
  BY <1>3, <1>4, ZenonT(40) DEF Same, OutgoingAfter
<1>6. x.autoLeave \in BOOLEAN /\ y.autoLeave \in BOOLEAN /\ (x.autoLeave <=> y.autoLeave)
  BY <1>3, <1>4, <1>5, ZenonT(40) DEF Sound, Configuration, joint
<1>7. x.autoLeave = y.autoLeave
  BY <1>6
<1> QED BY <1>1, <1>2, <1>3, <1>4, <1>5, <1>7, ZenonT(40) DEF Same

\* What appending one more does to a sequence.
LEMMA AppendFacts ==
    ASSUME NEW T, NEW s \in Seq(T), NEW x \in T, NEW t, t = Append(s, x)
    PROVE  /\ t \in Seq(T) /\ Len(t) = Len(s) + 1 /\ Len(s) \in Nat
           /\ t[Len(s) + 1] = x /\ \A n \in 1 .. Len(s) : t[n] = s[n]
  OBVIOUS

\* A change that becomes committed.
LEMMA CommitStep ==
    ASSUME MembersInv, NEW ccs, Accepts(confs[Len(confs)], ccs), Commit(ccs), Len(log) < MaxLog,
           lead # None => applied[lead] = Len(log)
    PROVE  MembersInv'
<1> USE DEF MembersInv
<1> DEFINE N == Len(log)
           c == confs[N + 1]
           d == descs[N + 1]
<1>1. N \in Nat /\ Len(descs) = N + 1 /\ Len(confs) = N + 1 /\ MaxLog \in Nat
  BY MembershipAssumption, SMTT(30), SMTT(40) DEF LogInv
<1>2. Sound(c) /\ Matches(c, d) /\ Accepts(c, ccs) /\ ccs \in Seq(Change)
  BY <1>1 DEF LogInv, Accepts
<1>3. PICK b, e : b = ApplyConf(c, ccs) /\ e = ApplyChangeReplicas(d, ccs)
  BY ZenonT(40)
<1> HIDE DEF c, d
<1>4. /\ Sound(b) /\ b \in Configuration
      /\ b.incoming = IncomingAfter(c.incoming, ccs, Len(ccs)) /\ b.outgoing = OutgoingAfter(c, ccs)
      /\ b.learners \subseteq LearnersAfter(c, ccs)
  <2>1. PICK x : x = NextConf(c, ccs)
    BY ZenonT(40)
  <2>2. /\ Sound(b) /\ b.incoming = IncomingAfter(c.incoming, ccs, Len(ccs)) /\ b.outgoing = OutgoingAfter(c, ccs)
        /\ b.learners \subseteq LearnersAfter(c, ccs)
    BY <1>2, <1>3, <2>1, AcceptedSound, ZenonT(40), SMTT(30)
  <2> QED BY <2>2, Zenon DEF Sound
<1>5. Matches(b, e) /\ e \in Desc
  BY <1>2, <1>3, <1>4, MatchesNext, SMTT(30), SMTT(40) DEF Matches
<1>6. log' = Append(log, ccs) /\ descs' = Append(descs, e) /\ confs' = Append(confs, b)
  BY <1>1, <1>3, ZenonT(40) DEF Commit, c, d
<1>7. /\ log' \in Seq(Seq(Change)) /\ Len(log') = N + 1 /\ log'[N + 1] = ccs
      /\ \A n \in 1 .. N : log'[n] = log[n]
  BY <1>2, <1>6, AppendFacts, SMTT(30), SMTT(40) DEF LogInv
<1>8. /\ descs' \in Seq(Desc) /\ Len(descs') = N + 2 /\ descs'[N + 2] = e
      /\ \A n \in 1 .. N + 1 : descs'[n] = descs[n]
  <2>1. /\ descs' \in Seq(Desc) /\ Len(descs') = Len(descs) + 1 /\ descs'[Len(descs) + 1] = e
        /\ \A n \in 1 .. Len(descs) : descs'[n] = descs[n]
    BY <1>5, <1>6, AppendFacts, SMTT(30), SMTT(40) DEF LogInv
  <2>2. (N + 1) + 1 = N + 2
    BY <1>1
  <2> HIDE DEF N
  <2> QED BY <1>1, <2>1, <2>2, ZenonT(40)
<1>9. /\ confs' \in Seq(Configuration) /\ Len(confs') = N + 2 /\ confs'[N + 2] = b
      /\ \A n \in 1 .. N + 1 : confs'[n] = confs[n]
  <2>1. /\ confs' \in Seq(Configuration) /\ Len(confs') = Len(confs) + 1 /\ confs'[Len(confs) + 1] = b
        /\ \A n \in 1 .. Len(confs) : confs'[n] = confs[n]
    BY <1>4, <1>6, AppendFacts, SMTT(30), SMTT(40) DEF LogInv
  <2>2. (N + 1) + 1 = N + 2
    BY <1>1
  <2> HIDE DEF N
  <2> QED BY <1>1, <2>1, <2>2, ZenonT(40)
<1>10. /\ \A n \in 1 .. N + 1 : Sound(confs[n]) /\ Matches(confs[n], descs[n])
       /\ \A n \in 1 .. N : Accepts(confs[n], log[n]) /\ confs[n + 1] = ApplyConf(confs[n], log[n])
  BY ZenonT(40) DEF LogInv
<1>11. UNCHANGED <<lead, conf, applied, flushed, elections, restores>> /\ N + 1 <= MaxLog
  BY <1>1, SMTT(30), SMTT(40) DEF Commit
<1> HIDE DEF N
<1>12. ASSUME NEW n \in 1 .. (N + 1) + 1 PROVE Sound(confs'[n]) /\ Matches(confs'[n], descs'[n])
  <2>1. CASE n \in 1 .. N + 1
    BY <1>8, <1>9, <1>10, <2>1, ZenonT(40)
  <2>2. CASE n \notin 1 .. N + 1
    <3>1. n = N + 2
      BY <1>1, <2>2, SMTT(30), SMTT(40)
    <3> QED BY <1>4, <1>5, <1>8, <1>9, <3>1, ZenonT(40)
  <2> QED BY <2>1, <2>2, ZenonT(40)
<1>13. ASSUME NEW n \in 1 .. N + 1
       PROVE  Accepts(confs'[n], log'[n]) /\ confs'[n + 1] = ApplyConf(confs'[n], log'[n])
  <2>1. CASE n \in 1 .. N
    <3>1. n \in 1 .. N + 1 /\ n + 1 \in 1 .. N + 1
      BY <1>1, <2>1
    <3> QED BY <1>7, <1>9, <1>10, <2>1, <3>1, ZenonT(40)
  <2>2. CASE n \notin 1 .. N
    <3>1. n = N + 1 /\ n + 1 = N + 2 /\ N + 1 \in 1 .. N + 1
      BY <1>1, <2>2, SMTT(30), SMTT(40)
    <3> QED BY <1>2, <1>3, <1>7, <1>9, <3>1, ZenonT(40) DEF c
  <2> QED BY <2>1, <2>2, ZenonT(40)
<1>14. LogInv'
  <2>1. Len(descs') = Len(log') + 1 /\ Len(confs') = Len(log') + 1
    <3>1. (N + 1) + 1 = N + 2
      BY <1>1, SMTT(30), SMTT(40)
    <3> QED BY <1>7, <1>8, <1>9, <3>1, ZenonT(40)
  <2> QED BY <1>7, <1>8, <1>9, <1>11, <1>12, <1>13, <2>1, ZenonT(40) DEF LogInv
<1>15. ReplicaInv'
  <2>1. ASSUME NEW i \in Replica
        PROVE  /\ flushed[i] <= applied[i] /\ applied[i] <= N + 1
               /\ Sound(conf[i]) /\ Same(conf[i], confs'[applied[i] + 1])
    <3>1. /\ flushed[i] <= applied[i] /\ applied[i] <= N /\ applied[i] \in Nat
          /\ Sound(conf[i]) /\ Same(conf[i], confs[applied[i] + 1])
      BY ZenonT(40) DEF ReplicaInv, N
    <3>2. applied[i] + 1 \in 1 .. N + 1 /\ applied[i] <= N + 1
      BY <1>1, <3>1, SMTT(30), SMTT(40)
    <3> QED BY <1>9, <3>1, <3>2, ZenonT(40)
  <2> QED BY <1>7, <1>11, <2>1, ZenonT(40) DEF ReplicaInv
<1>16. LeadInv'
  <2>1. lead # None => applied[lead] + 1 >= N + 1
    BY <1>1, SMTT(30), SMTT(40) DEF N
  <2> QED BY <1>7, <1>11, <2>1, ZenonT(40) DEF LeadInv
<1> QED BY <1>11, <1>14, <1>15, <1>16, ZenonT(40)

LEMMA InitMembersInv == Init => MembersInv
<1> SUFFICES ASSUME Init PROVE MembersInv
  OBVIOUS
<1>1. PICK voters \in InitVoters :
        LET d == [r \in voters |-> "Voter"]
            c == Restore(ConfStateFromDescriptor(d))
        IN  /\ log = <<>> /\ descs = <<d>> /\ confs = <<c>>
            /\ lead \in voters
            /\ conf = [i \in Replica |-> c]
            /\ applied = [i \in Replica |-> 0]
            /\ flushed = [i \in Replica |-> 0]
            /\ elections = 0
            /\ restores = 0
  BY DEF Init
<1>2. PICK d : d = [r \in voters |-> "Voter"]
  BY Zenon
<1>3. PICK c : c = Restore(ConfStateFromDescriptor(d))
  OBVIOUS
<1>4. /\ log = <<>> /\ descs = <<d>> /\ confs = <<c>> /\ lead \in voters
      /\ conf = [i \in Replica |-> c] /\ applied = [i \in Replica |-> 0]
      /\ flushed = [i \in Replica |-> 0] /\ elections = 0 /\ restores = 0
  BY <1>1, <1>2, <1>3, ZenonT(40)
<1>5. voters \in SUBSET Replica /\ voters # {}
  BY MembershipAssumption, ZenonT(40)
<1>6. PICK x0 : x0 \in voters
  BY <1>5
<1>7. d \in Desc /\ Settled(d) /\ RoleOf(d, x0) = "Voter"
  <2>1. d \in [voters -> Role]
    BY <1>2 DEF Role
  <2> QED BY <1>2, <1>5, <1>6, <2>1, ZenonT(40) DEF Desc, Settled, RoleOf
<1>8. /\ Sound(c) /\ ~joint(c) /\ c.incoming = WithRoles(d, {"Voter", "IncomingVoter"})
      /\ c.learners \subseteq WithRoles(d, {"Learner"}) /\ c \in Configuration
  BY <1>3, <1>7, RestoreSound, ZenonT(40) DEF Sound
<1>9. Matches(c, d)
  <2>1. WithRoles(d, {"IncomingVoter", "DemotingVoter"}) = {}
    BY <1>7, ZenonT(40) DEF WithRoles, Settled
  <2> QED BY <1>7, <1>8, <2>1, ZenonT(40) DEF Matches
<1>10. Len(log) = 0 /\ MaxLog \in Nat
  BY <1>4, MembershipAssumption, ZenonT(40)
<1>11. LogInv
  <2>1. Len(descs) = 1 /\ Len(confs) = 1 /\ descs[1] = d /\ confs[1] = c
    BY <1>4, ZenonT(40)
  <2>2. log \in Seq(Seq(Change)) /\ descs \in Seq(Desc) /\ confs \in Seq(Configuration)
    BY <1>4, <1>7, <1>8, SMTT(30), SMTT(40)
  <2>3. \A n \in 1 .. 0 + 1 : n = 1
    BY SMTT(30), SMTT(40)
  <2>4. \A n \in 1 .. Len(log) + 1 : Sound(confs[n]) /\ Matches(confs[n], descs[n])
    BY <1>8, <1>9, <1>10, <2>1, <2>3, ZenonT(40)
  <2>5. 1 .. Len(log) = {}
    BY <1>10, SMTT(30), SMTT(40)
  <2> QED BY <1>10, <2>1, <2>2, <2>4, <2>5, SMTT(30), SMTT(40) DEF LogInv
<1>12. ReplicaInv
  <2>1. confs[0 + 1] = c
    BY <1>4, SMTT(30), SMTT(40)
  <2> QED BY <1>4, <1>8, <1>10, <2>1, SMTT(30), SMTT(40) DEF ReplicaInv, Same
<1>13. LeadInv
  BY <1>4, <1>5, <1>10 DEF LeadInv
<1> QED BY <1>4, <1>11, <1>12, <1>13, MembershipAssumption, SMTT(30), SMTT(40) DEF MembersInv

\* A leader that has applied every change has the voters of the last configuration.
LEMMA LeaderIsCurrent ==
    ASSUME MembersInv, NEW i \in Replica, applied[i] = Len(log)
    PROVE  /\ Sound(confs[Len(confs)]) /\ Matches(confs[Len(confs)], DescOf(i))
           /\ Sound(conf[i]) /\ Same(conf[i], confs[Len(confs)])
<1>1. Len(log) \in Nat /\ Len(confs) = Len(log) + 1
  BY DEF MembersInv, LogInv
<1>2. Len(log) + 1 \in 1 .. Len(log) + 1
  BY <1>1, SMTT(30), SMTT(40)
<1> QED BY <1>1, <1>2, ZenonT(40) DEF MembersInv, LogInv, ReplicaInv, DescOf

LEMMA ProposeStep == ASSUME MembersInv, NEW i \in Replica, ProposeConfChange(i) PROVE MembersInv'
<1>1. PICK ccs \in AddLearners(DescOf(i)) \cup RemoveLearners(DescOf(i)) \cup ReplaceVoters(DescOf(i)) :
        (joint(conf[i]) <=> ccs = <<>>) /\ Commit(ccs)
  BY ZenonT(40) DEF ProposeConfChange
<1>2. i = lead /\ Len(log) < MaxLog /\ applied[i] = Len(log)
  BY DEF ProposeConfChange
<1>3. PICK c, d : c = confs[Len(confs)] /\ d = DescOf(i)
  BY ZenonT(40)
<1>4. Sound(c) /\ Matches(c, d) /\ (joint(c) <=> ccs = <<>>)
  BY <1>1, <1>2, <1>3, LeaderIsCurrent, ZenonT(40) DEF Same, joint
<1>5. Accepts(c, ccs)
  <2>1. CASE ccs = <<>>
    BY <1>4, <2>1, LeavingAccepted, ZenonT(40)
  <2>2. CASE ccs # <<>>
    BY <1>1, <1>3, <1>4, <2>2, ScheduledAccepted, ZenonT(40)
  <2> QED BY <2>1, <2>2
<1> QED BY <1>1, <1>2, <1>3, <1>5, CommitStep, ZenonT(40)

LEMMA AutoLeaveStep == ASSUME MembersInv, NEW i \in Replica, AutoLeave(i) PROVE MembersInv'
<1>1. i = lead /\ Len(log) < MaxLog /\ applied[i] = Len(log) /\ conf[i].autoLeave /\ Commit(<<>>)
  BY DEF AutoLeave
<1>2. PICK c : c = confs[Len(confs)]
  BY ZenonT(40)
<1>3. Sound(c) /\ joint(c)
  BY <1>1, <1>2, LeaderIsCurrent, ZenonT(40) DEF Same, Sound
<1>4. Accepts(c, <<>>)
  BY <1>3, LeavingAccepted, ZenonT(40)
<1> QED BY <1>1, <1>2, <1>4, CommitStep, ZenonT(40)

LEMMA ApplyStep == ASSUME MembersInv, NEW i \in Replica, ApplyConfChange(i) PROVE MembersInv'
<1> USE DEF MembersInv
<1>0. /\ applied[i] < Len(log)
      /\ conf' = [conf EXCEPT ![i] = ApplyConf(@, log[applied[i] + 1])]
      /\ applied' = [applied EXCEPT ![i] = @ + 1]
      /\ UNCHANGED <<log, descs, confs, lead, flushed, elections, restores>>
  BY ZenonT(40) DEF ApplyConfChange
<1>1. PICK n, ccs, c, b : n = applied[i] /\ ccs = log[n + 1] /\ c = conf[i] /\ b = confs[n + 1]
  BY ZenonT(40)
<1>2. Len(log) \in Nat /\ n \in Nat /\ n < Len(log) /\ Sound(c) /\ Same(c, b)
  BY <1>0, <1>1, SMTT(30), SMTT(40) DEF LogInv, ReplicaInv
<1>3. n + 1 \in 1 .. Len(log) /\ n + 1 \in 1 .. Len(log) + 1 /\ n + 1 <= Len(log)
  BY <1>2
<1>4. Sound(b) /\ Accepts(b, ccs) /\ confs[(n + 1) + 1] = ApplyConf(b, ccs)
  BY <1>1, <1>3, ZenonT(40) DEF LogInv
<1>5. PICK d, a : d = ApplyConf(c, ccs) /\ a = ApplyConf(b, ccs)
  OBVIOUS
<1>6. Sound(d) /\ Same(d, a) /\ d \in Configuration
  BY <1>2, <1>4, <1>5, SameNext DEF Sound
<1>7. conf' = [conf EXCEPT ![i] = d] /\ applied' = [applied EXCEPT ![i] = n + 1]
  BY <1>0, <1>1, <1>5, ZenonT(40)
<1>8. LogInv'
  BY <1>0, ZenonT(40) DEF LogInv
<1>9. ReplicaInv'
  <2>1. conf' \in [Replica -> Configuration] /\ applied' \in [Replica -> Nat] /\ flushed' \in [Replica -> Nat]
    BY <1>0, <1>2, <1>6, <1>7, SMTT(30), SMTT(40) DEF ReplicaInv
  <2>2. ASSUME NEW j \in Replica
        PROVE  /\ flushed'[j] <= applied'[j] /\ applied'[j] <= Len(log')
               /\ Sound(conf'[j]) /\ Same(conf'[j], confs'[applied'[j] + 1])
    <3>1. CASE j = i
      <4>1. flushed[i] \in Nat /\ flushed[i] <= n
        BY <1>1, ZenonT(40) DEF ReplicaInv
      <4>2. flushed[i] <= n + 1
        BY <1>2, <4>1, SMTT(30), SMTT(40)
      <4>3. conf'[j] = d /\ applied'[j] = n + 1
        BY <1>7, <3>1 DEF ReplicaInv
      <4> QED BY <1>0, <1>3, <1>4, <1>5, <1>6, <3>1, <4>2, <4>3, ZenonT(40)
    <3>2. CASE j # i
      <4>1. conf'[j] = conf[j] /\ applied'[j] = applied[j]
        BY <1>7, <3>2, ZenonT(40) DEF ReplicaInv
      <4> QED BY <1>0, <4>1, ZenonT(40) DEF ReplicaInv
    <3> QED BY <3>1, <3>2, ZenonT(40)
  <2> QED BY <2>1, <2>2, ZenonT(40) DEF ReplicaInv
<1>10. LeadInv'
  <2>1. lead = i => applied'[i] + 1 >= Len(log)
    <3>1. applied'[i] = n + 1
      BY <1>7 DEF ReplicaInv
    <3>2. lead = i => n + 1 >= Len(log)
      BY <1>1, MembershipAssumption DEF LeadInv, None
    <3> QED BY <1>2, <3>1, <3>2, SMTT(30), SMTT(40)
  <2>2. lead # i /\ lead # None => applied'[lead] = applied[lead]
    BY <1>7, ZenonT(40) DEF LeadInv, ReplicaInv
  <2> QED BY <1>0, <2>1, <2>2, ZenonT(40) DEF LeadInv
<1> QED BY <1>0, <1>8, <1>9, <1>10, ZenonT(40)

\* A configuration restored from a descriptor outside a joint state has the voters of the changes it
\* is restored from.
LEMMA RestoredSame ==
    ASSUME NEW c, Sound(c), ~joint(c), NEW d, Matches(c, d), NEW b, b = Restore(ConfStateFromDescriptor(d))
    PROVE  Sound(b) /\ Same(b, c)
<1>1. MatchesRoles(c, d)
  BY MatchesByRoles, ZenonT(40)
<1>2. d \in Desc /\ \A x : RoleOf(d, x) \notin {"IncomingVoter", "DemotingVoter"}
  BY <1>1 DEF MatchesRoles
<1>3. Settled(d)
  <2>1. \A x \in DOMAIN d : d[x] \in Role /\ d[x] \notin {"IncomingVoter", "DemotingVoter"}
    BY <1>2, DescIs, ZenonT(40) DEF RoleOf
  <2> QED BY <2>1 DEF Settled, Role
<1>4. PICK x0 : RoleOf(d, x0) = "Voter"
  <2>1. PICK x : x \in c.incoming
    BY DEF Sound
  <2>2. RoleOf(d, x) \in {"Voter", "IncomingVoter"}
    BY <1>1, <2>1, ZenonT(40) DEF MatchesRoles
  <2> QED BY <1>2, <2>2, ZenonT(40)
<1>5. /\ Sound(b) /\ b.autoLeave = FALSE /\ b.outgoing = {}
      /\ b.incoming = WithRoles(d, {"Voter", "IncomingVoter"})
  BY <1>2, <1>3, <1>4, RestoreSound, ZenonT(40)
<1>6. c.autoLeave \in BOOLEAN /\ ~c.autoLeave
  BY DEF Sound, Configuration
<1>7. c.autoLeave = FALSE
  BY <1>6, ZenonT(40)
<1> QED BY <1>5, <1>7, ZenonT(40) DEF Same, Matches, joint

LEMMA RestoreStep ==
    ASSUME MembersInv, RestoreInJoint = FALSE, NEW i \in Replica, NEW n \in Nat, n <= Len(log), RestoreFrom(i, n)
    PROVE  MembersInv'
<1> USE DEF MembersInv
<1>0. /\ restores < MaxRestores /\ ~joint(confs[n + 1])
      /\ conf' = [conf EXCEPT ![i] = Restore(ConfStateFromDescriptor(descs[n + 1]))]
      /\ applied' = [applied EXCEPT ![i] = n]
      /\ flushed' = [flushed EXCEPT ![i] = n]
      /\ restores' = restores + 1
      /\ lead' = IF lead = i THEN None ELSE lead
      /\ UNCHANGED <<log, descs, confs, elections>>
  BY DEF RestoreFrom
<1>1. PICK c, d, b : c = confs[n + 1] /\ d = descs[n + 1] /\ b = Restore(ConfStateFromDescriptor(d))
  OBVIOUS
<1>2. Len(log) \in Nat /\ n + 1 \in 1 .. Len(log) + 1
  BY DEF LogInv
<1>3. Sound(c) /\ Matches(c, d)
  BY <1>1, <1>2, ZenonT(40) DEF LogInv
<1>4. Sound(b) /\ Same(b, c) /\ b \in Configuration
  BY <1>0, <1>1, <1>3, RestoredSame, ZenonT(40) DEF Sound
<1>5. conf' = [conf EXCEPT ![i] = b]
  BY <1>0, <1>1, ZenonT(40)
<1>6. LogInv'
  BY <1>0, ZenonT(40) DEF LogInv
<1>7. ReplicaInv'
  <2>1. conf' \in [Replica -> Configuration] /\ applied' \in [Replica -> Nat] /\ flushed' \in [Replica -> Nat]
    BY <1>0, <1>4, <1>5, ZenonT(40) DEF ReplicaInv
  <2>2. ASSUME NEW j \in Replica
        PROVE  /\ flushed'[j] <= applied'[j] /\ applied'[j] <= Len(log')
               /\ Sound(conf'[j]) /\ Same(conf'[j], confs'[applied'[j] + 1])
    <3>1. CASE j = i
      <4>1. conf'[j] = b /\ applied'[j] = n /\ flushed'[j] = n
        BY <1>0, <1>5, <3>1, ZenonT(40) DEF ReplicaInv
      <4> QED BY <1>0, <1>1, <1>4, <4>1, SMTT(30), SMTT(40)
    <3>2. CASE j # i
      <4>1. conf'[j] = conf[j] /\ applied'[j] = applied[j] /\ flushed'[j] = flushed[j]
        BY <1>0, <1>5, <3>2, ZenonT(40) DEF ReplicaInv
      <4> QED BY <1>0, <4>1, ZenonT(40) DEF ReplicaInv
    <3> QED BY <3>1, <3>2, ZenonT(40)
  <2> QED BY <2>1, <2>2, ZenonT(40) DEF ReplicaInv
<1>8. LeadInv'
  <2>1. lead # i /\ lead # None => applied'[lead] = applied[lead]
    BY <1>0, ZenonT(40) DEF LeadInv, ReplicaInv
  <2> QED BY <1>0, <2>1, ZenonT(40) DEF LeadInv
<1>9. restores' \in 0 .. MaxRestores
  BY <1>0, MembershipAssumption, SMTT(30), SMTT(40)
<1> QED BY <1>0, <1>6, <1>7, <1>8, <1>9, ZenonT(40)

\* What does not touch the log, and what does not touch the replicas.
LEMMA LogFrame == ASSUME LogInv, UNCHANGED <<log, descs, confs>> PROVE LogInv'
BY Zenon DEF LogInv

LEMMA ReplicaFrame ==
    ASSUME ReplicaInv, UNCHANGED <<log, confs, conf, applied, flushed>> PROVE ReplicaInv'
BY Zenon DEF ReplicaInv

\* Every step keeps the invariant, as long as no descriptor is restored within a joint configuration.
LEMMA MembersInvStep == ASSUME MembersInv, RestoreInJoint = FALSE, [Next]_vars PROVE MembersInv'
<1>1. CASE UNCHANGED vars
  <2>1. LogInv' /\ ReplicaInv'
    BY <1>1, LogFrame, ReplicaFrame, Zenon DEF vars, MembersInv
  <2> QED BY <1>1, <2>1, Zenon DEF vars, MembersInv, LeadInv
<1>2. CASE StepDown
  <2>1. LogInv' /\ ReplicaInv'
    BY <1>2, LogFrame, ReplicaFrame, Zenon DEF StepDown, MembersInv
  <2>2. LeadInv'
    BY <1>2, Zenon DEF StepDown, LeadInv
  <2>3. elections' \in 0 .. MaxElections /\ restores' = restores
    BY <1>2, MembershipAssumption, SMTT(30), SMTT(40) DEF StepDown, MembersInv
  <2> QED BY <2>1, <2>2, <2>3, Zenon DEF MembersInv
<1>3. ASSUME NEW i \in Replica,
             \/ ProposeConfChange(i) \/ AutoLeave(i) \/ ApplyConfChange(i)
             \/ Restart(i) \/ InstallSnapshot(i) \/ Elect(i)
      PROVE  MembersInv'
  <2>0. /\ Len(log) \in Nat
        /\ \A j \in Replica : flushed[j] \in Nat /\ applied[j] \in Nat /\ applied[j] <= Len(log)
    BY DEF MembersInv, LogInv, ReplicaInv
  <2>1. CASE ProposeConfChange(i)
    BY <2>1, ProposeStep, ZenonT(40)
  <2>2. CASE AutoLeave(i)
    BY <2>2, AutoLeaveStep, ZenonT(40)
  <2>3. CASE ApplyConfChange(i)
    BY <2>3, ApplyStep
  <2>4. CASE Restart(i)
    <3>1. PICK n \in flushed[i] .. applied[i] : RestoreFrom(i, n)
      BY <2>4 DEF Restart
    <3>2. n \in Nat /\ n <= Len(log)
      BY <2>0
    <3> QED BY <3>1, <3>2, RestoreStep, Zenon
  <2>5. CASE InstallSnapshot(i)
    <3>1. PICK j \in Replica \ {i} : \E n \in applied[i] + 1 .. applied[j] : RestoreFrom(i, n)
      BY <2>5 DEF InstallSnapshot
    <3>2. PICK n \in applied[i] + 1 .. applied[j] : RestoreFrom(i, n)
      BY <3>1
    <3>3. n \in Nat /\ n <= Len(log)
      BY <2>0, SMTT(30), SMTT(40)
    <3> QED BY <3>2, <3>3, RestoreStep, Zenon
  <2>6. CASE Elect(i)
    BY <2>6, ZenonT(40) DEF Elect, Electable, MembersInv, LogInv, ReplicaInv, LeadInv
  <2> QED BY <1>3, <2>1, <2>2, <2>3, <2>4, <2>5, <2>6, ZenonT(40)
<1> QED BY <1>1, <1>2, <1>3, ZenonT(40) DEF Next

-----------------------------------------------------------------------------
\* What the invariant says of the members

\* Two replicas that lack at most the last change have quorums that meet.
LEMMA NearQuorumsMeet ==
    ASSUME MembersInv, NEW i \in Replica, NEW j \in Replica, applied[i] + 1 >= Len(log), applied[j] + 1 >= Len(log),
           NEW p, NEW q, HasQuorum(conf[i], p), HasQuorum(conf[j], q)
    PROVE  p \cap q # {}
<1>1. PICK c, d, n, m : c = conf[i] /\ d = conf[j] /\ n = applied[i] /\ m = applied[j]
  BY ZenonT(40)
<1>2. /\ Len(log) \in Nat /\ n \in Nat /\ m \in Nat /\ n <= Len(log) /\ m <= Len(log)
      /\ n + 1 >= Len(log) /\ m + 1 >= Len(log)
  BY <1>1, SMTT(30), SMTT(40) DEF MembersInv, LogInv, ReplicaInv
<1>3. Sound(c) /\ Sound(d) /\ Same(c, confs[n + 1]) /\ Same(d, confs[m + 1]) /\ HasQuorum(c, p) /\ HasQuorum(d, q)
  BY <1>1, ZenonT(40) DEF MembersInv, ReplicaInv
<1>4. /\ c \in Configuration /\ c.incoming # {} /\ d \in Configuration /\ d.incoming # {}
  BY <1>3, ZenonT(40) DEF Sound
<1>5. ASSUME NEW k \in Nat, k + 1 = Len(log) PROVE Adjacent(confs[k + 1], confs[(k + 1) + 1])
  <2>1. k + 1 \in 1 .. Len(log) /\ k + 1 \in 1 .. Len(log) + 1
    BY <1>2, <1>5, SMTT(30), SMTT(40)
  <2>2. PICK a, b, ccs : a = confs[k + 1] /\ b = confs[(k + 1) + 1] /\ ccs = log[k + 1]
    BY ZenonT(40)
  <2>3. Sound(a) /\ Accepts(a, ccs) /\ b = ApplyConf(a, ccs)
    BY <2>1, <2>2, ZenonT(40) DEF MembersInv, LogInv
  <2>4. PICK x : x = NextConf(a, ccs)
    BY ZenonT(40)
  <2>5. b.incoming = IncomingAfter(a.incoming, ccs, Len(ccs)) /\ b.outgoing = OutgoingAfter(a, ccs)
    BY <2>3, <2>4, AcceptedSound, ZenonT(40)
  <2> QED BY <2>2, <2>3, <2>5, AcceptedAdjacent, ZenonT(40)
<1>6. CASE n = m
  <2>1. Adjacent(c, d)
    BY <1>3, <1>6, ZenonT(40) DEF Same, Adjacent
  <2> QED BY <1>3, <1>4, <2>1, AdjacentQuorumsMeet, ZenonT(40)
<1>7. CASE n < m
  <2>1. n + 1 = Len(log) /\ m = n + 1
    BY <1>2, <1>7, SMTT(30), SMTT(40)
  <2>2. Adjacent(c, d)
    BY <1>2, <1>3, <1>5, <2>1, SMTT(30), SMTT(40) DEF Same, Adjacent
  <2> QED BY <1>3, <1>4, <2>2, AdjacentQuorumsMeet, ZenonT(40)
<1>8. CASE m < n
  <2>1. m + 1 = Len(log) /\ n = m + 1
    BY <1>2, <1>8, SMTT(30), SMTT(40)
  <2>2. Adjacent(d, c)
    BY <1>2, <1>3, <1>5, <2>1, ZenonT(40) DEF Same, Adjacent
  <2>3. q \cap p # {}
    BY <1>3, <1>4, <2>2, AdjacentQuorumsMeet, ZenonT(40)
  <2> QED BY <2>3, ZenonT(40)
<1> QED BY <1>2, <1>6, <1>7, <1>8, SMTT(30), SMTT(40)

LEMMA InvQuorumsOverlap == MembersInv => QuorumsOverlap
<1> SUFFICES ASSUME MembersInv, NEW i \in {r \in Replica : Electable(r) \/ r = lead},
                    NEW j \in {r \in Replica : Electable(r) \/ r = lead},
                    NEW p \in SUBSET Replica, NEW q \in SUBSET Replica,
                    HasQuorum(conf[i], p), HasQuorum(conf[j], q)
             PROVE  p \cap q # {}
  BY ZenonT(40) DEF QuorumsOverlap
<1>1. \A r \in Replica : Electable(r) \/ r = lead => applied[r] + 1 >= Len(log)
  BY MembershipAssumption DEF Electable, MembersInv, LeadInv, None
<1> QED BY <1>1, NearQuorumsMeet, ZenonT(40)

LEMMA InvMembersAgree == MembersInv => MembersAgree
<1> SUFFICES ASSUME MembersInv PROVE MembersAgree
  BY ZenonT(40)
<1>0. /\ Len(log) \in Nat /\ DOMAIN descs = 1 .. Len(log) + 1 /\ DOMAIN confs = 1 .. Len(log) + 1
      /\ \A n \in 1 .. Len(log) + 1 : Sound(confs[n]) /\ Matches(confs[n], descs[n])
  BY SMTT(30), SMTT(40) DEF MembersInv, LogInv
<1>1. TypeOK
  <2>1. \A n \in DOMAIN descs : DOMAIN descs[n] \subseteq Replica /\ \A r \in DOMAIN descs[n] : descs[n][r] \in Role
    BY <1>0, DescIs, ZenonT(40) DEF Matches
  <2> QED BY <2>1 DEF TypeOK, MembersInv, LogInv, ReplicaInv, LeadInv
<1>2. ConfAgrees
  BY ZenonT(40) DEF ConfAgrees, MembersInv, ReplicaInv, Same
<1>3. DescriptorMatchesConf
  BY <1>0, ZenonT(40) DEF DescriptorMatchesConf, Matches
<1>4. NoChangeRefused
  <2> SUFFICES ASSUME NEW i \in Replica, applied[i] < Len(log)
               PROVE  /\ NextConf(conf[i], log[applied[i] + 1]) # Refused
                      /\ \A k \in DOMAIN log[applied[i] + 1] : NotInJoint(DescOf(i), log[applied[i] + 1][k].id)
    BY ZenonT(40) DEF NoChangeRefused
  <2>1. PICK n, ccs, c, b, d : /\ n = applied[i] /\ ccs = log[n + 1] /\ c = conf[i] /\ b = confs[n + 1]
                               /\ d = descs[n + 1]
    BY ZenonT(40)
  <2>2. n \in Nat /\ n < Len(log) /\ Sound(c) /\ Same(c, b)
    BY <2>1, ZenonT(40) DEF MembersInv, ReplicaInv
  <2>3. n + 1 \in 1 .. Len(log) /\ n + 1 \in 1 .. Len(log) + 1
    BY <1>0, <2>2, SMTT(30), SMTT(40)
  <2>4. Sound(b) /\ Matches(b, d) /\ Accepts(b, ccs)
    BY <1>0, <2>1, <2>3, ZenonT(40) DEF MembersInv, LogInv
  <2>5. PICK x, y : x = ApplyConf(c, ccs) /\ y = ApplyConf(b, ccs)
    OBVIOUS
  <2>6. NextConf(c, ccs) # Refused
    BY <2>2, <2>4, <2>5, SameNext, ZenonT(40)
  <2>7. ASSUME NEW k \in DOMAIN ccs PROVE NotInJoint(d, ccs[k].id)
    <3>1. ccs # <<>> /\ ~joint(b)
      BY <2>4, SMTT(30), SMTT(40) DEF Accepts
    <3>2. MatchesRoles(b, d)
      BY <2>4, MatchesByRoles, ZenonT(40)
    <3>3. RoleOf(d, ccs[k].id) \notin {"IncomingVoter", "DemotingVoter"}
      BY <3>1, <3>2, ZenonT(40) DEF MatchesRoles
    <3> QED BY <3>3 DEF NotInJoint, RoleOf
  <2> QED BY <2>1, <2>6, <2>7, ZenonT(40) DEF DescOf
<1> QED BY <1>1, <1>2, <1>3, <1>4, ZenonT(40) DEF MembersAgree

-----------------------------------------------------------------------------
\* The inductive invariant holds of every run: the changes the leader lets through are ones every
\* replica's configuration takes, descriptors name the voters of those configurations, a replica has
\* the voters of the changes it applied and the leader lacks at most the last change
\* (handle_conf_change, step_leader, apply_conf_change, conf_state_from_group_descriptor).  States of
\* a joint configuration are not restored from, as restoring one loses outgoing voters.
THEOREM MembersInductive == ASSUME RestoreInJoint = FALSE PROVE Spec => []MembersInv
<1>1. MembersInv /\ [Next]_vars => MembersInv'
  BY MembersInvStep, ZenonT(40)
<1> QED BY <1>1, InitMembersInv, PTL DEF Spec

\* Every quorum of a replica that could win an election meets every quorum of every other such replica
\* and of the leader, for any set of replicas and any number of changes, restarts, snapshots and
\* elections (Changer, has_pending_conf, Raft::hup and the restored ConfState together).
THEOREM QuorumsAlwaysOverlap == ASSUME RestoreInJoint = FALSE PROVE Spec => []QuorumsOverlap
  BY MembersInductive, InvQuorumsOverlap, PTL

\* Replicas and descriptors agree on the members, and no replica refuses a change or panics on it
\* (apply_change_replicas, check_not_in_joint_state, apply_conf_change), for any set of replicas.
THEOREM MembersAlwaysAgree == ASSUME RestoreInJoint = FALSE PROVE Spec => []MembersAgree
  BY MembersInductive, InvMembersAgree, PTL
=============================================================================
