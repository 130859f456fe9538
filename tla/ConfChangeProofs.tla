-------------------------- MODULE ConfChangeProofs --------------------------
(***************************************************************************)
(* What one configuration change does, for any finite set of replicas: the *)
(* changer keeps a configuration sound, the descriptor that changes with   *)
(* it gives every replica the role it has there, and majorities before and *)
(* after the change meet.                                                  *)
(***************************************************************************)
EXTENDS Membership, FiniteSetTheorems, WellFoundedInduction, TLAPS

-----------------------------------------------------------------------------
\* Induction, as the least number that is not in a set.

LEMMA LeastNumber ==
    ASSUME NEW T, T \subseteq Nat, T # {}
    PROVE  \E x \in T : \A y \in T : ~(y < x)
<1> DEFINE R == OpToRel(<, Nat)
<1>1. IsWellFoundedOn(R, Nat)
  BY NatLessThanWellFounded, Zenon
<1>2. \A x, y \in Nat : y < x => <<y, x>> \in R
  BY DEF OpToRel
<1> HIDE DEF R
<1>3. PICK x \in T : \A y \in T : ~(<<y, x>> \in R)
  BY <1>1, WFMin, Zenon
<1> QED BY <1>2, <1>3, Zenon

\* What holds at 0 and goes from each number to the next up to N holds up to N.
LEMMA UpTo ==
    ASSUME NEW N \in Nat, NEW S, 0 \in S, \A n \in 0 .. N - 1 : n \in S => n + 1 \in S
    PROVE  0 .. N \subseteq S
<1> DEFINE T == (0 .. N) \ S
<1> SUFFICES ASSUME T # {} PROVE FALSE
  OBVIOUS
<1>1. T \subseteq Nat
  OBVIOUS
<1>2. PICK x \in T : \A y \in T : ~(y < x)
  BY <1>1, LeastNumber, Zenon
<1>3. x # 0 /\ x \in 0 .. N
  OBVIOUS
<1>4. x - 1 \in 0 .. N - 1 /\ x - 1 \notin T /\ (x - 1) + 1 = x
  BY <1>2, <1>3
<1> QED BY <1>3, <1>4

-----------------------------------------------------------------------------
\* Quorums

\* Two majorities of the same voters meet.
LEMMA MajoritiesMeet ==
    ASSUME NEW V \in SUBSET Replica, V # {}, NEW p, NEW q, IsMajority(p, V), IsMajority(q, V)
    PROVE  p \cap q # {}
<1>1. IsFiniteSet(V)
  BY ReplicaAssumption, FS_Subset
<1>2. Cardinality(V) \in Nat
  BY <1>1, FS_CardinalityType
<1>3. /\ Cardinality(p \cap V) >= Cardinality(V) \div 2 + 1
      /\ Cardinality(q \cap V) >= Cardinality(V) \div 2 + 1
  BY DEF IsMajority, majority
<1>4. IsFiniteSet(p \cap V) /\ IsFiniteSet(q \cap V)
  BY <1>1, FS_Intersection, ZenonT(40)
<1>5. Cardinality(p \cap V) \in Nat /\ Cardinality(q \cap V) \in Nat
  BY <1>4, FS_CardinalityType
<1>6. Cardinality(p \cap V) + Cardinality(q \cap V) > Cardinality(V)
  BY <1>2, <1>3, <1>5
<1>7. (p \cap V) \cap (q \cap V) # {}
  BY <1>1, <1>6, FS_MajoritiesIntersect
<1> QED BY <1>7

\* A majority of some voters meets every majority of those voters and one more.
LEMMA NextMajoritiesMeet ==
    ASSUME NEW V \in SUBSET Replica, V # {}, NEW x \in Replica, NEW p, NEW q,
           IsMajority(p, V), IsMajority(q, V \cup {x})
    PROVE  p \cap q # {}
<1> DEFINE W == V \cup {x}
<1>1. IsFiniteSet(V) /\ IsFiniteSet(W)
  BY ReplicaAssumption, FS_Subset
<1>2. Cardinality(V) \in Nat /\ Cardinality(W) \in Nat
  BY <1>1, FS_CardinalityType
<1>3. Cardinality(W) <= Cardinality(V) + 1
  BY <1>1, <1>2, FS_AddElement
<1>4. /\ Cardinality(p \cap V) >= Cardinality(V) \div 2 + 1
      /\ Cardinality(q \cap W) >= Cardinality(W) \div 2 + 1
  BY DEF IsMajority, majority
<1>5. IsFiniteSet(p \cap V) /\ IsFiniteSet(q \cap W)
  BY <1>1, FS_Intersection
<1>6. Cardinality(p \cap V) \in Nat /\ Cardinality(q \cap W) \in Nat
  BY <1>5, FS_CardinalityType
<1>7. Cardinality(V) <= Cardinality(W)
  BY <1>1, FS_Subset
<1>8. Cardinality(p \cap V) + Cardinality(q \cap W) > Cardinality(W)
  BY <1>2, <1>3, <1>4, <1>6, <1>7
<1>9. p \cap V \subseteq W /\ q \cap W \subseteq W
  OBVIOUS
<1>10. (p \cap V) \cap (q \cap W) # {}
  BY <1>1, <1>8, <1>9, FS_MajoritiesIntersect
<1> QED BY <1>10

\* What a change may do to the voters: nothing, one voter more or less, entering a joint state.
Adjacent(c, d) ==
    \/ c.incoming = d.incoming
    \/ c.incoming = d.outgoing
    \/ \E x \in Replica : d.incoming = c.incoming \cup {x} \/ d.incoming = c.incoming \ {x}

\* The quorums of adjacent configurations meet: one decides nothing the other does not know of.
LEMMA AdjacentQuorumsMeet ==
    ASSUME NEW c \in Configuration, NEW d \in Configuration, c.incoming # {}, d.incoming # {},
           Adjacent(c, d), NEW p, NEW q, HasQuorum(c, p), HasQuorum(d, q)
    PROVE  p \cap q # {}
<1>1. /\ IsMajority(p, c.incoming) /\ IsMajority(q, d.incoming) /\ IsMajority(q, d.outgoing)
      /\ c.incoming \in SUBSET Replica /\ d.incoming \in SUBSET Replica
  BY DEF HasQuorum, Configuration
<1>2. CASE c.incoming = d.incoming \/ c.incoming = d.outgoing
  BY <1>1, <1>2, MajoritiesMeet
<1>3. ASSUME NEW x \in Replica, d.incoming = c.incoming \cup {x} PROVE p \cap q # {}
  BY <1>1, <1>3, NextMajoritiesMeet, ZenonT(40)
<1>4. ASSUME NEW x \in Replica, d.incoming = c.incoming \ {x} PROVE p \cap q # {}
  <2>1. x \notin c.incoming => c.incoming = d.incoming
    BY <1>4
  <2>2. x \in c.incoming => c.incoming = d.incoming \cup {x}
    BY <1>4
  <2>3. x \in c.incoming => q \cap p # {}
    BY <1>1, <2>2, NextMajoritiesMeet, ZenonT(40)
  <2> QED BY <1>2, <2>1, <2>3
<1> QED BY <1>2, <1>3, <1>4 DEF Adjacent

-----------------------------------------------------------------------------
\* The Changer

Membs ==
    [incoming : SUBSET Replica, learners : SUBSET Replica, learnersNext : SUBSET Replica,
     ids : SUBSET Replica]

\* What holds of the incoming half m over the outgoing voters o while Changer::apply runs; it is a
\* little more than check_invariants asks for.
MembsSound(m, o) ==
    /\ m \in Membs
    /\ m.incoming \cup o \cup m.learners \subseteq m.ids
    /\ m.learners \cap (m.incoming \cup o) = {}
    /\ m.learnersNext \subseteq o
    /\ m.learnersNext \cap m.incoming = {}

\* Changes to the same replica are of the same type, as in everything the scheduler builds.
Consistent(ccs) == \A j, k \in 1 .. Len(ccs) : ccs[j].id = ccs[k].id => ccs[j].type = ccs[k].type

\* The replicas the first n changes name, and those they make voters or learners.
Touched(ccs, n) == {x \in Replica : \E k \in 1 .. n : ccs[k].id = x}
MadeOf(type, ccs, n) == {x \in Replica : \E k \in 1 .. n : ccs[k].id = x /\ ccs[k].type = type}

\* The incoming voters after the first n changes.
IncomingAfter(V, ccs, n) == (V \ Touched(ccs, n)) \cup MadeOf("Add", ccs, n)

\* The learners there can be after the first n changes.
LearnersUpTo(L, ccs, n) == (L \ Touched(ccs, n)) \cup MadeOf("AddLearner", ccs, n)

\* The incoming voters after one change, and the learners there can be.
IncomingAfterOne(V, cc) == IF cc.type = "Add" THEN V \cup {cc.id} ELSE V \ {cc.id}
LearnersAfterOne(L, cc) == IF cc.type = "AddLearner" THEN L \cup {cc.id} ELSE L \ {cc.id}

\* One change keeps the invariants, and makes its replica a voter, or not one.
LEMMA ApplyOneSound ==
    ASSUME NEW o \in SUBSET Replica, NEW m, MembsSound(m, o), NEW cc \in Change,
           NEW a, a = ApplyOne(m, o, cc)
    PROVE  /\ MembsSound(a, o)
           /\ a.incoming = IncomingAfterOne(m.incoming, cc)
           /\ a.learners \subseteq LearnersAfterOne(m.learners, cc)
<1> USE DEF IncomingAfterOne, LearnersAfterOne
<1>0. "Add" # "AddLearner" /\ "Add" # "Remove" /\ "AddLearner" # "Remove"
  OBVIOUS
<1>1. cc.id \in Replica /\ cc.type \in {"Add", "AddLearner", "Remove"}
  BY DEF Change, ChangeType
<1>2. CASE cc.type = "Add"
  <2>1. a = [incoming |-> m.incoming \cup {cc.id}, learners |-> m.learners \ {cc.id},
             learnersNext |-> m.learnersNext \ {cc.id}, ids |-> m.ids \cup {cc.id}]
    BY <1>0, <1>2, Zenon DEF ApplyOne
  <2> QED BY <1>1, <1>2, <2>1 DEF MembsSound, Membs
<1>3. CASE cc.type = "AddLearner"
  <2>1. a = IF cc.id \notin m.ids
            THEN [m EXCEPT !.learners = @ \cup {cc.id}, !.ids = @ \cup {cc.id}]
            ELSE IF cc.id \in m.learners THEN m
            ELSE [incoming |-> m.incoming \ {cc.id},
                  learners |-> m.learners \cup ({cc.id} \ o),
                  learnersNext |-> (m.learnersNext \ {cc.id}) \cup ({cc.id} \cap o),
                  ids |-> m.ids]
    BY <1>0, <1>3, Zenon DEF ApplyOne
  <2>2. CASE cc.id \notin m.ids
    <3>1. a = [m EXCEPT !.learners = @ \cup {cc.id}, !.ids = @ \cup {cc.id}]
      BY <2>1, <2>2
    <3>2. /\ m \in Membs
          /\ a.incoming = m.incoming /\ a.learners = m.learners \cup {cc.id}
          /\ a.learnersNext = m.learnersNext /\ a.ids = m.ids \cup {cc.id}
      BY <3>1 DEF MembsSound, Membs
    <3>3. a \in Membs
      BY <1>1, <3>1, <3>2, Zenon DEF Membs
    <3> QED BY <1>1, <1>3, <2>2, <3>2, <3>3 DEF MembsSound
  <2>3. CASE cc.id \in m.ids /\ cc.id \in m.learners
    BY <1>1, <1>3, <2>1, <2>3 DEF MembsSound, Membs
  <2>4. CASE cc.id \in m.ids /\ cc.id \notin m.learners
    BY <1>1, <1>3, <2>1, <2>4, SMTT(30), SMTT(40) DEF MembsSound, Membs
  <2> QED BY <2>2, <2>3, <2>4
<1>4. CASE cc.type = "Remove"
  <2>1. a = IF cc.id \notin m.ids THEN m
            ELSE [incoming |-> m.incoming \ {cc.id}, learners |-> m.learners \ {cc.id},
                  learnersNext |-> m.learnersNext \ {cc.id},
                  ids |-> m.ids \ ({cc.id} \ o)]
    BY <1>0, <1>4, Zenon DEF ApplyOne
  <2>2. CASE cc.id \notin m.ids
    BY <1>1, <1>4, <2>1, <2>2, ZenonT(40) DEF MembsSound, Membs
  <2>3. CASE cc.id \in m.ids
    BY <1>1, <1>4, <2>1, <2>3, SMTT(30), SMTT(40) DEF MembsSound, Membs
  <2> QED BY <2>2, <2>3
<1> QED BY <1>1, <1>2, <1>3, <1>4

\* The loop of Changer::apply goes through the changes one by one.
LEMMA ApplyAllLoop ==
    ASSUME NEW m, NEW o, NEW ccs, Len(ccs) \in Nat
    PROVE  \E g : /\ ApplyAll(m, o, ccs) = g[Len(ccs)]
                 /\ g[0] = m
                 /\ \A n \in 1 .. Len(ccs) : g[n] = ApplyOne(g[n - 1], o, ccs[n])
<1> DEFINE N == Len(ccs)
           P(k) == \E g : g = [n \in 0 .. k |-> IF n = 0 THEN m ELSE ApplyOne(g[n - 1], o, ccs[n])]
           S == {k \in 0 .. N : P(k)}
<1>1. P(0)
  <2> DEFINE g == [n \in 0 .. 0 |-> m]
  <2>1. g = [n \in 0 .. 0 |-> IF n = 0 THEN m ELSE ApplyOne(g[n - 1], o, ccs[n])]
    OBVIOUS
  <2> HIDE DEF g
  <2> QED BY <2>1
<1>2. ASSUME NEW k \in 0 .. N - 1, P(k) PROVE P(k + 1)
  <2>0. k \in Nat
    OBVIOUS
  <2>1. PICK g : g = [n \in 0 .. k |-> IF n = 0 THEN m ELSE ApplyOne(g[n - 1], o, ccs[n])]
    BY <1>2, ZenonT(40)
  <2> DEFINE last == ApplyOne(g[k], o, ccs[k + 1])
             h == [n \in 0 .. k + 1 |-> IF n <= k THEN g[n] ELSE last]
  <2>2. \A i \in 0 .. k : g[i] = IF i = 0 THEN m ELSE ApplyOne(g[i - 1], o, ccs[i])
    BY <2>1
  <2>3. (\A n \in 0 .. k : h[n] = g[n]) /\ h[k + 1] = last
    <3> HIDE DEF last
    <3> QED BY <2>0
  <2>4. h = [n \in 0 .. k + 1 |-> h[n]]
    <3> HIDE DEF last
    <3> QED OBVIOUS
  <2> HIDE DEF h
  <2>5. ASSUME NEW n \in 0 .. k + 1
        PROVE  h[n] = IF n = 0 THEN m ELSE ApplyOne(h[n - 1], o, ccs[n])
    <3>1. CASE n = k + 1
      <4>1. n - 1 = k /\ n # 0 /\ k \in 0 .. k
        BY <2>0, <3>1
      <4> QED BY <2>3, <3>1, <4>1
    <3>2. CASE n # k + 1
      <4>1. n \in 0 .. k /\ (n # 0 => n - 1 \in 0 .. k)
        BY <2>0, <3>2
      <4> QED BY <2>2, <2>3, <4>1
    <3> QED BY <3>1, <3>2
  <2>6. h = [n \in 0 .. k + 1 |-> IF n = 0 THEN m ELSE ApplyOne(h[n - 1], o, ccs[n])]
    BY <2>4, <2>5, ZenonT(40)
  <2> QED BY <2>6
<1>3. P(N)
  <2> HIDE DEF P
  <2>1. 0 \in S /\ \A k \in 0 .. N - 1 : k \in S => k + 1 \in S
    BY <1>1, <1>2
  <2>2. 0 .. N \subseteq S
    BY <2>1, UpTo, Zenon
  <2> QED BY <2>2
<1> DEFINE after[n \in 0 .. N] == IF n = 0 THEN m ELSE ApplyOne(after[n - 1], o, ccs[n])
<1>4. after = [n \in 0 .. N |-> IF n = 0 THEN m ELSE ApplyOne(after[n - 1], o, ccs[n])]
  BY <1>3, ZenonT(40) DEF after
<1>5. ApplyAll(m, o, ccs) = after[N]
  BY DEF ApplyAll
<1> HIDE DEF after
<1>6. \A n \in 1 .. N : n \in 0 .. N /\ n # 0
  OBVIOUS
<1>7. after[0] = m /\ \A n \in 1 .. N : after[n] = ApplyOne(after[n - 1], o, ccs[n])
  BY <1>4, <1>6
<1> QED BY <1>5, <1>7

\* One more change, for the replicas it names and for the others.
LEMMA OneMore ==
    ASSUME NEW ccs \in Seq(Change), NEW n \in 0 .. Len(ccs) - 1
    PROVE  /\ n + 1 \in 1 .. Len(ccs) /\ ccs[n + 1] \in Change
           /\ Touched(ccs, n + 1) = Touched(ccs, n) \cup {ccs[n + 1].id}
           /\ \A type : MadeOf(type, ccs, n + 1) =
                IF ccs[n + 1].type = type THEN MadeOf(type, ccs, n) \cup {ccs[n + 1].id}
                ELSE MadeOf(type, ccs, n)
           /\ Touched(ccs, 0) = {} /\ \A type : MadeOf(type, ccs, 0) = {}
<1>1. Len(ccs) \in Nat /\ n \in Nat
  OBVIOUS
<1>2. n + 1 \in 1 .. Len(ccs) /\ 1 .. n + 1 = (1 .. n) \cup {n + 1}
  BY <1>1
<1>3. ccs[n + 1] \in Change
  BY <1>2
<1>4. ccs[n + 1].id \in Replica
  BY <1>3 DEF Change
<1> QED BY <1>2, <1>3, <1>4 DEF Touched, MadeOf

\* Changer::apply keeps the invariants; the incoming voters are the ones that the changes do not
\* name and the ones they add.
LEMMA ApplyAllSound ==
    ASSUME NEW o \in SUBSET Replica, NEW m, MembsSound(m, o), NEW ccs \in Seq(Change), Consistent(ccs),
           NEW a, a = ApplyAll(m, o, ccs)
    PROVE  /\ MembsSound(a, o)
           /\ a.incoming = IncomingAfter(m.incoming, ccs, Len(ccs))
           /\ a.learners \subseteq LearnersUpTo(m.learners, ccs, Len(ccs))
<1> DEFINE N == Len(ccs)
<1>0. N \in Nat
  OBVIOUS
<1>1. PICK g : /\ a = g[N] /\ g[0] = m
               /\ \A n \in 1 .. N : g[n] = ApplyOne(g[n - 1], o, ccs[n])
  BY <1>0, ApplyAllLoop, SMTT(30), SMTT(40)
<1> DEFINE P(n) == /\ MembsSound(g[n], o)
                   /\ g[n].incoming = IncomingAfter(m.incoming, ccs, n)
                   /\ g[n].learners \subseteq LearnersUpTo(m.learners, ccs, n)
           S == {n \in 0 .. N : P(n)}
<1>2. P(0)
  <2>1. Touched(ccs, 0) = {} /\ MadeOf("Add", ccs, 0) = {} /\ MadeOf("AddLearner", ccs, 0) = {}
    BY DEF Touched, MadeOf
  <2> QED BY <1>1, <2>1 DEF IncomingAfter, LearnersUpTo
<1>3. ASSUME NEW n \in 0 .. N - 1, P(n) PROVE P(n + 1)
  <2> DEFINE cc == ccs[n + 1]
             x == cc.id
  <2>1. /\ n + 1 \in 1 .. N /\ cc \in Change
        /\ Touched(ccs, n + 1) = Touched(ccs, n) \cup {x}
        /\ MadeOf("Add", ccs, n + 1) = IF cc.type = "Add" THEN MadeOf("Add", ccs, n) \cup {x}
                                      ELSE MadeOf("Add", ccs, n)
        /\ MadeOf("AddLearner", ccs, n + 1) =
             IF cc.type = "AddLearner" THEN MadeOf("AddLearner", ccs, n) \cup {x}
             ELSE MadeOf("AddLearner", ccs, n)
    BY OneMore, Zenon
  <2>2. (n + 1) - 1 = n /\ n \in Nat
    OBVIOUS
  <2>3. g[n + 1] = ApplyOne(g[n], o, cc)
    BY <1>1, <2>1, <2>2
  <2>4. \A type \in ChangeType : type # cc.type => x \notin MadeOf(type, ccs, n)
    <3>1. \A k \in 1 .. n : k \in 1 .. N
      BY <2>1, <2>2, SMTT(30), SMTT(40)
    <3>2. \A k \in 1 .. n : ccs[k].id = x => ccs[k].type = cc.type
      BY <2>1, <3>1, ZenonT(40) DEF Consistent
    <3> HIDE DEF x, cc
    <3> QED BY <3>2, ZenonT(40) DEF MadeOf
  <2>5. cc.type \in ChangeType /\ "Add" \in ChangeType /\ "AddLearner" \in ChangeType
    BY <2>1 DEF Change, ChangeType
  <2> HIDE DEF x, cc
  <2>6. /\ MembsSound(g[n + 1], o)
        /\ g[n + 1].incoming = IncomingAfterOne(g[n].incoming, cc)
        /\ g[n + 1].learners \subseteq LearnersAfterOne(g[n].learners, cc)
    <3>1. MembsSound(g[n], o)
      BY <1>3, ZenonT(40)
    <3> HIDE DEF P, S
    <3> QED BY <2>1, <2>3, <3>1, ApplyOneSound, Zenon
  <2>7. g[n + 1].incoming = IncomingAfter(m.incoming, ccs, n + 1)
    BY <1>3, <2>1, <2>4, <2>5, <2>6, ZenonT(40) DEF IncomingAfter, IncomingAfterOne, x
  <2>8. g[n + 1].learners \subseteq LearnersUpTo(m.learners, ccs, n + 1)
    BY <1>3, <2>1, <2>4, <2>5, <2>6, ZenonT(40) DEF LearnersAfterOne, LearnersUpTo, x
  <2> QED BY <2>6, <2>7, <2>8
<1>4. P(N)
  <2> HIDE DEF P
  <2>1. 0 \in S /\ \A k \in 0 .. N - 1 : k \in S => k + 1 \in S
    BY <1>0, <1>2, <1>3
  <2>2. 0 .. N \subseteq S
    BY <1>0, <2>1, UpTo, Zenon
  <2> QED BY <1>0, <2>2
<1> QED BY <1>1, <1>4

-----------------------------------------------------------------------------
\* Configurations

\* The configurations a group goes through: the invariants of the Changer hold, somebody votes, no
\* voter is about to become a learner, and joint states are the ones to be left automatically.
Sound(c) ==
    /\ c \in Configuration
    /\ CheckInvariants(c)
    /\ c.incoming # {}
    /\ c.learnersNext \cap c.incoming = {}
    /\ joint(c) <=> c.autoLeave

\* A configuration outside joint states, or one that restore builds up from nothing.
Plain(c) == c \in Configuration /\ CheckInvariants(c) /\ ~joint(c)

\* A change that the configuration c can take.
Accepts(c, ccs) ==
    /\ ccs \in Seq(Change)
    /\ Consistent(ccs)
    /\ joint(c) <=> ccs = <<>>
    /\ IncomingAfter(c.incoming, ccs, Len(ccs)) # {}

OutgoingAfter(c, ccs) == IF Len(ccs) > 1 THEN c.incoming ELSE {}
LearnersAfter(c, ccs) ==
    IF ccs = <<>> THEN c.learners \cup c.learnersNext
    ELSE LearnersUpTo(c.learners, ccs, Len(ccs))

\* A configuration that has voters is not an error.
LEMMA NotRefused == ASSUME NEW c, c.incoming # {} PROVE c # Refused
  BY ZenonT(40) DEF Refused, EmptyConf

\* The members of a configuration over no, or over its own, outgoing voters.
LEMMA MembersSound ==
    ASSUME NEW c, Plain(c)
    PROVE  /\ MembsSound(Members(c), {})
           /\ c.learnersNext \cap c.incoming = {} => MembsSound(Members(c), c.incoming)
           /\ Members(c).incoming = c.incoming /\ Members(c).learners = c.learners
           /\ c.learnersNext = {} /\ c.outgoing = {} /\ c.autoLeave = FALSE
<1>1. c.outgoing = {} /\ c.learnersNext = {} /\ c.autoLeave = FALSE
  BY DEF Plain, joint, CheckInvariants, Configuration
<1>2. Members(c) \in Membs
  BY ZenonT(40) DEF Plain, Configuration, Members, Membs
<1> QED BY <1>1, <1>2, ZenonT(40) DEF Plain, CheckInvariants, VotersOf, Members, MembsSound

\* The checks of Changer::apply pass for sound members.
LEMMA AppliedSound ==
    ASSUME NEW m, NEW d \in Configuration, MembsSound(m, d.outgoing), m.incoming # {},
           Members(d) = m, d.outgoing = {} => d.autoLeave = FALSE
    PROVE  Applied(d) = d /\ CheckInvariants(d)
<1>1. /\ d.incoming = m.incoming /\ d.learners = m.learners
      /\ d.learnersNext = m.learnersNext /\ d.ids = m.ids
  BY ZenonT(40) DEF Members
<1>2. CheckInvariants(d)
  BY <1>1, ZenonT(40) DEF CheckInvariants, VotersOf, joint, MembsSound
<1> QED BY <1>1, <1>2, ZenonT(40) DEF Applied, Checked

\* A simple change outside a joint state.
LEMMA SimpleSound ==
    ASSUME NEW c, Plain(c), NEW cc \in Change, IncomingAfterOne(c.incoming, cc) # {},
           NEW d, d = Simple(c, <<cc>>)
    PROVE  /\ Plain(d)
           /\ d.incoming = IncomingAfterOne(c.incoming, cc)
           /\ d.learners \subseteq LearnersAfterOne(c.learners, cc)
<1> DEFINE m == ApplyAll(Members(c), {}, <<cc>>)
           next == WithMembers(m, {}, c.autoLeave)
           changed == (next.incoming \ c.incoming) \cup (c.incoming \ next.incoming)
<1>1. m = ApplyOne(Members(c), {}, cc)
  <2>1. Len(<<cc>>) = 1 /\ <<cc>>[1] = cc
    BY ZenonT(40)
  <2>2. PICK g : /\ m = g[1] /\ g[0] = Members(c)
                 /\ \A n \in 1 .. 1 : g[n] = ApplyOne(g[n - 1], {}, <<cc>>[n])
    BY <2>1, ApplyAllLoop
  <2>3. 1 \in 1 .. 1 /\ 1 - 1 = 0
    OBVIOUS
  <2>4. g[1] = ApplyOne(g[1 - 1], {}, <<cc>>[1])
    BY <2>2, <2>3
  <2> QED BY <2>1, <2>2, <2>3, <2>4, ZenonT(40)
<1>2. /\ MembsSound(Members(c), {}) /\ Members(c).incoming = c.incoming
      /\ Members(c).learners = c.learners /\ c.autoLeave = FALSE
  BY MembersSound, Zenon
<1> HIDE DEF m
<1>3. /\ MembsSound(m, {})
      /\ m.incoming = IncomingAfterOne(c.incoming, cc)
      /\ m.learners \subseteq LearnersAfterOne(c.learners, cc)
  <2>1. {} \in SUBSET Replica
    OBVIOUS
  <2> QED BY <1>1, <1>2, <2>1, ApplyOneSound, SMTT(30), SMTT(40)
<1>4. /\ next \in Configuration /\ next.incoming = m.incoming /\ next.outgoing = {}
      /\ next.learners = m.learners /\ next.autoLeave = FALSE /\ Members(next) = m
  BY <1>2, <1>3, Zenon DEF WithMembers, Configuration, MembsSound, Membs, Members
<1>5. Applied(next) = next /\ CheckInvariants(next)
  <2>1. m.incoming # {}
    BY <1>3, ZenonT(40)
  <2> HIDE DEF next
  <2> QED BY <1>3, <1>4, <2>1, AppliedSound, Zenon
<1> HIDE DEF next
<1>6. changed \subseteq {cc.id}
  BY <1>3, <1>4 DEF IncomingAfterOne
<1>7. ~(Cardinality(changed) > 1)
  <2>1. IsFiniteSet({cc.id}) /\ Cardinality({cc.id}) = 1
    BY FS_Singleton, Zenon
  <2>2. IsFiniteSet(changed) /\ Cardinality(changed) <= 1
    BY <1>6, <2>1, FS_Subset, SMTT(30), SMTT(40)
  <2>3. Cardinality(changed) \in Nat
    BY <2>2, FS_CardinalityType
  <2> HIDE DEF changed
  <2> QED BY <2>2, <2>3
<1>8. ~joint(c) /\ CheckInvariants(c)
  BY ZenonT(40) DEF Plain
<1>9. Simple(c, <<cc>>) = Applied(next)
  BY <1>7, <1>8 DEF Simple, next, m
<1> QED BY <1>3, <1>4, <1>5, <1>9, ZenonT(40) DEF Plain, joint

\* Several changes enter a joint state that keeps the old voters as the outgoing ones.
LEMMA EnterSound ==
    ASSUME NEW c, Sound(c), ~joint(c), NEW ccs \in Seq(Change), Consistent(ccs),
           IncomingAfter(c.incoming, ccs, Len(ccs)) # {},
           NEW d, d = EnterJoint(c, TRUE, ccs)
    PROVE  /\ Sound(d) /\ joint(d)
           /\ d.incoming = IncomingAfter(c.incoming, ccs, Len(ccs))
           /\ d.outgoing = c.incoming
           /\ d.learners \subseteq LearnersUpTo(c.learners, ccs, Len(ccs))
<1> DEFINE m == ApplyAll(Members(c), c.incoming, ccs)
           next == WithMembers(m, c.incoming, TRUE)
<1>1. Plain(c) /\ c.incoming # {} /\ c.incoming \in SUBSET Replica /\ CheckInvariants(c)
  BY DEF Sound, Plain, Configuration
<1>2. /\ MembsSound(Members(c), c.incoming)
      /\ Members(c).incoming = c.incoming /\ Members(c).learners = c.learners
  BY <1>1, MembersSound, Zenon DEF Sound
<1> HIDE DEF m
<1>3. /\ MembsSound(m, c.incoming)
      /\ m.incoming = IncomingAfter(c.incoming, ccs, Len(ccs))
      /\ m.learners \subseteq LearnersUpTo(c.learners, ccs, Len(ccs))
  <2>1. PICK b : b = Members(c)
    BY ZenonT(40)
  <2>2. m = ApplyAll(b, c.incoming, ccs) /\ MembsSound(b, c.incoming)
    BY <1>2, <2>1, ZenonT(40) DEF m
  <2>3. /\ MembsSound(m, c.incoming)
        /\ m.incoming = IncomingAfter(b.incoming, ccs, Len(ccs))
        /\ m.learners \subseteq LearnersUpTo(b.learners, ccs, Len(ccs))
    BY <1>1, <2>2, ApplyAllSound, SMTT(30), SMTT(40)
  <2> QED BY <1>2, <2>1, <2>3, ZenonT(40)
<1>4. /\ next \in Configuration /\ next.incoming = m.incoming /\ next.outgoing = c.incoming
      /\ next.learners = m.learners /\ next.learnersNext = m.learnersNext
      /\ next.autoLeave = TRUE /\ Members(next) = m
  BY <1>1, <1>3 DEF WithMembers, Configuration, MembsSound, Membs, Members
<1>5. EnterJoint(c, TRUE, ccs) = Applied(next)
  BY <1>1, Zenon DEF EnterJoint, next, m
<1> HIDE DEF next
<1>6. Applied(next) = next /\ CheckInvariants(next)
  <2>1. m.incoming # {} /\ next.outgoing # {}
    BY <1>1, <1>3, <1>4, ZenonT(40)
  <2>2. MembsSound(m, next.outgoing)
    BY <1>3, <1>4
  <2> QED BY <1>4, <2>1, <2>2, AppliedSound, Zenon
<1>7. d = next /\ joint(next)
  BY <1>1, <1>4, <1>5, <1>6, Zenon DEF joint
<1>8. next.learnersNext \cap next.incoming = {}
  BY <1>3, <1>4, ZenonT(40) DEF MembsSound
<1> QED BY <1>3, <1>4, <1>6, <1>7, <1>8, Zenon DEF Sound

\* Leaving a joint state drops the outgoing voters; the ones to be demoted become learners.
LEMMA LeaveSound ==
    ASSUME NEW c, Sound(c), joint(c), NEW d, d = LeaveJoint(c)
    PROVE  /\ Sound(d) /\ ~joint(d)
           /\ d.incoming = c.incoming /\ d.outgoing = {}
           /\ d.learners = c.learners \cup c.learnersNext
<1> DEFINE learners == c.learners \cup c.learnersNext
           gone == c.outgoing \ (c.incoming \cup learners)
           next == [incoming |-> c.incoming, outgoing |-> {}, learners |-> learners,
                    learnersNext |-> {}, autoLeave |-> FALSE, ids |-> c.ids \ gone]
<1>1. next \in Configuration
  BY DEF Sound, Configuration
<1>2. CheckInvariants(next) /\ ~joint(next)
  BY ZenonT(40) DEF Sound, CheckInvariants, VotersOf, joint
<1>3. LeaveJoint(c) = next
  BY <1>2, ZenonT(40) DEF LeaveJoint, Checked, Sound
<1> QED BY <1>1, <1>2, <1>3, SMTT(30), SMTT(40) DEF Sound, joint

\* One change, said of the sequence and of its only member.
LEMMA SingleChange ==
    ASSUME NEW ccs \in Seq(Change), Len(ccs) = 1
    PROVE  /\ ccs[1] \in Change /\ ccs = <<ccs[1]>>
           /\ \A V : IncomingAfter(V, ccs, 1) = IncomingAfterOne(V, ccs[1])
           /\ \A L : LearnersAfterOne(L, ccs[1]) \subseteq LearnersUpTo(L, ccs, 1)
<1>1. ccs[1] \in Change /\ ccs = <<ccs[1]>> /\ 1 .. 1 = {1}
  OBVIOUS
<1>2. ccs[1].id \in Replica
  BY <1>1 DEF Change
<1> QED BY <1>1, <1>2 DEF IncomingAfter, IncomingAfterOne, LearnersAfterOne, LearnersUpTo, Touched,
               MadeOf

\* leave_joint, enter_joint and a simple change are all the cases there are.
LEMMA LengthCases ==
    ASSUME NEW ccs \in Seq(Change)
    PROVE  /\ Len(ccs) = 0 \/ Len(ccs) = 1 \/ Len(ccs) > 1
           /\ Len(ccs) = 0 <=> ccs = <<>>
           /\ Len(ccs) > 1 => Len(ccs) # 0 /\ Len(ccs) # 1
<1>1. PICK n \in Nat : n = Len(ccs)
  OBVIOUS
<1>2. n = 0 \/ n = 1 \/ n > 1
  OBVIOUS
<1>3. Len(ccs) = 0 <=> ccs = <<>>
  OBVIOUS
<1>4. n > 1 => n # 0 /\ n # 1
  BY SMTT(30), SMTT(40)
<1> QED BY <1>1, <1>2, <1>3, <1>4, ZenonT(40)

\* What raft makes of a change it can take: a sound configuration, with the voters the change says.
LEMMA AcceptedSound ==
    ASSUME NEW c, Sound(c), NEW ccs, Accepts(c, ccs), NEW d, d = NextConf(c, ccs)
    PROVE  /\ Sound(d) /\ d # Refused /\ d = ApplyConf(c, ccs)
           /\ d.incoming = IncomingAfter(c.incoming, ccs, Len(ccs))
           /\ d.outgoing = OutgoingAfter(c, ccs)
           /\ d.learners \subseteq LearnersAfter(c, ccs)
<1>1. ccs \in Seq(Change) /\ Consistent(ccs) /\ IncomingAfter(c.incoming, ccs, Len(ccs)) # {}
  BY DEF Accepts
<1>2. (ccs = <<>> \/ Len(ccs) = 1 \/ Len(ccs) > 1) /\ (Len(ccs) > 1 => ccs # <<>>)
  BY <1>1, LengthCases, ZenonT(40)
<1>3. Sound(d) /\ d.incoming = IncomingAfter(c.incoming, ccs, Len(ccs))
      /\ d.outgoing = OutgoingAfter(c, ccs) /\ d.learners \subseteq LearnersAfter(c, ccs)
  <2>1. CASE ccs = <<>>
    <3>1. joint(c) /\ d = LeaveJoint(c)
      BY <2>1, ZenonT(40) DEF Accepts, NextConf
    <3>2. /\ Sound(d) /\ d.incoming = c.incoming /\ d.outgoing = {}
          /\ d.learners = c.learners \cup c.learnersNext
      BY <3>1, LeaveSound, ZenonT(40)
    <3>3. Len(ccs) = 0 /\ IncomingAfter(c.incoming, ccs, 0) = c.incoming
      BY <2>1 DEF IncomingAfter, Touched, MadeOf
    <3> QED BY <2>1, <3>2, <3>3, SMTT(30), SMTT(40) DEF OutgoingAfter, LearnersAfter
  <2>2. CASE Len(ccs) > 1
    <3>1. ccs # <<>> /\ ~joint(c) /\ d = EnterJoint(c, TRUE, ccs)
      BY <1>2, <2>2 DEF Accepts, NextConf
    <3>2. /\ Sound(d) /\ d.incoming = IncomingAfter(c.incoming, ccs, Len(ccs))
          /\ d.outgoing = c.incoming /\ d.learners \subseteq LearnersUpTo(c.learners, ccs, Len(ccs))
      BY <1>1, <3>1, EnterSound, ZenonT(40)
    <3> QED BY <2>2, <3>1, <3>2, Zenon DEF OutgoingAfter, LearnersAfter
  <2>3. CASE Len(ccs) = 1
    <3>1. PICK cc : cc = ccs[1]
      OBVIOUS
    <3>2. cc \in Change /\ ccs = <<cc>>
      BY <1>1, <2>3, <3>1, SingleChange
    <3>10. ccs # <<>> /\ ~(Len(ccs) > 1)
      BY <1>1, <2>3, SMTT(30), SMTT(40)
    <3>3. /\ IncomingAfter(c.incoming, ccs, 1) = IncomingAfterOne(c.incoming, cc)
          /\ LearnersAfterOne(c.learners, cc) \subseteq LearnersUpTo(c.learners, ccs, 1)
      BY <1>1, <2>3, <3>1, SingleChange
    <3>4. ~joint(c) /\ d = Simple(c, <<cc>>)
      BY <3>2, <3>10 DEF Accepts, NextConf
    <3>5. Plain(c)
      BY <3>4 DEF Plain, Sound
    <3>6. IncomingAfterOne(c.incoming, cc) # {}
      BY <1>1, <2>3, <3>3, ZenonT(40)
    <3>7. /\ Plain(d) /\ d.incoming = IncomingAfterOne(c.incoming, cc)
          /\ d.learners \subseteq LearnersAfterOne(c.learners, cc)
      BY <3>2, <3>4, <3>5, <3>6, SimpleSound, Zenon
    <3>8. d.learnersNext = {} /\ d.outgoing = {} /\ d.autoLeave = FALSE
      BY <3>7, MembersSound, Zenon
    <3>9. Sound(d)
      BY <3>6, <3>7, <3>8, ZenonT(40) DEF Sound, Plain
    <3> QED BY <2>3, <3>10, <3>3, <3>7, <3>8, <3>9 DEF OutgoingAfter, LearnersAfter
  <2> QED BY <1>2, <2>1, <2>2, <2>3, ZenonT(40)
<1>4. d # Refused
  BY <1>1, <1>3, NotRefused, ZenonT(40)
<1>5. d = ApplyConf(c, ccs)
  BY <1>4, ZenonT(40) DEF ApplyConf
<1> QED BY <1>3, <1>4, <1>5, ZenonT(40)

\* The configurations before and after such a change are adjacent.
LEMMA AcceptedAdjacent ==
    ASSUME NEW c, Sound(c), NEW ccs, Accepts(c, ccs), NEW d,
           d.incoming = IncomingAfter(c.incoming, ccs, Len(ccs)), d.outgoing = OutgoingAfter(c, ccs)
    PROVE  Adjacent(c, d)
<1>1. ccs \in Seq(Change)
  BY ZenonT(40) DEF Accepts
<1>3. CASE Len(ccs) = 0
  BY <1>3, SMTT(30), SMTT(40) DEF Adjacent, IncomingAfter, Touched, MadeOf
<1>4. CASE Len(ccs) > 1
  BY <1>4, ZenonT(40) DEF Adjacent, OutgoingAfter
<1>5. CASE Len(ccs) = 1
  <2>1. PICK cc \in Change : d.incoming = IncomingAfterOne(c.incoming, cc)
    BY <1>1, <1>5, SingleChange, ZenonT(40)
  <2> QED BY <2>1 DEF Adjacent, IncomingAfterOne, Change
<1>6. Len(ccs) = 0 \/ Len(ccs) = 1 \/ Len(ccs) > 1
  BY <1>1, LengthCases
<1> QED BY <1>3, <1>4, <1>5, <1>6, ZenonT(40)

-----------------------------------------------------------------------------
\* Descriptors

Desc == UNION {[D -> Role] : D \in SUBSET Replica}

\* The role of a replica, which may have none.
RoleOf(d, x) == IF x \in DOMAIN d THEN d[x] ELSE "None"

\* No role of a joint state.
Settled(d) == \A x \in DOMAIN d : d[x] \in {"Voter", "Learner"}

LEMMA DescIs ==
    ASSUME NEW d
    PROVE  d \in Desc <=> DOMAIN d \in SUBSET Replica /\ d \in [DOMAIN d -> Role]
  BY DEF Desc

LEMMA WithRoleDesc ==
    ASSUME NEW d \in Desc, NEW id \in Replica, NEW role \in Role
    PROVE  /\ WithRole(d, id, role) \in Desc
           /\ \A x : RoleOf(WithRole(d, id, role), x) = IF x = id THEN role ELSE RoleOf(d, x)
<1>1. DOMAIN d \in SUBSET Replica /\ d \in [DOMAIN d -> Role]
  BY DescIs
<1> DEFINE e == WithRole(d, id, role)
<1>2. DOMAIN e = DOMAIN d \cup {id} /\ e \in [DOMAIN d \cup {id} -> Role]
  BY <1>1 DEF WithRole
<1>3. e \in Desc
  BY <1>1, <1>2, DescIs, ZenonT(40)
<1>4. \A x : RoleOf(e, x) = IF x = id THEN role ELSE RoleOf(d, x)
  BY <1>1 DEF WithRole, RoleOf
<1> QED BY <1>3, <1>4, ZenonT(40)

LEMMA WithoutDesc ==
    ASSUME NEW d \in Desc, NEW ids
    PROVE  /\ Without(d, ids) \in Desc
           /\ \A x : RoleOf(Without(d, ids), x) = IF x \in ids THEN "None" ELSE RoleOf(d, x)
<1>1. DOMAIN d \in SUBSET Replica /\ d \in [DOMAIN d -> Role]
  BY DescIs
<1> DEFINE e == Without(d, ids)
<1>2. DOMAIN e = DOMAIN d \ ids /\ e \in [DOMAIN d \ ids -> Role]
  BY <1>1, ZenonT(40) DEF Without
<1>3. e \in Desc
  BY <1>1, <1>2, DescIs, ZenonT(40)
<1>4. \A x : RoleOf(e, x) = IF x \in ids THEN "None" ELSE RoleOf(d, x)
  BY <1>1, ZenonT(40) DEF Without, RoleOf
<1> QED BY <1>3, <1>4

\* The role a change of apply_enter_joint gives to a replica that has the role r.
JointRole(type, r) ==
    IF type = "Add" THEN (IF r \in {"Learner", "None"} THEN "IncomingVoter" ELSE r)
    ELSE IF r = "Voter" THEN "DemotingVoter"
    ELSE IF type = "AddLearner" /\ r = "None" THEN "Learner" ELSE r

LEMMA EnterJointOneRoles ==
    ASSUME NEW d \in Desc, NEW cc \in Change, NEW e, e = EnterJointOne(d, cc)
    PROVE  /\ e \in Desc
           /\ \A x : RoleOf(e, x) = IF x = cc.id THEN JointRole(cc.type, RoleOf(d, x)) ELSE RoleOf(d, x)
<1> DEFINE role == RoleOf(d, cc.id)
<1>1. cc.id \in Replica /\ cc.type \in {"Add", "AddLearner", "Remove"}
  BY DEF Change, ChangeType
<1>2. e = CASE cc.type = "Add" /\ role \in {"Learner", "None"} -> WithRole(d, cc.id, "IncomingVoter")
            [] cc.type \in {"AddLearner", "Remove"} /\ role = "Voter" -> WithRole(d, cc.id, "DemotingVoter")
            [] cc.type = "AddLearner" /\ role = "None" -> WithRole(d, cc.id, "Learner")
            [] OTHER -> d
  BY Zenon DEF EnterJointOne, RoleOf
<1> HIDE DEF role
<1>3. "IncomingVoter" \in Role /\ "DemotingVoter" \in Role /\ "Learner" \in Role
  BY ZenonT(40) DEF Role
<1>4. CASE cc.type = "Add" /\ role \in {"Learner", "None"}
  <2>1. ~(cc.type \in {"AddLearner", "Remove"} /\ role = "Voter") /\ ~(cc.type = "AddLearner" /\ role = "None")
    BY <1>4
  <2>2. e = WithRole(d, cc.id, "IncomingVoter")
    BY <1>2, <1>4, <2>1, Zenon
  <2> QED BY <1>1, <1>3, <1>4, <2>2, WithRoleDesc, SMTT(30), SMTT(40) DEF JointRole, role
<1>5. CASE cc.type \in {"AddLearner", "Remove"} /\ role = "Voter"
  <2>1. ~(cc.type = "Add" /\ role \in {"Learner", "None"}) /\ ~(cc.type = "AddLearner" /\ role = "None")
    BY <1>5
  <2>2. e = WithRole(d, cc.id, "DemotingVoter")
    BY <1>2, <1>5, <2>1, Zenon
  <2> QED BY <1>1, <1>3, <1>5, <2>2, WithRoleDesc, SMTT(30), SMTT(40) DEF JointRole, role
<1>6. CASE cc.type = "AddLearner" /\ role = "None"
  <2>1. /\ ~(cc.type = "Add" /\ role \in {"Learner", "None"})
        /\ ~(cc.type \in {"AddLearner", "Remove"} /\ role = "Voter")
    BY <1>6
  <2>2. e = WithRole(d, cc.id, "Learner")
    BY <1>2, <1>6, <2>1, Zenon
  <2> QED BY <1>1, <1>3, <1>6, <2>2, WithRoleDesc, SMTT(30), SMTT(40) DEF JointRole, role
<1>7. CASE /\ ~(cc.type = "Add" /\ role \in {"Learner", "None"})
           /\ ~(cc.type \in {"AddLearner", "Remove"} /\ role = "Voter")
           /\ ~(cc.type = "AddLearner" /\ role = "None")
  <2>1. e = d
    BY <1>2, <1>7, Zenon
  <2> QED BY <1>1, <1>7, <2>1 DEF JointRole, role
<1> QED BY <1>4, <1>5, <1>6, <1>7, ZenonT(40)

\* The learners that apply_enter_joint takes out of the descriptor at its end.
Leaving(g, ccs) ==
    {ccs[n].id : n \in {k \in DOMAIN ccs :
        /\ ccs[k].type = "Remove"
        /\ ccs[k].id \in DOMAIN g[k - 1]
        /\ g[k - 1][ccs[k].id] = "Learner"}}

\* The loop of apply_enter_joint goes through the changes one by one.
LEMMA EnterLoop ==
    ASSUME NEW d, NEW ccs, Len(ccs) \in Nat
    PROVE  \E g : /\ ApplyEnterJoint(d, ccs) = Without(g[Len(ccs)], Leaving(g, ccs))
                 /\ g[0] = d
                 /\ \A n \in 1 .. Len(ccs) : g[n] = EnterJointOne(g[n - 1], ccs[n])
<1> DEFINE N == Len(ccs)
           P(k) == \E g : g = [n \in 0 .. k |-> IF n = 0 THEN d ELSE EnterJointOne(g[n - 1], ccs[n])]
           S == {k \in 0 .. N : P(k)}
<1>1. P(0)
  <2> DEFINE g == [n \in 0 .. 0 |-> d]
  <2>1. g = [n \in 0 .. 0 |-> IF n = 0 THEN d ELSE EnterJointOne(g[n - 1], ccs[n])]
    OBVIOUS
  <2> HIDE DEF g
  <2> QED BY <2>1
<1>2. ASSUME NEW k \in 0 .. N - 1, P(k) PROVE P(k + 1)
  <2>0. k \in Nat
    OBVIOUS
  <2>1. PICK g : g = [n \in 0 .. k |-> IF n = 0 THEN d ELSE EnterJointOne(g[n - 1], ccs[n])]
    BY <1>2, ZenonT(40)
  <2> DEFINE last == EnterJointOne(g[k], ccs[k + 1])
             h == [n \in 0 .. k + 1 |-> IF n <= k THEN g[n] ELSE last]
  <2>2. \A i \in 0 .. k : g[i] = IF i = 0 THEN d ELSE EnterJointOne(g[i - 1], ccs[i])
    BY <2>1
  <2>3. (\A n \in 0 .. k : h[n] = g[n]) /\ h[k + 1] = last
    <3> HIDE DEF last
    <3> QED BY <2>0
  <2>4. h = [n \in 0 .. k + 1 |-> h[n]]
    <3> HIDE DEF last
    <3> QED OBVIOUS
  <2> HIDE DEF h
  <2>5. ASSUME NEW n \in 0 .. k + 1
        PROVE  h[n] = IF n = 0 THEN d ELSE EnterJointOne(h[n - 1], ccs[n])
    <3>1. CASE n = k + 1
      <4>1. n - 1 = k /\ n # 0 /\ k \in 0 .. k
        BY <2>0, <3>1
      <4> QED BY <2>3, <3>1, <4>1
    <3>2. CASE n # k + 1
      <4>1. n \in 0 .. k /\ (n # 0 => n - 1 \in 0 .. k)
        BY <2>0, <3>2
      <4> QED BY <2>2, <2>3, <4>1
    <3> QED BY <3>1, <3>2
  <2>6. h = [n \in 0 .. k + 1 |-> IF n = 0 THEN d ELSE EnterJointOne(h[n - 1], ccs[n])]
    BY <2>4, <2>5, ZenonT(40)
  <2> QED BY <2>6
<1>3. P(N)
  <2> HIDE DEF P
  <2>1. 0 \in S /\ \A k \in 0 .. N - 1 : k \in S => k + 1 \in S
    BY <1>1, <1>2
  <2>2. 0 .. N \subseteq S
    BY <2>1, UpTo, Zenon
  <2> QED BY <2>2
<1> DEFINE after[n \in 0 .. N] == IF n = 0 THEN d ELSE EnterJointOne(after[n - 1], ccs[n])
<1>4. after = [n \in 0 .. N |-> IF n = 0 THEN d ELSE EnterJointOne(after[n - 1], ccs[n])]
  BY <1>3, ZenonT(40) DEF after
<1>5. ApplyEnterJoint(d, ccs) = Without(after[N], Leaving(after, ccs))
  BY DEF ApplyEnterJoint, Leaving
<1> HIDE DEF after
<1>6. \A n \in 1 .. N : n \in 0 .. N /\ n # 0
  OBVIOUS
<1>7. after[0] = d /\ \A n \in 1 .. N : after[n] = EnterJointOne(after[n - 1], ccs[n])
  BY <1>4, <1>6
<1> QED BY <1>5, <1>7

\* The role of a replica after apply_enter_joint.
EnteredRole(type, r) == IF type = "Remove" /\ r = "Learner" THEN "None" ELSE JointRole(type, r)

\* apply_enter_joint gives every replica that the changes name its new role, and the others theirs.
LEMMA EnterRoles ==
    ASSUME NEW d \in Desc, Settled(d), NEW ccs \in Seq(Change), Consistent(ccs),
           NEW e, e = ApplyEnterJoint(d, ccs)
    PROVE  /\ e \in Desc
           /\ \A x \in Replica : x \notin Touched(ccs, Len(ccs)) => RoleOf(e, x) = RoleOf(d, x)
           /\ \A x \in Replica : \A type \in ChangeType :
                x \in MadeOf(type, ccs, Len(ccs)) => RoleOf(e, x) = EnteredRole(type, RoleOf(d, x))
<1> DEFINE N == Len(ccs)
<1>0. N \in Nat /\ DOMAIN ccs = 1 .. N
  OBVIOUS
<1>1. PICK g : /\ e = Without(g[N], Leaving(g, ccs)) /\ g[0] = d
               /\ \A n \in 1 .. N : g[n] = EnterJointOne(g[n - 1], ccs[n])
  BY <1>0, EnterLoop, SMTT(30), SMTT(40)
<1> DEFINE P(n) == /\ g[n] \in Desc
                   /\ \A x \in Replica : x \notin Touched(ccs, n) => RoleOf(g[n], x) = RoleOf(d, x)
                   /\ \A x \in Replica : \A type \in ChangeType :
                        x \in MadeOf(type, ccs, n) => RoleOf(g[n], x) = JointRole(type, RoleOf(d, x))
           S == {n \in 0 .. N : P(n)}
<1>2. P(0)
  <2>1. Touched(ccs, 0) = {} /\ \A type : MadeOf(type, ccs, 0) = {}
    BY DEF Touched, MadeOf
  <2> QED BY <1>1, <2>1
<1>3. \A type \in ChangeType, r \in {"Voter", "Learner", "None"} :
        JointRole(type, JointRole(type, r)) = JointRole(type, r)
  BY DEF JointRole, ChangeType
<1>4. \A x : RoleOf(d, x) \in {"Voter", "Learner", "None"}
  BY ZenonT(40) DEF RoleOf, Settled
<1>5. ASSUME NEW n \in 0 .. N - 1, P(n) PROVE P(n + 1)
  <2> DEFINE cc == ccs[n + 1]
  <2>1. /\ n + 1 \in 1 .. N /\ cc \in Change
        /\ Touched(ccs, n + 1) = Touched(ccs, n) \cup {cc.id}
        /\ \A type : MadeOf(type, ccs, n + 1) =
             IF cc.type = type THEN MadeOf(type, ccs, n) \cup {cc.id} ELSE MadeOf(type, ccs, n)
    BY OneMore, ZenonT(40)
  <2>2. (n + 1) - 1 = n /\ n \in Nat
    BY SMTT(30), SMTT(40)
  <2>3. g[n + 1] = EnterJointOne(g[n], cc)
    BY <1>1, <2>1, <2>2, ZenonT(40)
  <2>4. \A type : type # cc.type => cc.id \notin MadeOf(type, ccs, n)
    <3>1. \A k \in 1 .. n : k \in 1 .. N
      BY <2>1, <2>2, SMTT(30), SMTT(40)
    <3>2. \A k \in 1 .. n : ccs[k].id = cc.id => ccs[k].type = cc.type
      BY <2>1, <3>1, ZenonT(40) DEF Consistent
    <3> HIDE DEF cc
    <3> QED BY <3>2, ZenonT(40) DEF MadeOf
  <2>5. cc.id \in Touched(ccs, n) => cc.id \in MadeOf(cc.type, ccs, n)
    <3>1. \A k \in 1 .. n : k \in 1 .. N
      BY <2>1, <2>2
    <3>2. \A k \in 1 .. n : ccs[k].id = cc.id => ccs[k].type = cc.type
      BY <2>1, <3>1 DEF Consistent
    <3> HIDE DEF cc
    <3> QED BY <3>2, ZenonT(40) DEF MadeOf, Touched
  <2>6. cc.type \in ChangeType /\ cc.id \in Replica
    BY <2>1, ZenonT(40) DEF Change
  <2> HIDE DEF cc
  <2>7. /\ g[n + 1] \in Desc
        /\ \A x : RoleOf(g[n + 1], x) =
             IF x = cc.id THEN JointRole(cc.type, RoleOf(g[n], x)) ELSE RoleOf(g[n], x)
    BY <1>5, <2>1, <2>3, EnterJointOneRoles, SMTT(30), SMTT(40)
  <2>8. ASSUME NEW x \in Replica, x \notin Touched(ccs, n + 1) PROVE RoleOf(g[n + 1], x) = RoleOf(d, x)
    BY <1>5, <2>1, <2>7, <2>8, ZenonT(40)
  <2>9. RoleOf(g[n + 1], cc.id) = JointRole(cc.type, RoleOf(d, cc.id))
    <3>1. RoleOf(g[n], cc.id) = RoleOf(d, cc.id) \/ RoleOf(g[n], cc.id) = JointRole(cc.type, RoleOf(d, cc.id))
      BY <1>5, <2>5, <2>6, ZenonT(40)
    <3> QED BY <1>3, <1>4, <2>6, <2>7, <3>1, ZenonT(40)
  <2>10. ASSUME NEW x \in Replica, NEW type \in ChangeType, x \in MadeOf(type, ccs, n + 1)
         PROVE  RoleOf(g[n + 1], x) = JointRole(type, RoleOf(d, x))
    <3>1. CASE x = cc.id
      <4>1. type = cc.type
        BY <2>1, <2>4, <2>10, <3>1, Zenon
      <4> QED BY <2>9, <3>1, <4>1
    <3>2. CASE x # cc.id
      <4>1. MadeOf(type, ccs, n + 1) = MadeOf(type, ccs, n) \cup {cc.id}
            \/ MadeOf(type, ccs, n + 1) = MadeOf(type, ccs, n)
        BY <2>1, Zenon
      <4>2. x \in MadeOf(type, ccs, n)
        BY <2>10, <3>2, <4>1, ZenonT(40)
      <4> QED BY <1>5, <2>7, <3>2, <4>2, ZenonT(40)
    <3> QED BY <3>1, <3>2, ZenonT(40)
  <2> QED BY <2>7, <2>8, <2>10
<1>6. ASSUME NEW n \in 0 .. N PROVE P(n)
  <2> HIDE DEF P
  <2>1. 0 \in S /\ \A k \in 0 .. N - 1 : k \in S => k + 1 \in S
    BY <1>0, <1>2, <1>5
  <2>2. 0 .. N \subseteq S
    BY <1>0, <2>1, UpTo, Zenon
  <2> QED BY <1>0, <2>2, ZenonT(40)
<1>7. N \in 0 .. N /\ g[N] \in Desc
  BY <1>0, <1>6, SMTT(30), SMTT(40)
<1>8. /\ e \in Desc
      /\ \A x : RoleOf(e, x) = IF x \in Leaving(g, ccs) THEN "None" ELSE RoleOf(g[N], x)
  BY <1>1, <1>7, WithoutDesc, SMTT(30), SMTT(40)
<1>9. ASSUME NEW k \in 1 .. N, ccs[k].type = "Remove"
      PROVE  RoleOf(g[k - 1], ccs[k].id) = "Learner" <=> RoleOf(d, ccs[k].id) = "Learner"
  <2> DEFINE x == ccs[k].id
  <2>1. k - 1 \in 0 .. N /\ (\A j \in 1 .. k - 1 : j \in 1 .. N) /\ ccs[k] \in Change
    BY <1>0, SMTT(30), SMTT(40)
  <2>2. x \in Replica /\ "Remove" \in ChangeType
    BY <2>1, ZenonT(40) DEF Change, ChangeType
  <2>3. x \in Touched(ccs, k - 1) => x \in MadeOf("Remove", ccs, k - 1)
    BY <1>9, <2>1, ZenonT(40) DEF Touched, MadeOf, Consistent
  <2> HIDE DEF x
  <2>4. RoleOf(g[k - 1], x) = RoleOf(d, x) \/ RoleOf(g[k - 1], x) = JointRole("Remove", RoleOf(d, x))
    BY <1>6, <2>1, <2>2, <2>3, ZenonT(40)
  <2>5. RoleOf(g[k - 1], x) = "Learner" <=> RoleOf(d, x) = "Learner"
    BY <1>4, <2>4, ZenonT(40) DEF JointRole
  <2> QED BY <2>5 DEF x
<1>10. \A y, x : x \in DOMAIN y /\ y[x] = "Learner" <=> RoleOf(y, x) = "Learner"
  BY ZenonT(40) DEF RoleOf
<1>11. Leaving(g, ccs) = {x \in MadeOf("Remove", ccs, N) : RoleOf(d, x) = "Learner"}
  <2>1. \A k \in 1 .. N : ccs[k].id \in Replica
    <3>1. \A k \in 1 .. N : ccs[k] \in Change
      BY <1>0, SMTT(30), SMTT(40)
    <3> QED BY <3>1 DEF Change
  <2>2. Leaving(g, ccs) = {ccs[n].id : n \in {k \in 1 .. N : ccs[k].type = "Remove" /\ RoleOf(d, ccs[k].id) = "Learner"}}
    BY <1>0, <1>9, <1>10, SMTT(30), SMTT(40) DEF Leaving
  <2> QED BY <2>1, <2>2, ZenonT(40) DEF MadeOf
<1>12. ASSUME NEW x \in Replica, x \notin Touched(ccs, N) PROVE RoleOf(e, x) = RoleOf(d, x)
  <2>1. x \notin MadeOf("Remove", ccs, N)
    BY <1>12, ZenonT(40) DEF Touched, MadeOf
  <2> QED BY <1>6, <1>7, <1>8, <1>11, <1>12, <2>1
<1>13. ASSUME NEW x \in Replica, NEW type \in ChangeType, x \in MadeOf(type, ccs, N)
       PROVE  RoleOf(e, x) = EnteredRole(type, RoleOf(d, x))
  <2>1. x \in MadeOf("Remove", ccs, N) <=> type = "Remove"
    BY <1>13, ZenonT(40) DEF MadeOf, Consistent
  <2>2. RoleOf(g[N], x) = JointRole(type, RoleOf(d, x))
    BY <1>6, <1>7, <1>13, ZenonT(40)
  <2> QED BY <1>8, <1>11, <2>1, <2>2, ZenonT(40) DEF EnteredRole
<1> QED BY <1>8, <1>12, <1>13

\* apply_leave_joint gives the joint roles up.
LEMMA LeaveRoles ==
    ASSUME NEW d \in Desc, NEW e, e = ApplyLeaveJoint(d)
    PROVE  /\ e \in Desc
           /\ \A x : RoleOf(e, x) = IF RoleOf(d, x) = "IncomingVoter" THEN "Voter"
                                    ELSE IF RoleOf(d, x) = "DemotingVoter" THEN "Learner" ELSE RoleOf(d, x)
<1> DEFINE Left(r) == CASE r = "IncomingVoter" -> "Voter" [] r = "DemotingVoter" -> "Learner" [] OTHER -> r
<1>1. ASSUME NEW r
      PROVE  Left(r) = IF r = "IncomingVoter" THEN "Voter" ELSE IF r = "DemotingVoter" THEN "Learner" ELSE r
  <2>1. "IncomingVoter" # "DemotingVoter"
    OBVIOUS
  <2>2. CASE r = "IncomingVoter"
    BY <2>1, <2>2, Zenon
  <2>3. CASE r = "DemotingVoter"
    BY <2>1, <2>3, Zenon
  <2>4. CASE r # "IncomingVoter" /\ r # "DemotingVoter"
    BY <2>4, Zenon
  <2> QED BY <2>2, <2>3, <2>4, Zenon
<1>2. e = [x \in DOMAIN d |-> Left(d[x])]
  BY Zenon DEF ApplyLeaveJoint
<1> HIDE DEF Left
<1>3. DOMAIN d \in SUBSET Replica /\ d \in [DOMAIN d -> Role]
  BY DescIs
<1>4. \A r \in Role : Left(r) \in Role
  BY <1>1 DEF Role
<1>5. DOMAIN e = DOMAIN d /\ e \in [DOMAIN d -> Role] /\ \A x \in DOMAIN d : e[x] = Left(d[x])
  BY <1>2, <1>3, <1>4
<1>6. e \in Desc
  BY <1>3, <1>5, DescIs, ZenonT(40)
<1> QED BY <1>1, <1>5, <1>6 DEF RoleOf

\* apply_simple_change gives the one replica its role, or takes it out.
LEMMA SimpleRoles ==
    ASSUME NEW d \in Desc, NEW cc \in Change, NEW e, e = ApplySimpleChange(d, cc)
    PROVE  /\ e \in Desc
           /\ \A x : x # cc.id => RoleOf(e, x) = RoleOf(d, x)
           /\ RoleOf(e, cc.id) = IF cc.type = "Add" THEN "Voter"
                                 ELSE IF cc.type = "AddLearner" THEN "Learner" ELSE "None"
<1>0. "Add" # "AddLearner" /\ "Add" # "Remove" /\ "AddLearner" # "Remove"
  OBVIOUS
<1>1. cc.id \in Replica /\ cc.type \in {"Add", "AddLearner", "Remove"} /\ "Voter" \in Role /\ "Learner" \in Role
  BY DEF Change, ChangeType, Role
<1>2. CASE cc.type = "Add"
  <2>1. e = WithRole(d, cc.id, "Voter")
    BY <1>0, <1>2, Zenon DEF ApplySimpleChange
  <2> QED BY <1>1, <1>2, <2>1, WithRoleDesc
<1>3. CASE cc.type = "AddLearner"
  <2>1. e = WithRole(d, cc.id, "Learner")
    BY <1>0, <1>3, Zenon DEF ApplySimpleChange
  <2> QED BY <1>1, <1>3, <2>1, WithRoleDesc, SMTT(30), SMTT(40)
<1>4. CASE cc.type = "Remove"
  <2>1. e = Without(d, {cc.id})
    BY <1>0, <1>4, Zenon DEF ApplySimpleChange
  <2> QED BY <1>1, <1>4, <2>1, WithoutDesc
<1> QED BY <1>1, <1>2, <1>3, <1>4

\* A configuration and a descriptor name the same voters, and raft's learners are learners.
Matches(c, d) ==
    /\ d \in Desc
    /\ c.incoming = WithRoles(d, {"Voter", "IncomingVoter"})
    /\ joint(c) => c.outgoing \ c.incoming = WithRoles(d, {"DemotingVoter"})
    /\ ~joint(c) => WithRoles(d, {"IncomingVoter", "DemotingVoter"}) = {}
    /\ c.learners \subseteq WithRoles(d, {"Learner"})

LEMMA InRoles ==
    ASSUME NEW d, NEW R, "None" \notin R, NEW x
    PROVE  x \in WithRoles(d, R) <=> RoleOf(d, x) \in R
  BY DEF WithRoles, RoleOf

\* The same, replica by replica.
MatchesRoles(c, d) ==
    /\ d \in Desc
    /\ \A x : x \in c.incoming <=> RoleOf(d, x) \in {"Voter", "IncomingVoter"}
    /\ joint(c) => \A x : x \in c.outgoing \ c.incoming <=> RoleOf(d, x) = "DemotingVoter"
    /\ ~joint(c) => \A x : RoleOf(d, x) \notin {"IncomingVoter", "DemotingVoter"}
    /\ \A x \in c.learners : RoleOf(d, x) = "Learner"

LEMMA MatchesByRoles == ASSUME NEW c, NEW d PROVE Matches(c, d) <=> MatchesRoles(c, d)
<1>1. \A x : /\ x \in WithRoles(d, {"Voter", "IncomingVoter"}) <=> RoleOf(d, x) \in {"Voter", "IncomingVoter"}
             /\ x \in WithRoles(d, {"DemotingVoter"}) <=> RoleOf(d, x) = "DemotingVoter"
             /\ x \in WithRoles(d, {"IncomingVoter", "DemotingVoter"}) <=>
                  RoleOf(d, x) \in {"IncomingVoter", "DemotingVoter"}
             /\ x \in WithRoles(d, {"Learner"}) <=> RoleOf(d, x) = "Learner"
  <2>1. /\ "None" \notin {"Voter", "IncomingVoter"} /\ "None" \notin {"DemotingVoter"}
        /\ "None" \notin {"IncomingVoter", "DemotingVoter"} /\ "None" \notin {"Learner"}
    OBVIOUS
  <2>2. \A x : x \in WithRoles(d, {"Voter", "IncomingVoter"}) <=> RoleOf(d, x) \in {"Voter", "IncomingVoter"}
    BY <2>1, InRoles, ZenonT(40)
  <2>3. \A x : x \in WithRoles(d, {"DemotingVoter"}) <=> RoleOf(d, x) \in {"DemotingVoter"}
    BY <2>1, InRoles, ZenonT(40)
  <2>4. \A x : x \in WithRoles(d, {"IncomingVoter", "DemotingVoter"}) <=>
               RoleOf(d, x) \in {"IncomingVoter", "DemotingVoter"}
    BY <2>1, InRoles
  <2>5. \A x : x \in WithRoles(d, {"Learner"}) <=> RoleOf(d, x) \in {"Learner"}
    BY <2>1, InRoles, ZenonT(40)
  <2> QED BY <2>2, <2>3, <2>4, <2>5
<1>2. c.incoming = WithRoles(d, {"Voter", "IncomingVoter"}) <=>
        \A x : x \in c.incoming <=> RoleOf(d, x) \in {"Voter", "IncomingVoter"}
  BY <1>1, ZenonT(40)
<1>3. c.outgoing \ c.incoming = WithRoles(d, {"DemotingVoter"}) <=>
        \A x : x \in c.outgoing \ c.incoming <=> RoleOf(d, x) = "DemotingVoter"
  BY <1>1
<1>4. WithRoles(d, {"IncomingVoter", "DemotingVoter"}) = {} <=>
        \A x : RoleOf(d, x) \notin {"IncomingVoter", "DemotingVoter"}
  BY <1>1, ZenonT(40)
<1>5. c.learners \subseteq WithRoles(d, {"Learner"}) <=> \A x \in c.learners : RoleOf(d, x) = "Learner"
  BY <1>1
<1> QED BY <1>2, <1>3, <1>4, <1>5, Zenon DEF Matches, MatchesRoles

\* Raft and the descriptor make the same of a change.
LEMMA MatchesNext ==
    ASSUME NEW c, Sound(c), NEW d, Matches(c, d), NEW ccs, Accepts(c, ccs),
           NEW b, Sound(b), b.incoming = IncomingAfter(c.incoming, ccs, Len(ccs)),
           b.outgoing = OutgoingAfter(c, ccs), b.learners \subseteq LearnersAfter(c, ccs),
           NEW e, e = ApplyChangeReplicas(d, ccs)
    PROVE  Matches(b, e)
<1> DEFINE N == Len(ccs)
<1>0. MatchesRoles(c, d)
  BY MatchesByRoles
<1>1. /\ ccs \in Seq(Change) /\ Consistent(ccs) /\ d \in Desc
      /\ c.incoming \in SUBSET Replica /\ c.learners \in SUBSET Replica /\ b.learners \in SUBSET Replica
  BY <1>0, ZenonT(40) DEF Accepts, Sound, Configuration, MatchesRoles
<1>2. CASE N = 0
  <2>1. ccs = <<>> /\ joint(c) /\ e = ApplyLeaveJoint(d)
    BY <1>1, <1>2, LengthCases, ZenonT(40) DEF Accepts, ApplyChangeReplicas
  <2>2. b.incoming = c.incoming /\ b.outgoing = {} /\ b.learners \subseteq c.learners \cup c.learnersNext
    BY <1>2, <2>1, SMTT(30), SMTT(40) DEF IncomingAfter, Touched, MadeOf, OutgoingAfter, LearnersAfter
  <2>3. /\ e \in Desc
        /\ \A x : RoleOf(e, x) = IF RoleOf(d, x) = "IncomingVoter" THEN "Voter"
                                 ELSE IF RoleOf(d, x) = "DemotingVoter" THEN "Learner" ELSE RoleOf(d, x)
    BY <1>1, <2>1, LeaveRoles, ZenonT(40)
  <2>4. c.learnersNext \subseteq c.outgoing \ c.incoming
    BY ZenonT(40) DEF Sound, CheckInvariants
  <2>5. MatchesRoles(b, e)
    BY <1>0, <2>1, <2>2, <2>3, <2>4, ZenonT(40) DEF MatchesRoles, joint
  <2> QED BY <2>5, MatchesByRoles, ZenonT(40)
<1>3. ASSUME N # 0 PROVE ccs # <<>> /\ ~joint(c) /\ Settled(d)
  <2>1. ccs # <<>> /\ ~joint(c)
    BY <1>1, <1>3, LengthCases DEF Accepts
  <2>2. \A x \in DOMAIN d : d[x] \in Role /\ d[x] = RoleOf(d, x)
    BY <1>1, DescIs, ZenonT(40) DEF RoleOf
  <2> QED BY <1>0, <2>1, <2>2, ZenonT(40) DEF MatchesRoles, Settled, Role
<1>4. CASE N = 1
  <2>1. PICK cc \in Change : /\ cc = ccs[1] /\ ccs = <<cc>>
                             /\ b.incoming = IncomingAfterOne(c.incoming, cc)
    BY <1>1, <1>4, SingleChange, ZenonT(40)
  <2>2. ccs # <<>> /\ ~joint(c) /\ e = ApplySimpleChange(d, cc) /\ b.outgoing = {}
    BY <1>3, <1>4, <2>1, SMTT(30), SMTT(40) DEF ApplyChangeReplicas, OutgoingAfter
  <2>3. /\ e \in Desc /\ \A x : x # cc.id => RoleOf(e, x) = RoleOf(d, x)
        /\ RoleOf(e, cc.id) = IF cc.type = "Add" THEN "Voter"
                              ELSE IF cc.type = "AddLearner" THEN "Learner" ELSE "None"
    BY <1>1, <2>2, SimpleRoles, SMTT(30), SMTT(40)
  <2>4. Touched(ccs, 1) = {cc.id} /\ MadeOf("AddLearner", ccs, 1) = IF cc.type = "AddLearner" THEN {cc.id} ELSE {}
    BY <2>1 DEF Touched, MadeOf, Change
  <2>5. b.learners \subseteq (c.learners \ {cc.id}) \cup (IF cc.type = "AddLearner" THEN {cc.id} ELSE {})
    BY <1>4, <2>2, <2>4, ZenonT(40) DEF LearnersAfter, LearnersUpTo
  <2>6. ~joint(b)
    BY <2>2 DEF joint
  <2>7. cc.type \in {"Add", "AddLearner", "Remove"}
    BY ZenonT(40) DEF Change, ChangeType
  <2>8. MatchesRoles(b, e)
    BY <1>0, <2>1, <2>2, <2>3, <2>5, <2>6, <2>7, SMTT(30), SMTT(40) DEF MatchesRoles, IncomingAfterOne
  <2> QED BY <2>8, MatchesByRoles
<1>5. CASE N > 1
  <2>1. /\ ccs # <<>> /\ ~joint(c) /\ Settled(d) /\ e = ApplyEnterJoint(d, ccs) /\ b.outgoing = c.incoming
        /\ b.learners \subseteq LearnersUpTo(c.learners, ccs, N)
    BY <1>1, <1>3, <1>5, LengthCases, ZenonT(40) DEF ApplyChangeReplicas, OutgoingAfter, LearnersAfter
  <2>2. /\ e \in Desc
        /\ \A x \in Replica : x \notin Touched(ccs, N) => RoleOf(e, x) = RoleOf(d, x)
        /\ \A x \in Replica : \A type \in ChangeType :
             x \in MadeOf(type, ccs, N) => RoleOf(e, x) = EnteredRole(type, RoleOf(d, x))
    <3>1. d \in Desc /\ Settled(d) /\ ccs \in Seq(Change) /\ Consistent(ccs) /\ e = ApplyEnterJoint(d, ccs)
      BY <1>1, <2>1, Zenon
    <3> QED BY <3>1, EnterRoles, SMTT(30), SMTT(40)
  <2>3. joint(b) /\ b.learners \cap c.incoming = {}
    BY <2>1, Zenon DEF Sound, CheckInvariants, VotersOf, joint
  <2>4. ASSUME NEW x \in Replica
        PROVE  /\ x \in b.incoming <=> RoleOf(e, x) \in {"Voter", "IncomingVoter"}
               /\ x \in b.outgoing \ b.incoming <=> RoleOf(e, x) = "DemotingVoter"
               /\ x \in b.learners => RoleOf(e, x) = "Learner"
    <3>1. RoleOf(d, x) \in {"Voter", "Learner", "None"} /\ (x \in c.incoming <=> RoleOf(d, x) = "Voter")
      BY <1>0, <2>1, ZenonT(40) DEF MatchesRoles, Settled, RoleOf
    <3>2. x \in c.learners => RoleOf(d, x) = "Learner"
      BY <1>0, ZenonT(40) DEF MatchesRoles
    <3>3. CASE x \notin Touched(ccs, N)
      <4>1. \A type : x \notin MadeOf(type, ccs, N)
        BY <3>3, ZenonT(40) DEF Touched, MadeOf
      <4>2. RoleOf(e, x) = RoleOf(d, x)
        BY <2>2, <3>3, ZenonT(40)
      <4> QED BY <2>1, <3>1, <3>2, <3>3, <4>1, <4>2, ZenonT(40) DEF IncomingAfter, LearnersUpTo
    <3>4. CASE x \in Touched(ccs, N)
      <4>1. PICK k \in 1 .. N : ccs[k].id = x
        BY <3>4, ZenonT(40) DEF Touched
      <4>2. PICK type : type = ccs[k].type
        OBVIOUS
      <4>3. type \in ChangeType /\ x \in MadeOf(type, ccs, N)
        <5>1. ccs[k] \in Change
          BY <1>1, SMTT(30), SMTT(40)
        <5> QED BY <4>1, <4>2, <5>1, ZenonT(40) DEF Change, MadeOf
      <4>4. \A other : other # type => x \notin MadeOf(other, ccs, N)
        BY <1>1, <4>1, <4>2, ZenonT(40) DEF MadeOf, Consistent
      <4>5. RoleOf(e, x) = EnteredRole(type, RoleOf(d, x))
        BY <2>2, <4>3, ZenonT(40)
      <4>6. type \in {"Add", "AddLearner", "Remove"}
        BY <4>3, ZenonT(40) DEF ChangeType
      <4>7. x \in b.incoming <=> type = "Add"
        BY <3>4, <4>3, <4>4, ZenonT(40) DEF IncomingAfter
      <4>8. x \in b.learners => type = "AddLearner" /\ x \notin c.incoming
        BY <2>1, <2>3, <3>4, <4>4, ZenonT(40) DEF LearnersUpTo
      <4> HIDE DEF N
      <4> QED BY <2>1, <3>1, <4>5, <4>6, <4>7, <4>8, ZenonT(40) DEF EnteredRole, JointRole
    <3> QED BY <3>3, <3>4, ZenonT(40)
  <2>5. \A x : x \notin Replica => RoleOf(e, x) = "None" /\ x \notin b.incoming /\ x \notin b.outgoing
    <3>1. DOMAIN e \in SUBSET Replica
      BY <2>2, DescIs
    <3>2. b.incoming \in SUBSET Replica /\ b.outgoing \in SUBSET Replica
      BY ZenonT(40) DEF Sound, Configuration
    <3> QED BY <3>1, <3>2, ZenonT(40) DEF RoleOf
  <2>6. MatchesRoles(b, e)
    BY <1>1, <2>2, <2>3, <2>4, <2>5, ZenonT(40) DEF MatchesRoles
  <2> QED BY <2>6, MatchesByRoles, ZenonT(40)
<1>6. N = 0 \/ N = 1 \/ N > 1
  BY <1>1, LengthCases
<1> QED BY <1>2, <1>4, <1>5, <1>6, ZenonT(40)
=============================================================================
