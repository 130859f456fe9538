--------------------------- MODULE TxnTableProofs ----------------------------
(***************************************************************************)
(* Theorems about what a transaction builds on, its record and its ids:    *)
(* module RecordWrite, for any requests and any number of cancelled ones,  *)
(* and module TxnIdAlloc, for any nodes, clients, clocks, step and number  *)
(* of leader changes and bumps.                                            *)
(***************************************************************************)
EXTENDS RecordWrite, TxnIdAlloc, TLAPS

-----------------------------------------------------------------------------
\* The record

\* What a request that was answered Ok says of the record.
Reached(q) ==
    /\ Op[q] = "begin" => record # "none"
    /\ Op[q] = "commit" => record = "committed"
    /\ Op[q] = "abort" => record = "aborted"

\* While no request is dropped, the condition of the proposal in raft still holds, since its request has
\* the latch, and the record is what every answer said.
ConditionKept ==
    /\ \A q \in Req : pc[q] # "cancelled"
    /\ \A i \in 1 .. Len(log) : record = Expected(log[i])
    /\ \A q \in Req : pc[q] = "ok" => Reached(q)

\* The inductive invariant.
RecordInv == TypeOK /\ OneLiveProposal /\ (cancels = 0 => ConditionKept)

-----------------------------------------------------------------------------

\* The state a request sets is one of a record, and one request cannot both expect and set it.
LEMMA Targets ==
    \A q \in Req : /\ Target(q) \in RecordState \ {"none"}
                   /\ Target(q) # Expected(q)
                   /\ Op[q] \in {"begin", "commit", "abort"}
BY RecordWriteAssumption DEF Target, Expected, RecordState

\* The oldest proposal, and what is left behind it.
LEMMA Popped ==
    ASSUME NEW s \in Seq(Req), s # <<>>
    PROVE  /\ Head(s) \in Req /\ Head(s) = s[1] /\ Len(s) >= 1
           /\ Tail(s) \in Seq(Req) /\ Len(Tail(s)) = Len(s) - 1
           /\ \A i \in 1 .. Len(Tail(s)) : Tail(s)[i] = s[i + 1]
OBVIOUS

\* A proposal behind the others.
LEMMA Pushed ==
    ASSUME NEW s \in Seq(Req), NEW q \in Req
    PROVE  /\ Append(s, q) \in Seq(Req) /\ Len(Append(s, q)) = Len(s) + 1
           /\ \A i \in 1 .. Len(s) : Append(s, q)[i] = s[i]
           /\ Append(s, q)[Len(s) + 1] = q
OBVIOUS

\* While no request is dropped raft has at most one proposal.
LEMMA OneEntry ==
    TypeOK /\ OneLiveProposal /\ ConditionKept => Len(log) <= 1
<1> SUFFICES ASSUME TypeOK, OneLiveProposal, ConditionKept PROVE Len(log) <= 1
  OBVIOUS
<1>1. \A i \in 1 .. Len(log) : log[i] \in Req
  BY DEF TypeOK
<1>2. \A i \in 1 .. Len(log) : i = Len(log)
  BY <1>1 DEF OneLiveProposal, ConditionKept
<1> QED BY <1>2 DEF TypeOK

-----------------------------------------------------------------------------

\* Init: no proposal, no latch.
LEMMA InitInv == Init => RecordInv
BY RecordWriteAssumption DEF Init, RecordInv, TypeOK, OneLiveProposal, ConditionKept, RecordState, Reached

\* batch_write proposes with the latch of the record and its condition true.
LEMMA ProposeStep ==
    ASSUME RecordInv, NEW q \in Req, Propose(q) PROVE RecordInv'
<1> USE DEF RecordInv, Propose
<1>1. TypeOK'
  BY Pushed DEF TypeOK
<1>2. \A i \in 1 .. Len(log) : pc[log[i]] = "cancelled" /\ log[i] # q /\ log[i] \in Req
  BY RecordWriteAssumption DEF TypeOK, OneLiveProposal
<1>3. OneLiveProposal'
  <2>1. \A p \in Req : pc'[p] = "proposed" <=> latch' = p
    BY RecordWriteAssumption DEF TypeOK, OneLiveProposal
  <2>2. \A i \in 1 .. Len(log') : pc'[log'[i]] = "cancelled" \/ (i = Len(log') /\ pc'[log'[i]] = "proposed")
    BY <1>2, Pushed DEF TypeOK
  <2> QED BY <2>1, <2>2 DEF OneLiveProposal
<1>4. ASSUME cancels' = 0 PROVE ConditionKept'
  <2>1. ConditionKept
    BY <1>4
  <2>2. \A i \in 1 .. Len(log') : record' = Expected(log'[i])
    BY <1>2, <2>1, Pushed DEF TypeOK, ConditionKept
  <2> QED BY <2>1, <2>2 DEF ConditionKept, TypeOK, Reached
<1> QED BY <1>1, <1>3, <1>4

\* A write whose condition failed is Ok only if the record is what it wanted.
LEMMA CasFailedStep ==
    ASSUME RecordInv, NEW q \in Req, CasFailed(q) PROVE RecordInv'
<1> USE DEF RecordInv, CasFailed
<1>1. TypeOK'
  BY DEF TypeOK
<1>2. \A i \in 1 .. Len(log) : log[i] # q /\ log[i] \in Req
  BY DEF TypeOK, OneLiveProposal
<1>3. OneLiveProposal'
  <2>1. \A p \in Req : pc'[p] = "proposed" <=> latch' = p
    BY RecordWriteAssumption DEF TypeOK, OneLiveProposal
  <2>2. \A i \in 1 .. Len(log') : pc'[log'[i]] = "cancelled" \/ (i = Len(log') /\ pc'[log'[i]] = "proposed")
    BY <1>2 DEF TypeOK, OneLiveProposal
  <2> QED BY <2>1, <2>2 DEF OneLiveProposal
<1>4. ASSUME cancels' = 0 PROVE ConditionKept'
  <2>1. ConditionKept
    BY <1>4
  <2>2. pc'[q] = "ok" => Reached(q)'
    BY Targets DEF TypeOK, Reached, Target, Expected
  <2>3. \A p \in Req : pc'[p] = "ok" => Reached(p)'
    BY <2>1, <2>2 DEF ConditionKept, TypeOK, Reached
  <2> QED BY <2>1, <2>3 DEF ConditionKept, TypeOK
<1> QED BY <1>1, <1>3, <1>4

\* Raft applies a proposal: its condition holds if no request was dropped.
LEMMA ApplyStep ==
    ASSUME RecordInv, Apply PROVE RecordInv'
<1> USE DEF RecordInv, Apply
<1>1. log \in Seq(Req) /\ log # <<>>
  BY DEF TypeOK
<1> DEFINE h == Head(log)
<1>2. h \in Req /\ h = log[1] /\ Len(log) >= 1 /\ Len(log) \in Nat
  BY <1>1, Popped
<1> HIDE DEF h
<1>3. TypeOK'
  BY <1>1, <1>2, Popped, Targets DEF TypeOK, h
<1>4. OneLiveProposal'
  <2>1. \A p \in Req : pc'[p] = "proposed" <=> latch' = p
    <3>1. pc'[h] # "proposed" /\ latch' # h
      BY <1>2, RecordWriteAssumption DEF TypeOK, h
    <3>2. \A p \in Req \ {h} : pc'[p] = pc[p] /\ (latch' = p <=> latch = p)
      BY <1>2, RecordWriteAssumption DEF TypeOK, h
    <3> QED BY <3>1, <3>2, <1>2 DEF OneLiveProposal
  <2>2. ASSUME NEW i \in 1 .. Len(log')
        PROVE  pc'[log'[i]] = "cancelled" \/ (i = Len(log') /\ pc'[log'[i]] = "proposed")
    <3>1. i + 1 \in 1 .. Len(log) /\ log'[i] = log[i + 1] /\ log[i + 1] \in Req /\ Len(log') = Len(log) - 1
      BY <1>1, Popped, SMTT(30)
    <3>2. pc[log[i + 1]] = "cancelled" \/ (i + 1 = Len(log) /\ pc[log[i + 1]] = "proposed")
      BY <3>1, Zenon DEF OneLiveProposal
    <3>3. pc[h] = "cancelled" \/ Len(log) = 1
      BY <1>1, <1>2, Popped DEF OneLiveProposal
    <3>4. pc[h] = "cancelled"
      BY <3>1, <3>3, <1>1
    <3>5. pc' = pc
      BY <3>4, <1>2 DEF TypeOK, h
    <3> HIDE DEF Apply
    <3>6. i + 1 = Len(log) => i = Len(log')
      BY <3>1, <1>2
    <3> QED BY <3>1, <3>2, <3>5, <3>6
  <2> QED BY <2>1, <2>2 DEF OneLiveProposal
<1>5. ASSUME cancels' = 0 PROVE ConditionKept'
  <2>1. ConditionKept
    BY <1>5
  <2>2. Len(log') = 0 /\ record = Expected(h) /\ record' = Target(h)
    <3>1. Len(log) = 1
      <4> HIDE DEF Apply
      <4> QED BY <2>1, <1>2, OneEntry, SMTT(30), SMTT(40)
    <3>2. record = Expected(log[1])
      BY <2>1, <3>1 DEF ConditionKept
    <3> QED BY <1>1, <1>2, <3>1, <3>2, Popped DEF h
  <2>3. \A p \in Req : pc'[p] # "cancelled"
    BY <2>1, <1>2 DEF ConditionKept, TypeOK, h
  <2>4. ASSUME NEW p \in Req, pc'[p] = "ok" PROVE Reached(p)'
    <3>1. p = h \/ pc[p] = "ok"
      BY <2>4, <1>2 DEF TypeOK, h
    <3>2. CASE p = h
      BY <3>2, <2>2, <1>2, Targets DEF Reached, Target
    <3>3. CASE pc[p] = "ok"
      BY <3>3, <2>1, <2>2, <1>2, Targets DEF Reached, Target, Expected, ConditionKept
    <3> QED BY <3>1, <3>2, <3>3
  <2> QED BY <2>2, <2>3, <2>4, SMTT(30), SMTT(40) DEF ConditionKept
<1> QED BY <1>3, <1>4, <1>5

\* The proposals are lost and their requests are sent again.
LEMMA LoseStep ==
    ASSUME RecordInv, Lose PROVE RecordInv'
<1> USE DEF RecordInv, Lose
<1>1. TypeOK'
  BY DEF TypeOK
<1>2. OneLiveProposal'
  BY RecordWriteAssumption DEF TypeOK, OneLiveProposal
<1>3. ASSUME cancels' = 0 PROVE ConditionKept'
  BY <1>3 DEF TypeOK, ConditionKept, Reached
<1> QED BY <1>1, <1>2, <1>3

\* A dropped request leaves its proposal behind and the latch free.
LEMMA CancelStep ==
    ASSUME RecordInv, NEW q \in Req, Cancel(q) PROVE RecordInv'
<1> USE DEF RecordInv, Cancel
<1>1. TypeOK'
  BY RecordWriteAssumption DEF TypeOK
<1>2. OneLiveProposal'
  <2>1. \A p \in Req : pc'[p] = "proposed" <=> latch' = p
    BY RecordWriteAssumption DEF TypeOK, OneLiveProposal
  <2>2. \A i \in 1 .. Len(log') : pc'[log'[i]] = "cancelled"
    <3>1. \A i \in 1 .. Len(log) : log[i] \in Req
      BY DEF TypeOK
    <3> QED BY <3>1 DEF TypeOK, OneLiveProposal
  <2> QED BY <2>1, <2>2 DEF OneLiveProposal
<1>3. cancels' # 0
  BY DEF TypeOK
<1> QED BY <1>1, <1>2, <1>3

\* Every step keeps the invariant.
LEMMA NextInv == RecordInv /\ [Next]_vars => RecordInv'
<1> SUFFICES ASSUME RecordInv, [Next]_vars PROVE RecordInv'
  OBVIOUS
<1>1. CASE UNCHANGED vars
  BY <1>1 DEF vars, RecordInv, TypeOK, OneLiveProposal, ConditionKept, Reached
<1> QED BY <1>1, ProposeStep, CasFailedStep, CancelStep, ApplyStep, LoseStep DEF Next

\* The latch and the proposals in raft stay as they should be, and while no request is dropped the
\* condition of a proposal holds until it is applied.
THEOREM RecordInductive == Spec => []RecordInv
BY InitInv, NextInv, PTL DEF Spec

-----------------------------------------------------------------------------

\* OneLiveProposal: the latch is held exactly by the request that waits for its proposal, the last one in
\* raft (batch_write under the latch of the record).
THEOREM LatchIsOfLastProposal == Spec => []OneLiveProposal
<1>1. RecordInv => OneLiveProposal
  BY DEF RecordInv
<1> QED BY <1>1, RecordInductive, PTL

\* AnswersAgree: while no request is dropped, no client is told that the transaction is committed and
\* another that it is aborted (commit_txn, abort_txn).
THEOREM AnswersNeverDisagree == Spec => []AnswersAgree
<1>1. RecordInv => AnswersAgree
  <2> SUFFICES ASSUME RecordInv, cancels = 0, NEW p \in Req, NEW q \in Req, pc[p] = "ok", pc[q] = "ok"
               PROVE  {Op[p], Op[q]} # {"commit", "abort"}
    BY DEF AnswersAgree
  <2>1. Reached(p) /\ Reached(q)
    BY DEF RecordInv, ConditionKept
  <2> QED BY <2>1 DEF Reached
<1> QED BY <1>1, RecordInductive, PTL

\* AtomicRecord: while no request is dropped, the writes of the record implement the record of the
\* transaction table (module TxnRecord): it begins once and is decided once.
THEOREM RecordIsAtomic == Spec => AtomicRecord
<1>1. Init => Record!Init
  BY DEF Init, Record!Init
<1>2. RecordInv /\ [Next]_vars => [cancels' = 0 => [Record!Next]_record]_vars
  <2> SUFFICES ASSUME RecordInv, [Next]_vars, cancels' = 0 PROVE [Record!Next]_record
    OBVIOUS
  <2>1. CASE Apply
    <3>1. ConditionKept /\ log \in Seq(Req) /\ log # <<>>
      BY <2>1 DEF Apply, RecordInv, TypeOK
    <3>2. Head(log) \in Req /\ record = Expected(Head(log)) /\ record' = Target(Head(log))
      BY <2>1, <3>1, Popped DEF Apply, ConditionKept
    <3> QED BY <3>2, Targets DEF Expected, Target, Record!Next
  <2>2. CASE ~Apply
    BY <2>2 DEF Next, vars, Propose, CasFailed, Cancel, Lose
  <2> QED BY <2>1, <2>2
<1> QED BY <1>1, <1>2, RecordInductive, PTL DEF Spec, AtomicRecord

-----------------------------------------------------------------------------
\* The ids

\* Every id that was handed out is below b.
Below(b) == \A c \in Client : start[c] < b /\ commit[c] < b

\* Nobody got the id i.
Unused(i) == \A c \in Client : start[c] # i /\ commit[c] # i

\* The ids a node may hand out with the bound it has, or with the one it has persisted.
Mine(n, i) ==
    \/ max[n] # 0 /\ next[n] <= i /\ i < max[n]
    \/ pend[n] # 0 /\ role[n] = "leader" /\ next[n] <= i /\ i < pend[n]
    \/ pend[n] # 0 /\ role[n] = "init" /\ base[n] <= i /\ i < pend[n]

\* The counters of a node are in order, whoever persisted what.
Ordered ==
    /\ meta >= 1
    /\ \A n \in Node :
         /\ role[n] \in {"init", "leader"} => base[n] >= 1
         /\ role[n] = "follower" => pend[n] = 0
         /\ max[n] # 0 => 1 <= next[n] /\ next[n] <= max[n]
         /\ role[n] = "leader" => max[n] # 0 /\ base[n] <= next[n]
         /\ role[n] = "init" /\ pend[n] # 0 => base[n] < pend[n]
         /\ role[n] = "leader" /\ pend[n] # 0 => max[n] < pend[n]

\* The persisted bound is above every bound in memory and every id that was handed out, and what a node
\* has read of it is above the ids of a RootCore it published before.
Bounded ==
    /\ Below(meta)
    /\ \A n \in Node : /\ max[n] <= meta /\ pend[n] <= meta
                       /\ role[n] = "init" => max[n] <= base[n]

\* The node that read the persisted bound last hands out ids above those of all the others.
OwnerAbove ==
    /\ role[owner] \in {"init", "leader"} =>
         \A m \in Node \ {owner} : max[m] <= base[owner] /\ pend[m] <= base[owner]
    /\ role[owner] = "init" => Below(base[owner])
    /\ role[owner] = "leader" => Below(next[owner])

\* No id is left to two nodes, and none that is left was handed out.
Disjoint ==
    \A i \in Nat : \A n \in Node :
       Mine(n, i) => Unused(i) /\ \A m \in Node \ {n} : ~Mine(m, i)

\* The inductive invariant.
IdInv ==
    /\ AllocTypeOK /\ Ordered
    /\ ~overlap => Bounded /\ OwnerAbove /\ Disjoint /\ \A c, d \in Client : Distinct(c, d)

-----------------------------------------------------------------------------

\* AllocInit: no bound is read, no id handed out.
LEMMA InitIdInv == AllocInit => IdInv
<1> SUFFICES ASSUME AllocInit PROVE IdInv
  OBVIOUS
<1> USE DEF AllocInit
<1>1. AllocTypeOK
  <2>1. overlap \in BOOLEAN /\ bumper \in [Node -> BOOLEAN]
    BY Zenon
  <2>2. /\ leader \in Node /\ owner \in Node /\ meta \in Nat /\ changes \in Nat /\ bumps \in Nat
        /\ base \in [Node -> Nat] /\ next \in [Node -> Nat] /\ max \in [Node -> Nat] /\ pend \in [Node -> Nat]
        /\ start \in [Client -> Nat] /\ commit \in [Client -> Nat]
    OBVIOUS
  <2>3. role \in [Node -> {"follower", "init", "leader"}]
    OBVIOUS
  <2> QED BY <2>1, <2>2, <2>3 DEF AllocTypeOK
<1>2. Ordered
  BY DEF Ordered
<1>3. Bounded /\ OwnerAbove
  BY <1>1 DEF Bounded, OwnerAbove, Below, AllocTypeOK
<1>4. Disjoint
  BY <1>1 DEF Disjoint, Mine, AllocTypeOK
<1>5. \A c, d \in Client : Distinct(c, d)
  BY DEF Distinct
<1> QED BY <1>1, <1>2, <1>3, <1>4, <1>5 DEF IdInv

\* A step after which no node may hand out more ids keeps them apart.
LEMMA NoMoreIds ==
    ASSUME Disjoint, UNCHANGED <<start, commit>>,
           \A i \in Nat : \A n \in Node : Mine(n, i)' => Mine(n, i)
    PROVE  Disjoint'
<1>1. \A i \in Nat : Unused(i) => Unused(i)'
  BY DEF Unused
<1> QED BY <1>1, Zenon DEF Disjoint

\* The ids of the clients are those they were.
LEMMA SameIds ==
    ASSUME UNCHANGED <<start, commit>>, \A c, d \in Client : Distinct(c, d)
    PROVE  \A c, d \in Client : Distinct(c, d)'
BY DEF Distinct

-----------------------------------------------------------------------------

\* Another node is elected.
LEMMA LeaderChangeStep ==
    ASSUME IdInv, NEW n \in Node, LeaderChange(n) PROVE IdInv'
<1> USE DEF IdInv, LeaderChange
<1>1. AllocTypeOK' /\ Ordered'
  BY SMTT(30), SMTT(40) DEF AllocTypeOK, Ordered
<1>2. ASSUME ~overlap' PROVE Bounded' /\ OwnerAbove'
  BY <1>2, ZenonT(40) DEF Bounded, OwnerAbove, Below
<1>3. ASSUME ~overlap' PROVE Disjoint'
  BY <1>3, NoMoreIds DEF Mine
<1> QED BY <1>1, <1>2, <1>3, SameIds, ZenonT(40)

\* step_leader reads the persisted bound, which is above everything.
LEMMA StepLeaderStep ==
    ASSUME IdInv, NEW n \in Node, StepLeader(n) PROVE IdInv'
<1> USE DEF IdInv, StepLeader
<1>1. AllocTypeOK'
  BY DEF AllocTypeOK
<1>2. Ordered'
  BY DEF AllocTypeOK, Ordered
<1>3. ASSUME ~overlap' PROVE Bounded' /\ OwnerAbove'
  BY <1>3 DEF Bounded, OwnerAbove, Below, AllocTypeOK
<1>4. ASSUME ~overlap' PROVE Disjoint'
  <2>1. \A i \in Nat : \A m \in Node : Mine(m, i)' => Mine(m, i)
    BY DEF Mine, AllocTypeOK, Ordered
  <2> QED BY <1>4, <2>1, NoMoreIds
<1> QED BY <1>1, <1>2, <1>3, <1>4, SameIds

\* bump_txn_id persists a bound above the one the node has read or stored.
LEMMA BumpPersistStep ==
    ASSUME IdInv, NEW n \in Node, BumpPersist(n) PROVE IdInv'
<1> USE DEF IdInv
<1>1. PICK now \in Clock :
        LET bound == Larger(IF role[n] = "init" THEN base[n] ELSE max[n], now) + Step
        IN meta' = bound /\ pend' = [pend EXCEPT ![n] = bound]
  BY Zenon DEF BumpPersist
<1> DEFINE low == IF role[n] = "init" THEN base[n] ELSE max[n]
<1>2. /\ pend[n] = 0 /\ (role[n] = "init" \/ role[n] = "leader") /\ overlap' = (overlap \/ owner # n)
      /\ bumps' = bumps + 1
      /\ UNCHANGED <<leader, role, base, next, max, bumper, start, commit, owner, changes>>
  BY DEF BumpPersist
<1>3. meta' \in Nat /\ meta' > low /\ meta' >= 1 /\ pend' = [pend EXCEPT ![n] = meta'] /\ low \in Nat
  BY <1>1, TxnIdAllocAssumption DEF Larger, AllocTypeOK
<1>4. AllocTypeOK'
  <2>1. overlap' \in BOOLEAN
    BY <1>2, Zenon DEF AllocTypeOK
  <2> QED BY <1>2, <1>3, <2>1 DEF AllocTypeOK
<1>5. Ordered'
  BY <1>2, <1>3 DEF AllocTypeOK, Ordered
<1>6. ASSUME ~overlap' PROVE Bounded' /\ OwnerAbove' /\ Disjoint'
  <2>1. owner = n /\ Bounded /\ OwnerAbove /\ Disjoint
    BY <1>2, <1>6, Zenon
  <2>2. \A m \in Node \ {n} : max[m] <= base[n] /\ pend[m] <= base[n]
    BY <1>2, <2>1 DEF OwnerAbove
  <2>3. role[n] = "init" => max[n] <= base[n] /\ Below(base[n])
    BY <2>1, ZenonT(40) DEF OwnerAbove, Bounded
  <2>4. role[n] = "leader" => Below(next[n]) /\ base[n] <= next[n] /\ next[n] <= max[n]
    BY <2>1 DEF OwnerAbove, Ordered
  <2>5. base[n] <= low /\ max[n] <= low
    BY <1>2, <2>3, <2>4, SMTT(30), SMTT(40) DEF AllocTypeOK
  <2>6. Below(meta')
    BY <1>2, <1>3, <2>3, <2>4, SMTT(30), SMTT(40) DEF AllocTypeOK, Below
  <2>7. Bounded'
    <3>1. \A m \in Node : max[m] <= meta' /\ pend'[m] <= meta'
      BY <1>2, <1>3, <2>2, <2>5 DEF AllocTypeOK
    <3>2. Below(meta)'
      BY <1>2, <2>6, ZenonT(40) DEF Below
    <3> QED BY <1>2, <2>1, <3>1, <3>2 DEF Bounded
  <2>8. OwnerAbove'
    BY <1>2, <1>3, <2>1, <2>2, <2>3, <2>4 DEF OwnerAbove, Below, AllocTypeOK
  <2>9. Disjoint'
    <3> DEFINE New(i) == IF role[n] = "init" THEN base[n] <= i ELSE next[n] <= i
    <3>1. \A i \in Nat : Mine(n, i)' => Mine(n, i) \/ New(i)
      BY <1>2, <1>3 DEF Mine, AllocTypeOK
    <3>2. \A i \in Nat : \A m \in Node \ {n} : Mine(m, i)' <=> Mine(m, i)
      BY <1>2, <1>3, ZenonT(40) DEF Mine, AllocTypeOK
    <3>3. \A i \in Nat : \A m \in Node \ {n} : Mine(m, i) => ~New(i)
      BY <1>2, <2>2, <2>4, SMTT(30), SMTT(40) DEF Mine, AllocTypeOK
    <3>4. \A i \in Nat : New(i) => Unused(i)
      BY <1>2, <2>3, <2>4, SMTT(30), SMTT(40) DEF Below, Unused, AllocTypeOK
    <3>5. \A i \in Nat : Unused(i)' <=> Unused(i)
      BY <1>2 DEF Unused
    <3> HIDE DEF New
    <3>6. ASSUME NEW i \in Nat, Mine(n, i)' PROVE Unused(i)' /\ \A m \in Node \ {n} : ~Mine(m, i)'
      BY <3>1, <3>2, <3>3, <3>4, <3>5, <3>6, <2>1 DEF Disjoint
    <3>7. ASSUME NEW i \in Nat, NEW k \in Node \ {n}, Mine(k, i)'
          PROVE  Unused(i)' /\ \A m \in Node \ {k} : ~Mine(m, i)'
      <4>1. Mine(k, i) /\ Unused(i) /\ ~New(i) /\ \A m \in Node \ {k} : ~Mine(m, i)
        BY <3>2, <3>3, <3>7, <2>1 DEF Disjoint
      <4>2. \A m \in Node \ {k} : ~Mine(m, i)'
        BY <3>1, <3>2, <4>1
      <4> QED BY <3>5, <4>1, <4>2
    <3> QED BY <3>6, <3>7, ZenonT(40) DEF Disjoint
  <2> QED BY <2>7, <2>8, <2>9
<1>7. ASSUME ~overlap' PROVE \A c, d \in Client : Distinct(c, d)'
  BY <1>2, <1>7, SameIds, ZenonT(40)
<1> QED BY <1>4, <1>5, <1>6, <1>7

\* The bound is stored; step_leader publishes the ids from the bound it has read.
LEMMA BumpStoreStep ==
    ASSUME IdInv, NEW n \in Node, BumpStore(n) PROVE IdInv'
<1> USE DEF IdInv, BumpStore
<1>1. AllocTypeOK'
  BY ZenonT(30) DEF AllocTypeOK
<1>2. role[n] \in {"init", "leader"}
  BY DEF AllocTypeOK, Ordered
<1>3. Ordered'
  BY <1>2, SMTT(30), SMTT(40) DEF AllocTypeOK, Ordered
<1>4. ASSUME ~overlap' PROVE Bounded' /\ OwnerAbove' /\ Disjoint'
  <2>1. Bounded'
    BY <1>4, SMTT(30), SMTT(40) DEF Bounded, Below, AllocTypeOK
  <2>2. OwnerAbove'
    <3>1. OwnerAbove /\ owner' = owner /\ owner \in Node
      BY <1>4, ZenonT(40) DEF AllocTypeOK
    <3>2. CASE owner = n
      BY <3>1, <3>2, <1>2, SMTT(30), SMTT(40) DEF OwnerAbove, Below, AllocTypeOK
    <3>3. CASE owner # n
      BY <3>1, <3>3, SMTT(30), SMTT(40) DEF OwnerAbove, Below, AllocTypeOK
    <3> QED BY <3>2, <3>3
  <2>3. \A i \in Nat : \A m \in Node : Mine(m, i)' => Mine(m, i)
    BY <1>2, SMTT(30), SMTT(40) DEF Mine, AllocTypeOK, Ordered
  <2> QED BY <1>4, <2>1, <2>2, <2>3, NoMoreIds, ZenonT(40)
<1> QED BY <1>1, <1>3, <1>4, SameIds

\* set_txn_id failed: the bound is forgotten.
LEMMA BumpFailStep ==
    ASSUME IdInv, NEW n \in Node, BumpFail(n) PROVE IdInv'
<1> USE DEF IdInv, BumpFail
<1>1. AllocTypeOK'
  BY ZenonT(40) DEF AllocTypeOK
<1>2. Ordered'
  BY ZenonT(40) DEF AllocTypeOK, Ordered
<1>3. ASSUME ~overlap' PROVE Bounded' /\ OwnerAbove'
  BY <1>3 DEF Bounded, OwnerAbove, Below, AllocTypeOK
<1>4. ASSUME ~overlap' PROVE Disjoint'
  <2>1. \A i \in Nat : \A m \in Node : Mine(m, i)' => Mine(m, i)
    BY ZenonT(40) DEF Mine, AllocTypeOK, Ordered
  <2> QED BY <1>4, <2>1, NoMoreIds, ZenonT(40)
<1> QED BY <1>1, <1>2, <1>3, <1>4, SameIds, ZenonT(40)

\* The node steps down, with or without its RootCore.
LEMMA StepDownStep ==
    ASSUME IdInv, NEW n \in Node, DropLeader(n) \/ AbandonLeader(n) PROVE IdInv'
<1> USE DEF IdInv, DropLeader, AbandonLeader
<1>1. AllocTypeOK'
  <2>1. CASE DropLeader(n)
    BY <2>1, ZenonT(40) DEF AllocTypeOK
  <2>2. CASE AbandonLeader(n)
    BY <2>2, ZenonT(40) DEF AllocTypeOK
  <2> QED BY <2>1, <2>2, ZenonT(40)
<1>2. Ordered'
  BY DEF AllocTypeOK, Ordered
<1>3. ASSUME ~overlap' PROVE Bounded' /\ OwnerAbove'
  <2>1. Bounded /\ OwnerAbove
    BY <1>3, ZenonT(40)
  <2>2. \A m \in Node : max'[m] <= max[m] /\ pend'[m] <= pend[m] /\ max'[m] \in Nat /\ pend'[m] \in Nat
    BY SMTT(30), SMTT(40) DEF AllocTypeOK
  <2>3. \A m \in Node : role'[m] # "follower" => m # n /\ role'[m] = role[m] /\ max'[m] = max[m]
    BY DEF AllocTypeOK
  <2>4. UNCHANGED <<meta, owner, base, next, start, commit>>
    BY ZenonT(40)
  <2> HIDE DEF DropLeader, AbandonLeader
  <2>5. Bounded'
    BY <2>1, <2>2, <2>3, <2>4, SMTT(30), SMTT(40) DEF Bounded, Below, AllocTypeOK
  <2>6. OwnerAbove'
    BY <2>1, <2>2, <2>3, <2>4, SMTT(30), SMTT(40) DEF OwnerAbove, Below, AllocTypeOK
  <2> QED BY <2>5, <2>6
<1>4. ASSUME ~overlap' PROVE Disjoint'
  <2>1. \A i \in Nat : \A m \in Node : Mine(m, i)' => Mine(m, i)
    BY ZenonT(40) DEF Mine, AllocTypeOK, Ordered
  <2> QED BY <1>4, <2>1, NoMoreIds, ZenonT(40)
<1> QED BY <1>1, <1>2, <1>3, <1>4, SameIds, ZenonT(40)

\* alloc_txn_id hands out an id that was left to the node.
LEMMA AllocTxnIdStep ==
    ASSUME IdInv, NEW n \in Node, NEW c \in Client, AllocTxnId(n, c) PROVE IdInv'
<1> USE DEF IdInv, AllocTxnId
<1>0. PICK id \in Nat : id = next[n]
  BY ZenonT(40) DEF AllocTypeOK
<1>1. AllocTypeOK'
  BY SMTT(30), SMTT(40) DEF AllocTypeOK
<1>2. Ordered'
  BY SMTT(30), SMTT(40) DEF AllocTypeOK, Ordered
<1>3. id >= 1 /\ id < max[n] /\ Mine(n, id) /\ (~overlap => ~Mine(n, id)')
  <2>1. id >= 1 /\ id < max[n] /\ Mine(n, id)
    BY <1>0, SMTT(30), SMTT(40) DEF AllocTypeOK, Ordered, Mine
  <2>2. next'[n] = id + 1 /\ UNCHANGED <<base, role, max, pend>>
    BY <1>0, ZenonT(40) DEF AllocTypeOK
  <2>3. ~overlap => (role[n] = "init" => id < base[n])
    BY <2>1, SMTT(30), SMTT(40) DEF Bounded, AllocTypeOK
  <2> HIDE DEF AllocTxnId
  <2> QED BY <2>1, <2>2, <2>3, SMTT(30), SMTT(40) DEF Mine, AllocTypeOK
<1>4. \A d \in Client : start'[d] \in {start[d], id} /\ commit'[d] \in {commit[d], id}
  <2>1. CASE start' = [start EXCEPT ![c] = id] /\ commit' = commit
    BY <2>1, ZenonT(40) DEF AllocTypeOK
  <2>2. CASE commit' = [commit EXCEPT ![c] = id] /\ start' = start
    BY <2>2, ZenonT(40) DEF AllocTypeOK
  <2> QED BY <1>0, <2>1, <2>2, ZenonT(40)
<1>5. ASSUME ~overlap' PROVE Bounded'
  <2>1. Bounded
    BY <1>5, ZenonT(40)
  <2> QED BY <1>3, <1>4, <2>1 DEF Bounded, Below, AllocTypeOK
<1>6. ASSUME ~overlap' PROVE OwnerAbove'
  <2>1. OwnerAbove /\ owner \in Node /\ (role[n] = "init" => id < base[n])
    BY <1>3, <1>6, SMTT(30), SMTT(40) DEF AllocTypeOK, Bounded
  <2>2. CASE owner = n
    BY <1>0, <1>3, <1>4, <2>1, <2>2, SMTT(30), SMTT(40) DEF OwnerAbove, Below, AllocTypeOK
  <2>3. CASE owner # n
    BY <1>3, <1>4, <2>1, <2>3, SMTT(30), SMTT(40) DEF OwnerAbove, Below, AllocTypeOK, Ordered
  <2> QED BY <2>2, <2>3, ZenonT(40)
<1>7. ASSUME ~overlap' PROVE Disjoint'
  <2>1. \A i \in Nat : \A m \in Node : Mine(m, i)' => Mine(m, i) /\ i # id
    <3>1. \A i \in Nat : \A m \in Node : Mine(m, i)' => Mine(m, i)
      BY DEF Mine, AllocTypeOK
    <3>2. \A m \in Node : ~Mine(m, id)'
      BY <1>3, <1>7, <3>1, ZenonT(40) DEF Disjoint
    <3> HIDE DEF AllocTxnId
    <3> QED BY <3>1, <3>2
  <2>2. \A i \in Nat : Unused(i) /\ i # id => Unused(i)'
    BY <1>4, ZenonT(40) DEF Unused
  <2> HIDE DEF AllocTxnId
  <2>3. Disjoint
    BY <1>7, ZenonT(40) DEF AllocTxnId
  <2> QED BY <2>1, <2>2, <2>3, Zenon DEF Disjoint
<1>8. ASSUME ~overlap' PROVE \A d, e \in Client : Distinct(d, e)'
  <2>1. Unused(id) /\ \A d, e \in Client : Distinct(d, e)
    BY <1>3, <1>8 DEF Disjoint
  <2> QED BY <1>0, <1>3, <2>1, SMTT(30), SMTT(40) DEF Unused, Distinct, AllocTypeOK
<1> QED BY <1>1, <1>2, <1>5, <1>6, <1>7, <1>8, ZenonT(40)

-----------------------------------------------------------------------------

\* Every step keeps the invariant.
LEMMA NextIdInv == IdInv /\ [AllocNext]_allocVars => IdInv'
<1> SUFFICES ASSUME IdInv, [AllocNext]_allocVars PROVE IdInv'
  BY SMTT(30)
<1>1. CASE UNCHANGED allocVars
  BY <1>1 DEF allocVars, IdInv, AllocTypeOK, Ordered, Bounded, OwnerAbove, Below, Disjoint, Mine, Unused, Distinct
<1> QED BY <1>1, LeaderChangeStep, StepLeaderStep, BumpPersistStep, BumpStoreStep, BumpFailStep, StepDownStep,
           AllocTxnIdStep, ZenonT(40) DEF AllocNext

\* The bounds are in order, and the nodes keep disjoint ids that nobody got.
THEOREM IdInductive == AllocSpec => []IdInv
BY InitIdInv, NextIdInv, PTL DEF AllocSpec

\* UniqueIds: alloc_txn_id hands out an id once, however leaders change and whichever old leader goes on,
\* as long as no node raises the bound after another has taken it over (step_leader, bump_txn_id).
THEOREM IdsAreUnique == AllocSpec => []UniqueIds
<1>1. IdInv => UniqueIds
  BY DEF IdInv, UniqueIds
<1> QED BY <1>1, IdInductive, PTL
=============================================================================
