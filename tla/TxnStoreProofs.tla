--------------------------- MODULE TxnStoreProofs ---------------------------
(***************************************************************************)
(* Snapshot isolation of module Txn, for any transactions, readers, keys,  *)
(* versions and number of leader changes: outcomes are final, the first    *)
(* committer wins, every write is computed from the version before it, a   *)
(* Get that was not misled answers with the newest version of its          *)
(* snapshot, and module Txn implements module SnapshotStore.  A            *)
(* transaction takes effect in the step that makes its record COMMITTED, a *)
(* Get reads in the step that answers it, and every other step changes     *)
(* nothing that the store shows.                                           *)
(***************************************************************************)
EXTENDS TxnProofs, TxnHistoryProofs

-----------------------------------------------------------------------------
\* The order of commits

\* Nothing is committed, stored or placed in the initial state.
LEMMA InitOrderInv == Init => OrderInv
<1> SUFFICES ASSUME Init PROVE OrderInv
  OBVIOUS
<1>1. IInv
  BY InitIInv, Zenon
<1>2. /\ \A t \in Txn : commit[t] = 0 /\ record[t] = "none" /\ start[t] = 0
      /\ \A c \in Client : start[c] = 0
      /\ \A k \in Key : intent[k].txn = NoTxn
  BY DEF Init, Client, NoIntent
<1>3. Committed = {}
  BY <1>2 DEF Committed
<1>4. CommitVersionsUnique /\ StartsFresh
  BY <1>2, Zenon DEF CommitVersionsUnique, StartsFresh
<1>5. IntentUnstored /\ IntentLast /\ FirstCommitterWins /\ WritesChained
  BY <1>3, Zenon DEF IntentUnstored, IntentLast, FirstCommitterWins, WritesChained
<1>6. IntentNewest /\ IntentComputed
  BY <1>2, Zenon DEF IntentNewest, IntentComputed
<1> QED BY <1>1, <1>4, <1>5, <1>6, Zenon DEF OrderInv

\* Every step keeps the order.
LEMMA NextOrderInv == OrderInv /\ [Next]_vars => OrderInv'
<1> SUFFICES ASSUME OrderInv, [Next]_vars PROVE OrderInv'
  OBVIOUS
<1>1. CoreStep /\ IInv'
  BY CoreSteps, NextIInv, Zenon DEF OrderInv
<1>2. CommitVersionsUnique' /\ StartsFresh'
  BY <1>1, CommitVersionsStep, StartsStep, Zenon
<1>3. IntentUnstored' /\ IntentNewest' /\ IntentLast' /\ IntentComputed'
  BY <1>1, IntentUnstoredStep, IntentNewestStep, IntentLastStep, IntentComputedStep, Zenon
<1>4. FirstCommitterWins' /\ WritesChained'
  BY <1>1, FirstCommitterStep, WritesChainedStep, Zenon
<1> QED BY <1>1, <1>2, <1>3, <1>4, Zenon DEF OrderInv

\* The order holds in every reachable state.
LEMMA OrderInductive == Spec => []OrderInv
BY InitOrderInv, NextOrderInv, PTL DEF Spec

\* Of two transactions that commit a write of one key, the later one started after the other committed,
\* unless it is an unconditional add: write_intent looks for newer versions under the row latch, and
\* commit versions are taken only when every intent is in place.
THEOREM FirstCommitterAlwaysWins == Spec => []FirstCommitterWins
<1>1. OrderInv => FirstCommitterWins
  BY Zenon DEF OrderInv
<1> QED BY <1>1, OrderInductive, PTL

\* Every committed write was computed from the version right before it and met its condition there: no
\* increment is lost and of two conditional inserts one fails, whoever resolves which intent when.
THEOREM WritesAreChained == Spec => []WritesChained
<1>1. OrderInv => WritesChained
  BY Zenon DEF OrderInv
<1> QED BY <1>1, OrderInductive, PTL

\* A stored version is never overwritten and a decided record never flips, in every step of every
\* behaviour: late, repeated and concurrent commits, aborts and resolutions change nothing.
THEOREM OutcomesAreFinal == Spec => OutcomeStable
<1> DEFINE Stable ==
       /\ \A k \in Key, v \in Version : store[k][v] # Absent => store'[k][v] = store[k][v]
       /\ \A t \in Txn : record[t] \in {"committed", "aborted"} => record'[t] = record[t]
<1>1. OrderInv /\ [Next]_vars => [Stable]_vars
  <2> SUFFICES ASSUME OrderInv, [Next]_vars PROVE Stable
    OBVIOUS
  <2>0. IInv /\ IntentUnstored /\ CoreStep
    BY CoreSteps, Zenon DEF OrderInv
  <2>1. \A t \in Txn : record[t] \in {"committed", "aborted"} => record'[t] = record[t]
    BY <2>0, TxnSteps, Zenon DEF TxnStep
  <2>2. ASSUME NEW k \in Key, NEW v \in Version, store[k][v] # Absent PROVE store'[k][v] = store[k][v]
    <3>1. CASE store'[k] = store[k]
      BY <3>1, Zenon
    <3>2. ASSUME NEW t \in Txn, Applies(t, k) PROVE store'[k][v] = store[k][v]
      BY <2>0, <2>2, <3>2, ApplyFillsAbsent, ZenonT(40) DEF Fills
    <3>3. ASSUME NEW t \in Txn, Places(t, k) PROVE store'[k] = store[k]
      BY <3>3, Zenon DEF Places
    <3> QED BY <2>0, <3>1, <3>2, <3>3, KeySteps DEF KeyStep
  <2> QED BY <2>1, <2>2, Zenon
<1> QED BY <1>1, OrderInductive, PTL DEF Spec, OutcomeStable

-----------------------------------------------------------------------------
\* A Get resolves an intent

\* The answer of a Get that resolved its intent, or was told to trust it, at version c.
LEMMA ResolvedKeeps ==
    ASSUME OrderInv, CoreStep, NEW q \in Request, q.kind = "get", GetInv(q), pc[q] \in InFlight,
           NEW c \in Nat, c < ts,
           pc' = [pc EXCEPT ![q] = "done"],
           result' = [result EXCEPT ![q] =
               IF c \in 1 .. start[q.client] THEN [version |-> c, content |-> AsContent(met[q].value)]
               ELSE rest[q]],
           UNCHANGED <<met, signal, commit, record>>,
           record[met[q].txn] # "running",
           ~Misled(q)' => IF record[met[q].txn] = "committed" THEN c = commit[met[q].txn] ELSE c = 0
    PROVE  GetInv(q)'
<1>0. IInv /\ CommitVersionsUnique
  BY Zenon DEF OrderInv
<1>1. PICK s : s = start[q.client]
  BY Zenon
<1>2. PICK k : k = q.key
  BY Zenon
<1>3. PICK t : t = met[q].txn
  BY Zenon
<1>4. pc[q] # "none" /\ ResolvesSnapshot(q)
  BY Zenon DEF GetInv, InFlight
<1>6. pc \in [Request -> PC] /\ result \in [Request -> Entry \cup {NoEntry}]
  BY <1>0, ZenonT(40) DEF IInv, TypeOK
<1>7. k \in Key /\ s \in Nat /\ s # 0 /\ s < ts /\ start'[q.client] = s /\ ts \in Nat
  <2>1. s # 0
    BY <1>1, <1>4, Zenon DEF GetInv
  <2> QED BY <1>1, <1>2, <2>1, GetFacts DEF GetTyped
<1>8. /\ t \in Txn /\ record[t] # "none" /\ rest[q] \in ReadAt(Without(Logical[k], commit[t]), UpTo(s))
      /\ intent[k].txn \notin {NoTxn, t} /\ commit[intent[k].txn] # 0 => commit[intent[k].txn] > s
  BY <1>1, <1>2, <1>3, <1>4, Zenon DEF ResolvesSnapshot
<1>9. pc'[q] = "done"
  BY <1>6
<1>10. result'[q] = IF c \in 1 .. s THEN [version |-> c, content |-> AsContent(met[q].value)] ELSE rest[q]
  BY <1>1, <1>6
<1>11. Settled(k, s)
  <2>1. record[t] # "running"
    BY <1>3, Zenon
  <2> QED BY <1>8, <2>1 DEF Settled
<1>12. rest[q].version \in Nat /\ rest[q].version < ts
  BY <1>0, <1>7, <1>8, ReadBelow
<1>13. result'[q].version \in Nat /\ result'[q].version < ts
  <2>1. CASE c \in 1 .. s
    <3>1. result'[q].version = c
      BY <1>10, <2>1
    <3> QED BY <3>1, Zenon
  <2>2. CASE c \notin 1 .. s
    BY <1>10, <1>12, <2>2
  <2> QED BY <2>1, <2>2, Zenon
<1>14. ASSUME ~Misled(q)', ~ReadsNop(q)' PROVE result'[q] \in ReadAt(Logical[k], UpTo(s))
  <2>1. CASE record[t] = "committed"
    <3>1. c = commit[t] /\ c # 0
      BY <1>0, <1>3, <1>8, <1>14, <2>1, ZenonT(40) DEF IInv, RecordOfClient
    <3>2. CASE c <= s
      <4>1. c \in 1 .. s
        BY <1>7, <3>1, <3>2
      <4>2. result'[q] = [version |-> c, content |-> AsContent(met[q].value)] /\ result'[q].version = c
        BY <1>10, <4>1
      <4>3. met[q].value # Nop
        <5>1. ASSUME met[q].value = Nop PROVE FALSE
          <6>1. met'[q] = met[q] /\ commit' = commit /\ t # NoTxn
            BY <1>8, TxnAssumption, Zenon
          <6>2. ReadsNop(q)'
            BY <1>3, <3>1, <4>2, <5>1, <6>1, ZenonT(40) DEF ReadsNop
          <6> QED BY <1>14, <6>2, Zenon
        <5> QED BY <5>1, Zenon
      <4>4. AsContent(met[q].value) = met[q].value
        BY <4>3, Zenon DEF AsContent
      <4>5. [version |-> commit[met[q].txn], content |-> met[q].value] \in ReadAt(Logical[q.key], UpTo(start[q.client]))
        <5>1. record[met[q].txn] = "committed" /\ commit[met[q].txn] <= start[q.client]
          BY <1>1, <1>3, <2>1, <3>1, <3>2, Zenon
        <5> QED BY <1>0, <1>4, <4>3, <5>1, MetIsAnswer DEF MetAnswers
      <4> QED BY <1>1, <1>2, <1>3, <3>1, <4>2, <4>4, <4>5, ZenonT(40)
    <3>3. CASE ~(c <= s)
      <4>1. result'[q] = rest[q]
        BY <1>7, <1>10, <3>3
      <4>2. \A v \in UpTo(s) : v # c
        BY <3>3, Zenon DEF UpTo
      <4>3. \A v \in UpTo(start[q.client]) : v = commit[met[q].txn] => Logical[q.key][v] = Absent
        BY <1>1, <1>3, <3>1, <4>2, ZenonT(40)
      <4>4. rest[q] \in ReadAt(Logical[q.key], UpTo(start[q.client]))
        BY <1>0, <1>1, <1>4, <1>7, <4>3, RestIsAnswer, ZenonT(40) DEF RestAnswers
      <4> QED BY <1>1, <1>2, <4>1, <4>4, ZenonT(40)
    <3> QED BY <3>2, <3>3, Zenon
  <2>2. CASE record[t] # "committed"
    <3>1. c = 0
      BY <1>3, <1>14, <2>2, ZenonT(40)
    <3>2. result'[q] = rest[q]
      BY <1>7, <1>10, <3>1
    <3>3. ASSUME NEW v \in UpTo(s), v = commit[t] PROVE Logical[k][v] = Absent
      <4>1. v \in Version /\ v # 0
        BY <1>0, Numbers, Zenon DEF IdsTyped, UpTo
      <4>2. store[k][v] = Absent
        BY <1>0, <1>7, <1>8, <2>2, <3>3, <4>1, NotYetStored, ZenonT(40)
      <4>3. ~(intent[k].txn \in Txn /\ record[intent[k].txn] = "committed" /\ commit[intent[k].txn] = v)
        BY <1>0, <1>8, <2>2, <3>3, <4>1, ZenonT(40) DEF CommitVersionsUnique
      <4> QED BY <1>7, <4>1, <4>2, <4>3, LogicalIs DEF LogicalAt
    <3>4. rest[q] \in ReadAt(Logical[q.key], UpTo(start[q.client]))
      <4>1. \A v \in UpTo(start[q.client]) : v = commit[met[q].txn] => Logical[q.key][v] = Absent
        BY <1>1, <1>2, <1>3, <3>3, Zenon
      <4> QED BY <1>0, <1>1, <1>4, <1>7, <4>1, RestIsAnswer DEF RestAnswers
    <3> QED BY <1>1, <1>2, <3>2, <3>4, Zenon
  <2> QED BY <2>1, <2>2, Zenon
<1> QED BY <1>1, <1>2, <1>4, <1>9, <1>11, <1>13, <1>14, AnswerStep DEF AnswersSnapshot

\* The resolutions of an intent by a Get, and the answer of a Get that was woken.
LEMMA ResolvesKeep ==
    ASSUME OrderInv, CoreStep, NEW q \in Request, q.kind = "get", GetInv(q),
           ResolveCommitted(q) \/ ResolveAborted(q) \/ GetWoken(q)
    PROVE  GetInv(q)'
<1>0. IInv /\ CommitVersionsUnique
  BY Zenon DEF OrderInv
<1>1. CASE ResolveCommitted(q)
  <2>1. /\ pc[q] = "resolve" /\ record[met[q].txn] = "committed"
        /\ UNCHANGED <<met, signal, commit, record>>
        /\ Resolved(q, [version |-> commit[met[q].txn], content |-> AsContent(met[q].value)])
    BY <1>1, Zenon DEF ResolveCommitted, rootVars, clientVars, recordVars
  <2>2. PICK c : c = commit[met[q].txn]
    BY Zenon
  <2>3. c \in Nat /\ c < ts
    <3>1. met[q].txn \in Txn
      BY <1>0, <2>1, ResolvesIntent
    <3>2. c # 0
      BY <1>0, <2>1, <2>2, <3>1, ZenonT(40) DEF IInv, RecordOfClient
    <3> QED BY <1>0, <2>2, <3>1, <3>2, Numbers, ZenonT(40) DEF IdsTyped, CommitVersionsUnique
  <2>4. /\ pc' = [pc EXCEPT ![q] = "done"]
        /\ result' = [result EXCEPT ![q] =
               IF c \in 1 .. start[q.client] THEN [version |-> c, content |-> AsContent(met[q].value)]
               ELSE rest[q]]
    <3> DEFINE e == [version |-> c, content |-> AsContent(met[q].value)]
    <3>1. e.version = c
      OBVIOUS
    <3>2. Resolved(q, e)
      BY <2>1, <2>2, Zenon
    <3> HIDE DEF e
    <3>3. /\ pc' = [pc EXCEPT ![q] = "done"]
          /\ result' = [result EXCEPT ![q] = IF c \in 1 .. start[q.client] THEN e ELSE rest[q]]
      BY <3>1, <3>2, Zenon DEF Resolved, Finish
    <3> QED BY <3>3, Zenon DEF e
  <2>5. pc[q] \in InFlight /\ record[met[q].txn] # "running"
    BY <2>1 DEF InFlight
  <2> QED BY <2>1, <2>2, <2>3, <2>4, <2>5, ResolvedKeeps, Zenon
<1>2. CASE ResolveAborted(q)
  <2>1. /\ pc[q] = "resolve" /\ record[met[q].txn] = "aborted"
        /\ UNCHANGED <<met, signal, commit, record>>
        /\ Resolved(q, NoEntry)
    BY <1>2, Zenon DEF ResolveAborted, rootVars, clientVars, recordVars
  <2>3. 0 \in Nat /\ 0 < ts
    <3>1. start[q.client] # 0
      BY <2>1 DEF GetInv
    <3> QED BY <3>1, GetFacts DEF GetTyped
  <2>4. /\ pc' = [pc EXCEPT ![q] = "done"]
        /\ result' = [result EXCEPT ![q] =
               IF 0 \in 1 .. start[q.client] THEN [version |-> 0, content |-> AsContent(met[q].value)]
               ELSE rest[q]]
    <3>1. 0 \notin 1 .. start[q.client]
      BY GetFacts DEF GetTyped
    <3>2. NoEntry.version = 0
      BY DEF NoEntry
    <3> QED BY <2>1, <3>1, <3>2, Zenon DEF Resolved, Finish
  <2>5. pc[q] \in InFlight /\ record[met[q].txn] # "running" /\ record[met[q].txn] # "committed"
    BY <2>1 DEF InFlight
  <2> QED BY <2>1, <2>3, <2>4, <2>5, ResolvedKeeps, Zenon
<1>3. CASE GetWoken(q)
  <2>1. /\ pc[q] = "woken"
        /\ UNCHANGED <<met, signal, commit, record>>
        /\ Resolved(q, [version |-> signal[q], content |-> AsContent(met[q].value)])
    BY <1>3, Zenon DEF GetWoken, rootVars, clientVars, recordVars
  <2>2. PICK c : c = signal[q]
    BY Zenon
  <2>3. PICK u \in Committed : c = commit[u]
    BY <2>1, <2>2, Zenon DEF GetInv
  <2>4. u \in Txn /\ record[u] = "committed" /\ c # 0 /\ c \in Nat /\ c < ts
    BY <1>0, <2>3, CommittedStays, Numbers, Zenon DEF StaysCommitted, IdsTyped, CommitVersionsUnique
  <2>5. /\ pc' = [pc EXCEPT ![q] = "done"]
        /\ result' = [result EXCEPT ![q] =
               IF c \in 1 .. start[q.client] THEN [version |-> c, content |-> AsContent(met[q].value)]
               ELSE rest[q]]
    <3> DEFINE e == [version |-> c, content |-> AsContent(met[q].value)]
    <3>1. e.version = c
      OBVIOUS
    <3>2. Resolved(q, e)
      BY <2>1, <2>2, Zenon
    <3> HIDE DEF e
    <3>3. /\ pc' = [pc EXCEPT ![q] = "done"]
          /\ result' = [result EXCEPT ![q] = IF c \in 1 .. start[q.client] THEN e ELSE rest[q]]
      BY <3>1, <3>2, Zenon DEF Resolved, Finish
    <3> QED BY <3>3, Zenon DEF e
  <2>6. pc[q] \in InFlight /\ record[met[q].txn] # "running"
    BY <2>1 DEF InFlight, GetInv
  <2>7. ASSUME ~Misled(q)' PROVE record[met[q].txn] = "committed" /\ c = commit[met[q].txn]
    <3>1. c = commit[met[q].txn] /\ met[q].txn \in Txn
      <4>1. met'[q] = met[q] /\ signal'[q] = c /\ commit' = commit
        BY <2>1, <2>2, Zenon
      <4>2. c = commit[met[q].txn]
        BY <2>4, <2>7, <4>1, Zenon DEF Misled
      <4> QED BY <2>6, <4>2, Zenon DEF GetInv, ResolvesSnapshot
    <3>2. met[q].txn = u
      BY <1>0, <2>3, <2>4, <3>1, Zenon DEF CommitVersionsUnique
    <3> QED BY <2>4, <3>1, <3>2, Zenon
  <2> QED BY <2>1, <2>4, <2>5, <2>6, <2>7, ResolvedKeeps, ZenonT(40)
<1> QED BY <1>1, <1>2, <1>3, Zenon

\* No Get has been sent in the initial state.
LEMMA InitHistoryInv == Init => HistoryInv
<1> SUFFICES ASSUME Init PROVE HistoryInv
  OBVIOUS
<1>1. OrderInv
  BY InitOrderInv, Zenon
<1>2. ASSUME NEW q \in Request PROVE GetInv(q)
  <2>1. pc[q] = "none" /\ signal[q] = 0
    BY Zenon DEF Init
  <2>2. pc[q] \notin InFlight /\ pc[q] # "woken" /\ pc[q] # "done"
    BY <2>1 DEF InFlight
  <2> QED BY <2>1, <2>2, Zenon DEF GetInv
<1> QED BY <1>1, <1>2, HistoryIsGets, Zenon

\* Every step keeps the history.
LEMMA NextHistoryInv == HistoryInv /\ [Next]_vars => HistoryInv'
<1> SUFFICES ASSUME HistoryInv, [Next]_vars PROVE HistoryInv'
  OBVIOUS
<1>1. OrderInv /\ \A q \in Request : q.kind = "get" => GetInv(q)
  BY HistoryIsGets, Zenon
<1>2. IInv /\ CoreStep /\ OrderInv'
  BY <1>1, CoreSteps, NextOrderInv, Zenon DEF OrderInv
<1>3. ASSUME NEW q \in Request, q.kind = "get" PROVE GetInv(q)'
  <2>1. GetInv(q)
    BY <1>1, <1>3, Zenon
  <2>2. CASE Calm(q)
    BY <1>1, <1>2, <1>3, <2>1, <2>2, CalmStep, Zenon
  <2>3. CASE GetSnapshot(q)
    BY <1>1, <1>2, <1>3, <2>1, <2>3, GetSnapshotKeeps, Zenon
  <2>4. CASE GetReread(q)
    BY <1>1, <1>2, <1>3, <2>1, <2>4, GetRereadKeeps, Zenon
  <2>5. CASE ResolveCommitted(q) \/ ResolveAborted(q) \/ GetWoken(q)
    BY <1>1, <1>2, <1>3, <2>1, <2>5, ResolvesKeep, ZenonT(40)
  <2> QED BY <1>2, <1>3, <2>2, <2>3, <2>4, <2>5, GetSteps, Zenon
<1> QED BY <1>2, <1>3, HistoryIsGets, Zenon

\* The history that versions and intents stand for is kept by every step of every behaviour.
THEOREM HistoryInductive == Spec => []HistoryInv
BY InitHistoryInv, NextHistoryInv, PTL DEF Spec

\* A finished Get returned the newest version at or below its start version of those that have taken
\* effect, and nothing that commits later changes that, through every resolution, wake-up, retry and
\* leader change (the Gets misled by a signal of another transaction or a Nop intent excepted).
THEOREM ReadsAreSnapshots == Spec => []SnapshotRead
<1>1. HistoryInv => SnapshotRead
  BY Zenon DEF HistoryInv
<1> QED BY <1>1, HistoryInductive, PTL

-----------------------------------------------------------------------------
\* What readers have got

\* What a Get shows of itself.
Shown(q) == Answered(q) /\ ~Misled(q) /\ ~ReadsNop(q)

\* The answers of the Gets.
LEMMA ReadsIs ==
    ASSUME NEW r \in Reader, NEW k \in Key
    PROVE  \E q \in Request :
              /\ q.kind = "get" /\ q.client = r /\ q.key = k
              /\ Reads[r][k] = IF Shown(q) THEN <<result[q]>> ELSE <<>>
              /\ Reads'[r][k] = IF Shown(q)' THEN <<result'[q]>> ELSE <<>>
              /\ \A x \in Request : x.kind = "get" /\ x.client = r /\ x.key = k => x = q
<1>1. PICK q : q = [kind |-> "get", client |-> r, key |-> k]
  BY Zenon
<1>2. q \in Gets(r)
  BY <1>1 DEF Gets
<1>3. q \in Request
  BY <1>2 DEF Request
<1>4. q.kind = "get" /\ q.client = r /\ q.key = k
  BY <1>1
<1>5. Reads[r][k] = IF Shown(q) THEN <<result[q]>> ELSE <<>>
  BY <1>1, Zenon DEF Reads, Shown
<1>6. Reads'[r][k] = IF Shown(q)' THEN <<result'[q]>> ELSE <<>>
  BY <1>1, Zenon DEF Reads, Shown
<1>7. ASSUME NEW x \in Request, x.kind = "get", x.client = r, x.key = k PROVE x = q
  <2>1. PICK y \in Reader : x \in Gets(y)
    <3>1. \A t \in Txn : x \notin WriteIntents(t) /\ x \notin CommitIntents(t)
      BY <1>7 DEF WriteIntents, CommitIntents
    <3> QED BY <1>7, <3>1 DEF Request
  <2> QED BY <1>1, <1>7, <2>1 DEF Gets
<1> QED BY <1>3, <1>4, <1>5, <1>6, <1>7, Zenon

\* A Get that neither reads nor answers shows the same.
LEMMA CalmShows ==
    ASSUME HistoryInv, CoreStep, NEW q \in Request, q.kind = "get", Calm(q)
    PROVE  (Shown(q)' <=> Shown(q)) /\ result'[q] = result[q]
<1>0. OrderInv /\ GetInv(q)
  BY HistoryIsGets, Zenon
<1>1. IInv /\ CommitVersionsUnique
  BY <1>0, Zenon DEF OrderInv
<1>2. met'[q] = met[q] /\ result'[q] = result[q]
  BY Zenon DEF Calm
<1>3. met[q].txn \in Txn \/ met[q] = NoIntent
  BY <1>0, GetFacts DEF GetTyped
<1>4. ts \in Nat /\ NoIntent.txn = NoTxn
  BY <1>0, GetFacts DEF GetTyped
<1>5. pc'[q] = "done" => pc[q] = "done"
  BY DEF Calm
<1>6. pc[q] = "done" => pc'[q] = "done" /\ signal'[q] = signal[q]
  <2> SUFFICES ASSUME pc[q] = "done" PROVE pc'[q] = "done" /\ signal'[q] = signal[q]
    OBVIOUS
  <2>1. start[q.client] # 0
    BY <1>0 DEF GetInv
  <2> QED BY <2>1 DEF Calm, InFlight
<1>7. ASSUME pc[q] = "done" PROVE Misled(q)' <=> Misled(q)
  <2>1. signal'[q] = signal[q]
    BY <1>6, <1>7, Zenon
  <2>2. CASE signal[q] = 0
    BY <2>1, <2>2, Zenon DEF Misled
  <2>3. CASE signal[q] # 0
    <3>1. PICK u \in Committed : signal[q] = commit[u]
      BY <1>0, <2>3, Zenon DEF GetInv
    <3>2. met[q].txn \in Txn /\ commit[u] < ts
      BY <1>0, <1>1, <1>3, <1>4, <2>3, <3>1, ZenonT(40) DEF GetInv, CommitVersionsUnique, Committed
    <3>3. signal[q] # ts
      <4>1. commit[u] \in Nat /\ ts \in Nat
        BY <1>1, <1>4, <3>1, Numbers, Zenon DEF IdsTyped, Committed
      <4> QED BY <3>1, <3>2, <4>1
    <3>4. commit'[met[q].txn] = signal[q] <=> commit[met[q].txn] = signal[q]
      BY <1>1, <2>3, <3>2, <3>3, TxnSteps DEF TxnStep
    <3> QED BY <1>2, <2>1, <3>4, Zenon DEF Misled
  <2> QED BY <2>2, <2>3, Zenon
<1>8. ASSUME pc[q] = "done" PROVE ReadsNop(q)' <=> ReadsNop(q)
  <2>1. CASE met[q].txn = NoTxn
    BY <1>2, <2>1, Zenon DEF ReadsNop
  <2>2. CASE met[q].txn # NoTxn
    <3>1. met[q].txn \in Txn /\ result[q].version < ts
      BY <1>0, <1>3, <1>4, <1>8, <2>2, Zenon DEF GetInv
    <3>2. result[q].version # ts
      <4>1. result[q].version \in Nat
        BY <1>1, ResultVersion
      <4> QED BY <1>4, <3>1, <4>1
    <3>3. result[q].version # 0 =>
             (commit'[met[q].txn] = result[q].version <=> commit[met[q].txn] = result[q].version)
      BY <1>1, <3>1, <3>2, TxnSteps DEF TxnStep
    <3> QED BY <1>2, <3>3, Zenon DEF ReadsNop
  <2> QED BY <2>1, <2>2, Zenon
<1> QED BY <1>2, <1>5, <1>6, <1>7, <1>8, Zenon DEF Shown, Answered

\* A Get that reads or answers does so in a step of its own, which changes no record and no id.
LEMMA OwnStep ==
    ASSUME HistoryInv, [Next]_vars, NEW q \in Request, q.kind = "get", ~Calm(q)
    PROVE  /\ RequestStep(q) /\ pc[q] # "done" /\ pc[q] # "none"
           /\ UNCHANGED <<start, commit, record>>
<1>0. IInv
  BY Zenon DEF HistoryInv, OrderInv
<1>1. GetSnapshot(q) \/ GetReread(q) \/ GetWoken(q) \/ ResolveCommitted(q) \/ ResolveAborted(q)
  BY <1>0, GetSteps, Zenon
<1>2. RequestStep(q)
  BY <1>1, Zenon DEF RequestStep, Resolve
<1>3. UNCHANGED <<start, commit, record>>
  BY <1>1, Zenon DEF GetSnapshot, GetReread, GetWoken, ResolveCommitted, ResolveAborted, clientVars, recordVars
<1>4. pc[q] \in {"sent", "reread", "woken", "resolve"}
  BY <1>1, Zenon DEF GetSnapshot, GetReread, GetWoken, ResolveCommitted, ResolveAborted
<1>5. pc[q] # "done" /\ pc[q] # "none"
  BY <1>4
<1> QED BY <1>2, <1>3, <1>5, Zenon

\* What has taken effect stays the same when every version of every key does.
LEMMA LogicalSame ==
    ASSUME \A k \in Key, v \in Version : Logical'[k][v] = Logical[k][v]
    PROVE  Logical' = Logical
<1>1. Logical = [k \in Key |-> [v \in Version |-> Logical[k][v]]]
  BY Zenon DEF Logical
<1>2. Logical' = [k \in Key |-> [v \in Version |-> Logical'[k][v]]]
  BY Zenon DEF Logical
<1> QED BY <1>1, <1>2, Zenon

\* Without a commit, nothing takes effect.
LEMMA NoCommit ==
    ASSUME OrderInv, CoreStep, ~ \E t \in Txn : Decides(t, "committed")
    PROVE  Logical' = Logical /\ Committed' = Committed
<1>0. IInv
  BY Zenon DEF OrderInv
<1>1. Logical' = Logical
  <2>1. \A k \in Key, v \in Version : Logical'[k][v] = Logical[k][v]
    BY LogicalSteps DEF LogicalStep
  <2> QED BY <2>1, LogicalSame, ZenonT(40)
<1>2. \A t \in Txn : record'[t] = "committed" <=> record[t] = "committed"
  BY <1>0, TxnSteps DEF TxnStep
<1>3. Committed' = Committed
  BY <1>2, Zenon DEF Committed
<1> QED BY <1>1, <1>3, Zenon

\* A function of readers and keys.
IsTable(f) == f = [r \in Reader |-> [k \in Key |-> f[r][k]]]

LEMMA ReadsAreTables == IsTable(Reads) /\ IsTable(Reads')
BY Zenon DEF Reads, IsTable

LEMMA SameTable ==
    ASSUME NEW f, NEW g, IsTable(f), IsTable(g), \A r \in Reader, k \in Key : g[r][k] = f[r][k]
    PROVE  g = f
BY Zenon DEF IsTable

\* ReadAt is what the store calls Newest, and has one element.
LEMMA NewestIs ==
    /\ \A versions, among : Store!Newest(versions, among) = ReadAt(versions, among)
    /\ \A versions, e, f : e \in ReadAt(versions, Version) /\ f \in ReadAt(versions, Version) => e = f
<1>1. \A versions, among : Store!Newest(versions, among) = ReadAt(versions, among)
  BY Zenon DEF Store!Newest, ReadAt, NoEntry
<1>2. ASSUME NEW versions, NEW e \in ReadAt(versions, Version), NEW f \in ReadAt(versions, Version)
      PROVE  e = f
  <2>1. CASE \A v \in Version : versions[v] = Absent
    <3>1. e = NoEntry
      BY <2>1, ReadAtIs
    <3>2. f = NoEntry
      BY <2>1, ReadAtIs
    <3> QED BY <3>1, <3>2, Zenon
  <2>2. CASE ~ \A v \in Version : versions[v] = Absent
    <3>1. PICK v \in Version : /\ versions[v] # Absent
                               /\ e = [version |-> v, content |-> versions[v]]
                               /\ \A w \in Version : versions[w] # Absent => w <= v
      BY <2>2, ReadAtIs
    <3>2. PICK w \in Version : /\ versions[w] # Absent
                               /\ f = [version |-> w, content |-> versions[w]]
                               /\ \A x \in Version : versions[x] # Absent => x <= w
      BY <2>2, ReadAtIs
    <3>3. v <= w /\ w <= v /\ v \in Nat /\ w \in Nat
      BY <3>1, <3>2, TxnAssumption
    <3>4. v = w
      BY <3>3
    <3> QED BY <3>1, <3>2, <3>4, Zenon
  <2> QED BY <2>1, <2>2, Zenon
<1> QED BY <1>1, <1>2, Zenon

\* Two tables that differ in one entry at most.
DifferAt(f, g, s, l) == \A r \in Reader, k \in Key : ~(r = s /\ k = l) => g[r][k] = f[r][k]

LEMMA OneEntry ==
    ASSUME NEW f, NEW g, IsTable(f), IsTable(g), NEW s \in Reader, NEW l \in Key, DifferAt(f, g, s, l)
    PROVE  g = [f EXCEPT ![s][l] = g[s][l]]
<1> DEFINE e == g[s][l]
           h == [f EXCEPT ![s][l] = e]
<1>0. f = [r \in Reader |-> [k \in Key |-> f[r][k]]] /\ g = [r \in Reader |-> [k \in Key |-> g[r][k]]]
  BY Zenon DEF IsTable
<1>1. h = [r \in Reader |-> IF r = s THEN [f[r] EXCEPT ![l] = e] ELSE f[r]]
  BY <1>0, Zenon
<1>2. ASSUME NEW r \in Reader PROVE g[r] = h[r]
  <2>1. f[r] = [k \in Key |-> f[r][k]] /\ g[r] = [k \in Key |-> g[r][k]]
    BY <1>0
  <2>2. CASE r # s
    <3>1. h[r] = f[r]
      BY <1>1, <2>2, Zenon
    <3>2. \A k \in Key : g[r][k] = f[r][k]
      BY <2>2, Zenon DEF DifferAt
    <3> QED BY <2>1, <3>1, <3>2, Zenon
  <2>3. CASE r = s
    BY <1>1, <2>1, <2>3 DEF DifferAt
  <2> QED BY <2>2, <2>3, Zenon
<1>3. g = [r \in Reader |-> g[r]]
  BY <1>0, Zenon
<1> QED BY <1>1, <1>2, <1>3, Zenon

\* A step in which some Get reads or answers is a read of the store, or shows nothing.
LEMMA ReadStep ==
    ASSUME HistoryInv, HistoryInv', [Next]_vars, NEW q \in Request, q.kind = "get", ~Calm(q)
    PROVE  \/ \E r \in Reader, k \in Key : Store!Read(r, k)
           \/ UNCHANGED <<start, Committed, Logical, Reads>>
<1>0. OrderInv /\ IInv /\ CoreStep
  BY CoreSteps, Zenon DEF HistoryInv, OrderInv
<1>1. RequestStep(q) /\ pc[q] # "done" /\ pc[q] # "none" /\ UNCHANGED <<start, commit, record>>
  BY OwnStep, Zenon
<1>2. Logical' = Logical /\ Committed' = Committed
  <2>1. ASSUME NEW t \in Txn, Decides(t, "committed") PROVE FALSE
    <3>1. record[t] = "running" /\ record' = [record EXCEPT ![t] = "committed"] /\ record' = record
      BY <1>1, <2>1, Zenon DEF Decides
    <3>2. record \in [Txn -> RecordState]
      BY <1>0, ZenonT(40) DEF IInv, TypeOK
    <3> QED BY <3>1, <3>2
  <2> QED BY <1>0, <2>1, NoCommit
<1>3. PICK r \in Reader : r = q.client
  BY RequestParts, Zenon DEF PartsOfRequests
<1>4. PICK k \in Key : k = q.key
  BY RequestParts, Zenon DEF PartsOfRequests
<1>5. ~Shown(q)
  BY <1>1, Zenon DEF Shown, Answered
<1>6. /\ Reads[r][k] = <<>>
      /\ Reads'[r][k] = IF Shown(q)' THEN <<result'[q]>> ELSE <<>>
  <2>1. PICK x \in Request :
              /\ Reads[r][k] = IF Shown(x) THEN <<result[x]>> ELSE <<>>
              /\ Reads'[r][k] = IF Shown(x)' THEN <<result'[x]>> ELSE <<>>
              /\ q = x
    BY <1>3, <1>4, ReadsIs
  <2> QED BY <1>5, <2>1
<1>7. ASSUME NEW s \in Reader, NEW l \in Key, ~(s = r /\ l = k) PROVE Reads'[s][l] = Reads[s][l]
  <2>1. PICK x \in Request :
              /\ x.kind = "get" /\ x.client = s /\ x.key = l
              /\ Reads[s][l] = IF Shown(x) THEN <<result[x]>> ELSE <<>>
              /\ Reads'[s][l] = IF Shown(x)' THEN <<result'[x]>> ELSE <<>>
              /\ \A y \in Request : y.kind = "get" /\ y.client = s /\ y.key = l => y = x
    BY ReadsIs, Zenon
  <2>2. x # q
    BY <1>3, <1>4, <1>7, <2>1, ZenonT(40)
  <2>3. Calm(x)
    BY <1>0, <1>1, <2>1, <2>2, OtherRequest, ZenonT(40)
  <2>4. (Shown(x)' <=> Shown(x)) /\ result'[x] = result[x]
    BY <1>0, <2>1, <2>3, CalmShows
  <2> QED BY <2>1, <2>4
<1>8. CASE ~Shown(q)'
  <2>1. \A s \in Reader, l \in Key : Reads'[s][l] = Reads[s][l]
    BY <1>6, <1>7, <1>8
  <2>2. Reads' = Reads
    BY <2>1, ReadsAreTables, SameTable
  <2> QED BY <1>1, <1>2, <2>2, ZenonT(40)
<1>9. CASE Shown(q)'
  <2>1. result'[q] \in ReadAt(Logical[k], UpTo(start[r]))
    <3>1. result'[q] \in ReadAt(Logical'[q.key], UpTo(start'[q.client]))
      BY <1>9, Zenon DEF Shown, HistoryInv, SnapshotRead
    <3> QED BY <1>1, <1>2, <1>3, <1>4, <3>1, ZenonT(40)
  <2>2. Reads' = [Reads EXCEPT ![r][k] = <<result'[q]>>]
    <3>1. Reads'[r][k] = <<result'[q]>>
      BY <1>6, <1>9, Zenon
    <3>2. PICK f : f = Reads
      BY Zenon
    <3>3. PICK g : g = Reads'
      BY Zenon
    <3>5. IsTable(f) /\ IsTable(g)
      BY <3>2, <3>3, ReadsAreTables, Zenon
    <3>6. DifferAt(f, g, r, k)
      BY <1>7, <3>2, <3>3, ZenonT(40) DEF DifferAt
    <3>7. g = [f EXCEPT ![r][k] = g[r][k]]
      BY <1>3, <1>4, <3>5, <3>6, OneEntry, ZenonT(40)
    <3> QED BY <3>1, <3>2, <3>3, <3>7, ZenonT(40)
  <2>3. start[r] # 0
    <3>1. GetInv(q)
      BY HistoryIsGets, Zenon
    <3> QED BY <1>1, <1>3, <3>1, Zenon DEF GetInv
  <2>4. Store!Read(r, k)
    BY <1>1, <1>2, <1>6, <2>1, <2>2, <2>3, NewestIs, ZenonT(40) DEF Store!Read, UpTo
  <2> QED BY <2>4, Zenon
<1> QED BY <1>8, <1>9, Zenon

-----------------------------------------------------------------------------
\* A commit takes effect

\* The write of t on k was computed from the latest version.
ComputedFromLatest(t, k) ==
    /\ k \in Key /\ intent[k].txn = t
    /\ Store!Latest(k) \in ReadAt(store[k], Version)
    /\ EvalConditions(Write[t][k].cond, Store!Latest(k))
    /\ intent[k].value = ApplyPutOp(t, k, Store!Latest(k))

\* While its record is RUNNING, a transaction that has a commit version finds under its intent what the
\* store calls the latest version of the key, from which its write was computed.
LEMMA LatestIs ==
    ASSUME OrderInv, NEW t \in Txn, record[t] = "running", commit[t] # 0, NEW k \in KeysOf(t)
    PROVE  ComputedFromLatest(t, k)
<1> USE DEF ComputedFromLatest
<1>0. IInv /\ IntentComputed
  BY Zenon DEF OrderInv
<1>1. k \in Key /\ intent[k].txn = t
  BY <1>0, RunningIntent, ZenonT(40)
<1>2. t # NoTxn
  BY TxnAssumption
<1>3. PICK prev \in ReadAt(store[k], Version) :
            EvalConditions(Write[t][k].cond, prev) /\ intent[k].value = ApplyPutOp(t, k, prev)
  BY <1>0, <1>1, <1>2, ZenonT(40) DEF IntentComputed, ReadNextKey
<1>4. \A v \in Version : Logical[k][v] = store[k][v]
  <2>1. record[intent[k].txn] # "committed"
    BY <1>1
  <2> QED BY <1>1, <2>1, LogicalIs, ZenonT(40) DEF LogicalAt
<1>5. prev \in ReadAt(Logical[k], Version)
  BY <1>3, <1>4, ReadAtSame
<1>6. prev \in Store!Newest(Logical[k], Version)
  BY <1>5, NewestIs, Zenon
<1>7. Store!Latest(k) \in Store!Newest(Logical[k], Version)
  BY <1>6, Zenon DEF Store!Latest
<1>8. Store!Latest(k) = prev
  <2>1. Store!Latest(k) \in ReadAt(Logical[k], Version)
    BY <1>7, NewestIs, Zenon
  <2> QED BY <1>5, <2>1, NewestIs, Zenon
<1> QED BY <1>1, <1>3, <1>8, ZenonT(40)

\* An entry of k, or none.
LatestEntry(k, e) ==
    /\ e.version \in Nat
    /\ e.version = 0 \/ (e.version \in Version /\ store[k][e.version] # Absent)
    /\ e.content \in Content \cup {Absent}

\* The latest version of a key is a version or none.
LEMMA LatestTyped ==
    ASSUME IInv, NEW k \in Key, NEW e \in ReadAt(store[k], Version)
    PROVE  LatestEntry(k, e)
<1> USE DEF LatestEntry
<1>0. store[k] \in [Version -> Content \cup {Absent}]
  BY ZenonT(40) DEF IInv, TypeOK
<1>1. CASE \A v \in Version : store[k][v] = Absent
  <2>1. e = NoEntry
    BY <1>1, ReadAtIs
  <2> QED BY <2>1 DEF NoEntry
<1>2. ASSUME NEW v \in Version, store[k][v] # Absent
      PROVE  e.version \in Version /\ e.content = store[k][e.version] /\ store[k][e.version] # Absent
  BY <1>2, ReadAtNewest, Zenon DEF NewestOf
<1>3. CASE \E v \in Version : store[k][v] # Absent
  <2>1. e.version \in Version /\ e.content = store[k][e.version] /\ store[k][e.version] # Absent
    BY <1>2, <1>3, Zenon
  <2>2. e.content \in Content \cup {Absent}
    BY <1>0, <2>1, ZenonT(40)
  <2>3. e.version \in Nat
    BY <2>1, TxnAssumption, Zenon
  <2> QED BY <2>1, <2>2, <2>3, Zenon
<1> QED BY <1>1, <1>3, ZenonT(40)

\* The write of a transaction may take effect when its record becomes COMMITTED: its condition holds,
\* nothing newer has been committed, and no reader at or above the commit version has read the key.
LEMMA CommitAdmissible ==
    ASSUME HistoryInv, NEW t \in Txn, record[t] = "running", commit[t] # 0, NEW k \in Key
    PROVE  Store!Admissible(t, k, commit[t])
<1>0. OrderInv /\ IInv
  BY Zenon DEF HistoryInv, OrderInv
<1>1. Write[t][k].cond \in Condition /\ Write[t][k].type \in WriteType
  BY TxnAssumption
<1>2. CASE Write[t][k].type = "none"
  BY <1>2 DEF Store!Admissible
<1>3. CASE Write[t][k].type # "none"
  <2>0. k \in KeysOf(t)
    BY <1>3, Zenon DEF KeysOf
  <2>1. PICK e \in ReadAt(store[k], Version) :
              e = Store!Latest(k) /\ EvalConditions(Write[t][k].cond, e) /\ intent[k].txn = t
    BY <1>0, <2>0, LatestIs, Zenon DEF ComputedFromLatest
  <2>2. /\ e.version \in Nat
        /\ e.version = 0 \/ (e.version \in Version /\ store[k][e.version] # Absent)
    BY <1>0, LatestTyped, ZenonT(40) DEF LatestEntry
  <2>3. Write[t][k].cond = "any" \/ (Write[t][k].cond = "exists") = Store!Exists(k)
    BY <1>1, <2>1 DEF EvalConditions, Condition, Store!Exists
  <2>4. start[t] \in Nat /\ start[t] # 0 /\ commit[t] \in Nat
    <3>1. t \in Client /\ record[t] # "none"
      BY DEF Client
    <3>2. start[t] # 0
      BY <1>0, <3>1, ZenonT(40) DEF OrderInv, StartsFresh
    <3> QED BY <1>0, <3>1, <3>2, Numbers, ZenonT(40) DEF IdsTyped
  <2>5. t # NoTxn
    BY TxnAssumption
  <2>6. (Write[t][k].type = "add" /\ Write[t][k].cond = "any") \/ e.version < start[t]
    <3>1. ASSUME ~(Write[t][k].type = "add" /\ Write[t][k].cond = "any"), e.version \in Version,
                 store[k][e.version] # Absent
          PROVE  e.version < start[t]
      BY <1>0, <2>1, <2>5, <3>1, ZenonT(40) DEF OrderInv, IntentNewest, IsAtomicOperation
    <3>2. e.version = 0 => e.version < start[t]
      BY <2>4
    <3> QED BY <2>2, <3>1, <3>2, ZenonT(40)
  <2>7. e.version < commit[t]
    <3>1. \A v \in Version : store[k][v] # Absent => v < commit[t]
      BY <1>0, <2>1, <2>5, BelowIntent, ZenonT(40) DEF UnderIntent
    <3>2. e.version = 0 => e.version < commit[t]
      BY <2>4
    <3> QED BY <2>2, <3>1, <3>2, ZenonT(40)
  <2>8. ASSUME NEW r \in Reader, Reads[r][k] # <<>> PROVE start[r] < commit[t]
    <3>1. PICK q \in Request :
                /\ q.kind = "get" /\ q.client = r /\ q.key = k
                /\ Reads[r][k] = IF Shown(q) THEN <<result[q]>> ELSE <<>>
                /\ Reads'[r][k] = IF Shown(q)' THEN <<result'[q]>> ELSE <<>>
                /\ \A y \in Request : y.kind = "get" /\ y.client = r /\ y.key = k => y = q
      BY ReadsIs, Zenon
    <3>2. pc[q] = "done"
      BY <2>8, <3>1, Zenon DEF Shown, Answered
    <3>3. Settled(k, start[r])
      BY <3>1, <3>2, HistoryIsGets, ZenonT(40) DEF GetInv
    <3>4. commit[t] > start[r]
      BY <2>1, <2>5, <3>3, ZenonT(40) DEF Settled
    <3>5. start[r] \in Nat
      BY <1>0, Numbers, ZenonT(40) DEF IdsTyped, Client
    <3> QED BY <2>4, <3>4, <3>5
  <2> QED BY <2>1, <2>3, <2>6, <2>7, <2>8, ZenonT(40) DEF Store!Admissible
<1> QED BY <1>2, <1>3, Zenon

\* What the intent holds is what the store says the write makes of the latest version.
LEMMA IntentIsNewContent ==
    ASSUME OrderInv, NEW t \in Txn, record[t] = "running", commit[t] # 0, NEW k \in KeysOf(t),
           Write[t][k].type # "nop"
    PROVE  intent[k].value = Store!NewContent(t, k)
<1>0. IInv
  BY Zenon DEF OrderInv
<1>1. PICK e \in ReadAt(store[k], Version) :
            e = Store!Latest(k) /\ intent[k].value = ApplyPutOp(t, k, e) /\ k \in Key
  BY LatestIs, Zenon DEF ComputedFromLatest
<1>2. e.content \in Content \cup {Absent}
  BY <1>0, <1>1, LatestTyped, Zenon DEF LatestEntry
<1>3. Store!Exists(k) <=> e.content \in Value
  BY <1>1, <1>2, TxnAssumption, ZenonT(40) DEF Store!Exists, Content
<1>4. Write[t][k].type \in {"put", "add", "delete"}
  <2>1. Write[t][k].type \in WriteType /\ Write[t][k].type # "none"
    BY <1>1, TxnAssumption DEF KeysOf
  <2> QED BY <2>1, ZenonT(40) DEF WriteType
<1>5. CASE Write[t][k].type = "put"
  BY <1>1, <1>5 DEF ApplyPutOp, Store!NewContent
<1>6. CASE Write[t][k].type = "add"
  <2>1. (IF Store!Exists(k) THEN Store!Latest(k).content ELSE 0) = (IF e.content \in Value THEN e.content ELSE 0)
    BY <1>1, <1>3, ZenonT(40)
  <2>2. /\ ApplyPutOp(t, k, e) = ((IF e.content \in Value THEN e.content ELSE 0) + Payload[t]) % Wrap
        /\ Store!NewContent(t, k) = ((IF Store!Exists(k) THEN Store!Latest(k).content ELSE 0) + Payload[t]) % Wrap
    BY <1>6 DEF ApplyPutOp, Store!NewContent
  <2> QED BY <1>1, <2>1, <2>2, ZenonT(40)
<1>7. CASE Write[t][k].type = "delete"
  BY <1>1, <1>7 DEF ApplyPutOp, Store!NewContent
<1> QED BY <1>4, <1>5, <1>6, <1>7

\* The history after a commit.
LEMMA CommitHistory ==
    ASSUME OrderInv, CoreStep, NEW t \in Txn, Decides(t, "committed"), NEW k \in Key, NEW v \in Version
    PROVE  Logical'[k][v] = IF Write[t][k].type \notin {"none", "nop"} /\ v = commit[t]
                            THEN Store!NewContent(t, k) ELSE Logical[k][v]
<1>0. IInv /\ record \in [Txn -> RecordState]
  BY Zenon DEF OrderInv, IInv, TypeOK
<1>1. /\ record[t] = "running" /\ commit[t] # 0 /\ record' = [record EXCEPT ![t] = "committed"]
      /\ intent' = intent /\ commit' = commit
  BY Zenon DEF Decides
<1>2. record'[t] = "committed"
  BY <1>0, <1>1
<1>3. CASE Write[t][k].type \notin {"none", "nop"} /\ v = commit[t]
  <2>1. k \in KeysOf(t) /\ Write[t][k].type # "nop"
    BY <1>3 DEF KeysOf
  <2>2. intent[k].txn = t /\ t # NoTxn
    BY <1>0, <1>1, <2>1, RunningIntent, TxnAssumption, ZenonT(40)
  <2>3. intent[k].value # Nop
    BY <1>0, <2>1, <2>2, ZenonT(40) DEF IInv, IntentOfWrite
  <2>4. Logical'[k][v] = intent[k].value
    BY <1>1, <1>2, <1>3, <2>2, <2>3, LogicalIs, ZenonT(40) DEF LogicalAt
  <2>5. intent[k].value = Store!NewContent(t, k)
    BY <1>1, <2>1, IntentIsNewContent, ZenonT(40)
  <2> QED BY <1>3, <2>4, <2>5, ZenonT(40)
<1>4. CASE ~(Write[t][k].type \notin {"none", "nop"} /\ v = commit[t])
  <2>1. ASSUME NEW u \in Txn, Decides(u, "committed"), intent[k].txn = u, commit[u] = v, intent[k].value # Nop
        PROVE  FALSE
    <3>1. record[u] = "running" /\ record'[u] = "committed"
      BY <1>0, <2>1 DEF Decides
    <3>2. u = t
      BY <1>0, <1>1, <3>1
    <3>3. u # NoTxn
      BY TxnAssumption
    <3>4. k \in KeysOf(u) /\ Write[u][k].type # "nop"
      BY <1>0, <2>1, <3>3, ZenonT(40) DEF IInv, IntentOfWrite
    <3>5. Write[u][k].type # "none"
      BY <3>4, Zenon DEF KeysOf
    <3> QED BY <1>4, <2>1, <3>2, <3>4, <3>5, ZenonT(40)
  <2>2. Logical'[k][v] = Logical[k][v]
    BY <2>1, LogicalSteps DEF LogicalStep
  <2> QED BY <1>4, <2>2, ZenonT(40)
<1> QED BY <1>3, <1>4, ZenonT(40)

\* Making a record COMMITTED is the commit of the store.
LEMMA CommitStep ==
    ASSUME HistoryInv, CoreStep, NEW t \in Txn, Decides(t, "committed"), Reads' = Reads
    PROVE  \E c \in Version : Store!Commit(t, c)
<1>0. OrderInv /\ IInv /\ record \in [Txn -> RecordState]
  BY Zenon DEF HistoryInv, OrderInv, IInv, TypeOK
<1>1. /\ record[t] = "running" /\ commit[t] # 0 /\ record' = [record EXCEPT ![t] = "committed"]
      /\ start' = start
  BY Zenon DEF Decides
<1>2. PICK c \in Version : c = commit[t]
  BY <1>0, <1>1, Numbers, ZenonT(40) DEF IdsTyped
<1>3. t \notin Committed /\ Committed' = Committed \cup {t}
  <2>1. \A u \in Txn : record'[u] = IF u = t THEN "committed" ELSE record[u]
    BY <1>0, <1>1
  <2>2. record[t] # "committed"
    BY <1>1
  <2> QED BY <2>1, <2>2, Zenon DEF Committed
<1>4. 0 < start[t] /\ start[t] < c
  <2>1. t \in Client /\ record[t] # "none"
    BY <1>1 DEF Client
  <2>2. start[t] # 0 /\ start[t] < c
    BY <1>0, <1>1, <1>2, <2>1, ZenonT(40) DEF OrderInv, StartsFresh
  <2>3. start[t] \in Nat
    BY <1>0, <2>1, Numbers, ZenonT(40) DEF IdsTyped
  <2> QED BY <2>2, <2>3
<1>5. \A k \in Key : Store!Admissible(t, k, c)
  BY <1>1, <1>2, CommitAdmissible, Zenon
<1>6. Logical' = [k \in Key |-> IF Write[t][k].type \in {"none", "nop"} THEN Logical[k]
                                ELSE [Logical[k] EXCEPT ![c] = Store!NewContent(t, k)]]
  <2>1. ASSUME NEW k \in Key
        PROVE  Logical'[k] = IF Write[t][k].type \in {"none", "nop"} THEN Logical[k]
                             ELSE [Logical[k] EXCEPT ![c] = Store!NewContent(t, k)]
    <3>1. Logical[k] = [v \in Version |-> Logical[k][v]] /\ Logical'[k] = [v \in Version |-> Logical'[k][v]]
      BY ZenonT(40) DEF Logical
    <3>2. \A v \in Version :
              Logical'[k][v] = IF Write[t][k].type \notin {"none", "nop"} /\ v = c
                               THEN Store!NewContent(t, k) ELSE Logical[k][v]
      BY <1>0, <1>2, CommitHistory
    <3>3. CASE Write[t][k].type \in {"none", "nop"}
      <4>1. \A v \in Version : Logical'[k][v] = Logical[k][v]
        BY <3>2, <3>3, Zenon
      <4>2. Logical'[k] = Logical[k]
        BY <3>1, <4>1, Zenon
      <4> QED BY <3>3, <4>2, Zenon
    <3>4. CASE Write[t][k].type \notin {"none", "nop"}
      <4>1. \A v \in Version : Logical'[k][v] = IF v = c THEN Store!NewContent(t, k) ELSE Logical[k][v]
        BY <3>2, <3>4, ZenonT(40)
      <4>2. Logical'[k] = [Logical[k] EXCEPT ![c] = Store!NewContent(t, k)]
        BY <3>1, <4>1
      <4> QED BY <3>4, <4>2, Zenon
    <3> QED BY <3>3, <3>4, Zenon
  <2>2. Logical' = [k \in Key |-> Logical'[k]]
    BY Zenon DEF Logical
  <2> QED BY <2>1, <2>2, Zenon
<1>7. Store!Commit(t, c)
  BY <1>1, <1>3, <1>4, <1>5, <1>6, ZenonT(40) DEF Store!Commit
<1> QED BY <1>7, ZenonT(40)

-----------------------------------------------------------------------------
\* The refinement

\* Every step is a step of the store, or changes nothing that the store shows.
LEMMA StoreStep ==
    ASSUME HistoryInv, HistoryInv', [Next]_vars
    PROVE  Store!Next \/ UNCHANGED Store!storeVars
<1>0. OrderInv /\ IInv /\ CoreStep
  BY CoreSteps, Zenon DEF HistoryInv, OrderInv
<1>1. CASE \E q \in Request : q.kind = "get" /\ ~Calm(q)
  <2>1. \/ \E r \in Reader, k \in Key : Store!Read(r, k)
        \/ UNCHANGED <<start, Committed, Logical, Reads>>
    BY <1>1, ReadStep, Zenon
  <2> QED BY <2>1, Zenon DEF Store!Next, Store!storeVars
<1>2. CASE \A q \in Request : q.kind = "get" => Calm(q)
  <2>1. Reads' = Reads
    <3>1. ASSUME NEW r \in Reader, NEW k \in Key PROVE Reads'[r][k] = Reads[r][k]
      <4>1. PICK q \in Request :
                  /\ q.kind = "get" /\ q.client = r /\ q.key = k
                  /\ Reads[r][k] = IF Shown(q) THEN <<result[q]>> ELSE <<>>
                  /\ Reads'[r][k] = IF Shown(q)' THEN <<result'[q]>> ELSE <<>>
                  /\ \A y \in Request : y.kind = "get" /\ y.client = r /\ y.key = k => y = q
        BY ReadsIs, ZenonT(40)
      <4>2. (Shown(q)' <=> Shown(q)) /\ result'[q] = result[q]
        BY <1>0, <1>2, <4>1, CalmShows, ZenonT(40)
      <4> QED BY <4>1, <4>2
    <3> QED BY <3>1, ReadsAreTables, SameTable, ZenonT(40)
  <2>2. CASE \E t \in Txn : Decides(t, "committed")
    <3>1. \E t \in Txn, c \in Version : Store!Commit(t, c)
      BY <1>0, <2>1, <2>2, CommitStep, ZenonT(40)
    <3> QED BY <3>1, Zenon DEF Store!Next
  <2>3. CASE ~ \E t \in Txn : Decides(t, "committed")
    <3>1. Logical' = Logical /\ Committed' = Committed
      BY <1>0, <2>3, NoCommit
    <3>2. ASSUME NEW c \in Client, Starts(c) PROVE Store!Next
      <4>1. start[c] = 0
        BY <1>0, <3>2, ZenonT(40) DEF Starts, Client, OrderInv, StartsFresh
      <4>2. ts \in Version /\ start' = [start EXCEPT ![c] = ts]
        BY <3>2, Zenon DEF Starts
      <4>3. Store!Start(c, ts)
        BY <2>1, <3>1, <4>1, <4>2, ZenonT(40) DEF Store!Start
      <4> QED BY <4>2, <4>3, Zenon DEF Store!Next, Client
    <3>3. ASSUME ~ \E c \in Client : Starts(c) PROVE start' = start
      BY <1>0, <3>3, Zenon DEF CoreStep, Quiet, Allocs, Decides, Places, Clears, Applies
    <3> QED BY <2>1, <3>1, <3>2, <3>3, ZenonT(40) DEF Store!storeVars
  <2> QED BY <2>2, <2>3, Zenon
<1> QED BY <1>1, <1>2, Zenon

LEMMA StoreInit == Init => Store!Init
<1> SUFFICES ASSUME Init PROVE Store!Init
  OBVIOUS
<1>1. start = [c \in Txn \cup Reader |-> 0]
  BY Zenon DEF Init, Client
<1>2. Committed = {}
  <2>1. \A t \in Txn : record[t] # "committed"
    BY DEF Init
  <2> QED BY <2>1, Zenon DEF Committed
<1>3. Logical = [k \in Key |-> [v \in Version |-> Absent]]
  <2>1. \A k \in Key, v \in Version : store[k][v] = Absent
    BY Zenon DEF Init
  <2>2. \A k \in Key : intent[k].txn \notin Txn
    BY TxnAssumption DEF Init, NoIntent
  <2>3. \A k \in Key, v \in Version : Logical[k][v] = Absent
    BY <2>1, <2>2, LogicalIs, Zenon DEF LogicalAt
  <2>4. Logical = [k \in Key |-> [v \in Version |-> Logical[k][v]]]
    BY Zenon DEF Logical
  <2> QED BY <2>3, <2>4
<1>4. Reads = [r \in Reader |-> [k \in Key |-> <<>>]]
  <2>1. \A q \in Request : pc[q] # "done"
    BY DEF Init
  <2>2. ASSUME NEW r \in Reader, NEW k \in Key PROVE Reads[r][k] = <<>>
    <3>1. PICK q \in Request :
                /\ q.kind = "get" /\ q.client = r /\ q.key = k
                /\ Reads[r][k] = IF Shown(q) THEN <<result[q]>> ELSE <<>>
                /\ Reads'[r][k] = IF Shown(q)' THEN <<result'[q]>> ELSE <<>>
                /\ \A y \in Request : y.kind = "get" /\ y.client = r /\ y.key = k => y = q
      BY ReadsIs, Zenon
    <3> QED BY <2>1, <3>1, Zenon DEF Shown, Answered
  <2> QED BY <2>2, ReadsAreTables, ZenonT(40) DEF IsTable
<1> QED BY <1>1, <1>2, <1>3, <1>4, ZenonT(40) DEF Store!Init

\* Snapshot isolation (the protocol of write_intent, commit_intent, get, resolve_txn and the transaction
\* records): every behaviour of clients, records, intents, latches and leader changes is a behaviour of
\* the store in which a transaction commits on all its keys in one step, under first-committer-wins,
\* and a reader sees the snapshot of its start version.
THEOREM ImplementsSnapshotStore == Spec => SnapshotIsolation
<1>1. Init => Store!Init
  BY StoreInit
<1>2. HistoryInv /\ HistoryInv' /\ [Next]_vars => [Store!Next]_(Store!storeVars)
  BY StoreStep
<1> QED BY <1>1, <1>2, HistoryInductive, PTL DEF Spec, SnapshotIsolation, Store!Spec
=============================================================================
