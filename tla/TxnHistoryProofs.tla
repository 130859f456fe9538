-------------------------- MODULE TxnHistoryProofs ---------------------------
(***************************************************************************)
(* The history that the versions and intents of module Txn stand for, for  *)
(* any transactions, readers, keys, versions and number of leader changes. *)
(* The steps of Txn are of a few kinds as far as ids, records, versions    *)
(* and intents go; the lemmas say, kind by kind, what they do to the order *)
(* of the commits, to what each write was computed from, and to what a Get *)
(* has seen and will answer.  They assume the inductive invariant of       *)
(* module TxnProofs and use none of its lemmas; module TxnStoreProofs      *)
(* brings the two together.                                                *)
(***************************************************************************)
EXTENDS Txn, TLAPS

-----------------------------------------------------------------------------
\* Requests

\* What a request is made of.
PartsOfRequests ==
    /\ \A q \in Request :
          /\ q.key \in Key
          /\ q.client \in Client
          /\ q.kind \in {"write_intent", "commit_intent", "get"}
          /\ q.kind \in {"write_intent", "commit_intent"} => q.client \in Txn /\ q.key \in KeysOf(q.client)
          /\ q.kind = "get" => q.client \in Reader
    /\ \A q \in Request, t \in Txn :
          /\ q \in WriteIntents(t) <=> q.kind = "write_intent" /\ q.client = t
          /\ q \in CommitIntents(t) <=> q.kind = "commit_intent" /\ q.client = t
    /\ \A t \in Txn, k \in Key : Write[t][k].type # "none" =>
          \E q \in Request : q.kind = "write_intent" /\ q.client = t /\ q.key = k

\* The fields of a request, and the WriteIntent of each write.
LEMMA RequestParts == PartsOfRequests
<1> USE DEF PartsOfRequests
<1>1. \A t \in Txn : WriteIntents(t) \subseteq Request /\ CommitIntents(t) \subseteq Request
  BY DEF Request
<1>2. \A r \in Reader : Gets(r) \subseteq Request
  BY DEF Request
<1>3. ASSUME NEW q \in Request
      PROVE  \/ \E t \in Txn : q \in WriteIntents(t)
             \/ \E t \in Txn : q \in CommitIntents(t)
             \/ \E r \in Reader : q \in Gets(r)
  BY <1>3 DEF Request
<1>4. ASSUME NEW q \in Request
      PROVE  /\ q.key \in Key
             /\ q.client \in Client
             /\ q.kind \in {"write_intent", "commit_intent", "get"}
             /\ q.kind \in {"write_intent", "commit_intent"} => q.client \in Txn /\ q.key \in KeysOf(q.client)
             /\ q.kind = "get" => q.client \in Reader
  BY <1>3 DEF WriteIntents, CommitIntents, Gets, Client, KeysOf
<1>5. ASSUME NEW q \in Request, NEW t \in Txn
      PROVE  /\ q \in WriteIntents(t) <=> q.kind = "write_intent" /\ q.client = t
             /\ q \in CommitIntents(t) <=> q.kind = "commit_intent" /\ q.client = t
  BY <1>3 DEF WriteIntents, CommitIntents, Gets, KeysOf
<1>6. ASSUME NEW t \in Txn, NEW k \in Key, Write[t][k].type # "none"
      PROVE  \E q \in Request : q.kind = "write_intent" /\ q.client = t /\ q.key = k
  <2> DEFINE q == [kind |-> "write_intent", client |-> t, key |-> k]
  <2>1. q \in WriteIntents(t)
    BY <1>6 DEF WriteIntents, KeysOf
  <2>2. q \in Request
    BY <2>1, <1>1
  <2> QED BY <2>2
<1> QED BY <1>4, <1>5, <1>6

\* What a request that resolves an intent knows.
LEMMA ResolvesIntent ==
    ASSUME IInv, NEW q \in Request, pc[q] = "resolve"
    PROVE  /\ q.key \in Key /\ latch[q.key] = q /\ intent[q.key] = met[q]
           /\ met[q] \in Intent /\ met[q].txn \in Txn /\ met[q].value \in Content \cup {Nop}
           /\ commit[met[q].txn] \in {0} \cup Version
<1>1. q.key \in Key /\ latch[q.key] = q /\ intent[q.key] = met[q] /\ met[q].txn # NoTxn
  BY RequestParts, ZenonT(40) DEF PartsOfRequests, IInv, ResolvesUnderLatch
<1>2. met[q] \in Intent
  BY <1>1, SMTT(30), SMTT(40) DEF IInv, TypeOK, NoIntent
<1> QED BY <1>1, <1>2, ZenonT(40) DEF IInv, TypeOK, Intent

-----------------------------------------------------------------------------
\* The kinds of steps, as far as ids, records, versions and intents go

\* Nothing of it changes.
Quiet == UNCHANGED <<ts, start, commit, record, store, intent>>

\* A client gets the next id as its start version.
Starts(c) ==
    /\ c \in Txn => record[c] = "none"
    /\ c \in Reader => start[c] = 0
    /\ ts \in Version /\ ts' = ts + 1
    /\ start' = [start EXCEPT ![c] = ts]
    /\ \A t \in Txn : record'[t] = IF t = c THEN "running" ELSE record[t]
    /\ UNCHANGED <<commit, store, intent>>

\* A transaction gets the next id as its commit version.
Allocs(t) ==
    /\ record[t] # "none" /\ commit[t] = 0
    /\ ts \in Version /\ ts' = ts + 1
    /\ commit' = [commit EXCEPT ![t] = ts]
    /\ UNCHANGED <<start, record, store, intent>>

\* A record is decided.
Decides(t, decision) ==
    /\ record[t] = "running"
    /\ decision = "committed" => commit[t] # 0
    /\ record' = [record EXCEPT ![t] = decision]
    /\ UNCHANGED <<ts, start, commit, store, intent>>

\* An intent is placed, removed, and turned into a version.
Places(t, k) ==
    /\ intent[k].txn = NoTxn /\ commit[t] = 0
    /\ \E prev \in ReadNextKey(k) :
          /\ ~TxnConflict(t, k, prev)
          /\ EvalConditions(Write[t][k].cond, prev)
          /\ intent' = [intent EXCEPT ![k] = [txn |-> t, value |-> ApplyPutOp(t, k, prev)]]
    /\ UNCHANGED <<ts, start, commit, record, store>>

Clears(t, k) ==
    /\ intent[k].txn = t /\ record[t] = "aborted"
    /\ intent' = [intent EXCEPT ![k] = NoIntent]
    /\ UNCHANGED <<ts, start, commit, record, store>>

Applies(t, k) ==
    /\ intent[k].txn = t /\ record[t] = "committed"
    /\ ApplyCommitIntent(t, k, intent[k].value)
    /\ UNCHANGED <<ts, start, commit, record>>

CoreStep ==
    \/ Quiet
    \/ \E c \in Client : Starts(c)
    \/ \E t \in Txn : Allocs(t) \/ Decides(t, "committed") \/ Decides(t, "aborted")
    \/ \E t \in Txn, k \in Key : Places(t, k) \/ Clears(t, k) \/ Applies(t, k)

\* Every step is one of these.
LEMMA CoreSteps == IInv /\ [Next]_vars => CoreStep
<1> SUFFICES ASSUME IInv, [Next]_vars PROVE CoreStep
  OBVIOUS
<1> USE DEF rootVars, clientVars, recordVars, dataVars
<1>1. ASSUME NEW t \in Txn, ClientStep(t) PROVE CoreStep
  <2>0. t \in Client /\ t \notin Reader
    BY TxnAssumption, Zenon DEF Client
  <2>1. CASE Begin(t)
    <3>1. record[t] = "none" /\ record \in [Txn -> RecordState]
      BY <2>1, Zenon DEF Begin, IInv, RecordOfClient, TypeOK
    <3>2. \A u \in Txn : record'[u] = IF u = t THEN "running" ELSE record[u]
      BY <2>1, <3>1 DEF Begin
    <3>3. Starts(t)
      BY <2>0, <2>1, <3>1, <3>2, Zenon DEF Begin, AllocTxnId, Starts
    <3> QED BY <2>0, <3>3, Zenon DEF CoreStep
  <2>2. CASE Heartbeat(t) \/ Fail(t)
    BY <2>2, Zenon DEF Heartbeat, Fail, CoreStep, Quiet
  <2>3. CASE AllocCommitVersion(t)
    <3>1. client[t] = "prepare" /\ record[t] # "none" /\ commit[t] = 0
      <4>1. client[t] = "prepare"
        BY <2>3, Zenon DEF AllocCommitVersion
      <4> QED BY <4>1 DEF IInv, RecordOfClient
    <3>2. Allocs(t)
      BY <2>3, <3>1, Zenon DEF AllocCommitVersion, AllocTxnId, Allocs
    <3> QED BY <3>2, Zenon DEF CoreStep
  <2>4. CASE CommitAcked(t) \/ CommitUnanswered(t)
    <3>1. CommitRecord(t)
      BY <2>4, Zenon DEF CommitAcked, CommitUnanswered
    <3>2. CASE record[t] = "running"
      <4>1. Decides(t, "committed")
        BY <3>1, <3>2, Zenon DEF CommitRecord, Decides
      <4> QED BY <4>1, Zenon DEF CoreStep
    <3>3. CASE record[t] = "committed"
      <4>1. record' = record
        BY <3>1, <3>3 DEF CommitRecord, IInv, TypeOK
      <4> QED BY <3>1, <4>1, Zenon DEF CommitRecord, CoreStep, Quiet
    <3> QED BY <3>1, <3>2, <3>3, Zenon DEF CommitRecord
  <2> QED BY <1>1, <2>1, <2>2, <2>3, <2>4, Zenon DEF ClientStep
<1>2. ASSUME NEW r \in Reader, BeginRead(r) PROVE CoreStep
  <2>0. r \in Client /\ r \notin Txn
    BY TxnAssumption, Zenon DEF Client
  <2>1. Starts(r)
    BY <1>2, <2>0, Zenon DEF BeginRead, AllocTxnId, Starts
  <2> QED BY <2>0, <2>1, Zenon DEF CoreStep
<1>3. ASSUME NEW q \in Request, RequestStep(q) PROVE CoreStep
  <2>1. CASE WriteIntent(q)
    <3> DEFINE t == q.client
               k == q.key
    <3>1. k \in Key /\ t \in Txn /\ commit[t] = 0
      BY <2>1, RequestParts, Zenon DEF PartsOfRequests, WriteIntent, IInv, IntentsAcked
    <3>2. UNCHANGED <<ts, start, commit, record, store>>
      BY <2>1, Zenon DEF WriteIntent
    <3> HIDE DEF t, k
    <3>3. \/ UNCHANGED intent
          \/ /\ intent[k].txn = NoTxn
             /\ \E prev \in ReadNextKey(k) :
                   /\ ~TxnConflict(t, k, prev)
                   /\ EvalConditions(Write[t][k].cond, prev)
                   /\ intent' = [intent EXCEPT ![k] = [txn |-> t, value |-> ApplyPutOp(t, k, prev)]]
      BY <2>1, ZenonT(30) DEF WriteIntent, t, k
    <3>4. CASE UNCHANGED intent
      BY <3>2, <3>4, Zenon DEF CoreStep, Quiet
    <3>5. Places(t, k) \/ UNCHANGED intent
      BY <3>1, <3>2, <3>3, Zenon DEF Places
    <3> QED BY <3>1, <3>4, <3>5, Zenon DEF CoreStep
  <2>2. CASE ResolveCommitted(q)
    <3>1. q.key \in Key /\ met[q].txn \in Txn /\ intent[q.key] = met[q]
      BY <2>2, ResolvesIntent, Zenon DEF ResolveCommitted
    <3>2. Applies(met[q].txn, q.key)
      BY <2>2, <3>1, Zenon DEF ResolveCommitted, Applies
    <3> QED BY <3>1, <3>2, Zenon DEF CoreStep
  <2>3. CASE ResolveAborted(q)
    <3>1. q.key \in Key /\ met[q].txn \in Txn /\ intent[q.key] = met[q]
      BY <2>3, ResolvesIntent, Zenon DEF ResolveAborted
    <3>2. Clears(met[q].txn, q.key)
      BY <2>3, <3>1, Zenon DEF ResolveAborted, ApplyClearIntent, Clears
    <3> QED BY <3>1, <3>2, Zenon DEF CoreStep
  <2>4. CASE AbortTxn(q)
    <3>1. met[q].txn \in Txn
      <4>1. met[q].txn # NoTxn /\ met[q] \in Intent \cup {NoIntent}
        BY <2>4, Zenon DEF AbortTxn, IInv, TypeOK, ResolvesUnderLatch
      <4> QED BY <4>1 DEF Intent, NoIntent
    <3>2. CASE record[met[q].txn] = "running"
      <4>1. Decides(met[q].txn, "aborted")
        <5>1. "aborted" # "committed"
          OBVIOUS
        <5> QED BY <2>4, <3>2, <5>1, Zenon DEF AbortTxn, Decides
      <4> QED BY <3>1, <4>1, Zenon DEF CoreStep
    <3>3. CASE record[met[q].txn] # "running"
      BY <2>4, <3>3, Zenon DEF AbortTxn, CoreStep, Quiet
    <3> QED BY <3>2, <3>3, Zenon
  <2>5. CASE CommitIntent(q)
    <3>1. q.key \in Key /\ q.client \in Txn /\ record[q.client] = "committed"
      BY <2>5, RequestParts, Zenon DEF PartsOfRequests, CommitIntent, IInv, RequestOfClient
    <3>2. UNCHANGED <<ts, start, record, commit>>
      BY <2>5, Zenon DEF CommitIntent
    <3>3. \/ UNCHANGED <<store, intent>>
          \/ intent[q.key].txn = q.client /\ ApplyCommitIntent(q.client, q.key, intent[q.key].value)
      BY <2>5, Zenon DEF CommitIntent
    <3>4. Quiet \/ Applies(q.client, q.key)
      BY <3>1, <3>2, <3>3, Zenon DEF Quiet, Applies
    <3> QED BY <3>1, <3>4, Zenon DEF CoreStep
  <2>6. CASE \/ MeetIntent(q) \/ ResolveExpired(q) \/ ResolveWait(q) \/ DropCommitIntent(q)
             \/ GetSnapshot(q) \/ GetReread(q) \/ GetWoken(q)
    <3>1. Quiet
      BY <2>6, Zenon DEF MeetIntent, ResolveExpired, ResolveWait, DropCommitIntent, GetSnapshot,
                         GetReread, GetWoken, Quiet
    <3> QED BY <3>1, Zenon DEF CoreStep
  <2> QED BY <1>3, <2>1, <2>2, <2>3, <2>4, <2>5, <2>6, Zenon DEF RequestStep, Resolve
<1>4. CASE LeaderChange
  BY <1>4, Zenon DEF LeaderChange, CoreStep, Quiet
<1>5. CASE UNCHANGED vars
  <2>1. Quiet
    BY <1>5, Zenon DEF vars, Quiet
  <2> QED BY <2>1, Zenon DEF CoreStep
<1> QED BY <1>1, <1>2, <1>3, <1>4, <1>5, Zenon DEF Next

-----------------------------------------------------------------------------
\* What a step does to one key and to one transaction

\* Ids are numbers, and 0 is none.
IdsTyped ==
    /\ ts \in Nat /\ Version \subseteq Nat /\ 0 \notin Version
    /\ \A t \in Txn : commit[t] \in Nat /\ (commit[t] # 0 <=> commit[t] \in Version)
    /\ \A c \in Client : start[c] \in Nat

\* Ids are numbers.
LEMMA Numbers ==
    ASSUME IInv
    PROVE  IdsTyped
<1> USE DEF IdsTyped
<1>1. ts \in Nat /\ Version \subseteq Nat /\ 0 \notin Version
  BY TxnAssumption, Zenon DEF IInv, TypeOK
<1>2. \A t \in Txn : commit[t] \in {0} \cup Version
  BY Zenon DEF IInv, TypeOK
<1>3. \A c \in Client : start[c] \in {0} \cup Version
  BY Zenon DEF IInv, TypeOK
<1>4. {0} \cup Version \subseteq Nat
  BY <1>1
<1> QED BY <1>1, <1>2, <1>3, <1>4, Zenon

\* The intent of a key is one of a transaction, or none.
IntentTyped(k) ==
    /\ intent[k] \in Intent \cup {NoIntent}
    /\ intent[k].txn \in Txn \/ intent[k] = NoIntent
    /\ NoIntent.txn = NoTxn /\ NoTxn \notin Txn

\* An intent that is there belongs to a transaction.
LEMMA IntentTxn ==
    ASSUME IInv, NEW k \in Key
    PROVE  IntentTyped(k)
<1> USE DEF IntentTyped
<1>1. intent[k] \in Intent \cup {NoIntent}
  BY Zenon DEF IInv, TypeOK
<1>2. NoIntent.txn = NoTxn
  BY DEF NoIntent
<1>3. intent[k] \in Intent => intent[k].txn \in Txn
  BY DEF Intent
<1> QED BY <1>1, <1>2, <1>3, TxnAssumption, Zenon

\* What a step does to the versions and the intent of one key.
KeyStep(k) ==
    \/ intent'[k] = intent[k] /\ store'[k] = store[k]
    \/ \E t \in Txn : Places(t, k)
    \/ \E t \in Txn : Clears(t, k) /\ intent'[k] = NoIntent /\ store'[k] = store[k]
    \/ \E t \in Txn : Applies(t, k) /\ intent'[k] = NoIntent

\* A key keeps its versions and its intent, or gets or loses an intent.
LEMMA KeySteps ==
    ASSUME IInv, CoreStep, NEW k \in Key
    PROVE  KeyStep(k)
<1> USE DEF KeyStep
<1>0. /\ intent \in [Key -> Intent \cup {NoIntent}]
      /\ store \in [Key -> [Version -> Content \cup {Absent}]]
  BY Zenon DEF IInv, TypeOK
<1>1. CASE UNCHANGED <<store, intent>>
  BY <1>1, Zenon
<1>2. ASSUME NEW t \in Txn, NEW l \in Key, Places(t, l), l # k PROVE intent'[k] = intent[k] /\ store'[k] = store[k]
  <2>1. PICK x : intent' = [intent EXCEPT ![l] = x] /\ store' = store
    BY <1>2, Zenon DEF Places
  <2> QED BY <1>0, <1>2, <2>1
<1>3. ASSUME NEW t \in Txn, NEW l \in Key, Clears(t, l), l # k PROVE intent'[k] = intent[k] /\ store'[k] = store[k]
  BY <1>0, <1>3 DEF Clears
<1>4. ASSUME NEW t \in Txn, Clears(t, k) PROVE intent'[k] = NoIntent /\ store'[k] = store[k]
  BY <1>0, <1>4 DEF Clears
<1>5. ASSUME NEW t \in Txn, NEW l \in Key, Applies(t, l), l # k PROVE intent'[k] = intent[k] /\ store'[k] = store[k]
  <2>1. intent' = [intent EXCEPT ![l] = NoIntent]
    BY <1>5, Zenon DEF Applies, ApplyCommitIntent
  <2>2. store' = store \/ store' = [store EXCEPT ![l] = [@ EXCEPT ![commit[t]] = intent[l].value]]
    BY <1>5 DEF Applies, ApplyCommitIntent
  <2> QED BY <1>0, <1>5, <2>1, <2>2
<1>6. ASSUME NEW t \in Txn, Applies(t, k) PROVE intent'[k] = NoIntent
  BY <1>0, <1>6 DEF Applies, ApplyCommitIntent
<1>7. CASE \E t \in Txn, l \in Key : Places(t, l) \/ Clears(t, l) \/ Applies(t, l)
  BY <1>2, <1>3, <1>4, <1>5, <1>6, <1>7, Zenon
<1>8. CASE ~ \E t \in Txn, l \in Key : Places(t, l) \/ Clears(t, l) \/ Applies(t, l)
  BY <1>1, <1>8, Zenon DEF CoreStep, Quiet, Starts, Allocs, Decides
<1> QED BY <1>7, <1>8, Zenon

\* What a step does to the ids and the record of one transaction.
TxnStep(t) ==
    /\ commit[t] # 0 => commit'[t] = commit[t]
    /\ commit'[t] # commit[t] => Allocs(t) /\ commit'[t] = ts
    /\ record[t] # "none" => start'[t] = start[t] /\ record'[t] # "none"
    /\ record[t] \in {"committed", "aborted"} => record'[t] = record[t]
    /\ record'[t] = "committed" /\ record[t] # "committed" => Decides(t, "committed")
    /\ record[t] = "none" /\ record'[t] # "none" => Starts(t) /\ start'[t] = ts
    /\ start'[t] # start[t] => Starts(t) /\ start'[t] = ts
    /\ record'[t] = "none" => record[t] = "none" /\ start'[t] = start[t]

\* A transaction keeps its commit version, and gets one that is new; a record moves forward, to
\* COMMITTED only in a step of its own.
LEMMA TxnSteps ==
    ASSUME IInv, CoreStep, NEW t \in Txn
    PROVE  TxnStep(t)
<1> USE DEF TxnStep
<1>0. /\ record \in [Txn -> RecordState] /\ commit \in [Txn -> {0} \cup Version]
      /\ start \in [Client -> {0} \cup Version] /\ t \in Client
  BY Zenon DEF IInv, TypeOK, Client
<1>1. CASE UNCHANGED <<start, commit, record>>
  BY <1>1, Zenon
<1>2. ASSUME NEW c \in Client, Starts(c)
      PROVE  /\ commit' = commit
             /\ c # t => start'[t] = start[t] /\ record'[t] = record[t]
             /\ c = t => start'[t] = ts /\ record[t] = "none" /\ record'[t] = "running"
  <2>1. commit' = commit /\ start' = [start EXCEPT ![c] = ts]
    BY <1>2, Zenon DEF Starts
  <2>2. record'[t] = IF t = c THEN "running" ELSE record[t]
    BY <1>2, Zenon DEF Starts
  <2>3. c = t => record[t] = "none"
    BY <1>2, Zenon DEF Starts
  <2> QED BY <1>0, <2>1, <2>2, <2>3
<1>3. ASSUME NEW u \in Txn, Allocs(u)
      PROVE  /\ record' = record /\ start' = start
             /\ u # t => commit'[t] = commit[t]
             /\ u = t => commit[t] = 0 /\ commit'[t] = ts
  BY <1>0, <1>3 DEF Allocs
<1>4. ASSUME NEW u \in Txn, NEW d \in {"committed", "aborted"}, Decides(u, d)
      PROVE  /\ commit' = commit /\ start' = start
             /\ u # t => record'[t] = record[t]
             /\ u = t => record[t] = "running" /\ record'[t] = d
  BY <1>0, <1>4 DEF Decides
<1>5. CASE \E c \in Client : Starts(c)
  <2>1. PICK c \in Client : Starts(c)
    BY <1>5, Zenon
  <2>2. CASE c = t
    BY <1>2, <2>1, <2>2
  <2>3. CASE c # t
    BY <1>2, <2>1, <2>3, Zenon
  <2> QED BY <2>2, <2>3, Zenon
<1>6. CASE \E u \in Txn : Allocs(u)
  BY <1>3, <1>6, Zenon
<1>7. CASE \E u \in Txn, d \in {"committed", "aborted"} : Decides(u, d)
  <2>1. PICK u \in Txn, d \in {"committed", "aborted"} : Decides(u, d)
    BY <1>7, Zenon
  <2>2. CASE u = t
    BY <1>4, <2>1, <2>2
  <2>3. CASE u # t
    BY <1>4, <2>1, <2>3, Zenon
  <2> QED BY <2>2, <2>3, Zenon
<1> QED BY <1>1, <1>5, <1>6, <1>7, Zenon DEF CoreStep, Quiet, Places, Clears, Applies

\* What a step does to the next id and to the start versions.
IdStep ==
    /\ ts' \in {ts, ts + 1} /\ ts' \in Nat /\ ts <= ts'
    /\ \A c \in Client : start'[c] # start[c] => Starts(c) /\ start'[c] = ts
    /\ StartsFresh => \A c \in Client : start[c] # 0 => start'[c] = start[c]

\* The root hands out ids in order, and a client that has a start version keeps it.
LEMMA ClientSteps ==
    ASSUME IInv, CoreStep
    PROVE  IdStep
<1> USE DEF IdStep
<1>1. ts' \in {ts, ts + 1} /\ ts' \in Nat /\ ts <= ts'
  <2>1. ts' = ts \/ ts' = ts + 1
    BY Zenon DEF CoreStep, Quiet, Starts, Allocs, Decides, Places, Clears, Applies
  <2> QED BY <2>1, Numbers DEF IdsTyped
<1>2. ASSUME NEW c \in Client, start'[c] # start[c] PROVE Starts(c) /\ start'[c] = ts
  <2>1. PICK d \in Client : Starts(d)
    BY <1>2, Zenon DEF CoreStep, Quiet, Starts, Allocs, Decides, Places, Clears, Applies
  <2>2. start' = [start EXCEPT ![d] = ts] /\ start \in [Client -> {0} \cup Version]
    BY <2>1, Zenon DEF Starts, IInv, TypeOK
  <2>3. d = c /\ start'[c] = ts
    BY <1>2, <2>2
  <2> QED BY <2>1, <2>3, Zenon
<1>3. ASSUME StartsFresh, NEW c \in Client, Starts(c) PROVE start[c] = 0
  BY <1>3, Zenon DEF StartsFresh, Starts, Client
<1> QED BY <1>1, <1>2, <1>3, Zenon

-----------------------------------------------------------------------------
\* Ids

\* A step keeps commit versions unique.
LEMMA CommitVersionsStep ==
    ASSUME OrderInv, CoreStep PROVE CommitVersionsUnique'
<1>0. IInv /\ CommitVersionsUnique
  BY Zenon DEF OrderInv
<1>1. /\ ts \in Nat /\ ts' \in Nat /\ ts <= ts'
      /\ \A u \in Txn : commit[u] \in Nat /\ (commit[u] # 0 => commit[u] < ts)
  BY <1>0, Numbers, ClientSteps, Zenon DEF IdsTyped, IdStep, CommitVersionsUnique
<1>2. ASSUME NEW u \in Txn, Allocs(u)
      PROVE  /\ commit'[u] = ts /\ ts' = ts + 1
             /\ \A w \in Txn : w # u => commit'[w] = commit[w]
  <2>1. commit \in [Txn -> {0} \cup Version]
    BY <1>0, Zenon DEF IInv, TypeOK
  <2> QED BY <1>2, <2>1 DEF Allocs
<1>3. ASSUME NEW u \in Txn, commit'[u] # 0 PROVE commit'[u] < ts'
  <2>1. CASE commit'[u] = commit[u]
    <3>1. commit[u] \in Nat /\ commit[u] < ts
      BY <1>1, <1>3, <2>1, Zenon
    <3> QED BY <1>1, <2>1, <3>1
  <2>2. CASE commit'[u] # commit[u]
    <3>1. commit'[u] = ts /\ ts' = ts + 1
      BY <1>0, <1>2, <2>2, TxnSteps, Zenon DEF TxnStep
    <3> QED BY <1>1, <3>1
  <2> QED BY <2>1, <2>2, Zenon
<1>4. ASSUME NEW u \in Txn, NEW w \in Txn, commit'[u] # 0, commit'[u] = commit'[w], u # w PROVE FALSE
  <2>1. ASSUME NEW x \in Txn, NEW y \in Txn, x # y, commit'[x] = commit'[y], commit'[x] # 0,
               commit'[x] # commit[x]
        PROVE  FALSE
    <3>1. Allocs(x)
      BY <1>0, <2>1, TxnSteps, Zenon DEF TxnStep
    <3>2. commit'[x] = ts /\ commit'[y] = commit[y]
      BY <1>2, <2>1, <3>1, Zenon
    <3>3. commit[y] # 0 /\ commit[y] = ts
      BY <2>1, <3>2, Zenon
    <3>4. commit[y] < ts
      BY <1>1, <3>3, Zenon
    <3> QED BY <1>1, <3>3, <3>4
  <2>2. commit'[u] = commit[u] /\ commit'[w] = commit[w]
    BY <1>4, <2>1, Zenon
  <2> QED BY <1>0, <1>4, <2>2, Zenon DEF CommitVersionsUnique
<1> QED BY <1>3, <1>4, Zenon DEF CommitVersionsUnique

\* A step keeps start versions fresh.
LEMMA StartsStep ==
    ASSUME OrderInv, CoreStep PROVE StartsFresh'
<1>0. IInv /\ CommitVersionsUnique /\ StartsFresh
  BY Zenon DEF OrderInv
<1>1. /\ ts \in Nat /\ ts' \in Nat /\ ts <= ts'
      /\ \A u \in Txn : commit[u] \in Nat /\ (commit[u] # 0 => commit[u] < ts)
      /\ \A c \in Client : start[c] \in Nat /\ (start[c] # 0 => start[c] < ts)
  BY <1>0, Numbers, ClientSteps, Zenon DEF IdsTyped, IdStep, CommitVersionsUnique, StartsFresh
<1>2. ASSUME NEW c \in Client, start'[c] # start[c]
      PROVE  start'[c] = ts /\ ts # 0 /\ ts' = ts + 1
  BY <1>0, <1>2, ClientSteps, Numbers, Zenon DEF IdsTyped, IdStep, Starts
<1>3. ASSUME NEW t \in Txn, commit'[t] # commit[t]
      PROVE  commit'[t] = ts /\ ts # 0 /\ start' = start /\ record[t] # "none" /\ ts' = ts + 1
  BY <1>0, <1>3, TxnSteps, Numbers, Zenon DEF IdsTyped, TxnStep, Allocs
<1>4. ASSUME NEW c \in Client, start'[c] # 0 PROVE start'[c] < ts'
  <2>1. CASE start'[c] = start[c]
    <3>1. start[c] \in Nat /\ start[c] < ts
      BY <1>1, <1>4, <2>1, Zenon
    <3> QED BY <1>1, <2>1, <3>1
  <2>2. CASE start'[c] # start[c]
    BY <1>1, <1>2, <2>2
  <2> QED BY <2>1, <2>2, Zenon
<1>5. ASSUME NEW t \in Txn
      PROVE  /\ start'[t] = 0 <=> record'[t] = "none"
             /\ commit'[t] # 0 => start'[t] < commit'[t]
             /\ \A c \in Client : commit'[t] # 0 => commit'[t] # start'[c]
  <2>0. t \in Client
    BY Zenon DEF Client
  <2>1. start'[t] = 0 <=> record'[t] = "none"
    <3>1. start[t] = 0 <=> record[t] = "none"
      BY <1>0, Zenon DEF StartsFresh
    <3>2. CASE start'[t] # start[t]
      <4>1. Starts(t) /\ start'[t] # 0
        BY <1>0, <1>2, <2>0, <3>2, TxnSteps, Zenon DEF TxnStep
      <4>2. record'[t] = "running"
        BY <4>1, Zenon DEF Starts
      <4> QED BY <4>1, <4>2
    <3>3. CASE start'[t] = start[t]
      <4>1. record'[t] = "none" => record[t] = "none"
        BY <1>0, TxnSteps, Zenon DEF TxnStep
      <4>2. ASSUME record[t] = "none", record'[t] # "none" PROVE FALSE
        <5>1. Starts(t) /\ start'[t] = ts
          BY <1>0, <4>2, TxnSteps, Zenon DEF TxnStep
        <5>2. ts # 0
          BY <1>0, <5>1, Numbers, Zenon DEF IdsTyped, Starts
        <5> QED BY <3>1, <3>3, <4>2, <5>1, <5>2, Zenon
      <4> QED BY <3>1, <3>3, <4>1, <4>2, Zenon
    <3> QED BY <3>2, <3>3, Zenon
  <2>2. ASSUME commit'[t] # 0 PROVE start'[t] < commit'[t]
    <3>1. CASE commit'[t] = commit[t]
      <4>1. record[t] # "none"
        BY <1>0, <2>2, <3>1, Zenon DEF IInv, RecordOfClient
      <4>2. start'[t] = start[t] /\ start[t] < commit[t]
        BY <1>0, <2>2, <3>1, <4>1, TxnSteps, Zenon DEF TxnStep, StartsFresh
      <4> QED BY <3>1, <4>2, Zenon
    <3>2. CASE commit'[t] # commit[t]
      <4>1. commit'[t] = ts /\ start'[t] = start[t] /\ start[t] # 0
        BY <1>0, <1>3, <3>2, Zenon DEF StartsFresh
      <4> QED BY <1>1, <2>0, <4>1, Zenon
    <3> QED BY <3>1, <3>2, Zenon
  <2>3. ASSUME NEW c \in Client, commit'[t] # 0, commit'[t] = start'[c] PROVE FALSE
    <3>1. CASE commit'[t] = commit[t]
      <4>1. commit[t] # start[c] /\ commit[t] \in Nat /\ commit[t] < ts
        BY <1>0, <1>1, <2>3, <3>1, Zenon DEF StartsFresh
      <4>2. commit[t] = ts
        BY <1>2, <2>3, <3>1, <4>1, Zenon
      <4> QED BY <1>1, <4>1, <4>2
    <3>2. CASE commit'[t] # commit[t]
      <4>1. start[c] \in Nat /\ (start[c] # 0 => start[c] < ts)
        BY <1>1, Zenon
      <4>2. start[c] = ts /\ ts # 0
        BY <1>3, <2>3, <3>2, Zenon
      <4> QED BY <1>1, <4>1, <4>2
    <3> QED BY <3>1, <3>2, Zenon
  <2> QED BY <2>1, <2>2, <2>3, Zenon
<1> QED BY <1>4, <1>5, Zenon DEF StartsFresh

-----------------------------------------------------------------------------
\* Versions and intents

\* A version is added where there was none.
Fills(t, k) ==
    /\ commit[t] \in Version /\ store[k][commit[t]] = Absent
    /\ \A v \in Version : v # commit[t] => store'[k][v] = store[k][v]
    /\ store'[k][commit[t]] = IF intent[k].value = Nop THEN Absent ELSE intent[k].value

\* Turning an intent into a version fills a version that was not there.
LEMMA ApplyFillsAbsent ==
    ASSUME IInv, IntentUnstored, NEW t \in Txn, NEW k \in Key, Applies(t, k)
    PROVE  Fills(t, k)
<1> USE DEF Fills
<1>0. store \in [Key -> [Version -> Content \cup {Absent}]]
  BY Zenon DEF IInv, TypeOK
<1>1. intent[k].txn = t /\ record[t] = "committed" /\ t \in Committed
  BY Zenon DEF Applies, Committed
<1>2. commit[t] \in Version /\ store[k][commit[t]] = Absent
  BY <1>1, Numbers, Zenon DEF IdsTyped, IInv, RecordOfClient, IntentUnstored
<1>3. /\ intent[k].value = Nop => store' = store
      /\ intent[k].value # Nop => store' = [store EXCEPT ![k] = [@ EXCEPT ![commit[t]] = intent[k].value]]
  BY DEF Applies, ApplyCommitIntent
<1> QED BY <1>0, <1>2, <1>3

\* An intent is placed, computed from the version below it.
Placed(t, k) ==
    /\ UNCHANGED <<ts, start, commit, record, store>>
    /\ commit[t] = 0
    /\ \E prev \in ReadNextKey(k) :
          /\ ~TxnConflict(t, k, prev)
          /\ EvalConditions(Write[t][k].cond, prev)
          /\ intent'[k] = [txn |-> t, value |-> ApplyPutOp(t, k, prev)]
    /\ intent'[k].txn = t

\* What placing an intent does to its key.
LEMMA PlaceEffect ==
    ASSUME IInv, NEW t \in Txn, NEW k \in Key, Places(t, k)
    PROVE  Placed(t, k)
<1> USE DEF Placed
<1>0. intent \in [Key -> Intent \cup {NoIntent}]
  BY Zenon DEF IInv, TypeOK
<1>1. PICK prev \in ReadNextKey(k) :
                 /\ ~TxnConflict(t, k, prev)
                 /\ EvalConditions(Write[t][k].cond, prev)
                 /\ intent' = [intent EXCEPT ![k] = [txn |-> t, value |-> ApplyPutOp(t, k, prev)]]
  BY Zenon DEF Places
<1>2. intent'[k] = [txn |-> t, value |-> ApplyPutOp(t, k, prev)]
  <2> DEFINE x == [txn |-> t, value |-> ApplyPutOp(t, k, prev)]
  <2>1. intent' = [intent EXCEPT ![k] = x]
    BY <1>1, Zenon
  <2> HIDE DEF x
  <2>2. intent'[k] = x
    BY <1>0, <2>1
  <2> QED BY <2>2, Zenon DEF x
<1>3. intent'[k].txn = t
  BY <1>2
<1> QED BY <1>1, <1>2, <1>3, Zenon DEF Places

\* A step keeps the intents of committed transactions unapplied.
LEMMA IntentUnstoredStep ==
    ASSUME OrderInv, CoreStep, IInv' PROVE IntentUnstored'
<1>0. IInv /\ CommitVersionsUnique /\ IntentUnstored
  BY Zenon DEF OrderInv
<1> SUFFICES ASSUME NEW t \in Txn, record'[t] = "committed", NEW k \in Key, intent'[k].txn = t
             PROVE  store'[k][commit'[t]] = Absent
  BY Zenon DEF IntentUnstored, Committed
<1>1. NoIntent.txn = NoTxn /\ NoTxn \notin Txn
  BY TxnAssumption DEF NoIntent
<1>2. CASE intent'[k] = intent[k] /\ store'[k] = store[k]
  <2>1. CASE record[t] = "committed"
    <3>1. commit[t] # 0 /\ store[k][commit[t]] = Absent
      BY <1>0, <1>2, <2>1, Zenon DEF IntentUnstored, Committed, IInv, RecordOfClient
    <3>2. commit'[t] = commit[t]
      BY <1>0, <3>1, TxnSteps, Zenon DEF TxnStep
    <3> QED BY <1>2, <3>1, <3>2, Zenon
  <2>2. CASE record[t] # "committed"
    <3>1. commit'[t] = commit[t] /\ commit[t] # 0
      <4>1. Decides(t, "committed")
        BY <1>0, <2>2, TxnSteps, Zenon DEF TxnStep
      <4> QED BY <4>1, Zenon DEF Decides
    <3>2. commit[t] \in Version
      BY <1>0, <3>1, Numbers, Zenon DEF IdsTyped
    <3>3. ASSUME store[k][commit[t]] # Absent PROVE FALSE
      <4>1. PICK u \in Committed : commit[u] = commit[t]
        BY <1>0, <3>2, <3>3, ZenonT(40) DEF IInv, NoDirtyVersion
      <4> QED BY <1>0, <2>2, <3>1, <4>1, Zenon DEF CommitVersionsUnique, Committed
    <3> QED BY <1>2, <3>1, <3>3, Zenon
  <2> QED BY <2>1, <2>2, Zenon
<1>3. ASSUME NEW u \in Txn, Places(u, k) PROVE FALSE
  <2>1. u = t /\ record[t] = "committed" /\ commit[t] = 0
    BY <1>0, <1>3, PlaceEffect, Zenon DEF Placed
  <2> QED BY <1>0, <2>1, Zenon DEF IInv, RecordOfClient
<1> QED BY <1>0, <1>1, <1>2, <1>3, KeySteps, Zenon DEF KeyStep

\* A transaction whose record is RUNNING and that has a commit version has its intent on each of its keys.
LEMMA RunningIntent ==
    ASSUME IInv, NEW t \in Txn, record[t] = "running", commit[t] # 0, NEW k \in KeysOf(t)
    PROVE  k \in Key /\ intent[k].txn = t
<1>1. k \in Key /\ Write[t][k].type # "none"
  BY Zenon DEF KeysOf
<1>2. PICK q \in Request : q.kind = "write_intent" /\ q.client = t /\ q.key = k
  <2>1. \A u \in Txn, l \in Key : Write[u][l].type # "none" =>
           \E q \in Request : q.kind = "write_intent" /\ q.client = u /\ q.key = l
    BY RequestParts DEF PartsOfRequests
  <2> QED BY <1>1, <2>1
<1> QED BY <1>1, <1>2, Zenon DEF IInv, IntentsAcked

\* What ReadAt returns.
LEMMA ReadAtIs ==
    ASSUME NEW versions, NEW among, NEW e
    PROVE  e \in ReadAt(versions, among) <=>
              \/ e = NoEntry /\ \A v \in among : versions[v] = Absent
              \/ \E v \in among :
                    /\ versions[v] # Absent
                    /\ e = [version |-> v, content |-> versions[v]]
                    /\ \A w \in among : versions[w] # Absent => w <= v
BY ZenonT(30) DEF ReadAt

\* e is at or above v, and is a version that exists.
NewestOf(versions, among, e, v) ==
    /\ e.version \in among /\ v <= e.version
    /\ e.content = versions[e.version] /\ versions[e.version] # Absent

\* What ReadAt returns when there is something to read.
LEMMA ReadAtNewest ==
    ASSUME NEW versions, NEW among, NEW e \in ReadAt(versions, among), NEW v \in among, versions[v] # Absent
    PROVE  NewestOf(versions, among, e, v)
<1> USE DEF NewestOf
<1>1. PICK n \in among : /\ versions[n] # Absent
                         /\ e = [version |-> n, content |-> versions[n]]
                         /\ \A w \in among : versions[w] # Absent => w <= n
  BY ReadAtIs, Zenon
<1>2. e.version = n /\ e.content = versions[n]
  BY <1>1
<1> QED BY <1>1, <1>2, Zenon

\* A step keeps the versions below an intent older than its transaction.
LEMMA IntentNewestStep ==
    ASSUME OrderInv, CoreStep PROVE IntentNewest'
<1>0. IInv /\ StartsFresh /\ IntentNewest
  BY Zenon DEF OrderInv
<1>1. NoIntent.txn = NoTxn
  BY DEF NoIntent
<1> SUFFICES ASSUME NEW k \in Key, NEW t, t = intent'[k].txn, t # NoTxn,
                    ~IsAtomicOperation(Write[t][k]), NEW v \in Version, store'[k][v] # Absent
             PROVE  v < start'[t]
  BY Zenon DEF IntentNewest
<1>2. CASE intent'[k] = intent[k] /\ store'[k] = store[k]
  <2>1. v < start[t]
    BY <1>0, <1>2, Zenon DEF IntentNewest
  <2>2. t \in Txn /\ record[t] # "none"
    BY <1>0, <1>1, <1>2, IntentTxn, ZenonT(40) DEF IntentTyped, IInv, IntentOfWrite
  <2>3. start'[t] = start[t]
    BY <1>0, <2>2, TxnSteps, Zenon DEF TxnStep
  <2> QED BY <2>1, <2>3, Zenon
<1>3. ASSUME NEW u \in Txn, Places(u, k) PROVE v < start'[t]
  <2>1. u = t /\ start' = start /\ store[k][v] # Absent /\ t \in Client
    BY <1>0, <1>3, PlaceEffect, Zenon DEF Placed, Client
  <2>2. PICK prev \in ReadNextKey(k) : ~TxnConflict(u, k, prev)
    BY <1>0, <1>3, PlaceEffect, Zenon DEF Placed
  <2>3. prev.version \in Version /\ v <= prev.version
    BY <2>1, <2>2, ReadAtNewest, Zenon DEF NewestOf, ReadNextKey
  <2>4. ~(prev.version > start[t])
    BY <2>1, <2>2, Zenon DEF TxnConflict
  <2>5. v # start[t]
    <3>1. PICK w \in Committed : commit[w] = v
      BY <1>0, <2>1, Zenon DEF IInv, NoDirtyVersion
    <3>2. w \in Txn /\ commit[w] # 0
      BY <1>0, <3>1, Numbers, Zenon DEF IdsTyped, Committed
    <3> QED BY <1>0, <2>1, <3>1, <3>2, Zenon DEF StartsFresh
  <2>6. start[t] \in Nat /\ v \in Nat /\ prev.version \in Nat
    BY <1>0, <2>1, <2>3, Numbers, Zenon DEF IdsTyped
  <2>7. v < start[t]
    BY <2>3, <2>4, <2>5, <2>6
  <2> QED BY <2>1, <2>7, Zenon
<1> QED BY <1>0, <1>1, <1>2, <1>3, KeySteps, Zenon DEF KeyStep

\* A step keeps the order between the commits of a key and the transaction whose intent it has.
LEMMA IntentLastStep ==
    ASSUME OrderInv, CoreStep PROVE IntentLast'
<1>0. IInv /\ CommitVersionsUnique /\ IntentLast
  BY Zenon DEF OrderInv
<1>1. NoIntent.txn = NoTxn
  BY DEF NoIntent
<1> SUFFICES ASSUME NEW k \in Key, NEW w \in Txn, record'[w] = "committed", NEW t, t = intent'[k].txn,
                    t # NoTxn, t # w, commit'[t] # 0, k \in KeysOf(w)
             PROVE  commit'[w] < commit'[t]
  BY Zenon DEF IntentLast, Committed, KeysOf
<1>2. CASE intent'[k] = intent[k]
  <2>1. t \in Txn /\ t = intent[k].txn
    BY <1>0, <1>1, <1>2, IntentTxn, Zenon DEF IntentTyped
  <2>2. record[w] = "committed"
    <3>1. ASSUME record[w] # "committed" PROVE FALSE
      <4>1. record[w] = "running" /\ commit[w] # 0
        BY <1>0, <3>1, TxnSteps, Zenon DEF TxnStep, Decides
      <4>2. intent[k].txn = w
        BY <1>0, <4>1, RunningIntent, Zenon
      <4> QED BY <2>1, <4>2, Zenon
    <3> QED BY <3>1, Zenon
  <2>3. commit[w] # 0 /\ commit'[w] = commit[w]
    BY <1>0, <2>2, TxnSteps, Zenon DEF TxnStep, IInv, RecordOfClient
  <2>4. CASE commit'[t] = commit[t]
    <3>1. commit[w] < commit[t]
      BY <1>0, <2>1, <2>2, <2>4, Zenon DEF IntentLast, Committed
    <3> QED BY <2>3, <2>4, <3>1, Zenon
  <2>5. CASE commit'[t] # commit[t]
    <3>1. commit'[t] = ts
      BY <1>0, <2>1, <2>5, TxnSteps, Zenon DEF TxnStep
    <3> QED BY <1>0, <2>3, <3>1, Zenon DEF CommitVersionsUnique
  <2> QED BY <2>4, <2>5, Zenon
<1>3. ASSUME NEW u \in Txn, Places(u, k) PROVE FALSE
  BY <1>0, <1>3, PlaceEffect, ZenonT(40) DEF Placed
<1> QED BY <1>0, <1>1, <1>2, <1>3, KeySteps, Zenon DEF KeyStep

\* A step keeps what an intent was computed from.
LEMMA IntentComputedStep ==
    ASSUME OrderInv, CoreStep PROVE IntentComputed'
<1>0. IInv /\ IntentComputed
  BY Zenon DEF OrderInv
<1>1. NoIntent.txn = NoTxn
  BY DEF NoIntent
<1> SUFFICES ASSUME NEW k \in Key, NEW t, t = intent'[k].txn, t # NoTxn
             PROVE  \E prev \in ReadAt(store'[k], Version) :
                       /\ EvalConditions(Write[t][k].cond, prev)
                       /\ intent'[k].value = ApplyPutOp(t, k, prev)
  BY Zenon DEF IntentComputed, ReadNextKey
<1>2. CASE intent'[k] = intent[k] /\ store'[k] = store[k]
  BY <1>0, <1>2, Zenon DEF IntentComputed, ReadNextKey
<1>3. ASSUME NEW u \in Txn, Places(u, k)
      PROVE  \E prev \in ReadAt(store'[k], Version) :
                       /\ EvalConditions(Write[t][k].cond, prev)
                       /\ intent'[k].value = ApplyPutOp(t, k, prev)
  <2>1. u = t /\ store' = store
    BY <1>0, <1>3, PlaceEffect, Zenon DEF Placed
  <2>2. PICK prev \in ReadNextKey(k) :
                 /\ EvalConditions(Write[u][k].cond, prev)
                 /\ intent'[k] = [txn |-> u, value |-> ApplyPutOp(u, k, prev)]
    BY <1>0, <1>3, PlaceEffect, Zenon DEF Placed
  <2>3. intent'[k].value = ApplyPutOp(u, k, prev)
    BY <2>2
  <2> QED BY <2>1, <2>2, <2>3, Zenon DEF ReadNextKey
<1> QED BY <1>0, <1>1, <1>2, <1>3, KeySteps, Zenon DEF KeyStep

\* A step keeps the rule that the first committer wins.
LEMMA FirstCommitterStep ==
    ASSUME OrderInv, CoreStep PROVE FirstCommitterWins'
<1>0. IInv /\ CommitVersionsUnique /\ StartsFresh /\ IntentNewest /\ IntentLast /\ FirstCommitterWins
  BY Zenon DEF OrderInv
<1> SUFFICES ASSUME NEW t \in Txn, NEW u \in Txn, record'[t] = "committed", record'[u] = "committed",
                    NEW k \in Key, t # u, commit'[u] < commit'[t], Writes(u, k),
                    Write[t][k].type # "none", ~IsAtomicOperation(Write[t][k])
             PROVE  commit'[u] < start'[t]
  BY Zenon DEF FirstCommitterWins, Committed, Writes
<1>1. ASSUME NEW w \in Txn, record'[w] = "committed"
      PROVE  /\ commit[w] # 0 /\ commit'[w] = commit[w] /\ start'[w] = start[w]
             /\ record[w] = "committed" \/ record[w] = "running"
  <2>1. CASE record[w] = "committed"
    <3>1. commit[w] # 0 /\ record[w] # "none"
      BY <1>0, <2>1, Zenon DEF IInv, RecordOfClient
    <3> QED BY <1>0, <2>1, <3>1, TxnSteps, Zenon DEF TxnStep
  <2>2. CASE record[w] # "committed"
    BY <1>0, <1>1, <2>2, TxnSteps, Zenon DEF TxnStep, Decides
  <2> QED BY <2>1, <2>2, Zenon
<1>2. commit[u] < commit[t] /\ k \in KeysOf(t) /\ k \in KeysOf(u)
  <2>1. Write[u][k].type # "none"
    BY Zenon DEF Writes
  <2> QED BY <1>1, <2>1, Zenon DEF KeysOf
<1>3. CASE record[t] = "committed" /\ record[u] = "committed"
  <2>1. commit[u] < start[t]
    BY <1>0, <1>2, <1>3, Zenon DEF FirstCommitterWins, Committed
  <2> QED BY <1>1, <2>1, Zenon
<1>4. CASE record[t] = "running" /\ record[u] = "committed"
  <2>1. intent[k].txn = t /\ t # NoTxn
    BY <1>0, <1>1, <1>2, <1>4, RunningIntent, TxnAssumption, Zenon
  <2>2. store[k][commit[u]] # Absent /\ commit[u] \in Version
    BY <1>0, <1>1, <1>4, <2>1, Numbers, ZenonT(40) DEF IdsTyped, IInv, CommittedWritesDurable, Committed
  <2>3. commit[u] < start[t]
    BY <1>0, <2>1, <2>2, Zenon DEF IntentNewest
  <2> QED BY <1>1, <2>3, Zenon
<1>5. CASE record[u] = "running" /\ record[t] = "committed"
  <2>1. intent[k].txn = u /\ u # NoTxn
    BY <1>0, <1>1, <1>2, <1>5, RunningIntent, TxnAssumption, Zenon
  <2>2. commit[t] < commit[u]
    BY <1>0, <1>1, <1>2, <1>5, <2>1, Zenon DEF IntentLast, Committed
  <2>3. commit[t] \in Nat /\ commit[u] \in Nat
    BY <1>0, Numbers, Zenon DEF IdsTyped
  <2> QED BY <1>2, <2>2, <2>3
<1>6. ~(record[u] = "running" /\ record[t] = "running")
  BY <1>0, <1>1, <1>2, RunningIntent, ZenonT(40)
<1> QED BY <1>1, <1>3, <1>4, <1>5, <1>6, Zenon

-----------------------------------------------------------------------------
\* What each write was computed from

\* Reading depends only on the versions that are there.
LEMMA ReadAtSame ==
    ASSUME NEW f, NEW A, NEW g, NEW B, NEW e \in ReadAt(f, A),
           \A v \in A : f[v] # Absent => v \in B /\ g[v] = f[v],
           \A v \in B : g[v] # Absent => v \in A /\ f[v] = g[v]
    PROVE  e \in ReadAt(g, B)
<1>1. CASE e = NoEntry /\ \A v \in A : f[v] = Absent
  <2>1. \A v \in B : g[v] = Absent
    BY <1>1, Zenon
  <2> QED BY <1>1, <2>1, ReadAtIs, Zenon
<1>2. CASE \E v \in A : /\ f[v] # Absent
                        /\ e = [version |-> v, content |-> f[v]]
                        /\ \A w \in A : f[w] # Absent => w <= v
  <2>1. PICK v \in A : /\ f[v] # Absent
                       /\ e = [version |-> v, content |-> f[v]]
                       /\ \A w \in A : f[w] # Absent => w <= v
    BY <1>2, Zenon
  <2>2. v \in B /\ g[v] = f[v] /\ \A w \in B : g[w] # Absent => w <= v
    BY <2>1, Zenon
  <2>3. e = [version |-> v, content |-> g[v]]
    BY <2>1, <2>2, Zenon
  <2> QED BY <2>1, <2>2, <2>3, ReadAtIs, Zenon
<1>3. e \in ReadAt(f, A)
  OBVIOUS
<1> QED BY <1>1, <1>2, <1>3, ReadAtIs

\* A version of the history is the one of a committed intent, or a stored one.
LogicalAt(k, v) ==
    \/ /\ intent[k].txn \in Txn /\ record[intent[k].txn] = "committed"
       /\ commit[intent[k].txn] = v /\ intent[k].value # Nop
       /\ Logical[k][v] = intent[k].value
    \/ /\ \/ intent[k].txn \notin Txn \/ record[intent[k].txn] # "committed"
          \/ commit[intent[k].txn] # v \/ intent[k].value = Nop
       /\ Logical[k][v] = store[k][v]

\* The versions that have taken effect, before and after a step.
LEMMA LogicalIs ==
    ASSUME NEW k \in Key, NEW v \in Version
    PROVE  LogicalAt(k, v) /\ LogicalAt(k, v)'
BY Zenon DEF LogicalAt, Logical, Committed

\* A transaction that has not taken effect has no version.
LEMMA NotYetStored ==
    ASSUME IInv, CommitVersionsUnique, NEW t \in Txn, record[t] # "committed", commit[t] # 0, NEW k \in Key
    PROVE  commit[t] \in Version /\ store[k][commit[t]] = Absent
<1>1. commit[t] \in Version
  BY Numbers, Zenon DEF IdsTyped
<1>2. ASSUME store[k][commit[t]] # Absent PROVE FALSE
  <2>1. PICK u \in Committed : commit[u] = commit[t]
    BY <1>1, <1>2, Zenon DEF IInv, NoDirtyVersion
  <2> QED BY <2>1, Zenon DEF CommitVersionsUnique, Committed
<1> QED BY <1>1, <1>2, Zenon

\* What a step does to one version of the history.
LogicalStep(k, v) ==
    \/ Logical'[k][v] = Logical[k][v]
    \/ \E t \in Txn : /\ Decides(t, "committed") /\ intent[k].txn = t /\ commit[t] = v
                      /\ intent[k].value # Nop
                      /\ store[k][v] = Absent /\ Logical[k][v] = Absent
                      /\ Logical'[k][v] = intent[k].value

\* The versions that have taken effect change only when a record becomes COMMITTED, and then at the
\* commit version, where there was none.
LEMMA LogicalSteps ==
    ASSUME OrderInv, CoreStep, NEW k \in Key, NEW v \in Version
    PROVE  LogicalStep(k, v)
<1> USE DEF LogicalStep
<1>0. IInv /\ CommitVersionsUnique /\ IntentUnstored
  BY Zenon DEF OrderInv
<1>1. NoIntent.txn = NoTxn /\ NoTxn \notin Txn
  BY TxnAssumption DEF NoIntent
<1>2. ASSUME intent'[k] = intent[k], store'[k] = store[k], Logical'[k][v] # Logical[k][v]
      PROVE  \E t \in Txn : /\ Decides(t, "committed") /\ intent[k].txn = t /\ commit[t] = v
                            /\ intent[k].value # Nop
                            /\ store[k][v] = Absent /\ Logical[k][v] = Absent
                            /\ Logical'[k][v] = intent[k].value
  <2> DEFINE t == intent[k].txn
  <2>1. t \in Txn
    BY <1>2, LogicalIs, ZenonT(40) DEF LogicalAt
  <2>2. record[t] # "committed"
    <3>1. ASSUME record[t] = "committed" PROVE FALSE
      <4>1. record'[t] = "committed" /\ commit'[t] = commit[t]
        BY <1>0, <2>1, <3>1, TxnSteps, ZenonT(40) DEF TxnStep, IInv, RecordOfClient
      <4> QED BY <1>2, <2>1, <3>1, <4>1, LogicalIs DEF LogicalAt
    <3> QED BY <3>1, Zenon
  <2>3. /\ record'[t] = "committed" /\ commit'[t] = v /\ intent[k].value # Nop
        /\ Logical'[k][v] = intent[k].value /\ Logical[k][v] = store[k][v]
    BY <1>2, <2>1, <2>2, LogicalIs DEF LogicalAt
  <2>4. Decides(t, "committed")
    BY <1>0, <2>1, <2>2, <2>3, TxnSteps, Zenon DEF TxnStep
  <2>5. commit[t] = v /\ commit[t] # 0
    BY <2>3, <2>4, Zenon DEF Decides
  <2>6. store[k][v] = Absent
    BY <1>0, <2>1, <2>2, <2>5, NotYetStored, Zenon
  <2> QED BY <2>1, <2>3, <2>4, <2>5, <2>6, Zenon
<1>3. ASSUME NEW t \in Txn, Places(t, k) PROVE Logical'[k][v] = Logical[k][v]
  <2>1. intent[k].txn = NoTxn /\ store' = store /\ record' = record /\ commit[t] = 0 /\ intent'[k].txn = t
    BY <1>0, <1>3, PlaceEffect, Zenon DEF Placed, Places
  <2>2. record'[t] # "committed"
    BY <1>0, <2>1, ZenonT(40) DEF IInv, RecordOfClient
  <2> QED BY <1>1, <2>1, <2>2, LogicalIs, Zenon DEF LogicalAt
<1>4. ASSUME NEW t \in Txn, Clears(t, k), intent'[k] = NoIntent, store'[k] = store[k]
      PROVE  Logical'[k][v] = Logical[k][v]
  <2>1. intent[k].txn = t /\ record[t] # "committed"
    BY <1>4 DEF Clears
  <2> QED BY <1>1, <1>4, <2>1, LogicalIs DEF LogicalAt
<1>5. ASSUME NEW t \in Txn, Applies(t, k), intent'[k] = NoIntent PROVE Logical'[k][v] = Logical[k][v]
  <2>1. intent[k].txn = t /\ record[t] = "committed"
    BY <1>5, Zenon DEF Applies
  <2>2. Logical'[k][v] = store'[k][v]
    BY <1>1, <1>5, LogicalIs, Zenon DEF LogicalAt
  <2>3. CASE v = commit[t]
    <3>1. store'[k][v] = IF intent[k].value = Nop THEN Absent ELSE intent[k].value
      BY <1>0, <1>5, <2>3, ApplyFillsAbsent, Zenon DEF Fills
    <3>2. store[k][v] = Absent
      BY <1>0, <1>5, <2>3, ApplyFillsAbsent, Zenon DEF Fills
    <3> QED BY <2>1, <2>2, <2>3, <3>1, <3>2, LogicalIs, Zenon DEF LogicalAt
  <2>4. CASE v # commit[t]
    <3>1. store'[k][v] = store[k][v]
      BY <1>0, <1>5, <2>4, ApplyFillsAbsent, Zenon DEF Fills
    <3> QED BY <2>1, <2>2, <2>4, <3>1, LogicalIs, Zenon DEF LogicalAt
  <2> QED BY <2>3, <2>4, Zenon
<1> QED BY <1>0, <1>2, <1>3, <1>4, <1>5, KeySteps, Zenon DEF KeyStep

\* Nothing that comes later changes what a key holds up to the commit version of one of its writers.
LEMMA LogicalBelow ==
    ASSUME OrderInv, CoreStep, NEW t \in Committed, NEW k \in Key, k \in KeysOf(t),
           NEW v \in Version, v <= commit[t]
    PROVE  Logical'[k][v] = Logical[k][v]
<1>0. IInv /\ IntentLast /\ t \in Txn /\ record[t] = "committed"
  BY Zenon DEF OrderInv, Committed
<1>1. ASSUME NEW u \in Txn, Decides(u, "committed"), intent[k].txn = u, commit[u] = v PROVE FALSE
  <2>1. u # t /\ commit[u] # 0 /\ u # NoTxn
    BY <1>0, <1>1, TxnAssumption DEF Decides
  <2>2. commit[t] < commit[u]
    BY <1>0, <1>1, <2>1, Zenon DEF IntentLast
  <2>3. commit[t] \in Nat /\ v \in Nat
    BY <1>0, Numbers, Zenon DEF IdsTyped
  <2> QED BY <1>1, <2>2, <2>3
<1> QED BY <1>1, LogicalSteps DEF LogicalStep

\* A step keeps every committed write computed from the version before it.
LEMMA WritesChainedStep ==
    ASSUME OrderInv, CoreStep PROVE WritesChained'
<1>0. IInv /\ CommitVersionsUnique /\ IntentLast /\ IntentComputed /\ WritesChained
  BY Zenon DEF OrderInv
<1> SUFFICES ASSUME NEW t \in Txn, record'[t] = "committed", NEW k \in Key, Writes(t, k)
             PROVE  \E prev \in ReadAt(Logical'[k], UpTo(commit'[t] - 1)) :
                       /\ EvalConditions(Write[t][k].cond, prev)
                       /\ Logical'[k][commit'[t]] = ApplyPutOp(t, k, prev)
  BY Zenon DEF WritesChained, Committed, Writes
<1>1. k \in KeysOf(t) /\ Write[t][k].type # "nop"
  <2>1. Write[t][k].type # "none" /\ Write[t][k].type # "nop"
    BY Zenon DEF Writes
  <2> QED BY <2>1, Zenon DEF KeysOf
<1>2. CASE record[t] = "committed"
  <2>1. t \in Committed /\ commit[t] # 0 /\ commit'[t] = commit[t] /\ commit[t] \in Version /\ commit[t] \in Nat
    BY <1>0, <1>2, TxnSteps, Numbers, ZenonT(40) DEF IdsTyped, TxnStep, Committed, IInv, RecordOfClient
  <2>2. PICK prev \in ReadAt(Logical[k], UpTo(commit[t] - 1)) :
            /\ EvalConditions(Write[t][k].cond, prev)
            /\ Logical[k][commit[t]] = ApplyPutOp(t, k, prev)
    BY <1>0, <2>1, Zenon DEF WritesChained
  <2>3. \A v \in UpTo(commit[t] - 1) : v \in Version /\ v <= commit[t]
    BY <1>0, <2>1, Numbers DEF IdsTyped, UpTo
  <2>4. \A v \in UpTo(commit[t] - 1) : Logical'[k][v] = Logical[k][v]
    BY <1>1, <2>1, <2>3, LogicalBelow, Zenon
  <2>5. commit[t] <= commit[t]
    BY <2>1
  <2>6. Logical'[k][commit[t]] = Logical[k][commit[t]]
    BY <1>1, <2>1, <2>5, LogicalBelow, Zenon
  <2>7. prev \in ReadAt(Logical'[k], UpTo(commit[t] - 1))
    BY <2>2, <2>4, ReadAtSame
  <2> QED BY <2>1, <2>2, <2>6, <2>7, Zenon
<1>3. CASE record[t] # "committed"
  <2>1. Decides(t, "committed")
    BY <1>0, <1>3, TxnSteps, Zenon DEF TxnStep
  <2>2. /\ record[t] = "running" /\ commit[t] # 0 /\ commit'[t] = commit[t]
        /\ intent'[k] = intent[k] /\ store'[k] = store[k]
    BY <2>1, Zenon DEF Decides
  <2>3. intent[k].txn = t /\ t # NoTxn /\ commit[t] \in Version /\ commit[t] \in Nat
    BY <1>0, <1>1, <2>2, RunningIntent, Numbers, TxnAssumption, Zenon DEF IdsTyped
  <2>4. PICK prev \in ReadAt(store[k], Version) :
            /\ EvalConditions(Write[t][k].cond, prev)
            /\ intent[k].value = ApplyPutOp(t, k, prev)
    BY <1>0, <2>3, Zenon DEF IntentComputed, ReadNextKey
  <2>5. intent[k].value # Nop
    BY <1>0, <1>1, <2>3, ZenonT(40) DEF IInv, IntentOfWrite
  <2>6. Logical'[k][commit[t]] = intent[k].value
    BY <2>2, <2>3, <2>5, LogicalIs, ZenonT(40) DEF LogicalAt
  <2>7. ASSUME NEW v \in Version, store[k][v] # Absent
        PROVE  v # commit[t] /\ v \in UpTo(commit[t] - 1)
    <3>1. PICK w \in Committed : commit[w] = v /\ Writes(w, k)
      BY <1>0, <2>7, Zenon DEF IInv, NoDirtyVersion
    <3>2. w # t /\ w \in Txn /\ k \in KeysOf(w)
      BY <1>3, <3>1 DEF Committed, Writes, KeysOf
    <3>3. commit[w] < commit[t]
      BY <1>0, <2>2, <2>3, <3>1, <3>2, Zenon DEF IntentLast
    <3>4. v < commit[t] /\ v \in Nat
      BY <1>0, <3>1, <3>3, Numbers, ZenonT(40) DEF IdsTyped
    <3> QED BY <2>3, <3>4 DEF UpTo
  <2>8. ASSUME NEW v \in UpTo(commit[t] - 1) PROVE v \in Version /\ v # commit[t] /\ Logical'[k][v] = store[k][v]
    <3>1. v \in Version /\ v # commit[t]
      BY <1>0, <2>3, <2>8, Numbers DEF IdsTyped, UpTo
    <3> QED BY <2>2, <2>3, <3>1, LogicalIs DEF LogicalAt
  <2>9. prev \in ReadAt(Logical'[k], UpTo(commit[t] - 1))
    BY <2>4, <2>7, <2>8, ReadAtSame
  <2> QED BY <2>2, <2>4, <2>6, <2>9, Zenon
<1> QED BY <1>2, <1>3, Zenon

-----------------------------------------------------------------------------
\* What a step does to one Get

InFlight == {"reread", "resolve", "abort", "wait", "woken"}

\* A step in which a Get neither reads nor answers.
Calm(q) ==
    /\ met'[q] = met[q] /\ rest'[q] = rest[q] /\ result'[q] = result[q]
    /\ \/ pc'[q] = pc[q] /\ signal'[q] = signal[q]
       \/ /\ pc[q] \in InFlight /\ pc'[q] \in {"sent", "hung", "abort", "wait", "resolve"}
          /\ signal'[q] = signal[q]
       \/ pc'[q] = "sent" /\ signal'[q] = signal[q] /\ start[q.client] = 0 /\ start'[q.client] # 0
       \/ /\ pc[q] = "wait" /\ pc'[q] = "woken"
          /\ \E u \in Committed : intent[q.key].txn = u /\ signal'[q] = commit[u]
          /\ record' = record

\* A step of another request.
LEMMA OtherRequest ==
    ASSUME IInv, NEW q \in Request, q.kind = "get", NEW x \in Request, x # q, RequestStep(x)
    PROVE  Calm(q)
<1>0. /\ pc \in [Request -> PC] /\ met \in [Request -> Intent \cup {NoIntent}]
      /\ rest \in [Request -> Entry \cup {NoEntry}] /\ signal \in [Request -> {0} \cup Version]
      /\ result \in [Request -> Entry \cup {NoEntry}]
  BY Zenon DEF IInv, TypeOK
<1>1. ASSUME NEW p, pc' = [pc EXCEPT ![x] = p] PROVE pc'[q] = pc[q]
  BY <1>0, <1>1
<1>2. ASSUME NEW p, Finish(x, p) PROVE pc'[q] = pc[q]
  BY <1>1, <1>2, Zenon DEF Finish
<1>3. ASSUME NEW i, met' = [met EXCEPT ![x] = i] PROVE met'[q] = met[q]
  BY <1>0, <1>3
<1>4. ASSUME NEW e, rest' = [rest EXCEPT ![x] = e] PROVE rest'[q] = rest[q]
  BY <1>0, <1>4
<1>5. ASSUME NEW e, result' = [result EXCEPT ![x] = e] PROVE result'[q] = result[q]
  BY <1>0, <1>5
<1>6. ASSUME NEW e, signal' = [signal EXCEPT ![x] = e] PROVE signal'[q] = signal[q]
  BY <1>0, <1>6
<1>7. ASSUME NEW e, Resolved(x, e) PROVE pc'[q] = pc[q] /\ result'[q] = result[q]
  <2>1. CASE x.kind = "get"
    BY <1>2, <1>5, <1>7, <2>1, Zenon DEF Resolved
  <2>2. CASE x.kind # "get"
    BY <1>1, <1>7, <2>2, Zenon DEF Resolved
  <2> QED BY <2>1, <2>2, Zenon
<1> DEFINE Same == /\ pc'[q] = pc[q] /\ met'[q] = met[q] /\ rest'[q] = rest[q]
                   /\ signal'[q] = signal[q] /\ result'[q] = result[q]
<1>8. Same => Calm(q)
  BY Zenon DEF Calm
<1>9. CASE WriteIntent(x)
  <2>1. pc'[q] = pc[q]
    BY <1>2, <1>9, Zenon DEF WriteIntent
  <2> QED BY <1>3, <1>8, <1>9, <2>1, Zenon DEF WriteIntent
<1>10. CASE MeetIntent(x)
  BY <1>1, <1>3, <1>8, <1>10, Zenon DEF MeetIntent
<1>11. CASE ResolveCommitted(x)
  BY <1>7, <1>8, <1>11, Zenon DEF ResolveCommitted
<1>12. CASE ResolveAborted(x)
  BY <1>7, <1>8, <1>12, Zenon DEF ResolveAborted
<1>13. CASE ResolveExpired(x) \/ AbortTxn(x)
  BY <1>1, <1>8, <1>13, Zenon DEF ResolveExpired, AbortTxn
<1>14. CASE ResolveWait(x) \/ DropCommitIntent(x)
  BY <1>2, <1>8, <1>14, Zenon DEF ResolveWait, DropCommitIntent
<1>15. CASE GetSnapshot(x)
  <2>1. pc'[q] = pc[q] /\ signal'[q] = signal[q]
    BY <1>1, <1>6, <1>15, Zenon DEF GetSnapshot
  <2>2. met'[q] = met[q]
    BY <1>3, <1>15, Zenon DEF GetSnapshot
  <2>3. rest'[q] = rest[q] /\ result'[q] = result[q]
    BY <1>4, <1>5, <1>15, Zenon DEF GetSnapshot
  <2> QED BY <1>8, <2>1, <2>2, <2>3, Zenon
<1>16. CASE GetReread(x)
  <2>1. pc'[q] = pc[q]
    BY <1>1, <1>16, Zenon DEF GetReread
  <2>2. met'[q] = met[q] /\ result'[q] = result[q]
    BY <1>3, <1>5, <1>16, Zenon DEF GetReread
  <2> QED BY <1>8, <1>16, <2>1, <2>2, Zenon DEF GetReread
<1>17. CASE GetWoken(x)
  BY <1>7, <1>8, <1>17, Zenon DEF GetWoken
<1>18. CASE CommitIntent(x)
  <2>1. /\ met' = met /\ rest' = rest /\ result' = result /\ record' = record
        /\ \/ intent[x.key].txn = x.client /\ SignalAll(x, commit[x.client])
           \/ pc' = [pc EXCEPT ![x] = "done"] /\ signal' = signal
    BY <1>18, Zenon DEF CommitIntent, recordVars
  <2>2. CASE pc' = [pc EXCEPT ![x] = "done"] /\ signal' = signal
    BY <1>1, <1>8, <2>1, <2>2, Zenon
  <2>3. CASE intent[x.key].txn = x.client /\ SignalAll(x, commit[x.client])
    <3>1. x.client \in Committed
      BY <1>18, RequestParts, Zenon DEF PartsOfRequests, CommitIntent, IInv, RequestOfClient, Committed
    <3>2. CASE q.key = x.key /\ pc[q] = "wait"
      <4>1. pc'[q] = "woken" /\ signal'[q] = commit[x.client]
        BY <2>3, <3>2, Zenon DEF SignalAll
      <4> QED BY <2>1, <2>3, <3>1, <3>2, <4>1, Zenon DEF Calm
    <3>3. CASE ~(q.key = x.key /\ pc[q] = "wait")
      <4>1. pc'[q] = pc[q] /\ signal'[q] = signal[q]
        BY <2>3, <3>3, Zenon DEF SignalAll
      <4> QED BY <1>8, <2>1, <4>1, Zenon
    <3> QED BY <3>2, <3>3, Zenon
  <2> QED BY <2>1, <2>2, <2>3, Zenon
<1> QED BY <1>9, <1>10, <1>11, <1>12, <1>13, <1>14, <1>15, <1>16, <1>17, <1>18, Zenon DEF RequestStep, Resolve

\* A Get reads or answers only in a step of its own.
LEMMA GetSteps ==
    ASSUME IInv, [Next]_vars, NEW q \in Request, q.kind = "get"
    PROVE  \/ Calm(q)
           \/ GetSnapshot(q) \/ GetReread(q) \/ GetWoken(q) \/ ResolveCommitted(q) \/ ResolveAborted(q)
<1>0. /\ q.client \in Client /\ q.client \in Reader /\ q.client \notin Txn
  BY RequestParts, TxnAssumption, Zenon DEF PartsOfRequests
<1>1. CASE UNCHANGED vars
  BY <1>1, Zenon DEF vars, requestVars, Calm
<1>2. ASSUME NEW t \in Txn, ClientStep(t) PROVE Calm(q)
  <2>1. q \notin WriteIntents(t) /\ q \notin CommitIntents(t)
    <3>1. \A u \in Txn : /\ q \in WriteIntents(u) => q.kind = "write_intent"
                         /\ q \in CommitIntents(u) => q.kind = "commit_intent"
      BY RequestParts DEF PartsOfRequests
    <3>2. q.kind # "write_intent" /\ q.kind # "commit_intent"
      OBVIOUS
    <3> QED BY <3>1, <3>2, Zenon
  <2>2. UNCHANGED <<met, rest, signal, result>>
    BY <1>2, Zenon DEF ClientStep, Begin, Heartbeat, AllocCommitVersion, CommitAcked, CommitUnanswered,
                       Fail, CommitRecord, requestVars
  <2>3. pc'[q] = pc[q]
    BY <1>2, <2>1, Zenon DEF ClientStep, Begin, Heartbeat, AllocCommitVersion, CommitAcked,
                             CommitUnanswered, Fail, CommitRecord, requestVars
  <2> QED BY <2>2, <2>3, Zenon DEF Calm
<1>3. ASSUME NEW r \in Reader, BeginRead(r) PROVE Calm(q)
  <2>1. UNCHANGED <<met, rest, signal, result>> /\ start[r] = 0 /\ ts \in Version
    BY <1>3, Zenon DEF BeginRead, AllocTxnId
  <2>2. CASE q \in Gets(r)
    <3>1. q.client = r
      BY <2>2 DEF Gets
    <3>2. pc'[q] = "sent"
      BY <1>3, <2>2, Zenon DEF BeginRead
    <3>3. start' = [start EXCEPT ![r] = ts] /\ start \in [Client -> {0} \cup Version]
      BY <1>3, Zenon DEF BeginRead, IInv, TypeOK
    <3>4. start'[r] = ts
      BY <1>0, <3>1, <3>3
    <3>5. ts # 0
      BY <2>1, Numbers DEF IdsTyped
    <3> QED BY <2>1, <3>1, <3>2, <3>4, <3>5, Zenon DEF Calm
  <2>3. CASE q \notin Gets(r)
    <3>1. pc'[q] = pc[q]
      BY <1>3, <2>3, Zenon DEF BeginRead
    <3> QED BY <2>1, <3>1, Zenon DEF Calm
  <2> QED BY <2>2, <2>3, Zenon
<1>4. CASE LeaderChange
  <2>1. UNCHANGED <<met, rest, signal, result>>
    BY <1>4, Zenon DEF LeaderChange
  <2>2. pc'[q] = IF pc[q] \in {"reread", "resolve", "woken"} THEN "sent"
                 ELSE IF pc[q] = "wait" THEN "hung" ELSE pc[q]
    BY <1>4, Zenon DEF LeaderChange
  <2>3. pc'[q] = pc[q] \/ (pc[q] \in InFlight /\ pc'[q] \in {"sent", "hung", "abort", "wait", "resolve"})
    BY <2>2 DEF InFlight
  <2> QED BY <2>1, <2>3, Zenon DEF Calm
<1>5. ASSUME RequestStep(q)
      PROVE  \/ Calm(q)
             \/ GetSnapshot(q) \/ GetReread(q) \/ GetWoken(q) \/ ResolveCommitted(q) \/ ResolveAborted(q)
  <2>0. pc \in [Request -> PC]
    BY Zenon DEF IInv, TypeOK
  <2>1. ~WriteIntent(q) /\ ~MeetIntent(q) /\ ~CommitIntent(q) /\ ~DropCommitIntent(q)
    BY DEF WriteIntent, MeetIntent, CommitIntent, DropCommitIntent
  <2>2. ASSUME ResolveExpired(q) \/ AbortTxn(q) \/ ResolveWait(q) PROVE Calm(q)
    <3>1. UNCHANGED <<met, rest, signal, result>> /\ pc[q] \in {"resolve", "abort"}
      BY <2>2, Zenon DEF ResolveExpired, AbortTxn, ResolveWait
    <3>2. \E p \in {"sent", "hung", "abort", "wait", "resolve"} : pc' = [pc EXCEPT ![q] = p]
      BY <2>2 DEF ResolveExpired, AbortTxn, ResolveWait, Finish
    <3>3. pc'[q] \in {"sent", "hung", "abort", "wait", "resolve"}
      BY <2>0, <3>2
    <3>4. pc[q] \in InFlight
      BY <3>1 DEF InFlight
    <3> QED BY <3>1, <3>3, <3>4, Zenon DEF Calm
  <2> QED BY <1>5, <2>1, <2>2, Zenon DEF RequestStep, Resolve
<1>6. ASSUME NEW x \in Request, x # q, RequestStep(x) PROVE Calm(q)
  BY <1>6, OtherRequest, Zenon
<1> QED BY <1>1, <1>2, <1>3, <1>4, <1>5, <1>6, Zenon DEF Next

-----------------------------------------------------------------------------
\* Snapshots

\* The part of the invariant that is about one Get.
GetInv(q) ==
    /\ signal[q] # 0 => met[q].txn # NoTxn /\ \E t \in Committed : signal[q] = commit[t]
    /\ pc[q] = "woken" => signal[q] # 0 /\ record[met[q].txn] # "running"
    /\ pc[q] # "none" => start[q.client] # 0
    /\ pc[q] \in InFlight => ResolvesSnapshot(q)
    /\ pc[q] = "done" => Settled(q.key, start[q.client]) /\ result[q].version < ts
    /\ pc[q] = "done" /\ ~Misled(q) /\ ~ReadsNop(q)
          => result[q] \in ReadAt(Logical[q.key], UpTo(start[q.client]))

LEMMA HistoryIsGets ==
    /\ HistoryInv <=> OrderInv /\ \A q \in Request : q.kind = "get" => GetInv(q)
    /\ HistoryInv' <=> OrderInv' /\ \A q \in Request : q.kind = "get" => GetInv(q)'
BY ZenonT(60) DEF HistoryInv, SignalsCommitted, GetsOfSnapshot, SnapshotRead, GetInv, Answered, InFlight

\* What a snapshot holds of a key on which nobody can commit below it does not change.
LEMMA SettledStep ==
    ASSUME OrderInv, CoreStep, NEW k \in Key, NEW s \in Nat, s < ts, Settled(k, s)
    PROVE  Settled(k, s)' /\ \A v \in UpTo(s) : Logical'[k][v] = Logical[k][v]
<1>0. IInv
  BY Zenon DEF OrderInv
<1>1. NoIntent.txn = NoTxn /\ NoTxn \notin Txn
  BY TxnAssumption DEF NoIntent
<1>2. ASSUME NEW t, t = intent'[k].txn, t # NoTxn, record'[t] = "running", commit'[t] # 0
      PROVE  commit'[t] > s
  <2>1. CASE intent'[k] = intent[k]
    <3>1. t = intent[k].txn /\ t \in Txn /\ record[t] # "none"
      BY <1>0, <1>1, <1>2, <2>1, IntentTxn, Zenon DEF IntentTyped, IInv, IntentOfWrite
    <3>2. record[t] = "running"
      <4>1. record[t] \in {"none", "running", "committed", "aborted"}
        BY <1>0, <3>1, ZenonT(40) DEF IInv, TypeOK, RecordState
      <4>2. record[t] \notin {"committed", "aborted"}
        BY <1>0, <1>2, <3>1, TxnSteps DEF TxnStep
      <4> QED BY <3>1, <4>1, <4>2
    <3>3. CASE commit'[t] = commit[t]
      BY <1>2, <3>1, <3>2, <3>3, Zenon DEF Settled
    <3>4. CASE commit'[t] # commit[t]
      <4>1. commit'[t] = ts /\ ts \in Nat
        BY <1>0, <3>1, <3>4, TxnSteps, Numbers, Zenon DEF IdsTyped, TxnStep
      <4> QED BY <4>1
    <3> QED BY <3>3, <3>4, Zenon
  <2>2. ASSUME NEW u \in Txn, Places(u, k) PROVE FALSE
    BY <1>0, <1>2, <2>2, PlaceEffect, Zenon DEF Placed
  <2> QED BY <1>0, <1>1, <1>2, <2>1, <2>2, KeySteps DEF KeyStep
<1>3. Settled(k, s)'
  BY <1>2, Zenon DEF Settled
<1>4. ASSUME NEW v \in UpTo(s), Logical'[k][v] # Logical[k][v] PROVE FALSE
  <2>1. v \in Version /\ v <= s
    BY <1>4, Zenon DEF UpTo
  <2>2. PICK u \in Txn : Decides(u, "committed") /\ intent[k].txn = u /\ commit[u] = v
    BY <1>4, <2>1, LogicalSteps DEF LogicalStep
  <2>3. record[u] = "running" /\ commit[u] # 0 /\ u # NoTxn
    BY <1>1, <2>2, Zenon DEF Decides
  <2>4. commit[u] > s
    BY <2>2, <2>3, Zenon DEF Settled
  <2>5. v \in Nat
    BY <1>0, <2>1, Numbers, Zenon DEF IdsTyped
  <2> QED BY <2>1, <2>2, <2>4, <2>5
<1> QED BY <1>3, <1>4, Zenon

\* A Get that resolves an intent still belongs to its snapshot after a step in which it does not read.
LEMMA ResolvesSnapshotStep ==
    ASSUME OrderInv, CoreStep, NEW q \in Request, q.kind = "get", start[q.client] # 0, ResolvesSnapshot(q),
           met'[q] = met[q], rest'[q] = rest[q]
    PROVE  ResolvesSnapshot(q)'
<1> DEFINE t == met[q].txn
           k == q.key
           s == start[q.client]
<1>0. IInv /\ CommitVersionsUnique /\ StartsFresh
  BY Zenon DEF OrderInv
<1>1. k \in Key /\ q.client \in Client /\ s \in Nat /\ s < ts /\ start'[q.client] = s /\ ts \in Nat
  BY <1>0, RequestParts, Numbers, ClientSteps, Zenon DEF PartsOfRequests, IdsTyped, IdStep, StartsFresh
<1>2. t \in Txn /\ record[t] # "none" /\ record'[t] # "none" /\ commit[t] \in Nat
  BY <1>0, TxnSteps, Numbers, Zenon DEF IdsTyped, TxnStep, ResolvesSnapshot
<1>3. intent[k].txn \notin {NoTxn, t} /\ commit[intent[k].txn] # 0 => commit[intent[k].txn] > s
  BY Zenon DEF ResolvesSnapshot
<1>4. record[t] = "running" => intent[k] = met[q]
  BY Zenon DEF ResolvesSnapshot
<1>5. rest[q] \in ReadAt(Without(Logical[k], commit[t]), UpTo(s))
  BY Zenon DEF ResolvesSnapshot
<1>6. commit[t] # 0 /\ commit[t] <= s =>
              \A v \in UpTo(s) : Without(Logical[k], commit[t])[v] # Absent => v < commit[t]
  BY Zenon DEF ResolvesSnapshot
<1>7. record[t] = "committed" /\ met[q].value # Nop => Logical[k][commit[t]] = met[q].value
  BY Zenon DEF ResolvesSnapshot
<1>8. met[q].value = Nop => Write[t][k].type = "nop"
  BY Zenon DEF ResolvesSnapshot
<1>9. NoIntent.txn = NoTxn /\ NoTxn \notin Txn
  BY TxnAssumption DEF NoIntent
<1>10. \A v \in UpTo(s) : v \in Version /\ v \in Nat /\ v <= s /\ v # 0 /\ v # ts
  BY <1>0, <1>1, Numbers DEF IdsTyped, UpTo
<1>11. commit'[t] = commit[t] \/ (commit[t] = 0 /\ commit'[t] = ts)
  BY <1>0, <1>2, TxnSteps, Zenon DEF TxnStep
<1> HIDE DEF t, k, s
<1>12. ASSUME NEW v \in UpTo(s), v # commit'[t] PROVE Logical'[k][v] = Logical[k][v]
  <2>1. ASSUME NEW u \in Txn, Decides(u, "committed"), intent[k].txn = u, commit[u] = v PROVE FALSE
    <3>1. u # t
      BY <1>12, <2>1, Zenon DEF Decides
    <3>2. commit[u] # 0 /\ u # NoTxn
      BY <1>9, <2>1, Zenon DEF Decides
    <3>3. commit[u] > s
      BY <1>3, <2>1, <3>1, <3>2
    <3> QED BY <1>1, <1>10, <1>12, <2>1, <3>3
  <2> QED BY <1>1, <1>10, <2>1, LogicalSteps DEF LogicalStep
<1>13. ASSUME NEW v \in UpTo(s)
       PROVE  Without(Logical'[k], commit'[t])[v] = Without(Logical[k], commit[t])[v]
  <2>1. /\ Without(Logical'[k], commit'[t])[v] = IF v = commit'[t] THEN Absent ELSE Logical'[k][v]
        /\ Without(Logical[k], commit[t])[v] = IF v = commit[t] THEN Absent ELSE Logical[k][v]
    BY <1>10, Zenon DEF Without
  <2>2. v = commit'[t] <=> v = commit[t]
    BY <1>10, <1>11
  <2> QED BY <1>12, <2>1, <2>2
<1>14. rest[q] \in ReadAt(Without(Logical'[k], commit'[t]), UpTo(s))
  BY <1>5, <1>13, ReadAtSame
<1>15. commit'[t] # 0 /\ commit'[t] <= s =>
              \A v \in UpTo(s) : Without(Logical'[k], commit'[t])[v] # Absent => v < commit'[t]
  <2>1. CASE commit'[t] = commit[t]
    BY <1>6, <1>13, <2>1
  <2>2. CASE commit'[t] = ts
    BY <1>1, <2>2
  <2> QED BY <1>11, <2>1, <2>2
<1>16. record'[t] = "running" => intent'[k] = met[q]
  <2> SUFFICES ASSUME record'[t] = "running" PROVE intent'[k] = met[q]
    OBVIOUS
  <2>1. record[t] = "running"
    <3>1. record[t] \in {"none", "running", "committed", "aborted"}
      BY <1>0, <1>2, ZenonT(40) DEF IInv, TypeOK, RecordState
    <3>2. record[t] \notin {"committed", "aborted"}
      BY <1>0, <1>2, TxnSteps DEF TxnStep
    <3> QED BY <1>2, <3>1, <3>2
  <2>2. intent[k] = met[q] /\ intent[k].txn = t
    BY <1>4, <2>1, Zenon DEF t
  <2>3. ASSUME NEW u \in Txn, Places(u, k) PROVE FALSE
    BY <1>2, <1>9, <2>2, <2>3, ZenonT(40) DEF Places
  <2>4. ASSUME NEW u \in Txn, Clears(u, k) \/ Applies(u, k) PROVE FALSE
    BY <2>1, <2>2, <2>4 DEF Clears, Applies
  <2> QED BY <1>0, <1>1, <2>2, <2>3, <2>4, KeySteps DEF KeyStep
<1>17. record'[t] = "committed" /\ met[q].value # Nop => Logical'[k][commit'[t]] = met[q].value
  <2> SUFFICES ASSUME record'[t] = "committed", met[q].value # Nop PROVE Logical'[k][commit'[t]] = met[q].value
    OBVIOUS
  <2>1. CASE record[t] = "committed"
    <3>1. commit'[t] = commit[t] /\ commit[t] # 0 /\ commit[t] \in Version
      BY <1>0, <1>2, <2>1, TxnSteps, Numbers, ZenonT(40) DEF IdsTyped, TxnStep, IInv, RecordOfClient
    <3>2. ASSUME NEW u \in Txn, Decides(u, "committed"), commit[u] = commit[t] PROVE FALSE
      <4>1. u = t
        BY <1>0, <1>2, <3>1, <3>2, ZenonT(40) DEF CommitVersionsUnique
      <4> QED BY <2>1, <3>2, <4>1 DEF Decides
    <3>3. Logical'[k][commit[t]] = Logical[k][commit[t]]
      BY <1>1, <3>1, <3>2, LogicalSteps DEF LogicalStep
    <3> QED BY <1>7, <2>1, <3>1, <3>3, ZenonT(40)
  <2>2. CASE record[t] # "committed"
    <3>1. Decides(t, "committed")
      BY <1>0, <1>2, <2>2, TxnSteps, Zenon DEF TxnStep
    <3>2. record[t] = "running" /\ commit'[t] = commit[t] /\ commit[t] # 0 /\ intent' = intent
      BY <3>1, Zenon DEF Decides
    <3>3. intent'[k] = met[q] /\ intent'[k].txn = t /\ commit[t] \in Version
      BY <1>0, <1>2, <1>4, <3>2, Numbers, ZenonT(40) DEF IdsTyped, t
    <3> QED BY <1>1, <1>2, <3>2, <3>3, LogicalIs DEF LogicalAt
  <2> QED BY <2>1, <2>2, Zenon
<1>18. intent'[k].txn \notin {NoTxn, t} /\ commit'[intent'[k].txn] # 0 => commit'[intent'[k].txn] > s
  <2> SUFFICES ASSUME NEW u, u = intent'[k].txn, u # NoTxn, u # t, commit'[u] # 0 PROVE commit'[u] > s
    BY Zenon
  <2>1. CASE intent'[k] = intent[k]
    <3>1. u = intent[k].txn /\ u \in Txn
      BY <1>0, <1>1, <1>9, <2>1, IntentTxn, ZenonT(40) DEF IntentTyped
    <3>2. CASE commit'[u] = commit[u]
      BY <1>3, <3>1, <3>2
    <3>3. CASE commit'[u] # commit[u]
      <4>1. commit'[u] = ts
        BY <1>0, <3>1, <3>3, TxnSteps, Zenon DEF TxnStep
      <4> QED BY <1>1, <4>1
    <3> QED BY <3>2, <3>3, Zenon
  <2>2. ASSUME NEW w \in Txn, Places(w, k) PROVE FALSE
    BY <1>0, <1>1, <2>2, PlaceEffect, Zenon DEF Placed
  <2> QED BY <1>0, <1>1, <1>9, <2>1, <2>2, KeySteps DEF KeyStep
<1> QED BY <1>1, <1>2, <1>8, <1>14, <1>15, <1>16, <1>17, <1>18, ZenonT(40) DEF ResolvesSnapshot, t, k, s

\* What a Get and the steps beside it are made of.
GetTyped(q) ==
    /\ q.key \in Key /\ q.client \in Client /\ start[q.client] \in Nat /\ ts \in Nat /\ ts' \in Nat
    /\ ts <= ts'
    /\ start[q.client] # 0 => start[q.client] < ts /\ start'[q.client] = start[q.client]
    /\ met[q].txn \in Txn \/ met[q] = NoIntent
    /\ NoIntent.txn = NoTxn /\ NoTxn \notin Txn

\* What a Get has to do with its client and the ids.
LEMMA GetFacts ==
    ASSUME OrderInv, CoreStep, NEW q \in Request, q.kind = "get"
    PROVE  GetTyped(q)
<1> USE DEF GetTyped
<1>0. IInv /\ StartsFresh
  BY Zenon DEF OrderInv
<1>1. met[q] \in Intent \cup {NoIntent}
  BY <1>0, Zenon DEF IInv, TypeOK
<1>2. met[q].txn \in Txn \/ met[q] = NoIntent
  BY <1>1 DEF Intent
<1>3. NoIntent.txn = NoTxn /\ NoTxn \notin Txn
  BY TxnAssumption DEF NoIntent
<1> QED BY <1>0, <1>2, <1>3, RequestParts, Numbers, ClientSteps, Zenon DEF PartsOfRequests, IdsTyped, IdStep, StartsFresh

\* A committed transaction stays so, at its version.
StaysCommitted(t) ==
    /\ t \in Txn /\ record[t] = "committed" /\ t \in Committed'
    /\ commit'[t] = commit[t] /\ commit[t] # 0 /\ commit[t] \in Version

\* A transaction that is committed stays so, at its version.
LEMMA CommittedStays ==
    ASSUME IInv, CoreStep, NEW t \in Committed
    PROVE  StaysCommitted(t)
<1> USE DEF StaysCommitted
<1>1. t \in Txn /\ record[t] = "committed"
  BY Zenon DEF Committed
<1>2. commit[t] # 0
  BY <1>1, Zenon DEF IInv, RecordOfClient
<1> QED BY <1>1, <1>2, TxnSteps, Numbers, Zenon DEF IdsTyped, TxnStep, Committed

\* The version of an answer is a number.
LEMMA ResultVersion ==
    ASSUME IInv, NEW q \in Request PROVE result[q].version \in Nat
<1>1. result[q] \in Entry \cup {NoEntry} /\ Version \subseteq Nat
  BY Numbers, ZenonT(40) DEF IdsTyped, IInv, TypeOK
<1>2. result[q] \in Entry => result[q].version \in Version
  BY DEF Entry
<1>3. result[q] = NoEntry => result[q].version \in Nat
  BY DEF NoEntry
<1> QED BY <1>1, <1>2, <1>3, Zenon

\* A step in which a Get neither reads nor answers keeps its part of the invariant.
LEMMA CalmStep ==
    ASSUME OrderInv, CoreStep, NEW q \in Request, q.kind = "get", GetInv(q), Calm(q)
    PROVE  GetInv(q)'
<1>0. IInv /\ CommitVersionsUnique
  BY Zenon DEF OrderInv
<1>1. /\ q.key \in Key /\ q.client \in Client /\ start[q.client] \in Nat /\ ts \in Nat /\ ts' \in Nat
      /\ ts <= ts'
      /\ start[q.client] # 0 => start[q.client] < ts /\ start'[q.client] = start[q.client]
      /\ met[q].txn \in Txn \/ met[q] = NoIntent
      /\ NoIntent.txn = NoTxn /\ NoTxn \notin Txn
  BY GetFacts DEF GetTyped
<1>2. met'[q] = met[q] /\ rest'[q] = rest[q] /\ result'[q] = result[q]
  BY Zenon DEF Calm
<1>3. pc'[q] \in InFlight => pc[q] \in InFlight
  BY DEF Calm, InFlight
<1>4. pc'[q] = "done" => pc[q] = "done" /\ signal'[q] = signal[q]
  BY DEF Calm
<1>5. ASSUME pc'[q] # "none" PROVE start'[q.client] # 0
  <2>1. pc[q] # "none" \/ start'[q.client] # 0
    BY <1>5 DEF Calm, InFlight
  <2> QED BY <1>1, <2>1, Zenon DEF GetInv
<1>6. ASSUME pc'[q] \in InFlight PROVE ResolvesSnapshot(q)'
  <2>1. pc[q] \in InFlight /\ pc[q] # "none"
    BY <1>3, <1>6 DEF InFlight
  <2>2. ResolvesSnapshot(q) /\ start[q.client] # 0
    BY <2>1, Zenon DEF GetInv
  <2> QED BY <1>2, <2>2, ResolvesSnapshotStep, Zenon
<1>7. ASSUME signal'[q] # signal[q]
      PROVE  /\ pc[q] = "wait" /\ record' = record /\ ResolvesSnapshot(q)
             /\ \E u \in Committed : intent[q.key].txn = u /\ signal'[q] = commit[u]
  <2>1. /\ pc[q] = "wait" /\ record' = record
        /\ \E u \in Committed : intent[q.key].txn = u /\ signal'[q] = commit[u]
    BY <1>7, Zenon DEF Calm
  <2>2. pc[q] \in InFlight
    BY <2>1 DEF InFlight
  <2> QED BY <2>1, <2>2, Zenon DEF GetInv
<1>8. ASSUME signal'[q] # 0 PROVE met'[q].txn # NoTxn /\ \E t \in Committed' : signal'[q] = commit'[t]
  <2>1. met[q].txn # NoTxn /\ \E t \in Committed : signal'[q] = commit[t]
    <3>1. CASE signal'[q] = signal[q]
      BY <1>8, <3>1, Zenon DEF GetInv
    <3>2. CASE signal'[q] # signal[q]
      BY <1>1, <1>7, <3>2, ZenonT(40) DEF ResolvesSnapshot
    <3> QED BY <3>1, <3>2, Zenon
  <2>2. PICK t \in Committed : signal'[q] = commit[t]
    BY <2>1, Zenon
  <2>3. t \in Committed' /\ commit'[t] = commit[t]
    BY <1>0, CommittedStays, Zenon DEF StaysCommitted
  <2> QED BY <1>2, <2>1, <2>2, <2>3, ZenonT(40)
<1>9. ASSUME pc'[q] = "woken" PROVE signal'[q] # 0 /\ record'[met'[q].txn] # "running"
  <2>1. CASE pc[q] = "woken"
    <3>1. /\ signal[q] # 0 /\ record[met[q].txn] # "running" /\ met[q].txn \in Txn
          /\ record[met[q].txn] # "none" /\ signal'[q] = signal[q]
      <4>1. pc[q] \in InFlight
        BY <2>1 DEF InFlight
      <4>2. signal'[q] = signal[q]
        BY <1>7, <2>1
      <4> QED BY <2>1, <4>1, <4>2, Zenon DEF GetInv, ResolvesSnapshot
    <3>2. record[met[q].txn] \in {"none", "running", "committed", "aborted"}
      BY <1>0, <3>1, ZenonT(40) DEF IInv, TypeOK, RecordState
    <3>3. record[met[q].txn] \in {"committed", "aborted"}
      BY <3>1, <3>2
    <3>4. record'[met[q].txn] = record[met[q].txn]
      BY <1>0, <3>1, <3>3, TxnSteps, Zenon DEF TxnStep
    <3> QED BY <1>2, <3>1, <3>4, Zenon
  <2>2. CASE pc[q] # "woken"
    <3>1. /\ pc[q] = "wait" /\ record' = record
          /\ \E u \in Committed : intent[q.key].txn = u /\ signal'[q] = commit[u]
      BY <1>9, <2>2 DEF Calm
    <3>2. PICK u \in Committed : intent[q.key].txn = u /\ signal'[q] = commit[u]
      BY <3>1, Zenon
    <3>3. ResolvesSnapshot(q)
      <4>1. pc[q] \in InFlight
        BY <3>1 DEF InFlight
      <4> QED BY <4>1, Zenon DEF GetInv
    <3>4. ASSUME record[met[q].txn] = "running" PROVE FALSE
      <4>1. intent[q.key] = met[q]
        BY <3>3, <3>4, Zenon DEF ResolvesSnapshot
      <4>2. record[met[q].txn] = "committed"
        BY <3>2, <4>1, Zenon DEF Committed
      <4> QED BY <3>4, <4>2
    <3>5. commit[u] # 0
      BY <1>0, CommittedStays, Zenon DEF StaysCommitted
    <3> QED BY <1>2, <3>1, <3>2, <3>4, <3>5, ZenonT(40)
  <2> QED BY <2>1, <2>2, Zenon
<1>10. ASSUME pc'[q] = "done"
       PROVE  /\ Settled(q.key, start[q.client])' /\ result'[q].version < ts'
              /\ ~Misled(q)' /\ ~ReadsNop(q)' => result'[q] \in ReadAt(Logical'[q.key], UpTo(start'[q.client]))
  <2> DEFINE k == q.key
  <2>0. PICK s : s = start[q.client]
    BY Zenon
  <2>1. /\ pc[q] = "done" /\ signal'[q] = signal[q] /\ s # 0 /\ s < ts /\ start'[q.client] = s
        /\ Settled(k, s) /\ result[q].version < ts
    <3>1. pc[q] = "done" /\ signal'[q] = signal[q] /\ pc[q] # "none"
      BY <1>4, <1>10
    <3> QED BY <1>1, <2>0, <3>1, Zenon DEF GetInv
  <2>2. Settled(k, s)' /\ \A v \in UpTo(s) : Logical'[k][v] = Logical[k][v]
    <3>1. k \in Key /\ s \in Nat
      BY <1>1, <2>0, Zenon
    <3> QED BY <2>1, <3>1, SettledStep
  <2>3. Settled(q.key, start[q.client])'
    BY <2>1, <2>2, Zenon DEF Settled
  <2>4. result'[q].version < ts'
    <3>1. result[q].version \in Nat
      BY <1>0, ResultVersion, Zenon
    <3>2. result[q].version < ts
      BY <2>1, Zenon
    <3>3. result[q].version < ts'
      BY <1>1, <3>1, <3>2
    <3> QED BY <1>2, <3>3, Zenon
  <2>5. ASSUME ~Misled(q)', ~ReadsNop(q)' PROVE result'[q] \in ReadAt(Logical'[k], UpTo(s))
    <3>1. ~Misled(q)
      <4>1. ASSUME Misled(q) PROVE FALSE
        <5>1. signal[q] # 0 /\ signal[q] # commit[met[q].txn] /\ signal[q] = commit'[met[q].txn]
          BY <1>2, <2>1, <2>5, <4>1, ZenonT(40) DEF Misled
        <5>2. met[q].txn \in Txn
          BY <1>1, <5>1, Zenon DEF GetInv
        <5>3. signal[q] = ts
          BY <1>0, <5>1, <5>2, TxnSteps, ZenonT(40) DEF TxnStep
        <5>4. PICK u \in Committed : signal[q] = commit[u]
          BY <5>1, Zenon DEF GetInv
        <5>5. commit[u] < ts
          BY <1>0, <5>1, <5>4, ZenonT(40) DEF CommitVersionsUnique, Committed
        <5> QED BY <1>1, <5>3, <5>4, <5>5
      <4> QED BY <4>1, Zenon
    <3>2. ~ReadsNop(q)
      <4>1. ASSUME ReadsNop(q) PROVE FALSE
        <5>1. met[q].txn \in Txn /\ commit[met[q].txn] # 0
          BY <1>1, <4>1, Zenon DEF ReadsNop
        <5>2. commit'[met[q].txn] = commit[met[q].txn]
          BY <1>0, <5>1, TxnSteps, ZenonT(40) DEF TxnStep
        <5> QED BY <1>2, <2>5, <4>1, <5>2, Zenon DEF ReadsNop
      <4> QED BY <4>1, Zenon
    <3>3. result[q] \in ReadAt(Logical[k], UpTo(s))
      BY <2>0, <2>1, <3>1, <3>2, ZenonT(40) DEF GetInv
    <3>4. result[q] \in ReadAt(Logical'[k], UpTo(s))
      BY <2>2, <3>3, ReadAtSame
    <3> QED BY <1>2, <3>4, Zenon
  <2> QED BY <2>1, <2>3, <2>4, <2>5, ZenonT(40)
<1> QED BY <1>5, <1>6, <1>8, <1>9, <1>10, ZenonT(40) DEF GetInv

-----------------------------------------------------------------------------
\* The answers of a Get

\* What is read at or below an id that was handed out has a version below the next one.
LEMMA ReadBelow ==
    ASSUME IInv, NEW f, NEW s \in Nat, s < ts, NEW e \in ReadAt(f, UpTo(s))
    PROVE  e.version \in Nat /\ e.version < ts
<1>0. ts \in Nat /\ Version \subseteq Nat
  BY Numbers, Zenon DEF IdsTyped
<1>1. CASE e = NoEntry
  <2>1. e.version = 0
    BY <1>1 DEF NoEntry
  <2> QED BY <1>0, <1>1, <2>1
<1>2. CASE \E v \in UpTo(s) : e = [version |-> v, content |-> f[v]]
  <2>1. PICK v \in UpTo(s) : e = [version |-> v, content |-> f[v]]
    BY <1>2, Zenon
  <2>2. e.version = v
    BY <2>1
  <2>3. v \in Version /\ v \in Nat /\ v <= s
    BY <1>0 DEF UpTo
  <2> QED BY <1>0, <2>2, <2>3
<1>3. e \in ReadAt(f, UpTo(s))
  OBVIOUS
<1> QED BY <1>1, <1>2, <1>3, ReadAtIs

\* A key whose intent has no commit version that the snapshot sees holds there what is stored.
LEMMA LogicalIsStored ==
    ASSUME IInv, NEW k \in Key, NEW s \in Nat,
           intent[k].txn \in Txn /\ record[intent[k].txn] = "committed" => commit[intent[k].txn] > s
    PROVE  \A v \in UpTo(s) : Logical[k][v] = store[k][v]
<1> SUFFICES ASSUME NEW v \in UpTo(s) PROVE Logical[k][v] = store[k][v]
  OBVIOUS
<1>1. v \in Version /\ v \in Nat /\ v <= s
  BY Numbers DEF IdsTyped, UpTo
<1>2. ASSUME intent[k].txn \in Txn, record[intent[k].txn] = "committed", commit[intent[k].txn] = v PROVE FALSE
  BY <1>1, <1>2
<1> QED BY <1>1, <1>2, LogicalIs DEF LogicalAt

\* The answer of a Get: what the snapshot of its start version holds.
AnswersSnapshot(q) ==
    /\ signal'[q] # 0 => signal'[q] = signal[q] /\ met'[q].txn = met[q].txn
    /\ Settled(q.key, start[q.client]) /\ result'[q].version \in Nat /\ result'[q].version < ts
    /\ ~Misled(q)' /\ ~ReadsNop(q)' => result'[q] \in ReadAt(Logical[q.key], UpTo(start[q.client]))

\* A Get that answers what its snapshot holds of a settled key keeps its part of the invariant.
LEMMA AnswerStep ==
    ASSUME OrderInv, CoreStep, NEW q \in Request, q.kind = "get", GetInv(q), pc[q] # "none", pc'[q] = "done",
           AnswersSnapshot(q)
    PROVE  GetInv(q)'
<1> USE DEF AnswersSnapshot
<1>0. IInv
  BY Zenon DEF OrderInv
<1>1. PICK s : s = start[q.client]
  BY Zenon
<1>2. /\ q.key \in Key /\ s \in Nat /\ ts \in Nat /\ ts' \in Nat /\ ts <= ts'
      /\ s # 0 /\ s < ts /\ start'[q.client] = s
  <2>1. s # 0
    BY <1>1, ZenonT(40) DEF GetInv
  <2> QED BY <1>1, <2>1, GetFacts DEF GetTyped
<1>3. Settled(q.key, s)' /\ \A v \in UpTo(s) : Logical'[q.key][v] = Logical[q.key][v]
  <2>1. Settled(q.key, s)
    BY <1>1, Zenon
  <2> QED BY <1>2, <2>1, SettledStep
<1>4. Settled(q.key, start[q.client])'
  BY <1>2, <1>3, ZenonT(40) DEF Settled
<1>5. result'[q].version < ts'
  <2>1. result'[q].version \in Nat /\ result'[q].version < ts
    OBVIOUS
  <2>2. CASE ts' = ts
    BY <2>1, <2>2, ZenonT(40)
  <2>3. CASE ts' = ts + 1
    BY <1>2, <2>1, <2>3
  <2> QED BY <1>0, <2>2, <2>3, ClientSteps DEF IdStep
<1>6. ASSUME ~Misled(q)', ~ReadsNop(q)' PROVE result'[q] \in ReadAt(Logical'[q.key], UpTo(start'[q.client]))
  <2>1. result'[q] \in ReadAt(Logical[q.key], UpTo(s))
    BY <1>1, <1>6, ZenonT(40)
  <2>2. result'[q] \in ReadAt(Logical'[q.key], UpTo(s))
    BY <1>3, <2>1, ReadAtSame
  <2> QED BY <1>2, <2>2, Zenon
<1>7. ASSUME signal'[q] # 0 PROVE met'[q].txn # NoTxn /\ \E t \in Committed' : signal'[q] = commit'[t]
  <2>1. met[q].txn # NoTxn /\ \E t \in Committed : signal[q] = commit[t]
    BY <1>7, Zenon DEF GetInv
  <2>2. PICK t \in Committed : signal[q] = commit[t]
    BY <2>1, Zenon
  <2>3. t \in Committed' /\ commit'[t] = commit[t]
    BY <1>0, CommittedStays, Zenon DEF StaysCommitted
  <2> QED BY <1>7, <2>1, <2>2, <2>3, Zenon
<1>8. pc'[q] # "woken" /\ pc'[q] \notin InFlight
  BY DEF InFlight
<1> QED BY <1>2, <1>4, <1>5, <1>6, <1>7, <1>8, Zenon DEF GetInv

\* What a Get holds under the intent it met is its answer.
RestAnswers(q) ==
    /\ rest[q] \in ReadAt(Logical[q.key], UpTo(start[q.client]))
    /\ rest[q].version \in Nat /\ rest[q].version < ts

\* What a Get read below the intent is its answer if the snapshot has no version of the transaction.
LEMMA RestIsAnswer ==
    ASSUME IInv, NEW q \in Request, q.kind = "get", start[q.client] < ts, ResolvesSnapshot(q),
           \A v \in UpTo(start[q.client]) : v = commit[met[q].txn] => Logical[q.key][v] = Absent
    PROVE  RestAnswers(q)
<1> USE DEF RestAnswers
<1>1. PICK s : s = start[q.client]
  BY Zenon
<1>2. PICK c : c = commit[met[q].txn]
  BY Zenon
<1>3. rest[q] \in ReadAt(Without(Logical[q.key], c), UpTo(s))
  BY <1>1, <1>2, Zenon DEF ResolvesSnapshot
<1>4. \A v \in UpTo(s) : Without(Logical[q.key], c)[v] = Logical[q.key][v]
  <2> SUFFICES ASSUME NEW v \in UpTo(s) PROVE Without(Logical[q.key], c)[v] = Logical[q.key][v]
    OBVIOUS
  <2>1. v \in Version
    BY Zenon DEF UpTo
  <2>2. Without(Logical[q.key], c)[v] = IF v = c THEN Absent ELSE Logical[q.key][v]
    BY <2>1, Zenon DEF Without
  <2>3. v = c => Logical[q.key][v] = Absent
    BY <1>1, <1>2, ZenonT(40)
  <2> QED BY <2>2, <2>3, Zenon
<1>5. rest[q] \in ReadAt(Logical[q.key], UpTo(s))
  BY <1>3, <1>4, ReadAtSame
<1>6. s \in Nat /\ s < ts
  BY <1>1, RequestParts, Numbers, Zenon DEF PartsOfRequests, IdsTyped
<1>7. rest[q].version \in Nat /\ rest[q].version < ts
  BY <1>5, <1>6, ReadBelow
<1> QED BY <1>1, <1>5, <1>7, ZenonT(40)

\* The intent a Get met is its answer.
MetAnswers(q) ==
    [version |-> commit[met[q].txn], content |-> met[q].value]
        \in ReadAt(Logical[q.key], UpTo(start[q.client]))

\* The value of the intent is its answer if the transaction committed in the snapshot.
LEMMA MetIsAnswer ==
    ASSUME IInv, NEW q \in Request, q.kind = "get", ResolvesSnapshot(q), record[met[q].txn] = "committed",
           commit[met[q].txn] <= start[q.client], met[q].value # Nop
    PROVE  MetAnswers(q)
<1> USE DEF MetAnswers
<1>1. PICK s : s = start[q.client]
  BY Zenon
<1>2. PICK t : t = met[q].txn
  BY Zenon
<1>3. PICK c : c = commit[t]
  BY Zenon
<1>4. t \in Txn /\ c # 0 /\ c \in Version /\ c \in Nat /\ c <= s /\ q.client \in Client /\ s \in Nat /\ q.key \in Key
  <2>1. t \in Txn /\ commit[t] # 0
    BY <1>2, Zenon DEF ResolvesSnapshot, IInv, RecordOfClient
  <2> QED BY <1>1, <1>2, <1>3, <2>1, RequestParts, Numbers, ZenonT(40) DEF PartsOfRequests, IdsTyped
<1>5. Logical[q.key][c] = met[q].value /\ met[q].value # Absent
  <2>1. met[q] \in Intent \cup {NoIntent}
    BY Zenon DEF IInv, TypeOK
  <2>2. met[q] # NoIntent
    BY DEF NoIntent
  <2>3. met[q].value \in Content \cup {Nop}
    BY <2>1, <2>2 DEF Intent
  <2> QED BY <1>2, <1>3, <2>3, TxnAssumption, ZenonT(40) DEF ResolvesSnapshot
<1>6. c \in UpTo(s)
  BY <1>4, Zenon DEF UpTo
<1>7. ASSUME NEW v \in UpTo(s), Logical[q.key][v] # Absent PROVE v <= c
  <2>1. CASE v = c
    BY <1>4, <2>1
  <2>2. CASE v # c
    <3>1. v \in Version /\ v \in Nat
      BY Numbers, Zenon DEF IdsTyped, UpTo
    <3>2. Without(Logical[q.key], c)[v] # Absent
      BY <1>7, <2>2, <3>1, Zenon DEF Without
    <3>3. v < c
      BY <1>1, <1>2, <1>3, <1>4, <3>2, ZenonT(40) DEF ResolvesSnapshot
    <3> QED BY <1>4, <3>1, <3>3
  <2> QED BY <2>1, <2>2, Zenon
<1>8. [version |-> c, content |-> met[q].value] \in ReadAt(Logical[q.key], UpTo(s))
  <2>1. [version |-> c, content |-> met[q].value] = [version |-> c, content |-> Logical[q.key][c]]
    BY <1>5, Zenon
  <2> QED BY <1>5, <1>6, <1>7, <2>1, ReadAtIs
<1> QED BY <1>1, <1>2, <1>3, <1>8, ZenonT(40)

\* What lies under the intent of t on k.
UnderIntent(k, t) ==
    /\ t \in Txn /\ record[t] # "none"
    /\ \A v \in Version : Without(Logical[k], commit[t])[v] = store[k][v]
    /\ commit[t] # 0 => \A v \in Version : store[k][v] # Absent => v < commit[t]
    /\ record[t] = "committed" /\ intent[k].value # Nop => Logical[k][commit[t]] = intent[k].value
    /\ intent[k].value = Nop => Write[t][k].type = "nop"

\* The versions of a key that has an intent, without that of the intent, are those stored, and all are
\* older than the commit version of the intent.
LEMMA BelowIntent ==
    ASSUME OrderInv, NEW k \in Key, NEW t, t = intent[k].txn, t # NoTxn
    PROVE  UnderIntent(k, t)
<1> USE DEF UnderIntent
<1>0. IInv /\ CommitVersionsUnique /\ IntentUnstored /\ IntentLast
  BY Zenon DEF OrderInv
<1>1. t \in Txn /\ record[t] # "none" /\ (intent[k].value = Nop => Write[t][k].type = "nop")
  BY <1>0, IntentTxn, ZenonT(40) DEF IntentTyped, IInv, IntentOfWrite
<1>2. commit[t] \in Version => store[k][commit[t]] = Absent
  <2>1. CASE record[t] = "committed"
    BY <1>0, <1>1, <2>1, Zenon DEF IntentUnstored, Committed
  <2>2. CASE record[t] # "committed"
    BY <1>0, <1>1, <2>2, NotYetStored, Numbers, ZenonT(40) DEF IdsTyped
  <2> QED BY <2>1, <2>2, Zenon
<1>3. ASSUME NEW v \in Version PROVE Without(Logical[k], commit[t])[v] = store[k][v]
  <2>1. Without(Logical[k], commit[t])[v] = IF v = commit[t] THEN Absent ELSE Logical[k][v]
    BY ZenonT(40) DEF Without
  <2>2. v # commit[t] => Logical[k][v] = store[k][v]
    BY LogicalIs DEF LogicalAt
  <2> QED BY <1>2, <2>1, <2>2
<1>4. ASSUME commit[t] # 0, NEW v \in Version, store[k][v] # Absent PROVE v < commit[t]
  <2>1. PICK w \in Committed : commit[w] = v /\ Writes(w, k)
    BY <1>0, <1>4, Zenon DEF IInv, NoDirtyVersion
  <2>2. w # t
    BY <1>2, <1>4, <2>1, Zenon
  <2>3. k \in KeysOf(w)
    BY <2>1 DEF Writes, KeysOf
  <2>4. commit[w] < commit[t]
    BY <1>0, <1>4, <2>2, <2>3, ZenonT(40) DEF IntentLast
  <2> QED BY <2>1, <2>4, Zenon
<1>5. ASSUME record[t] = "committed", intent[k].value # Nop PROVE Logical[k][commit[t]] = intent[k].value
  <2>1. commit[t] \in Version
    BY <1>0, <1>1, <1>5, Numbers, ZenonT(40) DEF IdsTyped, IInv, RecordOfClient
  <2> QED BY <1>1, <1>5, <2>1, LogicalIs DEF LogicalAt
<1> QED BY <1>1, <1>3, <1>4, <1>5, Zenon

\* A step that leaves the data alone leaves what has taken effect alone.
LEMMA QuietLogical ==
    ASSUME UNCHANGED <<commit, record, store, intent>> PROVE Logical' = Logical
BY Zenon DEF Logical, Committed

\* GetSnapshot.
LEMMA GetSnapshotKeeps ==
    ASSUME OrderInv, CoreStep, NEW q \in Request, q.kind = "get", GetInv(q), GetSnapshot(q)
    PROVE  GetInv(q)'
<1>0. IInv /\ StartsFresh
  BY Zenon DEF OrderInv
<1>1. PICK s : s = start[q.client]
  BY Zenon
<1>2. PICK k : k = q.key
  BY Zenon
<1>3. PICK i : i = intent[k]
  BY Zenon
<1>4. /\ pc[q] = "sent" /\ pc[q] # "none"
      /\ UNCHANGED <<ts, start, commit, record, store, intent>>
      /\ signal' = [signal EXCEPT ![q] = 0]
  BY DEF GetSnapshot, rootVars, clientVars, recordVars, dataVars
<1>5. PICK e \in ReadAt(store[k], UpTo(s)) :
          \/ /\ i.txn # NoTxn /\ start[i.txn] <= s
             /\ rest' = [rest EXCEPT ![q] = e] /\ met' = [met EXCEPT ![q] = i]
             /\ pc' = [pc EXCEPT ![q] = "reread"] /\ UNCHANGED result
          \/ /\ ~(i.txn # NoTxn /\ start[i.txn] <= s)
             /\ result' = [result EXCEPT ![q] = e] /\ met' = [met EXCEPT ![q] = NoIntent]
             /\ pc' = [pc EXCEPT ![q] = "done"] /\ UNCHANGED rest
  BY <1>1, <1>2, <1>3, ZenonT(30) DEF GetSnapshot
<1>6. /\ pc \in [Request -> PC] /\ met \in [Request -> Intent \cup {NoIntent}]
      /\ rest \in [Request -> Entry \cup {NoEntry}] /\ signal \in [Request -> {0} \cup Version]
      /\ result \in [Request -> Entry \cup {NoEntry}]
  BY <1>0, ZenonT(40) DEF IInv, TypeOK
<1>7. signal'[q] = 0
  BY <1>4, <1>6
<1>8. k \in Key /\ s \in Nat /\ s # 0 /\ s < ts /\ start'[q.client] = s
  <2>1. s # 0
    BY <1>1, <1>4, Zenon DEF GetInv
  <2> QED BY <1>1, <1>2, <2>1, GetFacts DEF GetTyped
<1>9. CASE /\ i.txn # NoTxn
           /\ rest' = [rest EXCEPT ![q] = e] /\ met' = [met EXCEPT ![q] = i]
           /\ pc' = [pc EXCEPT ![q] = "reread"]
  <2>1. rest'[q] = e /\ met'[q] = i /\ pc'[q] = "reread"
    BY <1>6, <1>9
  <2>2. PICK t : t = i.txn
    BY ZenonT(40)
  <2>3. /\ t \in Txn /\ record[t] # "none"
        /\ \A v \in Version : Without(Logical[k], commit[t])[v] = store[k][v]
        /\ commit[t] # 0 => \A v \in Version : store[k][v] # Absent => v < commit[t]
        /\ record[t] = "committed" /\ i.value # Nop => Logical[k][commit[t]] = i.value
        /\ i.value = Nop => Write[t][k].type = "nop"
    BY <1>3, <1>8, <1>9, <2>2, BelowIntent DEF UnderIntent
  <2>4. \A v \in UpTo(s) : v \in Version
    BY ZenonT(40) DEF UpTo
  <2>5. e \in ReadAt(Without(Logical[k], commit[t]), UpTo(s))
    BY <1>5, <2>3, <2>4, ReadAtSame
  <2>6. Logical' = Logical /\ commit' = commit /\ record' = record /\ intent'[k] = i
    BY <1>3, <1>4, QuietLogical, Zenon
  <2>7. ResolvesSnapshot(q)'
    BY <1>2, <1>8, <2>1, <2>2, <2>3, <2>4, <2>5, <2>6, ZenonT(40) DEF ResolvesSnapshot
  <2>8. pc'[q] # "woken" /\ pc'[q] # "done"
    BY <2>1, ZenonT(40)
  <2> QED BY <1>7, <1>8, <2>7, <2>8, Zenon DEF GetInv
<1>10. CASE /\ ~(i.txn # NoTxn /\ start[i.txn] <= s)
            /\ result' = [result EXCEPT ![q] = e] /\ pc' = [pc EXCEPT ![q] = "done"]
  <2>1. result'[q] = e /\ pc'[q] = "done"
    BY <1>6, <1>10
  <2>2. ASSUME i.txn \in Txn, commit[i.txn] # 0 PROVE commit[i.txn] > s
    <3>1. i.txn # NoTxn /\ i.txn \in Client
      BY <2>2, TxnAssumption, Zenon DEF Client
    <3>2. ~(start[i.txn] <= s)
      BY <1>10, <3>1, Zenon
    <3>3. start[i.txn] < commit[i.txn] /\ start[i.txn] \in Nat /\ commit[i.txn] \in Nat
      BY <1>0, <2>2, <3>1, Numbers, Zenon DEF IdsTyped, StartsFresh
    <3> QED BY <1>8, <3>2, <3>3
  <2>3. Settled(k, s)
    <3>1. i.txn # NoTxn => i.txn \in Txn
      BY <1>0, <1>3, <1>8, IntentTxn, ZenonT(40) DEF IntentTyped
    <3> QED BY <1>3, <2>2, <3>1, Zenon DEF Settled
  <2>4. \A v \in UpTo(s) : Logical[k][v] = store[k][v]
    <3>1. i.txn \in Txn /\ record[i.txn] = "committed" => commit[i.txn] > s
      BY <1>0, <2>2, ZenonT(40) DEF IInv, RecordOfClient
    <3> QED BY <1>0, <1>3, <1>8, <3>1, LogicalIsStored
  <2>5. e \in ReadAt(Logical[k], UpTo(s))
    BY <1>5, <2>4, ReadAtSame
  <2>6. e.version \in Nat /\ e.version < ts
    BY <1>0, <1>8, <2>5, ReadBelow
  <2> QED BY <1>1, <1>2, <1>4, <1>7, <2>1, <2>3, <2>5, <2>6, AnswerStep, ZenonT(40) DEF AnswersSnapshot
<1> QED BY <1>5, <1>9, <1>10, Zenon

\* GetReread.
LEMMA GetRereadKeeps ==
    ASSUME OrderInv, CoreStep, NEW q \in Request, q.kind = "get", GetInv(q), GetReread(q)
    PROVE  GetInv(q)'
<1>0. IInv
  BY Zenon DEF OrderInv
<1>1. PICK s : s = start[q.client]
  BY Zenon
<1>2. PICK k : k = q.key
  BY Zenon
<1>3. PICK t : t = met[q].txn
  BY Zenon
<1>4. /\ pc[q] = "reread" /\ pc[q] # "none"
      /\ UNCHANGED <<ts, start, commit, record, store, intent, rest, signal>>
  BY DEF GetReread, rootVars, clientVars, recordVars, dataVars
<1>5. \/ /\ intent[k].txn = t /\ met' = [met EXCEPT ![q] = intent[k]]
         /\ pc' = [pc EXCEPT ![q] = "resolve"]
      \/ /\ intent[k].txn # t /\ met' = met /\ pc' = [pc EXCEPT ![q] = "done"]
         /\ \E e \in ReadAt(store[k], UpTo(s)) :
                result' = [result EXCEPT ![q] = IF e = NoEntry THEN rest[q] ELSE e]
  BY <1>1, <1>2, <1>3, ZenonT(30) DEF GetReread
<1>6. /\ pc \in [Request -> PC] /\ met \in [Request -> Intent \cup {NoIntent}]
      /\ result \in [Request -> Entry \cup {NoEntry}]
  BY <1>0, ZenonT(40) DEF IInv, TypeOK
<1>7. k \in Key /\ s \in Nat /\ s # 0 /\ s < ts /\ start'[q.client] = s
  <2>1. s # 0
    BY <1>1, <1>4, Zenon DEF GetInv
  <2> QED BY <1>1, <1>2, <2>1, GetFacts DEF GetTyped
<1>8. ResolvesSnapshot(q) /\ t \in Txn /\ t # NoTxn
  <2>1. pc[q] \in InFlight
    BY <1>4 DEF InFlight
  <2> QED BY <1>3, <2>1, TxnAssumption, ZenonT(40) DEF GetInv, ResolvesSnapshot
<1>9. /\ rest[q] \in ReadAt(Without(Logical[k], commit[t]), UpTo(s))
      /\ commit[t] # 0 /\ commit[t] <= s =>
            \A v \in UpTo(s) : Without(Logical[k], commit[t])[v] # Absent => v < commit[t]
      /\ record[t] = "running" => intent[k] = met[q]
      /\ intent[k].txn \notin {NoTxn, t} /\ commit[intent[k].txn] # 0 => commit[intent[k].txn] > s
  BY <1>1, <1>2, <1>3, <1>8, Zenon DEF ResolvesSnapshot
<1>10. CASE /\ intent[k].txn = t /\ met' = [met EXCEPT ![q] = intent[k]]
            /\ pc' = [pc EXCEPT ![q] = "resolve"]
  <2>1. met'[q] = intent[k] /\ pc'[q] = "resolve"
    BY <1>6, <1>10, ZenonT(40)
  <2>2. /\ record[t] # "none"
        /\ record[t] = "committed" /\ intent[k].value # Nop => Logical[k][commit[t]] = intent[k].value
        /\ intent[k].value = Nop => Write[t][k].type = "nop"
    BY <1>7, <1>8, <1>10, BelowIntent DEF UnderIntent
  <2>3. /\ Logical' = Logical /\ commit' = commit /\ record' = record /\ intent' = intent
        /\ rest'[q] = rest[q]
    BY <1>4, QuietLogical, Zenon
  <2>4. ResolvesSnapshot(q)'
    BY <1>2, <1>7, <1>8, <1>9, <1>10, <2>1, <2>2, <2>3, ZenonT(40) DEF ResolvesSnapshot
  <2>5. pc'[q] # "woken" /\ pc'[q] # "done"
    BY <2>1
  <2>6. ASSUME signal'[q] # 0 PROVE met'[q].txn # NoTxn /\ \E u \in Committed' : signal'[q] = commit'[u]
    <3>1. \E u \in Committed : signal[q] = commit[u]
      BY <1>4, <2>6, ZenonT(40) DEF GetInv
    <3> QED BY <1>4, <1>8, <1>10, <2>1, <3>1, Zenon DEF Committed
  <2> QED BY <1>7, <2>4, <2>5, <2>6, Zenon DEF GetInv
<1>11. CASE /\ intent[k].txn # t /\ met' = met /\ pc' = [pc EXCEPT ![q] = "done"]
            /\ \E e \in ReadAt(store[k], UpTo(s)) :
                  result' = [result EXCEPT ![q] = IF e = NoEntry THEN rest[q] ELSE e]
  <2>1. PICK e \in ReadAt(store[k], UpTo(s)) :
            result' = [result EXCEPT ![q] = IF e = NoEntry THEN rest[q] ELSE e]
    BY <1>11, ZenonT(40)
  <2>2. result'[q] = (IF e = NoEntry THEN rest[q] ELSE e) /\ pc'[q] = "done"
    BY <1>6, <1>11, <2>1
  <2>3. ASSUME intent[k].txn \in Txn, commit[intent[k].txn] # 0 PROVE commit[intent[k].txn] > s
    <3>1. intent[k].txn \notin {NoTxn, t}
      BY <1>11, <2>3, TxnAssumption
    <3> QED BY <1>9, <2>3, <3>1, ZenonT(40)
  <2>4. Settled(k, s)
    <3>1. intent[k].txn # NoTxn => intent[k].txn \in Txn
      BY <1>0, <1>7, IntentTxn, ZenonT(40) DEF IntentTyped
    <3> QED BY <2>3, <3>1, Zenon DEF Settled
  <2>5. \A v \in UpTo(s) : Logical[k][v] = store[k][v]
    <3>1. intent[k].txn \in Txn /\ record[intent[k].txn] = "committed" => commit[intent[k].txn] > s
      BY <1>0, <2>3, ZenonT(40) DEF IInv, RecordOfClient
    <3> QED BY <1>0, <1>7, <3>1, LogicalIsStored
  <2>6. e \in ReadAt(Logical[k], UpTo(s))
    BY <2>1, <2>5, ReadAtSame, ZenonT(40)
  <2>7. e = NoEntry => rest[q] = NoEntry
    <3> SUFFICES ASSUME e = NoEntry PROVE rest[q] = NoEntry
      OBVIOUS
    <3>1. \A v \in UpTo(s) : v \in Version /\ v # 0
      BY <1>0, Numbers, Zenon DEF IdsTyped, UpTo
    <3>2. \A v \in UpTo(s) : e # [version |-> v, content |-> Logical[k][v]]
      BY <3>1, ZenonT(40) DEF NoEntry
    <3>3. \A v \in UpTo(s) : Logical[k][v] = Absent
      BY <2>6, <3>2, ReadAtIs
    <3>4. \A v \in UpTo(s) : Without(Logical[k], commit[t])[v] = Absent
      BY <3>1, <3>3, Zenon DEF Without
    <3> QED BY <1>9, <3>4, ReadAtIs, ZenonT(40)
  <2>8. result'[q] = e
    BY <2>2, <2>7, ZenonT(40)
  <2>9. e.version \in Nat /\ e.version < ts
    BY <1>0, <1>7, <2>6, ReadBelow
  <2> QED BY <1>1, <1>2, <1>4, <1>11, <2>2, <2>4, <2>6, <2>8, <2>9, AnswerStep, ZenonT(40) DEF AnswersSnapshot
<1> QED BY <1>5, <1>10, <1>11, Zenon
=============================================================================
