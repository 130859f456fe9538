------------------------------ MODULE TxnProofs -----------------------------
(***************************************************************************)
(* Theorems about module Txn, for any transactions, readers, keys,         *)
(* versions, writes and number of leader changes.  The lemmas say what     *)
(* requests, reads and entries are, which part of the inductive invariant  *)
(* a step that leaves something alone keeps, and then, handler by handler, *)
(* that every step keeps all of it.                                        *)
(***************************************************************************)
EXTENDS Txn, TLAPS

-----------------------------------------------------------------------------
\* Requests and entries

\* What a request is made of.
FieldsOfRequests ==
    /\ \A q \in Request :
          /\ q.key \in Key
          /\ q.client \in Client
          /\ q.kind \in {"write_intent", "commit_intent", "get"}
          /\ q.kind \in {"write_intent", "commit_intent"} => q.client \in Txn /\ q.key \in KeysOf(q.client)
          /\ q.kind = "get" => q.client \in Reader
    /\ \A q \in Request, t \in Txn :
          /\ q \in WriteIntents(t) <=> q.kind = "write_intent" /\ q.client = t
          /\ q \in CommitIntents(t) <=> q.kind = "commit_intent" /\ q.client = t
    /\ \A t \in Txn, k \in Key : Write[t][k].type # "none" =>
          \E q \in Request : q.kind = "write_intent" /\ q.client = t /\ q.key = k

\* The fields of a request, and the requests of a transaction.
LEMMA RequestFields == FieldsOfRequests
<1> USE DEF FieldsOfRequests
<1>1. \A t \in Txn : WriteIntents(t) \subseteq Request /\ CommitIntents(t) \subseteq Request
  BY DEF Request
<1>2. \A r \in Reader : Gets(r) \subseteq Request
  BY DEF Request
<1>3. ASSUME NEW q \in Request
      PROVE  \/ \E t \in Txn : q \in WriteIntents(t)
             \/ \E t \in Txn : q \in CommitIntents(t)
             \/ \E r \in Reader : q \in Gets(r)
  BY <1>3 DEF Request
<1>4. ASSUME NEW q \in Request
      PROVE  /\ q.key \in Key
             /\ q.client \in Client
             /\ q.kind \in {"write_intent", "commit_intent", "get"}
             /\ q.kind \in {"write_intent", "commit_intent"} => q.client \in Txn /\ q.key \in KeysOf(q.client)
             /\ q.kind = "get" => q.client \in Reader
  BY <1>3 DEF WriteIntents, CommitIntents, Gets, Client, KeysOf
<1>5. ASSUME NEW q \in Request, NEW t \in Txn
      PROVE  /\ q \in WriteIntents(t) <=> q.kind = "write_intent" /\ q.client = t
             /\ q \in CommitIntents(t) <=> q.kind = "commit_intent" /\ q.client = t
  BY <1>3 DEF WriteIntents, CommitIntents, Gets, KeysOf
<1>6. ASSUME NEW t \in Txn, NEW k \in Key, Write[t][k].type # "none"
      PROVE  \E q \in Request : q.kind = "write_intent" /\ q.client = t /\ q.key = k
  <2> DEFINE q == [kind |-> "write_intent", client |-> t, key |-> k]
  <2>1. q \in WriteIntents(t)
    BY <1>6 DEF WriteIntents, KeysOf
  <2>2. q \in Request
    BY <2>1, <1>1
  <2> QED BY <2>2
<1> QED BY <1>4, <1>5, <1>6

\* Reading a well-typed key yields a stored version or none.
LEMMA ReadAtType ==
    ASSUME NEW versions \in [Version -> Content \cup {Absent}], NEW among, among \subseteq Version,
           NEW e \in ReadAt(versions, among)
    PROVE  e \in Entry \cup {NoEntry}
BY DEF ReadAt, Entry

\* What a write computes, and that only a Nop computes Nop.
LEMMA ApplyPutOpType ==
    ASSUME NEW t \in Txn, NEW k \in KeysOf(t), NEW prev
    PROVE  /\ ApplyPutOp(t, k, prev) \in Content \cup {Nop}
           /\ ApplyPutOp(t, k, prev) = Nop <=> Write[t][k].type = "nop"
<1>1. Write[t][k].type \in WriteType /\ Write[t][k].type # "none"
  BY TxnAssumption DEF KeysOf
<1>2. Payload[t] \in Value /\ Nop \notin Content /\ Value \subseteq Content /\ Tombstone \in Content
  BY TxnAssumption DEF Content
<1>3. ((IF prev.content \in Value THEN prev.content ELSE 0) + Payload[t]) % Wrap \in Value
  <2> DEFINE n == IF prev.content \in Value THEN prev.content ELSE 0
  <2>1. n \in Nat /\ Payload[t] \in Nat /\ Wrap \in Nat \ {0}
    BY TxnAssumption DEF Value
  <2> HIDE DEF n
  <2>2. (n + Payload[t]) % Wrap \in 0 .. Wrap - 1
    BY <2>1
  <2> QED BY <2>2 DEF Value, n
<1> QED BY <1>1, <1>2, <1>3 DEF ApplyPutOp, WriteType

-----------------------------------------------------------------------------
\* What the steps of requests have in common

\* A step that leaves records, commit versions, versions and intents alone.
LEMMA DataFrame ==
    ASSUME IInv, UNCHANGED <<record, commit, store, intent>>
    PROVE  IntentOfWrite' /\ NoDirtyVersion' /\ CommittedWritesDurable'
BY DEF IInv, IntentOfWrite, NoDirtyVersion, CommittedWritesDurable, Committed, Writes, KeysOf

\* A step of one request that neither begins it nor, if it is a WriteIntent, acknowledges it.
LEMMA RequestFrame ==
    ASSUME IInv, NEW q \in Request, UNCHANGED <<record, commit, intent>>,
           pc[q] # "none", pc[q] # "done",
           q.kind = "write_intent" => pc'[q] # "done",
           \A x \in Request : x # q => pc'[x] = pc[x]
    PROVE  RequestOfClient' /\ IntentsAcked'
BY DEF IInv, RequestOfClient, IntentsAcked

\* Records are decided, and no WriteIntent is answered.
RecordsDecided ==
    /\ \A u \in Txn : record'[u] # record[u] => record[u] = "running" /\ record'[u] \in {"committed", "aborted"}
    /\ \A x \in Request : \/ pc'[x] = pc[x]
                          \/ pc[x] # "done" /\ pc'[x] # "done" /\ pc[x] # "none"
                          \/ x.kind = "commit_intent" /\ record'[x.client] = "committed"

\* A step that decides records, and answers no WriteIntent.
LEMMA RecordFrame ==
    ASSUME IInv, UNCHANGED <<commit, intent>>,
           RecordsDecided
    PROVE  RequestOfClient' /\ IntentsAcked'
<1> USE DEF RecordsDecided
<1>1. ASSUME NEW x \in Request, pc'[x] # "none"
      PROVE  /\ x.kind = "write_intent" => record'[x.client] # "none"
             /\ x.kind = "commit_intent" => record'[x.client] = "committed"
  <2>1. pc[x] # "none" \/ (x.kind = "commit_intent" /\ record'[x.client] = "committed")
    BY <1>1
  <2>2. x.kind \in {"write_intent", "commit_intent"} => x.client \in Txn
    BY RequestFields DEF FieldsOfRequests
  <2>3. pc[x] # "none" => /\ x.kind = "write_intent" => record[x.client] # "none"
                          /\ x.kind = "commit_intent" => record[x.client] = "committed"
    BY DEF IInv, RequestOfClient
  <2>4. \A u \in Txn : /\ record[u] # "none" => record'[u] # "none"
                       /\ record[u] = "committed" => record'[u] = "committed"
    OBVIOUS
  <2>5. CASE x.kind = "write_intent"
    <3>1. pc[x] # "none" /\ x.client \in Txn
      BY <2>1, <2>2, <2>5
    <3> QED BY <2>3, <2>4, <2>5, <3>1
  <2>6. CASE x.kind = "commit_intent"
    BY <2>1, <2>2, <2>3, <2>4, <2>6
  <2> QED BY <2>5, <2>6
<1>2. ASSUME NEW x \in Request, x.kind = "write_intent"
      PROVE  /\ commit'[x.client] # 0 => pc'[x] = "done"
             /\ pc'[x] = "done" /\ record'[x.client] = "running" => intent'[x.key].txn = x.client
  <2>1. x.client \in Txn
    BY <1>2, RequestFields DEF FieldsOfRequests
  <2>2. /\ commit[x.client] # 0 => pc[x] = "done"
        /\ pc[x] = "done" /\ record[x.client] = "running" => intent[x.key].txn = x.client
    BY <1>2 DEF IInv, IntentsAcked
  <2>3. pc'[x] = "done" <=> pc[x] = "done"
    BY <1>2
  <2>4. record'[x.client] = "running" => record[x.client] = "running"
    BY <2>1
  <2> QED BY <2>2, <2>3, <2>4
<1> QED BY <1>1, <1>2 DEF RequestOfClient, IntentsAcked

\* Only the request, latch and intent of q move, and q resolves what it holds.
LatchMoves(q) ==
    /\ \A x \in Request : x # q => pc'[x] = pc[x] /\ met'[x] = met[x]
    /\ \A k \in Key : k # q.key => latch'[k] = latch[k] /\ intent'[k] = intent[k]
    /\ \/ latch[q.key] \in {NoReq, q} /\ latch'[q.key] \in {NoReq, q}
       \/ latch'[q.key] = latch[q.key] /\ intent'[q.key] = intent[q.key]
    /\ pc'[q] \in {"reread", "resolve", "abort", "wait"} => met'[q].txn # NoTxn
    /\ pc'[q] = "resolve" => latch'[q.key] = q
    /\ pc'[q] \in {"resolve", "abort"} /\ latch'[q.key] = q => intent'[q.key] = met'[q]

\* A step of one request that takes, keeps or releases the latch of its key, and that changes the intent
\* of the key only while nobody else has the latch.
LEMMA LatchFrame ==
    ASSUME IInv, NEW q \in Request,
           LatchMoves(q)
    PROVE  ResolvesUnderLatch'
<1> USE DEF LatchMoves
<1> SUFFICES ASSUME NEW x \in Request, x # q
             PROVE  /\ pc'[x] \in {"reread", "resolve", "abort", "wait"} => met'[x].txn # NoTxn
                    /\ pc'[x] = "resolve" => latch'[x.key] = x
                    /\ pc'[x] \in {"resolve", "abort"} /\ latch'[x.key] = x => intent'[x.key] = met'[x]
  BY DEF ResolvesUnderLatch
<1>1. x # NoReq /\ x.key \in Key
  BY NoReqAssumption, RequestFields DEF FieldsOfRequests
<1>2. pc'[x] = pc[x] /\ met'[x] = met[x]
  OBVIOUS
<1>3. /\ pc[x] \in {"reread", "resolve", "abort", "wait"} => met[x].txn # NoTxn
      /\ pc[x] = "resolve" => latch[x.key] = x
      /\ pc[x] \in {"resolve", "abort"} /\ latch[x.key] = x => intent[x.key] = met[x]
  BY DEF IInv, ResolvesUnderLatch
<1>4. CASE x.key # q.key
  BY <1>1, <1>2, <1>3, <1>4
<1>5. CASE x.key = q.key
  BY <1>1, <1>2, <1>3, <1>5
<1> QED BY <1>4, <1>5

\* A request has left its handler and the latch of its key.
Finished(q, p) ==
    /\ pc' \in [Request -> PC]
    /\ latch' \in [Key -> Request \cup {NoReq}]
    /\ pc'[q] = p
    /\ \A x \in Request : x # q => pc'[x] = pc[x]
    /\ \A k \in Key : k # q.key => latch'[k] = latch[k]
    /\ latch'[q.key] # q
    /\ latch[q.key] # q => latch'[q.key] = latch[q.key]
    /\ latch[q.key] \in {NoReq, q} => latch'[q.key] = NoReq

\* Finish moves one request and gives back its latch.
LEMMA FinishStep ==
    ASSUME TypeOK, NEW q \in Request, NEW p \in PC, Finish(q, p)
    PROVE  Finished(q, p)
<1> USE DEF Finished
<1>1. q.key \in Key /\ q # NoReq
  BY RequestFields, NoReqAssumption DEF FieldsOfRequests
<1> QED BY <1>1 DEF Finish, TypeOK

\* A request whose intent was resolved goes on or has its answer.
Answers(q) ==
    /\ pc' \in [Request -> PC]
    /\ latch' \in [Key -> Request \cup {NoReq}]
    /\ result' \in [Request -> Entry \cup {NoEntry}]
    /\ pc'[q] \in {"sent", "done"}
    /\ q.kind = "write_intent" => pc'[q] = "sent"
    /\ \A x \in Request : x # q => pc'[x] = pc[x]
    /\ \A k \in Key : k # q.key => latch'[k] = latch[k]
    /\ latch[q.key] \in {NoReq, q} => latch'[q.key] \in {NoReq, q}

\* Resolved moves one request, and does not acknowledge a WriteIntent.
LEMMA ResolvedStep ==
    ASSUME TypeOK, NEW q \in Request, NEW value, Resolved(q, value),
           value = NoEntry \/ (value.version \in {0} \cup Version /\ value.content \in Content
                               /\ value = [version |-> value.version, content |-> value.content])
    PROVE  Answers(q)
<1> USE DEF Answers
<1>1. q.key \in Key /\ q.client \in Client
  BY RequestFields DEF FieldsOfRequests
<1>2. CASE q.kind = "get"
  <2>1. "done" \in PC /\ Finish(q, "done")
    BY <1>2 DEF Resolved, PC
  <2>2. result' = [result EXCEPT ![q] =
                      IF value.version \in 1 .. start[q.client] THEN value ELSE rest[q]]
    BY <1>2 DEF Resolved
  <2>3. value.version \in 1 .. start[q.client] => value \in Entry
    BY TxnAssumption DEF Entry, NoEntry
  <2>4. result' \in [Request -> Entry \cup {NoEntry}]
    <3>1. result \in [Request -> Entry \cup {NoEntry}] /\ rest[q] \in Entry \cup {NoEntry}
      BY DEF TypeOK
    <3> QED BY <2>2, <2>3, <3>1
  <2> QED BY <2>1, <2>4, <1>2, FinishStep DEF Finished
<1>3. CASE q.kind # "get"
  BY <1>1, <1>3 DEF Resolved, TypeOK, PC
<1> QED BY <1>2, <1>3

\* The intent of k became a version.
IntentApplied(k) ==
    /\ store' \in [Key -> [Version -> Content \cup {Absent}]]
    /\ intent' \in [Key -> Intent \cup {NoIntent}]
    /\ intent'[k] = NoIntent
    /\ \A j \in Key : j # k => intent'[j] = intent[j]
    /\ IntentOfWrite' /\ NoDirtyVersion' /\ CommittedWritesDurable'

\* The intent of a committed transaction becomes a version.
LEMMA ApplyCommitIntentStep ==
    ASSUME IInv, NEW t \in Txn, NEW k \in Key, intent[k].txn = t, record[t] = "committed",
           ApplyCommitIntent(t, k, intent[k].value), UNCHANGED <<record, commit>>
    PROVE  IntentApplied(k)
<1> USE DEF IntentApplied
<1> DEFINE val == intent[k].value
<1>1. /\ intent \in [Key -> Intent \cup {NoIntent}]
      /\ store \in [Key -> [Version -> Content \cup {Absent}]]
  BY DEF IInv, TypeOK
<1>2. commit[t] \in Version
  BY DEF IInv, TypeOK, RecordOfClient
<1>3. t # NoTxn /\ NoIntent.txn = NoTxn
  BY TxnAssumption DEF NoIntent
<1>4. val \in Content \cup {Nop}
  BY <1>1, <1>3 DEF Intent
<1>5. val = Nop <=> ~Writes(t, k)
  BY <1>3 DEF IInv, IntentOfWrite, KeysOf, Writes
<1>6. Absent \notin Content
  BY TxnAssumption
<1>7. intent' = [intent EXCEPT ![k] = NoIntent]
  BY DEF ApplyCommitIntent
<1>8. /\ intent' \in [Key -> Intent \cup {NoIntent}]
      /\ intent'[k] = NoIntent
      /\ \A j \in Key : j # k => intent'[j] = intent[j]
  BY <1>1, <1>7
<1>9. store' = IF val = Nop THEN store ELSE [store EXCEPT ![k] = [@ EXCEPT ![commit[t]] = val]]
  BY DEF ApplyCommitIntent
<1> HIDE DEF val
<1>10. /\ store' \in [Key -> [Version -> Content \cup {Absent}]]
       /\ val # Nop => store'[k][commit[t]] = val
       /\ \A j \in Key, v \in Version :
             store'[j][v] # store[j][v] => j = k /\ v = commit[t] /\ val # Nop
  BY <1>1, <1>2, <1>4, <1>9, ZenonT(40)
<1>11. IntentOfWrite'
  BY <1>3, <1>8 DEF IInv, IntentOfWrite, KeysOf
<1>12. NoDirtyVersion'
  BY <1>5, <1>10 DEF IInv, NoDirtyVersion, Committed, Writes
<1>13. CommittedWritesDurable'
  <2> SUFFICES ASSUME NEW u \in Committed, NEW j \in Key, Writes(u, j)
               PROVE  intent'[j].txn = u \/ store'[j][commit[u]] # Absent
    BY DEF CommittedWritesDurable, Committed, Writes
  <2>1. u \in Txn /\ commit[u] \in Version
    BY DEF IInv, TypeOK, RecordOfClient, Committed
  <2>2. intent[j].txn = u \/ store[j][commit[u]] # Absent
    BY DEF IInv, CommittedWritesDurable
  <2>3. CASE store[j][commit[u]] # Absent
    BY <2>1, <2>3, <1>4, <1>6, <1>10
  <2>4. CASE intent[j].txn = u /\ j # k
    BY <2>4, <1>8
  <2>5. CASE intent[j].txn = u /\ j = k
    BY <2>5, <1>4, <1>5, <1>6, <1>10
  <2> QED BY <2>2, <2>3, <2>4, <2>5, ZenonT(40)
<1> QED BY <1>8, <1>10, <1>11, <1>12, <1>13

\* The intent of k was removed.
IntentCleared(k) ==
    /\ intent' \in [Key -> Intent \cup {NoIntent}]
    /\ intent'[k] = NoIntent
    /\ \A j \in Key : j # k => intent'[j] = intent[j]
    /\ IntentOfWrite' /\ NoDirtyVersion' /\ CommittedWritesDurable'

\* The intent of an aborted transaction is removed.
LEMMA ApplyClearIntentStep ==
    ASSUME IInv, NEW t \in Txn, NEW k \in Key, intent[k].txn = t, record[t] = "aborted",
           ApplyClearIntent(k), UNCHANGED <<record, commit>>
    PROVE  IntentCleared(k)
<1> USE DEF IntentCleared
<1>1. intent \in [Key -> Intent \cup {NoIntent}] /\ intent' = [intent EXCEPT ![k] = NoIntent] /\ store' = store
  BY DEF IInv, TypeOK, ApplyClearIntent
<1>2. /\ intent' \in [Key -> Intent \cup {NoIntent}]
      /\ intent'[k] = NoIntent
      /\ \A j \in Key : j # k => intent'[j] = intent[j]
  BY <1>1, ZenonT(40)
<1>3. IntentOfWrite'
  BY <1>2 DEF IInv, IntentOfWrite, KeysOf, NoIntent
<1>4. NoDirtyVersion'
  BY <1>1 DEF IInv, NoDirtyVersion, Committed, Writes
<1>5. CommittedWritesDurable'
  BY <1>1, <1>2 DEF IInv, CommittedWritesDurable, Committed, Writes
<1> QED BY <1>2, <1>3, <1>4, <1>5

\* The intents of other keys and the acknowledged WriteIntents stay.
AckedStay(q) ==
    /\ \A j \in Key : j # q.key => intent'[j] = intent[j]
    /\ \A x \in Request : x.kind = "write_intent" /\ pc[x] = "done" => pc'[x] = "done"
    /\ \A x \in Request : x.kind = "write_intent" /\ pc'[x] = "done" => pc[x] = "done"
    /\ \A x \in Request : pc'[x] # "none" => pc[x] # "none"

\* Taking an intent away from a transaction that is no longer RUNNING takes no acknowledged intent away.
LEMMA IntentGone ==
    ASSUME IInv, NEW q \in Request, NEW t \in Txn, intent[q.key].txn = t, record[t] # "running",
           UNCHANGED <<record, commit>>,
           AckedStay(q)
    PROVE  IntentsAcked' /\ RequestOfClient'
<1> USE DEF AckedStay
<1>1. RequestOfClient'
  BY DEF IInv, RequestOfClient
<1>2. IntentsAcked'
  BY RequestFields DEF FieldsOfRequests, IInv, IntentsAcked
<1> QED BY <1>1, <1>2

-----------------------------------------------------------------------------
\* The steps of the client

\* begin_txn makes a record before any request of the transaction is sent.
LEMMA BeginStep ==
    ASSUME IInv, NEW t \in Txn, Begin(t)
    PROVE  IInv'
<1> USE DEF IInv, Begin, AllocTxnId, dataVars
<1>1. TypeOK'
  BY TxnAssumption, SMTT(30), SMTT(40) DEF TypeOK, ClientState, RecordState, PC, Client
<1>2. RecordOfClient' /\ RequestOfClient'
  BY RequestFields, SMTT(30), SMTT(40) DEF FieldsOfRequests, TypeOK, RecordOfClient, RequestOfClient
<1>3. record[t] = "none" /\ commit[t] = 0
  BY DEF RecordOfClient
<1>4. /\ \A u \in Txn : record'[u] = IF u = t THEN "running" ELSE record[u]
      /\ UNCHANGED <<commit, store, intent>>
  BY ZenonT(40) DEF TypeOK
<1>5. IntentOfWrite' /\ NoDirtyVersion' /\ CommittedWritesDurable'
  <2>1. IntentOfWrite'
    BY <1>3, <1>4, SMTT(30), SMTT(40) DEF TypeOK, IntentOfWrite, Intent, NoIntent, KeysOf
  <2>2. NoDirtyVersion' /\ CommittedWritesDurable'
    BY <1>3, <1>4, SMTT(30), SMTT(40) DEF NoDirtyVersion, CommittedWritesDurable, Committed, Writes
  <2> QED BY <2>1, <2>2
<1>6. IntentsAcked'
  BY <1>3, <1>4, RequestFields, SMTT(30), SMTT(40) DEF FieldsOfRequests, TypeOK, IntentsAcked
<1>7. ResolvesUnderLatch'
  BY RequestFields DEF FieldsOfRequests, TypeOK, ResolvesUnderLatch
<1> QED BY <1>1, <1>2, <1>5, <1>6, <1>7, ZenonT(40)

\* heartbeat touches the record's heartbeat only.
LEMMA HeartbeatStep ==
    ASSUME IInv, NEW t \in Txn, Heartbeat(t)
    PROVE  IInv'
<1> USE DEF IInv, Heartbeat, rootVars, clientVars, dataVars, requestVars
<1>1. TypeOK'
  BY ZenonT(40) DEF TypeOK
<1>2. RecordOfClient' /\ RequestOfClient' /\ IntentsAcked' /\ ResolvesUnderLatch'
  BY DEF RecordOfClient, RequestOfClient, IntentsAcked, ResolvesUnderLatch
<1> QED BY <1>1, <1>2, DataFrame

\* A commit version is taken only after every WriteIntent is acknowledged.
LEMMA AllocCommitVersionStep ==
    ASSUME IInv, NEW t \in Txn, AllocCommitVersion(t)
    PROVE  IInv'
<1> USE DEF IInv, AllocCommitVersion, AllocTxnId, recordVars, dataVars, requestVars
<1>1. TypeOK'
  BY TxnAssumption, SMTT(30), SMTT(40) DEF TypeOK, ClientState
<1>2. record[t] \in {"running", "aborted"} /\ ts # 0
  BY TxnAssumption, ZenonT(40) DEF TypeOK, RecordOfClient, RecordState
<1>3. \A u \in Txn : u # t => commit'[u] = commit[u]
  BY DEF TypeOK
<1>4. RecordOfClient'
  BY <1>2 DEF TypeOK, RecordOfClient
<1>5. RequestOfClient' /\ IntentOfWrite' /\ ResolvesUnderLatch'
  BY ZenonT(40) DEF RequestOfClient, IntentOfWrite, ResolvesUnderLatch, KeysOf
<1>6. IntentsAcked'
  <2>1. \A q \in Request : q.kind = "write_intent" => q.client \in Txn /\ (q.client = t => q \in WriteIntents(t))
    BY RequestFields, Zenon DEF FieldsOfRequests
  <2>2. \A q \in WriteIntents(t) : pc[q] = "done"
    BY Zenon
  <2>3. UNCHANGED <<pc, record, intent>>
    BY Zenon
  <2> QED BY <1>3, <2>1, <2>2, <2>3, Zenon DEF IntentsAcked
<1>7. NoDirtyVersion'
  BY <1>2, <1>3, SMTT(30), SMTT(40) DEF NoDirtyVersion, Committed, Writes
<1>8. CommittedWritesDurable'
  BY <1>2, <1>3, ZenonT(40) DEF CommittedWritesDurable, Committed, Writes
<1> QED BY <1>1, <1>4, <1>5, <1>6, <1>7, <1>8, ZenonT(40)

\* The record of t is COMMITTED.
RecordCommitted(t) ==
    /\ record' \in [Txn -> RecordState]
    /\ heartbeat' \in [Txn -> {"future", "past", "clock"}]
    /\ record'[t] = "committed" /\ record[t] \in {"running", "committed"} /\ commit[t] # 0
    /\ \A u \in Txn : u # t => record'[u] = record[u]
    /\ IntentOfWrite' /\ NoDirtyVersion' /\ CommittedWritesDurable'

\* Moving a record to COMMITTED loses nothing: every intent is acknowledged and in place.
LEMMA CommitRecordStep ==
    ASSUME IInv, NEW t \in Txn, CommitRecord(t)
    PROVE  RecordCommitted(t)
<1> USE DEF RecordCommitted
<1> USE DEF IInv, CommitRecord, dataVars
<1>1. /\ record' \in [Txn -> RecordState]
      /\ heartbeat' \in [Txn -> {"future", "past", "clock"}]
      /\ record'[t] = "committed" /\ record[t] \in {"running", "committed"} /\ commit[t] # 0
      /\ \A u \in Txn : u # t => record'[u] = record[u]
      /\ UNCHANGED <<commit, store, intent>>
  BY ZenonT(40) DEF TypeOK, RecordState
<1>2. IntentOfWrite'
  BY <1>1, SMTT(30), SMTT(40) DEF TypeOK, IntentOfWrite, KeysOf, Intent, NoIntent
<1>3. NoDirtyVersion'
  BY <1>1, SMTT(30), SMTT(40) DEF NoDirtyVersion, Committed, Writes
<1>4. CommittedWritesDurable'
  <2> SUFFICES ASSUME NEW u \in Committed', NEW k \in Key, Writes(u, k)
               PROVE  intent[k].txn = u \/ store[k][commit[u]] # Absent
    BY <1>1, SMTT(30), SMTT(40) DEF CommittedWritesDurable, Writes
  <2>1. CASE u \in Committed
    BY <2>1, ZenonT(40) DEF CommittedWritesDurable
  <2>2. CASE u \notin Committed
    <3>1. u = t /\ record[t] = "running"
      BY <2>2, <1>1, ZenonT(40) DEF Committed
    <3>2. PICK q \in Request : q.kind = "write_intent" /\ q.client = t /\ q.key = k
      BY <3>1, RequestFields DEF FieldsOfRequests, Writes
    <3> QED BY <1>1, <3>1, <3>2, ZenonT(40) DEF IntentsAcked
  <2> QED BY <2>1, <2>2, ZenonT(40)
<1> QED BY <1>1, <1>2, <1>3, <1>4, ZenonT(40)

\* COMMITTED is set, and the CommitIntent requests exist, with all intents of the transaction in place.
LEMMA CommitAckedStep ==
    ASSUME IInv, NEW t \in Txn, CommitAcked(t)
    PROVE  IInv'
<1> USE DEF IInv, CommitAcked
<1>1. CommitRecord(t) /\ UNCHANGED <<ts, start, commit, store, intent, latch, met, rest, signal, result, leaders>>
  BY Zenon DEF CommitRecord, rootVars, dataVars
<1>2. TypeOK'
  BY <1>1, CommitRecordStep, SMTT(30) DEF RecordCommitted, TypeOK, ClientState, PC
<1>3. RecordOfClient'
  BY <1>1, CommitRecordStep, ZenonT(40) DEF RecordCommitted, TypeOK, RecordOfClient
<1>4. \A q \in Request : pc'[q] = pc[q] \/ (q.kind = "commit_intent" /\ q.client = t)
  <2> SUFFICES ASSUME NEW q \in Request PROVE pc'[q] = pc[q] \/ q \in CommitIntents(t)
    BY RequestFields, ZenonT(40) DEF FieldsOfRequests
  <2> QED BY ZenonT(40) DEF TypeOK
<1>5. RequestOfClient' /\ IntentsAcked'
  <2>1. /\ record'[t] = "committed" /\ record[t] \in {"running", "committed"}
        /\ \A u \in Txn : u # t => record'[u] = record[u]
    BY <1>1, CommitRecordStep, Zenon DEF RecordCommitted
  <2>2. \A u \in Txn : record'[u] # record[u] => record[u] = "running" /\ record'[u] \in {"committed", "aborted"}
    BY <2>1, ZenonT(40)
  <2>3. \A x \in Request : \/ pc'[x] = pc[x]
                           \/ pc[x] # "done" /\ pc'[x] # "done" /\ pc[x] # "none"
                           \/ x.kind = "commit_intent" /\ record'[x.client] = "committed"
    BY <1>4, <2>1, ZenonT(40)
  <2> QED BY <1>1, <2>2, <2>3, RecordFrame DEF RecordsDecided
<1>6. ResolvesUnderLatch'
  BY <1>1, RequestFields, ZenonT(40) DEF FieldsOfRequests, ResolvesUnderLatch
<1> QED BY <1>1, <1>2, <1>3, <1>4, <1>5, <1>6, CommitRecordStep, ZenonT(30) DEF RecordCommitted

\* The same if the client does not learn of it.
LEMMA CommitUnansweredStep ==
    ASSUME IInv, NEW t \in Txn, CommitUnanswered(t)
    PROVE  IInv'
<1> USE DEF IInv
<1>1. /\ CommitRecord(t)
      /\ client[t] \in {"commit", "failed"}
      /\ UNCHANGED <<ts, start, client, commit, store, intent, pc, latch, met, rest, signal, result, leaders>>
  BY ZenonT(40) DEF CommitUnanswered, CommitRecord, rootVars, dataVars
<1>7. /\ record'[t] = "committed" /\ record[t] \in {"running", "committed"}
      /\ \A u \in Txn : u # t => record'[u] = record[u]
  BY <1>1, CommitRecordStep, ZenonT(40) DEF RecordCommitted
<1>2. TypeOK'
  BY <1>1, CommitRecordStep DEF RecordCommitted, TypeOK
<1>3. RecordOfClient'
  BY <1>1, CommitRecordStep, ZenonT(40) DEF RecordCommitted, RecordOfClient
<1>4. RequestOfClient' /\ IntentsAcked'
  <2>1. \A u \in Txn : record'[u] # record[u] => record[u] = "running" /\ record'[u] \in {"committed", "aborted"}
    BY <1>7, ZenonT(40)
  <2>2. \A x \in Request : \/ pc'[x] = pc[x]
                           \/ pc[x] # "done" /\ pc'[x] # "done" /\ pc[x] # "none"
                           \/ x.kind = "commit_intent" /\ record'[x.client] = "committed"
    BY <1>1
  <2> QED BY <1>1, <2>1, <2>2, RecordFrame, ZenonT(40) DEF RecordsDecided
<1>6. ResolvesUnderLatch'
  BY <1>1, Zenon DEF ResolvesUnderLatch
<1> QED BY <1>1, <1>2, <1>3, <1>4, <1>6, CommitRecordStep, ZenonT(40) DEF RecordCommitted

\* A client that gives up leaves its record and its intents as they are.
LEMMA FailStep ==
    ASSUME IInv, NEW t \in Txn, Fail(t)
    PROVE  IInv'
<1> USE DEF IInv, Fail, rootVars, recordVars, dataVars, requestVars
<1>1. TypeOK'
  BY ZenonT(40) DEF TypeOK, ClientState
<1>2. RecordOfClient'
  BY ZenonT(40) DEF TypeOK, RecordOfClient
<1>3. RequestOfClient' /\ IntentsAcked' /\ ResolvesUnderLatch'
  BY ZenonT(40) DEF RequestOfClient, IntentsAcked, ResolvesUnderLatch
<1> QED BY <1>1, <1>2, <1>3, DataFrame, ZenonT(40)

\* A reader's Gets leave records and data alone.
LEMMA BeginReadStep ==
    ASSUME IInv, NEW r \in Reader, BeginRead(r)
    PROVE  IInv'
<1> USE DEF IInv, BeginRead, AllocTxnId, recordVars, dataVars
<1>1. TypeOK'
  BY TxnAssumption DEF TypeOK, PC, Client
<1>2. RecordOfClient'
  BY ZenonT(60) DEF RecordOfClient
<1>3. \A q \in Request : q.kind # "get" => pc'[q] = pc[q]
  BY Zenon DEF Gets
<1>4. \A q \in Request : pc'[q] \in {pc[q], "sent"}
  BY ZenonT(40)
<1>5. RequestOfClient' /\ IntentsAcked'
  BY <1>3, ZenonT(40) DEF RequestOfClient, IntentsAcked
<1>6. ResolvesUnderLatch'
  BY <1>4, ZenonT(40) DEF ResolvesUnderLatch
<1> QED BY <1>1, <1>2, <1>5, <1>6, DataFrame, ZenonT(40)

-----------------------------------------------------------------------------
\* The steps of requests

\* write_intent puts an intent only where there is none, under the latch.
LEMMA WriteIntentStep ==
    ASSUME IInv, NEW q \in Request, WriteIntent(q)
    PROVE  IInv'
<1> DEFINE k == q.key
           t == q.client
<1> USE DEF IInv
<1>1. /\ q.kind = "write_intent" /\ pc[q] \in {"sent", "woken"} /\ latch[k] \in {NoReq, q}
      /\ k \in Key /\ t \in Txn /\ k \in KeysOf(t) /\ t # NoTxn
      /\ met' = [met EXCEPT ![q] = NoIntent]
      /\ UNCHANGED <<ts, start, client, commit, record, heartbeat, store, rest, signal, result, leaders>>
  <2>1. /\ q.kind = "write_intent" /\ pc[q] \in {"sent", "woken"} /\ latch[k] \in {NoReq, q}
        /\ met' = [met EXCEPT ![q] = NoIntent]
        /\ UNCHANGED <<ts, start, client, commit, record, heartbeat, store, rest, signal, result, leaders>>
    BY Zenon DEF WriteIntent, CanHold, rootVars, clientVars, recordVars
  <2>2. k \in Key /\ t \in Txn /\ k \in KeysOf(t)
    BY <2>1, RequestFields DEF FieldsOfRequests
  <2> QED BY <2>1, <2>2, TxnAssumption
<1>2. PICK p \in {"done", "sent", "failed"} :
         /\ Finish(q, p)
         /\ \/ intent' = intent /\ (p = "done" => intent[k].txn = t)
            \/ /\ intent[k].txn = NoTxn
               /\ \E prev : intent' = [intent EXCEPT ![k] = [txn |-> t, value |-> ApplyPutOp(t, k, prev)]]
  BY Zenon DEF WriteIntent, TxnConflict
<1>3. p \in PC
  BY DEF PC
<1>4. /\ pc' \in [Request -> PC] /\ latch' \in [Key -> Request \cup {NoReq}]
      /\ pc'[q] = p
      /\ \A x \in Request : x # q => pc'[x] = pc[x]
      /\ \A j \in Key : j # k => latch'[j] = latch[j]
      /\ latch'[k] = NoReq
  BY <1>1, <1>2, <1>3, FinishStep, ZenonT(40) DEF Finished
<1>5. /\ intent' \in [Key -> Intent \cup {NoIntent}]
      /\ \A j \in Key : j # k => intent'[j] = intent[j]
      /\ \/ intent'[k] = intent[k] /\ (p = "done" => intent[k].txn = t)
         \/ /\ intent[k].txn = NoTxn /\ intent'[k].txn = t
            /\ intent'[k].value = Nop <=> Write[t][k].type = "nop"
  <2>1. intent \in [Key -> Intent \cup {NoIntent}]
    BY ZenonT(40) DEF TypeOK
  <2>2. CASE intent' = intent /\ (p = "done" => intent[k].txn = t)
    BY <2>1, <2>2
  <2>3. CASE /\ intent[k].txn = NoTxn
             /\ \E prev : intent' = [intent EXCEPT ![k] = [txn |-> t, value |-> ApplyPutOp(t, k, prev)]]
    <3>1. PICK prev : intent' = [intent EXCEPT ![k] = [txn |-> t, value |-> ApplyPutOp(t, k, prev)]]
      BY <2>3, ZenonT(40)
    <3>2. /\ ApplyPutOp(t, k, prev) \in Content \cup {Nop}
          /\ ApplyPutOp(t, k, prev) = Nop <=> Write[t][k].type = "nop"
      BY <1>1, ApplyPutOpType, ZenonT(40)
    <3>3. [txn |-> t, value |-> ApplyPutOp(t, k, prev)] \in Intent
      BY <1>1, <3>2 DEF Intent
    <3> QED BY <1>1, <2>1, <2>3, <3>1, <3>2, <3>3, Zenon
  <2> QED BY <1>2, <2>2, <2>3, Zenon
<1> HIDE DEF k, t
<1>6. TypeOK'
  <2>1. met' \in [Request -> Intent \cup {NoIntent}]
    BY <1>1, SMTT(30) DEF TypeOK
  <2> QED BY <1>1, <1>4, <1>5, <2>1, ZenonT(40) DEF TypeOK
<1>7. RecordOfClient'
  BY <1>1, ZenonT(30) DEF RecordOfClient
<1>8. RequestOfClient'
  BY <1>1, <1>4, ZenonT(30) DEF RequestOfClient
<1>9. IntentOfWrite'
  <2>1. record[t] # "none"
    BY <1>1, Zenon DEF RequestOfClient, t
  <2> QED BY <1>1, <1>5, <2>1, ZenonT(40) DEF IntentOfWrite, KeysOf
<1>10. IntentsAcked'
  <2> SUFFICES ASSUME NEW x \in Request, x.kind = "write_intent"
               PROVE  /\ commit[x.client] # 0 => pc'[x] = "done"
                      /\ pc'[x] = "done" /\ record[x.client] = "running" => intent'[x.key].txn = x.client
    BY <1>1, Zenon DEF IntentsAcked
  <2>1. x.key \in Key /\ x.client # NoTxn
    BY RequestFields, TxnAssumption DEF FieldsOfRequests
  <2>2. /\ commit[x.client] # 0 => pc[x] = "done"
        /\ pc[x] = "done" /\ record[x.client] = "running" => intent[x.key].txn = x.client
    BY DEF IntentsAcked
  <2>3. CASE x = q
    BY <1>1, <1>4, <1>5, <2>2, <2>3, ZenonT(40) DEF k, t
  <2>4. CASE x # q
    BY <1>4, <1>5, <2>1, <2>2, <2>4, ZenonT(40)
  <2> QED BY <2>3, <2>4
<1>11. ResolvesUnderLatch'
  <2>1. \A x \in Request : x # q => pc'[x] = pc[x] /\ met'[x] = met[x]
    BY <1>1, <1>4, ZenonT(40) DEF TypeOK
  <2>2. pc'[q] \notin {"reread", "resolve", "abort", "wait"}
    BY <1>4
  <2> QED BY <1>1, <1>4, <1>5, <2>1, <2>2, LatchFrame, ZenonT(40) DEF LatchMoves, k
<1>12. NoDirtyVersion'
  BY <1>1, ZenonT(40) DEF NoDirtyVersion, Committed, Writes
<1>13. CommittedWritesDurable'
  <2> SUFFICES ASSUME NEW u \in Committed, NEW j \in Key, Writes(u, j)
               PROVE  intent'[j].txn = u \/ store[j][commit[u]] # Absent
    BY <1>1 DEF CommittedWritesDurable, Committed, Writes
  <2>1. u # NoTxn
    BY TxnAssumption, ZenonT(40) DEF Committed
  <2>2. intent[j].txn = u \/ store[j][commit[u]] # Absent
    BY DEF CommittedWritesDurable
  <2> QED BY <1>5, <2>1, <2>2, ZenonT(40)
<1> QED BY <1>6, <1>7, <1>8, <1>9, <1>10, <1>11, <1>12, <1>13, ZenonT(40)

\* A WriteIntent that meets another intent holds the latch while it resolves it.
LEMMA MeetIntentStep ==
    ASSUME IInv, NEW q \in Request, MeetIntent(q)
    PROVE  IInv'
<1> USE DEF IInv
<1>1. /\ q.kind = "write_intent" /\ pc[q] \in {"sent", "woken"} /\ latch[q.key] \in {NoReq, q}
      /\ q.key \in Key /\ intent[q.key].txn # NoTxn
      /\ latch' = [latch EXCEPT ![q.key] = q]
      /\ met' = [met EXCEPT ![q] = intent[q.key]]
      /\ pc' = [pc EXCEPT ![q] = "resolve"]
      /\ UNCHANGED <<ts, start, client, commit, record, heartbeat, store, intent, rest, signal, result, leaders>>
  BY RequestFields, ZenonT(40) DEF FieldsOfRequests, MeetIntent, CanHold, rootVars, clientVars, recordVars, dataVars
<1>2. TypeOK'
  BY <1>1, ZenonT(40) DEF TypeOK, PC
<1>3. RecordOfClient'
  BY <1>1, ZenonT(40) DEF RecordOfClient
<1>4. /\ pc'[q] = "resolve" /\ met'[q] = intent[q.key] /\ latch'[q.key] = q
      /\ \A x \in Request : x # q => pc'[x] = pc[x] /\ met'[x] = met[x]
      /\ \A j \in Key : j # q.key => latch'[j] = latch[j]
  BY <1>1, ZenonT(40) DEF TypeOK
<1>5. RequestOfClient' /\ IntentsAcked'
  BY <1>1, <1>4, RequestFrame, ZenonT(40)
<1>6. ResolvesUnderLatch'
  BY <1>1, <1>4, LatchFrame, ZenonT(40) DEF LatchMoves
<1> QED BY <1>1, <1>2, <1>3, <1>5, <1>6, DataFrame, ZenonT(60)

\* What a request that resolves an intent knows.
Resolving(q) ==
    /\ q.key \in Key /\ latch[q.key] = q /\ intent[q.key] = met[q]
    /\ met[q] \in Intent /\ met[q].txn \in Txn /\ met[q].value \in Content \cup {Nop}
    /\ commit[met[q].txn] \in {0} \cup Version

\* What a request that resolves an intent knows.
LEMMA ResolveFacts ==
    ASSUME IInv, NEW q \in Request, pc[q] = "resolve"
    PROVE  Resolving(q)
<1> USE DEF Resolving
<1>1. q.key \in Key /\ latch[q.key] = q /\ intent[q.key] = met[q] /\ met[q].txn # NoTxn
  BY RequestFields, ZenonT(40) DEF FieldsOfRequests, IInv, ResolvesUnderLatch
<1>2. met[q] \in Intent
  BY <1>1, SMTT(30), SMTT(40) DEF IInv, TypeOK, NoIntent
<1> QED BY <1>1, <1>2, ZenonT(40) DEF IInv, TypeOK, Intent

\* Resolving commits only intents of committed transactions, at their commit version.
LEMMA ResolveCommittedStep ==
    ASSUME IInv, NEW q \in Request, ResolveCommitted(q)
    PROVE  IInv'
<1> DEFINE t == met[q].txn
           value == [version |-> commit[t], content |-> AsContent(met[q].value)]
<1> USE DEF IInv
<1>1. /\ pc[q] = "resolve" /\ record[t] = "committed"
      /\ ApplyCommitIntent(t, q.key, met[q].value) /\ Resolved(q, value)
      /\ UNCHANGED <<ts, start, client, commit, record, heartbeat, met, rest, signal, leaders>>
  BY DEF ResolveCommitted, rootVars, clientVars, recordVars
<1>2. /\ q.key \in Key /\ latch[q.key] = q /\ intent[q.key] = met[q] /\ t \in Txn
      /\ met[q].value \in Content \cup {Nop} /\ commit[t] \in {0} \cup Version
  BY <1>1, ResolveFacts, Zenon DEF Resolving
<1>3. value.version \in {0} \cup Version /\ value.content \in Content
      /\ value = [version |-> value.version, content |-> value.content]
  BY <1>2, TxnAssumption, ZenonT(40) DEF AsContent, Content
<1> HIDE DEF value
<1>4. /\ pc' \in [Request -> PC]
      /\ latch' \in [Key -> Request \cup {NoReq}]
      /\ result' \in [Request -> Entry \cup {NoEntry}]
      /\ pc'[q] \in {"sent", "done"}
      /\ q.kind = "write_intent" => pc'[q] = "sent"
      /\ \A x \in Request : x # q => pc'[x] = pc[x]
      /\ \A k \in Key : k # q.key => latch'[k] = latch[k]
      /\ latch[q.key] \in {NoReq, q} => latch'[q.key] \in {NoReq, q}
  BY <1>1, <1>3, ResolvedStep DEF Answers
<1>5. /\ store' \in [Key -> [Version -> Content \cup {Absent}]]
      /\ intent' \in [Key -> Intent \cup {NoIntent}]
      /\ \A j \in Key : j # q.key => intent'[j] = intent[j]
      /\ IntentOfWrite' /\ NoDirtyVersion' /\ CommittedWritesDurable'
  BY <1>1, <1>2, ApplyCommitIntentStep, ZenonT(40) DEF IntentApplied
<1> HIDE DEF t
<1>6. TypeOK'
  BY <1>1, <1>4, <1>5 DEF TypeOK
<1>7. RecordOfClient'
  BY <1>1, ZenonT(60) DEF RecordOfClient
<1>8. IntentsAcked' /\ RequestOfClient'
  <2>1. UNCHANGED <<record, commit>> /\ intent[q.key].txn = t /\ record[t] # "running" /\ t \in Txn
    BY <1>1, <1>2, ZenonT(60) DEF t
  <2>2. /\ \A x \in Request : x.kind = "write_intent" /\ pc[x] = "done" => pc'[x] = "done"
        /\ \A x \in Request : x.kind = "write_intent" /\ pc'[x] = "done" => pc[x] = "done"
        /\ \A x \in Request : pc'[x] # "none" => pc[x] # "none"
    BY <1>1, <1>4, Zenon
  <2> QED BY <1>5, <2>1, <2>2, IntentGone, ZenonT(60) DEF AckedStay
<1>9. ResolvesUnderLatch'
  BY <1>1, <1>2, <1>4, <1>5, LatchFrame, ZenonT(30) DEF LatchMoves
<1> QED BY <1>5, <1>6, <1>7, <1>8, <1>9, ZenonT(40)

\* Resolving clears only intents of aborted transactions.
LEMMA ResolveAbortedStep ==
    ASSUME IInv, NEW q \in Request, ResolveAborted(q)
    PROVE  IInv'
<1> USE DEF IInv
<1>1. /\ pc[q] = "resolve" /\ record[met[q].txn] = "aborted"
      /\ ApplyClearIntent(q.key) /\ Resolved(q, NoEntry)
      /\ UNCHANGED <<ts, start, client, commit, record, heartbeat, met, rest, signal, leaders>>
  BY ZenonT(40) DEF ResolveAborted, rootVars, clientVars, recordVars
<1>2. q.key \in Key /\ latch[q.key] = q /\ intent[q.key] = met[q] /\ met[q].txn \in Txn
  BY <1>1, ResolveFacts, ZenonT(40) DEF Resolving
<1>4. /\ pc' \in [Request -> PC]
      /\ latch' \in [Key -> Request \cup {NoReq}]
      /\ result' \in [Request -> Entry \cup {NoEntry}]
      /\ pc'[q] \in {"sent", "done"}
      /\ q.kind = "write_intent" => pc'[q] = "sent"
      /\ \A x \in Request : x # q => pc'[x] = pc[x]
      /\ \A k \in Key : k # q.key => latch'[k] = latch[k]
      /\ latch[q.key] \in {NoReq, q} => latch'[q.key] \in {NoReq, q}
  BY <1>1, ResolvedStep DEF Answers
<1>5. /\ store' = store
      /\ intent' \in [Key -> Intent \cup {NoIntent}]
      /\ \A j \in Key : j # q.key => intent'[j] = intent[j]
      /\ IntentOfWrite' /\ NoDirtyVersion' /\ CommittedWritesDurable'
  <2>1. store' = store
    BY <1>1, ZenonT(40) DEF ApplyClearIntent
  <2> QED BY <1>1, <1>2, <2>1, ApplyClearIntentStep, ZenonT(40) DEF IntentCleared
<1>6. TypeOK'
  BY <1>1, <1>4, <1>5 DEF TypeOK
<1>7. RecordOfClient'
  BY <1>1, ZenonT(60) DEF RecordOfClient
<1>8. IntentsAcked' /\ RequestOfClient'
  BY <1>1, <1>2, <1>4, <1>5, IntentGone, ZenonT(40) DEF AckedStay
<1>9. ResolvesUnderLatch'
  BY <1>1, <1>2, <1>4, <1>5, LatchFrame, Zenon DEF LatchMoves
<1> QED BY <1>5, <1>6, <1>7, <1>8, <1>9, ZenonT(30)

\* The resolver keeps the latch while it goes on to abort the transaction.
LEMMA ResolveExpiredStep ==
    ASSUME IInv, NEW q \in Request, ResolveExpired(q)
    PROVE  IInv'
<1> USE DEF IInv
<1>1. /\ pc[q] = "resolve" /\ pc' = [pc EXCEPT ![q] = "abort"]
      /\ UNCHANGED <<ts, start, client, commit, record, heartbeat, store, intent, latch, met, rest, signal,
                     result, leaders>>
  BY Zenon DEF ResolveExpired, rootVars, clientVars, recordVars, dataVars
<1>2. TypeOK'
  BY <1>1 DEF TypeOK, PC
<1>3. RecordOfClient'
  BY <1>1, Zenon DEF RecordOfClient
<1>4. pc'[q] = "abort" /\ \A x \in Request : x # q => pc'[x] = pc[x]
  BY <1>1, ZenonT(40) DEF TypeOK
<1>5. RequestOfClient' /\ IntentsAcked'
  BY <1>1, <1>4, RequestFrame, ZenonT(40)
<1>6. ResolvesUnderLatch'
  BY <1>1, <1>4, ZenonT(40) DEF ResolvesUnderLatch
<1> QED BY <1>1, <1>2, <1>3, <1>5, <1>6, DataFrame

\* abort_txn moves only RUNNING records.
LEMMA AbortTxnStep ==
    ASSUME IInv, NEW q \in Request, AbortTxn(q)
    PROVE  IInv'
<1> DEFINE t == met[q].txn
<1> USE DEF IInv
<1>1. /\ pc[q] = "abort"
      /\ pc' = [pc EXCEPT ![q] = IF latch[q.key] = q THEN "resolve" ELSE "sent"]
      /\ UNCHANGED <<ts, start, client, commit, store, intent, latch, met, rest, signal, result, leaders>>
  BY ZenonT(40) DEF AbortTxn, rootVars, clientVars, dataVars
<1>2. t \in Txn
  BY <1>1, SMTT(30), SMTT(40) DEF TypeOK, ResolvesUnderLatch, Intent, NoIntent
<1>3. /\ record' \in [Txn -> RecordState] /\ heartbeat' \in [Txn -> {"future", "past", "clock"}]
      /\ \A u \in Txn : record'[u] # record[u] => record[u] = "running" /\ record'[u] = "aborted"
  <2>1. record \in [Txn -> RecordState] /\ heartbeat \in [Txn -> {"future", "past", "clock"}]
    BY ZenonT(40) DEF TypeOK
  <2>2. CASE record[t] = "running"
    BY <2>1, <2>2, <1>2, ZenonT(40) DEF AbortTxn, RecordState
  <2>3. CASE record[t] # "running"
    BY <2>1, <2>3, ZenonT(40) DEF AbortTxn, recordVars
  <2> QED BY <2>2, <2>3, ZenonT(40)
<1> HIDE DEF t
<1>4. /\ pc'[q] \in {"resolve", "sent"} /\ (pc'[q] = "resolve" => latch[q.key] = q)
      /\ \A x \in Request : x # q => pc'[x] = pc[x]
      /\ pc' \in [Request -> PC]
  BY <1>1 DEF TypeOK, PC
<1>5. TypeOK'
  BY <1>1, <1>3, <1>4, ZenonT(40) DEF TypeOK
<1>6. RecordOfClient'
  BY <1>1, <1>3, ZenonT(40) DEF RecordOfClient
<1>7. RequestOfClient' /\ IntentsAcked'
  <2>1. \A u \in Txn : record'[u] # record[u] => record[u] = "running" /\ record'[u] \in {"committed", "aborted"}
    BY <1>3, ZenonT(40)
  <2>2. \A x \in Request : \/ pc'[x] = pc[x]
                           \/ pc[x] # "done" /\ pc'[x] # "done" /\ pc[x] # "none"
                           \/ x.kind = "commit_intent" /\ record'[x.client] = "committed"
    BY <1>1, <1>4
  <2> QED BY <1>1, <2>1, <2>2, RecordFrame, ZenonT(40) DEF RecordsDecided
<1>8. IntentOfWrite'
  <2>1. ASSUME NEW k \in Key, intent[k].txn # NoTxn PROVE record'[intent[k].txn] # "none"
    <3>1. intent[k].txn \in Txn
      BY <2>1, SMTT(30), SMTT(40) DEF TypeOK, Intent, NoIntent
    <3>2. record[intent[k].txn] # "none"
      BY <2>1 DEF IntentOfWrite
    <3> QED BY <1>3, <3>1, <3>2, ZenonT(40)
  <2> QED BY <1>1, <2>1, Zenon DEF IntentOfWrite
<1>10. ResolvesUnderLatch'
  BY <1>1, <1>4, Zenon DEF ResolvesUnderLatch
<1>11. Committed' = Committed
  BY <1>3 DEF Committed
<1>12. NoDirtyVersion' /\ CommittedWritesDurable'
  BY <1>1, <1>11, Zenon DEF NoDirtyVersion, CommittedWritesDurable, Writes
<1> QED BY <1>5, <1>6, <1>7, <1>8, <1>10, <1>12, ZenonT(40)

\* A resolver that sleeps gives up its latch and no longer relies on the intent.
LEMMA ResolveWaitStep ==
    ASSUME IInv, NEW q \in Request, ResolveWait(q)
    PROVE  IInv'
<1> USE DEF IInv
<1>1. /\ pc[q] = "resolve" /\ Finish(q, "wait") /\ "wait" \in PC
      /\ UNCHANGED <<ts, start, client, commit, record, heartbeat, store, intent, met, rest, signal, result,
                     leaders>>
  BY ZenonT(30) DEF ResolveWait, PC, rootVars, clientVars, recordVars, dataVars
<1>2. latch[q.key] = q /\ met[q].txn # NoTxn
  BY <1>1, ZenonT(40) DEF ResolvesUnderLatch
<1>3. /\ pc' \in [Request -> PC] /\ latch' \in [Key -> Request \cup {NoReq}]
      /\ pc'[q] = "wait" /\ latch'[q.key] = NoReq
      /\ \A x \in Request : x # q => pc'[x] = pc[x]
      /\ \A k \in Key : k # q.key => latch'[k] = latch[k]
  BY <1>1, <1>2, FinishStep, ZenonT(40) DEF Finished
<1>4. TypeOK'
  BY <1>1, <1>3, ZenonT(40) DEF TypeOK
<1>5. RecordOfClient'
  BY <1>1, ZenonT(40) DEF RecordOfClient
<1>6. RequestOfClient' /\ IntentsAcked'
  BY <1>1, <1>3, RequestFrame, ZenonT(40)
<1>7. ResolvesUnderLatch'
  BY <1>1, <1>2, <1>3, LatchFrame, ZenonT(40) DEF LatchMoves
<1> QED BY <1>1, <1>4, <1>5, <1>6, <1>7, DataFrame

-----------------------------------------------------------------------------
\* A CommitIntent is answered and wakes waiting requests only.
Signalled(q) ==
    /\ pc' \in [Request -> PC] /\ signal' \in [Request -> {0} \cup Version]
    /\ pc'[q] = "done"
    /\ \A x \in Request : x # q => pc'[x] = pc[x] \/ (pc[x] = "wait" /\ pc'[x] = "woken")

\* The signal of a commit_intent wakes waiting requests, and nothing else.
LEMMA SignalStep ==
    ASSUME IInv, NEW q \in Request, q.kind = "commit_intent", pc[q] = "sent",
           SignalAll(q, commit[q.client])
    PROVE  Signalled(q)
<1> USE DEF Signalled
<1>1. commit[q.client] \in {0} \cup Version
  <2>1. q.client \in Txn
    BY RequestFields, ZenonT(40) DEF FieldsOfRequests
  <2> QED BY <2>1, ZenonT(40) DEF IInv, TypeOK
<1>2. pc \in [Request -> PC] /\ signal \in [Request -> {0} \cup Version]
  BY ZenonT(40) DEF IInv, TypeOK
<1>3. signal' \in [Request -> {0} \cup Version]
  BY <1>1, <1>2, ZenonT(40) DEF SignalAll
<1>4. /\ \A w \in Request : pc'[w] \in {"woken", "done", pc[w]}
      /\ pc' \in [Request -> PC]
  BY <1>2, ZenonT(40) DEF SignalAll, PC
<1>5. pc'[q] = "done" /\ \A x \in Request : x # q => pc'[x] = pc[x] \/ (pc[x] = "wait" /\ pc'[x] = "woken")
  BY ZenonT(40) DEF SignalAll
<1> QED BY <1>3, <1>4, <1>5, ZenonT(40)

\* commit_intent commits only the intent of its own, committed, transaction.
LEMMA CommitIntentStep ==
    ASSUME IInv, NEW q \in Request, CommitIntent(q)
    PROVE  IInv'
<1> DEFINE t == q.client
<1> USE DEF IInv
<1>1. /\ q.kind = "commit_intent" /\ pc[q] = "sent" /\ latch[q.key] = NoReq
      /\ q.key \in Key /\ t \in Txn /\ record[t] = "committed"
      /\ UNCHANGED <<ts, start, client, commit, record, heartbeat, latch, met, rest, result, leaders>>
  BY RequestFields, Zenon DEF FieldsOfRequests, CommitIntent, RequestOfClient, rootVars, clientVars, recordVars
<1>2. /\ pc' \in [Request -> PC] /\ signal' \in [Request -> {0} \cup Version]
      /\ pc'[q] = "done"
      /\ \A x \in Request : x # q => pc'[x] = pc[x] \/ (pc[x] = "wait" /\ pc'[x] = "woken")
  <2>1. CASE SignalAll(q, commit[q.client])
    BY <1>1, <2>1, SignalStep, ZenonT(40) DEF Signalled
  <2>2. CASE pc' = [pc EXCEPT ![q] = "done"] /\ UNCHANGED signal
    BY <2>2, ZenonT(40) DEF TypeOK, PC
  <2> QED BY <2>1, <2>2, Zenon DEF CommitIntent
<1>3. \/ intent[q.key].txn = t /\ ApplyCommitIntent(t, q.key, intent[q.key].value)
      \/ UNCHANGED <<store, intent>>
  BY DEF CommitIntent, dataVars
<1>4. /\ store' \in [Key -> [Version -> Content \cup {Absent}]]
      /\ intent' \in [Key -> Intent \cup {NoIntent}]
      /\ \A j \in Key : j # q.key => intent'[j] = intent[j]
      /\ intent'[q.key] # intent[q.key] => intent[q.key].txn = t
      /\ IntentOfWrite' /\ NoDirtyVersion' /\ CommittedWritesDurable'
  <2>1. CASE intent[q.key].txn = t /\ ApplyCommitIntent(t, q.key, intent[q.key].value)
    BY <1>1, <2>1, ApplyCommitIntentStep, Zenon DEF IntentApplied
  <2>2. CASE UNCHANGED <<store, intent>>
    BY <1>1, <2>2, DataFrame, ZenonT(40) DEF TypeOK
  <2> QED BY <1>3, <2>1, <2>2, Zenon
<1> HIDE DEF t
<1>5. TypeOK'
  BY <1>1, <1>2, <1>4, ZenonT(40) DEF TypeOK
<1>6. RecordOfClient'
  BY <1>1, ZenonT(40) DEF RecordOfClient
<1>7. RequestOfClient'
  BY <1>1, <1>2, Zenon DEF RequestOfClient
<1>8. IntentsAcked'
  <2> SUFFICES ASSUME NEW x \in Request, x.kind = "write_intent"
               PROVE  /\ commit[x.client] # 0 => pc'[x] = "done"
                      /\ pc'[x] = "done" /\ record[x.client] = "running" => intent'[x.key].txn = x.client
    BY <1>1, Zenon DEF IntentsAcked
  <2>1. x.key \in Key /\ x # q
    BY <1>1, RequestFields, ZenonT(40) DEF FieldsOfRequests
  <2>2. pc'[x] = "done" <=> pc[x] = "done"
    BY <1>2, <2>1, ZenonT(40)
  <2>3. /\ commit[x.client] # 0 => pc[x] = "done"
        /\ pc[x] = "done" /\ record[x.client] = "running" => intent[x.key].txn = x.client
    BY DEF IntentsAcked
  <2> QED BY <1>1, <1>4, <2>1, <2>2, <2>3, Zenon
<1>9. ResolvesUnderLatch'
  <2> SUFFICES ASSUME NEW x \in Request
               PROVE  /\ pc'[x] \in {"reread", "resolve", "abort", "wait"} => met[x].txn # NoTxn
                      /\ pc'[x] = "resolve" => latch[x.key] = x
                      /\ pc'[x] \in {"resolve", "abort"} /\ latch[x.key] = x => intent'[x.key] = met[x]
    BY <1>1, ZenonT(40) DEF ResolvesUnderLatch
  <2>1. x.key \in Key /\ x # NoReq
    BY RequestFields, NoReqAssumption, ZenonT(40) DEF FieldsOfRequests
  <2>2. pc'[x] \in {"reread", "resolve", "abort", "wait"} => pc'[x] = pc[x]
    BY <1>2, ZenonT(40)
  <2>3. latch[x.key] = x => x.key # q.key
    BY <1>1, <2>1
  <2>4. /\ pc[x] \in {"reread", "resolve", "abort", "wait"} => met[x].txn # NoTxn
        /\ pc[x] = "resolve" => latch[x.key] = x
        /\ pc[x] \in {"resolve", "abort"} /\ latch[x.key] = x => intent[x.key] = met[x]
    BY ZenonT(40) DEF ResolvesUnderLatch
  <2> QED BY <1>4, <2>1, <2>2, <2>3, <2>4, ZenonT(30)
<1> QED BY <1>4, <1>5, <1>6, <1>7, <1>8, <1>9, ZenonT(40)

\* A CommitIntent that is never served changes no data.
LEMMA DropCommitIntentStep ==
    ASSUME IInv, NEW q \in Request, DropCommitIntent(q)
    PROVE  IInv'
<1> USE DEF IInv
<1>1. /\ q.kind = "commit_intent" /\ pc[q] = "sent" /\ Finish(q, "failed") /\ "failed" \in PC
      /\ UNCHANGED <<ts, start, client, commit, record, heartbeat, store, intent, met, rest, signal, result,
                     leaders>>
  BY ZenonT(40) DEF DropCommitIntent, PC, rootVars, clientVars, recordVars, dataVars
<1>3. /\ pc' \in [Request -> PC] /\ latch' \in [Key -> Request \cup {NoReq}]
      /\ pc'[q] = "failed"
      /\ \A x \in Request : x # q => pc'[x] = pc[x]
      /\ \A k \in Key : k # q.key => latch'[k] = latch[k]
      /\ latch'[q.key] # q
      /\ latch[q.key] # q => latch'[q.key] = latch[q.key]
      /\ latch[q.key] \in {NoReq, q} => latch'[q.key] = NoReq
  BY <1>1, FinishStep, ZenonT(40) DEF Finished
<1>4. TypeOK'
  BY <1>1, <1>3, Zenon DEF TypeOK
<1>5. RecordOfClient'
  BY <1>1, ZenonT(60) DEF RecordOfClient
<1>6. RequestOfClient' /\ IntentsAcked'
  BY <1>1, <1>3, RequestFrame, ZenonT(60)
<1>7. ResolvesUnderLatch'
  BY <1>1, <1>3, LatchFrame, ZenonT(30) DEF LatchMoves
<1> QED BY <1>1, <1>4, <1>5, <1>6, <1>7, DataFrame, ZenonT(40)

\* read_key changes no data, and remembers the intent it has to resolve.
LEMMA GetSnapshotStep ==
    ASSUME IInv, NEW q \in Request, GetSnapshot(q)
    PROVE  IInv'
<1> USE DEF IInv
<1>1. /\ q.kind = "get" /\ pc[q] = "sent" /\ q.key \in Key
      /\ signal' = [signal EXCEPT ![q] = 0]
      /\ UNCHANGED <<ts, start, client, commit, record, heartbeat, store, intent, latch, leaders>>
  BY RequestFields, ZenonT(60) DEF FieldsOfRequests, GetSnapshot, rootVars, clientVars, recordVars, dataVars
<1>2. PICK e \in ReadAt(store[q.key], UpTo(start[q.client])) :
         \/ /\ intent[q.key].txn # NoTxn
            /\ rest' = [rest EXCEPT ![q] = e]
            /\ met' = [met EXCEPT ![q] = intent[q.key]]
            /\ pc' = [pc EXCEPT ![q] = "reread"]
            /\ UNCHANGED result
         \/ /\ result' = [result EXCEPT ![q] = e]
            /\ met' = [met EXCEPT ![q] = NoIntent]
            /\ pc' = [pc EXCEPT ![q] = "done"]
            /\ UNCHANGED rest
  BY ZenonT(60) DEF GetSnapshot
<1>3. e \in Entry \cup {NoEntry}
  <2>1. store[q.key] \in [Version -> Content \cup {Absent}] /\ UpTo(start[q.client]) \subseteq Version
    BY <1>1, ZenonT(40) DEF TypeOK, UpTo
  <2> QED BY <2>1, ReadAtType, ZenonT(40)
<1>4. TypeOK'
  <2>1. /\ rest' \in [Request -> Entry \cup {NoEntry}] /\ result' \in [Request -> Entry \cup {NoEntry}]
        /\ signal' \in [Request -> {0} \cup Version]
    BY <1>1, <1>2, <1>3, SMTT(30), SMTT(40) DEF TypeOK
  <2>2. met' \in [Request -> Intent \cup {NoIntent}]
    BY <1>1, <1>2, ZenonT(40) DEF TypeOK
  <2>3. pc' \in [Request -> PC]
    BY <1>2, ZenonT(40) DEF TypeOK, PC
  <2> QED BY <1>1, <2>1, <2>2, <2>3, ZenonT(40) DEF TypeOK
<1>5. /\ pc'[q] \in {"reread", "done"}
      /\ pc'[q] = "reread" => met'[q].txn # NoTxn
      /\ \A x \in Request : x # q => pc'[x] = pc[x] /\ met'[x] = met[x]
  BY <1>2, ZenonT(40) DEF TypeOK
<1>6. RecordOfClient'
  BY <1>1 DEF RecordOfClient
<1>7. RequestOfClient' /\ IntentsAcked'
  BY <1>1, <1>5, RequestFrame, Zenon
<1>8. ResolvesUnderLatch'
  BY <1>1, <1>5, LatchFrame, Zenon DEF LatchMoves
<1> QED BY <1>1, <1>4, <1>6, <1>7, <1>8, DataFrame, Zenon

\* A Get takes the latch only with the intent it read again.
LEMMA GetRereadStep ==
    ASSUME IInv, NEW q \in Request, GetReread(q)
    PROVE  IInv'
<1> USE DEF IInv
<1>1. /\ q.kind = "get" /\ pc[q] = "reread" /\ latch[q.key] = NoReq /\ q.key \in Key /\ met[q].txn # NoTxn
      /\ UNCHANGED <<ts, start, client, commit, record, heartbeat, store, intent, rest, signal, leaders>>
  BY RequestFields, Zenon DEF FieldsOfRequests, GetReread, ResolvesUnderLatch, rootVars, clientVars, recordVars, dataVars
<1>2. CASE /\ intent[q.key].txn = met[q].txn
           /\ latch' = [latch EXCEPT ![q.key] = q]
           /\ met' = [met EXCEPT ![q] = intent[q.key]]
           /\ pc' = [pc EXCEPT ![q] = "resolve"]
           /\ UNCHANGED result
  <2>1. TypeOK'
    BY <1>1, <1>2, ZenonT(40) DEF TypeOK, PC
  <2>2. /\ pc'[q] = "resolve" /\ met'[q] = intent[q.key] /\ latch'[q.key] = q
        /\ \A x \in Request : x # q => pc'[x] = pc[x] /\ met'[x] = met[x]
        /\ \A k \in Key : k # q.key => latch'[k] = latch[k]
    BY <1>1, <1>2, ZenonT(40) DEF TypeOK
  <2>3. RecordOfClient'
    BY <1>1, Zenon DEF RecordOfClient
  <2>4. RequestOfClient' /\ IntentsAcked'
    BY <1>1, <2>2, RequestFrame, Zenon
  <2>5. ResolvesUnderLatch'
    BY <1>1, <1>2, <2>2, LatchFrame, Zenon DEF LatchMoves
  <2> QED BY <1>1, <2>1, <2>3, <2>4, <2>5, DataFrame, ZenonT(60)
<1>3. CASE /\ \E e \in ReadAt(store[q.key], UpTo(start[q.client])) :
                 result' = [result EXCEPT ![q] = IF e = NoEntry THEN rest[q] ELSE e]
           /\ pc' = [pc EXCEPT ![q] = "done"]
           /\ UNCHANGED <<latch, met>>
  <2>1. PICK e \in ReadAt(store[q.key], UpTo(start[q.client])) :
           result' = [result EXCEPT ![q] = IF e = NoEntry THEN rest[q] ELSE e]
    BY <1>3, ZenonT(40)
  <2>2. e \in Entry \cup {NoEntry}
    <3>1. store[q.key] \in [Version -> Content \cup {Absent}] /\ UpTo(start[q.client]) \subseteq Version
      BY <1>1, ZenonT(40) DEF TypeOK, UpTo
    <3> QED BY <3>1, ReadAtType, ZenonT(40)
  <2>3. TypeOK'
    BY <1>1, <1>3, <2>1, <2>2, ZenonT(40) DEF TypeOK, PC
  <2>4. pc'[q] = "done" /\ \A x \in Request : x # q => pc'[x] = pc[x]
    BY <1>3 DEF TypeOK
  <2>5. RecordOfClient'
    BY <1>1, Zenon DEF RecordOfClient
  <2>6. RequestOfClient' /\ IntentsAcked'
    BY <1>1, <1>3, <2>4, RequestFrame, Zenon
  <2>7. ResolvesUnderLatch'
    BY <1>1, <1>3, <2>4, LatchFrame, Zenon DEF LatchMoves
  <2> QED BY <1>1, <2>3, <2>5, <2>6, <2>7, DataFrame, Zenon
<1> QED BY <1>2, <1>3, Zenon DEF GetReread

\* A woken Get only answers.
LEMMA GetWokenStep ==
    ASSUME IInv, NEW q \in Request, GetWoken(q)
    PROVE  IInv'
<1> DEFINE value == [version |-> signal[q], content |-> AsContent(met[q].value)]
<1> USE DEF IInv
<1>1. /\ q.kind = "get" /\ pc[q] = "woken" /\ latch[q.key] = NoReq /\ q.key \in Key /\ Resolved(q, value)
      /\ UNCHANGED <<ts, start, client, commit, record, heartbeat, store, intent, met, rest, signal, leaders>>
  BY RequestFields, ZenonT(60) DEF FieldsOfRequests, GetWoken, rootVars, clientVars, recordVars, dataVars
<1>2. met[q].value \in Content \cup {Nop}
  <2>1. met[q] \in Intent \cup {NoIntent}
    BY ZenonT(40) DEF TypeOK
  <2>2. ASSUME NEW m \in Intent \cup {NoIntent} PROVE m.value \in Content \cup {Nop}
    <3>1. CASE m \in Intent  BY <3>1, ZenonT(40) DEF Intent
    <3>2. CASE m = NoIntent  BY <3>2, SMT DEF NoIntent
    <3> QED BY <3>1, <3>2, ZenonT(40)
  <2> QED BY <2>1, <2>2, ZenonT(40)
<1>3. value.version \in {0} \cup Version /\ value.content \in Content
      /\ value = [version |-> value.version, content |-> value.content]
  BY <1>2, TxnAssumption, ZenonT(40) DEF AsContent, Content, TypeOK
<1> HIDE DEF value
<1>4. /\ pc' \in [Request -> PC]
      /\ latch' \in [Key -> Request \cup {NoReq}]
      /\ result' \in [Request -> Entry \cup {NoEntry}]
      /\ pc'[q] \in {"sent", "done"}
      /\ \A x \in Request : x # q => pc'[x] = pc[x]
      /\ \A k \in Key : k # q.key => latch'[k] = latch[k]
      /\ latch[q.key] \in {NoReq, q} => latch'[q.key] \in {NoReq, q}
  BY <1>1, <1>3, ResolvedStep, ZenonT(40) DEF Answers
<1>5. TypeOK'
  BY <1>1, <1>4, ZenonT(40) DEF TypeOK
<1>6. RecordOfClient'
  BY <1>1, Zenon DEF RecordOfClient
<1>7. RequestOfClient' /\ IntentsAcked'
  BY <1>1, <1>4, RequestFrame, Zenon
<1>8. ResolvesUnderLatch'
  BY <1>1, <1>4, LatchFrame, ZenonT(40) DEF LatchMoves
<1> QED BY <1>1, <1>5, <1>6, <1>7, <1>8, DataFrame, ZenonT(60)

\* A new leader has no latches, and no request of the old one goes on resolving.
LEMMA LeaderChangeStep ==
    ASSUME IInv, LeaderChange
    PROVE  IInv'
<1> USE DEF IInv
<1>1. /\ latch' = [k \in Key |-> NoReq]
      /\ pc' = [q \in Request |->
                   IF pc[q] \in {"reread", "resolve", "woken"} THEN "sent"
                   ELSE IF pc[q] = "wait" THEN "hung" ELSE pc[q]]
      /\ leaders' = leaders + 1
      /\ UNCHANGED <<ts, start, client, commit, record, heartbeat, store, intent, met, rest, signal, result>>
  BY ZenonT(40) DEF LeaderChange, rootVars, clientVars, recordVars, dataVars
<1>2. TypeOK'
  BY <1>1, SMTT(30), SMTT(40) DEF TypeOK, PC
<1>3. RecordOfClient'
  BY <1>1, ZenonT(40) DEF RecordOfClient
<1>4. RequestOfClient' /\ IntentsAcked'
  BY <1>1, ZenonT(40) DEF RequestOfClient, IntentsAcked
<1>5. ResolvesUnderLatch'
  <2>1. \A q \in Request : latch'[q.key] # q
    BY <1>1, RequestFields, NoReqAssumption, ZenonT(40) DEF FieldsOfRequests
  <2>2. \A q \in Request : pc'[q] \notin {"reread", "resolve", "wait"} /\ (pc'[q] = "abort" => pc[q] = "abort")
    BY <1>1, ZenonT(40)
  <2> QED BY <1>1, <2>1, <2>2, ZenonT(40) DEF ResolvesUnderLatch
<1> QED BY <1>1, <1>2, <1>3, <1>4, <1>5, DataFrame, ZenonT(40)

-----------------------------------------------------------------------------
\* The invariant, and what follows from it

\* The initial state has no records, intents, versions or latches.
LEMMA InitIInv == Init => IInv
<1> SUFFICES ASSUME Init PROVE IInv
  BY ZenonT(40)
<1> USE DEF Init
<1>1. TypeOK
  <2>1. ts \in Nat /\ leaders \in Nat
    BY TxnAssumption, ZenonT(40)
  <2>2. start \in [Client -> {0} \cup Version] /\ commit \in [Txn -> {0} \cup Version]
    BY ZenonT(40)
  <2>3. client \in [Txn -> ClientState] /\ record \in [Txn -> RecordState] /\ pc \in [Request -> PC]
    BY DEF ClientState, RecordState, PC
  <2> QED BY <2>1, <2>2, <2>3, ZenonT(40) DEF TypeOK
<1>2. RecordOfClient /\ RequestOfClient /\ IntentOfWrite /\ ResolvesUnderLatch
  BY Zenon DEF RecordOfClient, RequestOfClient, IntentOfWrite, ResolvesUnderLatch, NoIntent
<1>3. IntentsAcked
  BY RequestFields, ZenonT(40) DEF FieldsOfRequests, IntentsAcked
<1>4. NoDirtyVersion /\ CommittedWritesDurable
  BY ZenonT(40) DEF NoDirtyVersion, CommittedWritesDurable, Committed
<1> QED BY <1>1, <1>2, <1>3, <1>4, ZenonT(40) DEF IInv

\* Every step of Next preserves the inductive invariant.
LEMMA NextIInv == IInv /\ [Next]_vars => IInv'
<1> SUFFICES ASSUME IInv, [Next]_vars PROVE IInv'
  BY ZenonT(40)
<1>1. ASSUME NEW t \in Txn, ClientStep(t) PROVE IInv'
  BY <1>1, BeginStep, HeartbeatStep, AllocCommitVersionStep, CommitAckedStep, CommitUnansweredStep,
     FailStep, ZenonT(40) DEF ClientStep
<1>2. ASSUME NEW r \in Reader, BeginRead(r) PROVE IInv'
  BY <1>2, BeginReadStep, ZenonT(40)
<1>3. ASSUME NEW q \in Request, Resolve(q) PROVE IInv'
  BY <1>3, ResolveCommittedStep, ResolveAbortedStep, ResolveExpiredStep, AbortTxnStep, ResolveWaitStep, ZenonT(40)
     DEF Resolve
<1>4. ASSUME NEW q \in Request, RequestStep(q) PROVE IInv'
  BY <1>3, <1>4, WriteIntentStep, MeetIntentStep, CommitIntentStep, DropCommitIntentStep, GetSnapshotStep,
     GetRereadStep, GetWokenStep, ZenonT(40) DEF RequestStep
<1>5. CASE LeaderChange
  BY <1>5, LeaderChangeStep, ZenonT(40)
<1>6. CASE UNCHANGED vars
  <2>1. UNCHANGED <<ts, start, client, commit, record, heartbeat, store, intent, latch, pc, met, rest, signal,
                    result, leaders>>
    BY <1>6, ZenonT(40) DEF vars, rootVars, clientVars, recordVars, dataVars, requestVars
  <2>2. TypeOK'
    BY <2>1, ZenonT(40) DEF IInv, TypeOK
  <2>3. RecordOfClient' /\ RequestOfClient'
    BY <2>1, ZenonT(40) DEF IInv, RecordOfClient, RequestOfClient
  <2>4. IntentsAcked' /\ ResolvesUnderLatch'
    BY <2>1, Zenon DEF IInv, IntentsAcked, ResolvesUnderLatch
  <2> QED BY <2>1, <2>2, <2>3, <2>4, DataFrame, ZenonT(40) DEF IInv
<1> QED BY <1>1, <1>2, <1>4, <1>5, <1>6 DEF Next

\* The invariant holds in every reachable state.
THEOREM Inductive == Spec => []IInv
BY InitIInv, NextIInv, PTL DEF Spec

\* Every variable of clients, records, keys, latches and requests keeps its type.
THEOREM TypeCorrect == Spec => []TypeOK
<1>1. IInv => TypeOK
  BY ZenonT(40) DEF IInv
<1> QED BY Inductive, <1>1, PTL

\* resolve_txn always finds a record, and the intent it decides about is the one it read: the row latch
\* protects it across the remote reads and writes of the record.
THEOREM ResolvingIsSound == Spec => []ResolveSound
<1>1. IInv => ResolveSound
  <2> SUFFICES ASSUME IInv PROVE ResolveSound
    OBVIOUS
  <2>1. \A k \in Key : intent[k].txn # NoTxn => record[intent[k].txn] # "none"
    BY ZenonT(40) DEF IInv, IntentOfWrite
  <2>2. ASSUME NEW q \in Request, pc[q] = "resolve"
        PROVE  latch[q.key] = q /\ intent[q.key] = met[q] /\ record[met[q].txn] # "none"
    <3>1. latch[q.key] = q /\ intent[q.key] = met[q] /\ met[q].txn # NoTxn
      BY <2>2, ZenonT(40) DEF IInv, ResolvesUnderLatch
    <3>2. q.key \in Key
      BY RequestFields DEF FieldsOfRequests
    <3> QED BY <2>1, <3>1, <3>2
  <2> QED BY <2>1, <2>2 DEF ResolveSound
<1> QED BY Inductive, <1>1, PTL

\* Nothing of a transaction that is not COMMITTED becomes a version, however requests of clients, of
\* resolvers and of old leaders interleave.
THEOREM NothingDirty == Spec => []NoDirtyVersion
<1>1. IInv => NoDirtyVersion
  BY DEF IInv
<1> QED BY Inductive, <1>1, PTL

\* A COMMITTED transaction has all of its writes, as intents or as versions: commit_txn is the point of
\* no return although the intents are turned into versions only later and by others.
THEOREM CommitIsAtomic == Spec => []CommittedWritesDurable
<1>1. IInv => CommittedWritesDurable
  BY DEF IInv
<1> QED BY Inductive, <1>1, PTL
=============================================================================
