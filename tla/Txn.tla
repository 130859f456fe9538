-------------------------------- MODULE Txn ---------------------------------
(***************************************************************************)
(* Transactions of Sekas: the client's commit protocol (client/src/txn.rs, *)
(* txn_table.rs) against the replicas that keep intents and versions       *)
(* (replica/eval/cmd_txn.rs, cmd_get.rs, latch.rs).                        *)
(*                                                                         *)
(* A transaction takes a start version from the root, writes its record,   *)
(* writes an intent on every key, takes a commit version, moves its record *)
(* to COMMITTED and turns the intents into versions in the background.     *)
(* A reader or a writer that meets the intent of another transaction       *)
(* resolves it through the record: it finishes or clears the intent, aborts*)
(* an expired transaction, or sleeps until a commit of the key signals it. *)
(*                                                                         *)
(* Grain: a request holds the row latch of its key from its read to the    *)
(* application of its proposal, so the evaluation of a request and the     *)
(* application of what it proposes are one step; the reads and writes of   *)
(* the transaction record, which live in another group, are steps of their *)
(* own.  The order in which waiters get a latch is left open here; module  *)
(* RowLatch shows that a latch has one guard and loses no waiter.  A       *)
(* request is not cancelled between its proposal and the application of    *)
(* it; module RecordWrite is about what happens when it is.                *)
(***************************************************************************)
EXTENDS Naturals, FiniteSets

CONSTANTS
    Txn,             \* transactions that write
    Reader,          \* transactions that only read
    Key,             \* user keys
    Version,         \* the ids the root can hand out
    Write,           \* Write[t][k]: the request of t on k, its type and its condition
    Payload,         \* the value a put writes, the delta an add adds
    Wrap,            \* numbers of the width of i64
    Tombstone,       \* content of a deleted version
    Absent,          \* no version stored
    Nop,             \* content of an intent that writes nothing (PutType::Nop)
    NoTxn,
    NoReq,
    MaxLeaderChange  \* bound on the leader changes of the group

Value == 0 .. Wrap - 1
Content == Value \cup {Tombstone}
WriteType == {"none", "put", "delete", "add", "nop"}
Condition == {"any", "exists", "not_exists"}

ASSUME TxnAssumption ==
    /\ Version \subseteq Nat \ {0}
    /\ Wrap \in Nat \ {0}
    /\ Write \in [Txn -> [Key -> [type : WriteType, cond : Condition]]]
    /\ Payload \in [Txn -> Value]
    /\ Txn \cap Reader = {}
    /\ NoTxn \notin Txn
    /\ Absent \notin Content \cup {Nop}
    /\ Nop \notin Content
    /\ Tombstone \notin Value
    /\ MaxLeaderChange \in Nat

Client == Txn \cup Reader
KeysOf(t) == {k \in Key : Write[t][k].type # "none"}

WriteIntents(t) == [kind : {"write_intent"}, client : {t}, key : KeysOf(t)]
CommitIntents(t) == [kind : {"commit_intent"}, client : {t}, key : KeysOf(t)]
Gets(r) == [kind : {"get"}, client : {r}, key : Key]
Request ==
    (UNION {WriteIntents(t) \cup CommitIntents(t) : t \in Txn}) \cup (UNION {Gets(r) : r \in Reader})

ASSUME NoReqAssumption == NoReq \notin Request

Intent == [txn : Txn, value : Content \cup {Nop}]
NoIntent == [txn |-> NoTxn, value |-> Nop]
Entry == [version : Version, content : Content]
NoEntry == [version |-> 0, content |-> Absent]

VARIABLES
    ts,         \* the root's next id
    start,      \* start version of each client, 0 before it has one
    client,     \* where WriteBatchContext::commit of each transaction stands
    commit,     \* commit version of each transaction, 0 before it has one
    record,     \* state of the transaction record
    heartbeat,  \* what the heartbeat of the record decodes to
    store,      \* the versions of each key
    intent,     \* the entry at TXN_INTENT_VERSION of each key
    latch,      \* the request that holds the row latch of each key
    pc,         \* where each request stands
    met,        \* the intent a request resolves
    rest,       \* what the reader's snapshot holds below the intent
    signal,     \* commit version delivered to a waiter, 0 if none
    result,     \* what a Get returned
    leaders     \* leader changes so far

rootVars == <<ts>>
clientVars == <<start, client, commit>>
recordVars == <<record, heartbeat>>
dataVars == <<store, intent>>
requestVars == <<latch, pc, met, rest, signal, result>>
vars == <<rootVars, clientVars, recordVars, dataVars, requestVars, leaders>>

Init ==
    /\ ts \in Version
    /\ \A v \in Version : ts <= v
    /\ start = [c \in Client |-> 0]
    /\ client = [t \in Txn |-> "idle"]
    /\ commit = [t \in Txn |-> 0]
    /\ record = [t \in Txn |-> "none"]
    /\ heartbeat = [t \in Txn |-> "clock"]
    /\ store = [k \in Key |-> [v \in Version |-> Absent]]
    /\ intent = [k \in Key |-> NoIntent]
    /\ latch = [k \in Key |-> NoReq]
    /\ pc = [q \in Request |-> "none"]
    /\ met = [q \in Request |-> NoIntent]
    /\ rest = [q \in Request |-> NoEntry]
    /\ signal = [q \in Request |-> 0]
    /\ result = [q \in Request |-> NoEntry]
    /\ leaders = 0

-----------------------------------------------------------------------------
\* Reading and evaluating

\* The newest of the given versions that the key has: the one element of this set.
ReadAt(versions, among) ==
    LET visible == {v \in among : versions[v] # Absent}
    IN  IF visible = {}
        THEN {NoEntry}
        ELSE {[version |-> v, content |-> versions[v]] :
                 v \in {u \in visible : \A w \in visible : w <= u}}

UpTo(bound) == {v \in Version : v <= bound}

\* Mutant: the versions of a key are walked in the wrong direction.
ReadNextKeyOldest(k) ==
    LET visible == {v \in Version : store[k][v] # Absent}
    IN  IF visible = {}
        THEN {NoEntry}
        ELSE {[version |-> v, content |-> store[k][v]] :
                 v \in {u \in visible : \A w \in visible : u <= w}}

\* read_intent_and_next_key: below the intent, the newest version of the key.
ReadNextKey(k) == ReadAt(store[k], Version)

\* eval_condition: ExpectExists and ExpectNotExists look at the content, so a tombstone does not exist.
EvalConditions(cond, prev) ==
    /\ cond = "exists" => prev.content \notin {Absent, Tombstone}
    /\ cond = "not_exists" => prev.content \in {Absent, Tombstone}

\* An add without conditions never conflicts with a newer version.
IsAtomicOperation(w) == w.type = "add" /\ w.cond = "any"

\* Mutant: write_intent does not look for newer versions.
TxnConflictNever(t, k, prev) == FALSE

\* write_intent fails with TxnConflict if the key has a version newer than the transaction.
TxnConflict(t, k, prev) == prev.version > start[t] /\ ~IsAtomicOperation(Write[t][k])

\* apply_put_op, and the tombstone of a delete.
ApplyPutOp(t, k, prev) ==
    CASE Write[t][k].type = "put" -> Payload[t]
      [] Write[t][k].type = "add" ->
            ((IF prev.content \in Value THEN prev.content ELSE 0) + Payload[t]) % Wrap
      [] Write[t][k].type = "delete" -> Tombstone
      [] OTHER -> Nop

\* What the reader makes of the content of a committed intent: a Value without content reads as a
\* tombstone, so a Nop intent does as well.
AsContent(value) == IF value = Nop THEN Tombstone ELSE value

\* The intent of t on k becomes a version, or just goes away when it is a Nop.
ApplyCommitIntent(t, k, value) ==
    /\ store' = IF value = Nop THEN store ELSE [store EXCEPT ![k][commit[t]] = value]
    /\ intent' = [intent EXCEPT ![k] = NoIntent]

ApplyClearIntent(k) ==
    /\ intent' = [intent EXCEPT ![k] = NoIntent]
    /\ UNCHANGED store

-----------------------------------------------------------------------------
\* The client

AllocTxnId ==
    /\ ts \in Version
    /\ ts' = ts + 1

\* get_start_version, begin_txn and the WriteIntent requests of prepare_intents.  begin_txn stores
\* the clock with to_le_bytes and parse_txn_record reads it big-endian: it decodes to a time far
\* from now, nearly always in the future.
Begin(t) ==
    /\ client[t] = "idle"
    /\ AllocTxnId
    /\ start' = [start EXCEPT ![t] = ts]
    /\ client' = [client EXCEPT ![t] = "prepare"]
    /\ record' = [record EXCEPT ![t] = "running"]
    /\ \E h \in {"future", "past"} : heartbeat' = [heartbeat EXCEPT ![t] = h]
    /\ pc' = [q \in Request |-> IF q \in WriteIntents(t) THEN "sent" ELSE pc[q]]
    /\ UNCHANGED <<commit, dataVars, latch, met, rest, signal, result, leaders>>

\* lease_txn runs beside commit_inner and stores the clock big-endian.
Heartbeat(t) ==
    /\ client[t] \in {"prepare", "commit"}
    /\ heartbeat[t] # "clock"
    /\ heartbeat' = [heartbeat EXCEPT ![t] = "clock"]
    /\ UNCHANGED <<rootVars, clientVars, record, dataVars, requestVars, leaders>>

\* Mutant: the commit version is taken while intents are still on their way.
AllocCommitVersionEarly(t) ==
    /\ client[t] = "prepare"
    /\ AllocTxnId
    /\ commit' = [commit EXCEPT ![t] = ts]
    /\ client' = [client EXCEPT ![t] = "commit"]
    /\ UNCHANGED <<start, recordVars, dataVars, requestVars, leaders>>

\* Every intent is acknowledged: alloc_txn_version.
AllocCommitVersion(t) ==
    /\ client[t] = "prepare"
    /\ \A q \in WriteIntents(t) : pc[q] = "done"
    /\ AllocTxnId
    /\ commit' = [commit EXCEPT ![t] = ts]
    /\ client' = [client EXCEPT ![t] = "commit"]
    /\ UNCHANGED <<start, recordVars, dataVars, requestVars, leaders>>

\* commit_txn: a compare-and-set of the record from RUNNING.  The answer may get lost; the client
\* then retries, and finding COMMITTED it reports success.  The request of a client that gave up
\* may still be on its way.
CommitRecord(t) ==
    /\ client[t] \in {"commit", "failed"} /\ commit[t] # 0
    /\ record[t] \in {"running", "committed"}
    /\ record' = [record EXCEPT ![t] = "committed"]
    /\ heartbeat' = [heartbeat EXCEPT ![t] = IF record[t] = "running" THEN "clock" ELSE @]
    /\ UNCHANGED <<rootVars, start, commit, dataVars, latch, met, rest, signal, result, leaders>>

\* The answer arrives: commit returns and the CommitIntent requests are sent in the background.
CommitAcked(t) ==
    /\ client[t] = "commit"
    /\ CommitRecord(t)
    /\ client' = [client EXCEPT ![t] = "committed"]
    /\ pc' = [q \in Request |-> IF q \in CommitIntents(t) THEN "sent" ELSE pc[q]]

\* The answer gets lost.
CommitUnanswered(t) == CommitRecord(t) /\ UNCHANGED <<client, pc>>

\* The client gives up: an error of a step (an aborted record, TxnConflict, CasFailed), its deadline,
\* or a crash.  Nothing is undone, and the WriteIntent tasks that were spawned keep running.
Fail(t) ==
    /\ client[t] \in {"prepare", "commit"}
    /\ client' = [client EXCEPT ![t] = "failed"]
    /\ UNCHANGED <<rootVars, start, commit, recordVars, dataVars, requestVars, leaders>>

\* get_read_version and the Get requests of a reader.
BeginRead(r) ==
    /\ start[r] = 0
    /\ AllocTxnId
    /\ start' = [start EXCEPT ![r] = ts]
    /\ pc' = [q \in Request |-> IF q \in Gets(r) THEN "sent" ELSE pc[q]]
    /\ UNCHANGED <<client, commit, recordVars, dataVars, latch, met, rest, signal, result, leaders>>

-----------------------------------------------------------------------------
\* WriteIntent

\* The latch of the key is free, or already held by the request.
CanHold(q) == latch[q.key] \in {NoReq, q}

\* The request is over: its latch guard, if it has one, is dropped.
Finish(q, p) ==
    /\ pc' = [pc EXCEPT ![q] = p]
    /\ latch' = [latch EXCEPT ![q.key] = IF @ = q THEN NoReq ELSE @]

\* write_intent under the latch, from read_first_non_intent_key to the application of the proposal.
WriteIntent(q) ==
    /\ q.kind = "write_intent"
    /\ pc[q] \in {"sent", "woken"}
    /\ CanHold(q)
    /\ intent[q.key].txn \in {NoTxn, q.client}
    /\ \E prev \in ReadNextKey(q.key) :
          LET t == q.client
              k == q.key
              w == Write[t][k]
              conflict == TxnConflict(t, k, prev)
          IN  \/ conflict /\ Finish(q, "failed") /\ UNCHANGED intent
              \/ /\ ~conflict
                 /\ intent[k].txn = t
                 /\ Finish(q, "done")
                 /\ UNCHANGED intent
              \/ /\ ~conflict
                 /\ intent[k].txn = NoTxn
                 /\ ~EvalConditions(w.cond, prev)
                 /\ Finish(q, "failed")
                 /\ UNCHANGED intent
              \/ /\ ~conflict
                 /\ intent[k].txn = NoTxn
                 /\ EvalConditions(w.cond, prev)
                 /\ intent' = [intent EXCEPT ![k] = [txn |-> t, value |-> ApplyPutOp(t, k, prev)]]
                 /\ \E p \in {"done", "sent"} : Finish(q, p)  \* "sent": answer lost, sent again
    /\ met' = [met EXCEPT ![q] = NoIntent]
    /\ UNCHANGED <<rootVars, clientVars, recordVars, store, rest, signal, result, leaders>>

\* The key has the intent of another transaction: keep the latch and resolve it.
MeetIntent(q) ==
    /\ q.kind = "write_intent"
    /\ pc[q] \in {"sent", "woken"}
    /\ CanHold(q)
    /\ intent[q.key].txn \notin {NoTxn, q.client}
    /\ latch' = [latch EXCEPT ![q.key] = q]
    /\ met' = [met EXCEPT ![q] = intent[q.key]]
    /\ pc' = [pc EXCEPT ![q] = "resolve"]
    /\ UNCHANGED <<rootVars, clientVars, recordVars, dataVars, rest, signal, result, leaders>>

-----------------------------------------------------------------------------
\* Resolving an intent, with its latch held (LatchGuard::resolve_txn)

\* What becomes of a request whose intent is resolved: a writer keeps the latch and reads the key
\* again, a Get returns the value of the intent if it is visible, else what is below the intent.
Resolved(q, value) ==
    IF q.kind = "get"
    THEN /\ result' = [result EXCEPT ![q] =
                IF value.version \in 1 .. start[q.client] THEN value ELSE rest[q]]
         /\ Finish(q, "done")
    ELSE /\ pc' = [pc EXCEPT ![q] = "sent"]
         /\ UNCHANGED <<result, latch>>

\* The record is COMMITTED: the intent is committed without a signal to those who wait for it.
ResolveCommitted(q) ==
    /\ pc[q] = "resolve"
    /\ LET t == met[q].txn
       IN  /\ record[t] = "committed"
           /\ ApplyCommitIntent(t, q.key, met[q].value)
           /\ Resolved(q, [version |-> commit[t], content |-> AsContent(met[q].value)])
    /\ UNCHANGED <<rootVars, clientVars, recordVars, met, rest, signal, leaders>>

\* The record is ABORTED: the intent is removed, again without a signal.
ResolveAborted(q) ==
    /\ pc[q] = "resolve"
    /\ record[met[q].txn] = "aborted"
    /\ ApplyClearIntent(q.key)
    /\ Resolved(q, NoEntry)
    /\ UNCHANGED <<rootVars, clientVars, recordVars, met, rest, signal, leaders>>

\* The record is RUNNING and its heartbeat is older than 500 ms.
ResolveExpired(q) ==
    /\ pc[q] = "resolve"
    /\ record[met[q].txn] = "running"
    /\ heartbeat[met[q].txn] # "future"
    /\ pc' = [pc EXCEPT ![q] = "abort"]
    /\ UNCHANGED <<rootVars, clientVars, recordVars, dataVars, latch, met, rest, signal, result,
                   leaders>>

\* Mutant: abort_txn writes the record without the condition on its state.
AbortTxnUnconditional(q) ==
    /\ pc[q] = "abort"
    /\ record' = [record EXCEPT ![met[q].txn] = "aborted"]
    /\ pc' = [pc EXCEPT ![q] = IF latch[q.key] = q THEN "resolve" ELSE "sent"]
    /\ UNCHANGED <<rootVars, clientVars, heartbeat, dataVars, latch, met, rest, signal, result, leaders>>

\* abort_txn: a compare-and-set of the record from RUNNING, some time after the record was read.  If
\* the record is COMMITTED by then, it is read again.
AbortTxn(q) ==
    /\ pc[q] = "abort"
    /\ LET t == met[q].txn
       IN  IF record[t] = "running"
           THEN /\ record' = [record EXCEPT ![t] = "aborted"]
                /\ heartbeat' = [heartbeat EXCEPT ![t] = "clock"]
           ELSE UNCHANGED recordVars
    /\ pc' = [pc EXCEPT ![q] = IF latch[q.key] = q THEN "resolve" ELSE "sent"]
    /\ UNCHANGED <<rootVars, clientVars, dataVars, latch, met, rest, signal, result, leaders>>

\* The record is RUNNING and fresh: release the latch and sleep until a signal.
ResolveWait(q) ==
    /\ pc[q] = "resolve"
    /\ record[met[q].txn] = "running"
    /\ heartbeat[met[q].txn] # "past"
    /\ Finish(q, "wait")
    /\ UNCHANGED <<rootVars, clientVars, recordVars, dataVars, met, rest, signal, result, leaders>>

-----------------------------------------------------------------------------
\* CommitIntent

\* signal_all: every request that waits for an intent of the key, of whichever transaction, is told
\* the version of this commit; a writer ignores what it is told and reads the key again.
SignalAll(q, version) ==
    LET waiting == {w \in Request : w.key = q.key /\ pc[w] = "wait"}
    IN  /\ pc' = [w \in Request |-> IF w \in waiting THEN "woken" ELSE IF w = q THEN "done" ELSE pc[w]]
        /\ signal' = [w \in Request |->
                         IF w \in waiting /\ w.kind = "get" THEN version ELSE signal[w]]

\* commit_intent: the signal is deferred to the end of the request (DeferSignalLatchGuard) and sent
\* also if the proposal failed, which leaves the intent to those who meet it.
CommitIntent(q) ==
    /\ q.kind = "commit_intent"
    /\ pc[q] = "sent"
    /\ latch[q.key] = NoReq
    /\ \/ /\ intent[q.key].txn = q.client
          /\ SignalAll(q, commit[q.client])
          /\ ApplyCommitIntent(q.client, q.key, intent[q.key].value) \/ UNCHANGED dataVars
       \/ /\ intent[q.key].txn # q.client
          /\ pc' = [pc EXCEPT ![q] = "done"]
          /\ UNCHANGED <<signal, dataVars>>
    /\ UNCHANGED <<rootVars, clientVars, recordVars, latch, met, rest, result, leaders>>

\* The background task of the client dies or gives up before the request is served.
DropCommitIntent(q) ==
    /\ q.kind = "commit_intent"
    /\ pc[q] = "sent"
    /\ Finish(q, "failed")
    /\ UNCHANGED <<rootVars, clientVars, recordVars, dataVars, met, rest, signal, result, leaders>>

-----------------------------------------------------------------------------
\* Get

\* Mutant: read_key skips every intent.
GetSnapshotBlind(q) ==
    /\ q.kind = "get"
    /\ pc[q] = "sent"
    /\ \E e \in ReadAt(store[q.key], UpTo(start[q.client])) : result' = [result EXCEPT ![q] = e]
    /\ pc' = [pc EXCEPT ![q] = "done"]
    /\ UNCHANGED <<rootVars, clientVars, recordVars, dataVars, latch, met, rest, signal, leaders>>

\* read_key on a snapshot: an intent of a transaction that started no later than the reader has to
\* be resolved first; without one, the newest visible version is the answer.
GetSnapshot(q) ==
    /\ q.kind = "get"
    /\ pc[q] = "sent"
    /\ \E e \in ReadAt(store[q.key], UpTo(start[q.client])) :
          LET t == intent[q.key].txn
              blocked == t # NoTxn /\ start[t] <= start[q.client]
          IN  \/ /\ blocked
                 /\ rest' = [rest EXCEPT ![q] = e]
                 /\ met' = [met EXCEPT ![q] = intent[q.key]]
                 /\ pc' = [pc EXCEPT ![q] = "reread"]
                 /\ UNCHANGED result
              \/ /\ ~blocked
                 /\ result' = [result EXCEPT ![q] = e]
                 /\ met' = [met EXCEPT ![q] = NoIntent]
                 /\ pc' = [pc EXCEPT ![q] = "done"]
                 /\ UNCHANGED rest
    /\ signal' = [signal EXCEPT ![q] = 0]
    /\ UNCHANGED <<rootVars, clientVars, recordVars, dataVars, latch, leaders>>

\* LatchManager::resolve_txn takes the latch and reads the key again.  The intent is gone: the newest
\* visible version is the answer, and what the first snapshot held when there is none.
GetReread(q) ==
    /\ q.kind = "get"
    /\ pc[q] = "reread"
    /\ latch[q.key] = NoReq
    /\ \/ /\ intent[q.key].txn = met[q].txn
          /\ latch' = [latch EXCEPT ![q.key] = q]
          /\ met' = [met EXCEPT ![q] = intent[q.key]]
          /\ pc' = [pc EXCEPT ![q] = "resolve"]
          /\ UNCHANGED result
       \/ /\ intent[q.key].txn # met[q].txn
          /\ \E e \in ReadAt(store[q.key], UpTo(start[q.client])) :
                result' = [result EXCEPT ![q] = IF e = NoEntry THEN rest[q] ELSE e]
          /\ pc' = [pc EXCEPT ![q] = "done"]
          /\ UNCHANGED <<latch, met>>
    /\ UNCHANGED <<rootVars, clientVars, recordVars, dataVars, rest, signal, leaders>>

\* A signalled Get takes the latch back and trusts the signal: the value of the intent it waited for
\* at the version it was signalled.
GetWoken(q) ==
    /\ q.kind = "get"
    /\ pc[q] = "woken"
    /\ latch[q.key] = NoReq
    /\ Resolved(q, [version |-> signal[q], content |-> AsContent(met[q].value)])
    /\ UNCHANGED <<rootVars, clientVars, recordVars, dataVars, met, rest, signal, leaders>>

-----------------------------------------------------------------------------

\* Another replica becomes the leader, after it applied every committed entry.  The latches and the
\* intent waiters were memory of the old leader: a request that held or waited for a latch fails with
\* NotLeader and is sent again, one that waits for an intent is never signalled.
LeaderChange ==
    /\ leaders < MaxLeaderChange
    /\ leaders' = leaders + 1
    /\ latch' = [k \in Key |-> NoReq]
    /\ pc' = [q \in Request |->
                 IF pc[q] \in {"reread", "resolve", "woken"} THEN "sent"
                 ELSE IF pc[q] = "wait" THEN "hung" ELSE pc[q]]
    /\ UNCHANGED <<rootVars, clientVars, recordVars, dataVars, met, rest, signal, result>>

ClientStep(t) ==
    Begin(t) \/ Heartbeat(t) \/ AllocCommitVersion(t)
    \/ CommitAcked(t) \/ CommitUnanswered(t) \/ Fail(t)

Resolve(q) ==
    \/ ResolveCommitted(q) \/ ResolveAborted(q) \/ ResolveExpired(q) \/ AbortTxn(q)
    \/ ResolveWait(q)

RequestStep(q) ==
    \/ WriteIntent(q) \/ MeetIntent(q) \/ Resolve(q)
    \/ CommitIntent(q) \/ DropCommitIntent(q)
    \/ GetSnapshot(q) \/ GetReread(q) \/ GetWoken(q)

Next ==
    \/ \E t \in Txn : ClientStep(t)
    \/ \E r \in Reader : BeginRead(r)
    \/ \E q \in Request : RequestStep(q)
    \/ LeaderChange

Spec == Init /\ [][Next]_vars

-----------------------------------------------------------------------------
\* Properties

ClientState == {"idle", "prepare", "commit", "committed", "failed"}
RecordState == {"none", "running", "committed", "aborted"}
PC == {"none", "sent", "reread", "resolve", "abort", "wait", "woken", "done", "failed", "hung"}

\* Every variable has the values its Rust counterpart can take; a row latch is held by a request on
\* that row.
TypeOK ==
    /\ ts \in Nat
    /\ start \in [Client -> {0} \cup Version]
    /\ client \in [Txn -> ClientState]
    /\ commit \in [Txn -> {0} \cup Version]
    /\ record \in [Txn -> RecordState]
    /\ heartbeat \in [Txn -> {"future", "past", "clock"}]
    /\ store \in [Key -> [Version -> Content \cup {Absent}]]
    /\ intent \in [Key -> Intent \cup {NoIntent}]
    /\ latch \in [Key -> Request \cup {NoReq}]
    /\ pc \in [Request -> PC]
    /\ met \in [Request -> Intent \cup {NoIntent}]
    /\ rest \in [Request -> Entry \cup {NoEntry}]
    /\ signal \in [Request -> {0} \cup Version]
    /\ result \in [Request -> Entry \cup {NoEntry}]
    /\ leaders \in Nat

\* The transactions whose record says COMMITTED: from that step on they have taken effect.
Committed == {t \in Txn : record[t] = "committed"}

Writes(t, k) == Write[t][k].type \notin {"none", "nop"}

\* An intent always has a record behind it, so resolve_txn never meets its error "resolve txn .., but
\* txn record is not exists"; and while a request resolves an intent under the row latch, nobody
\* replaces that intent, so that the proposal to commit or clear it concerns the intent that was read.
ResolveSound ==
    /\ \A k \in Key : intent[k].txn # NoTxn => record[intent[k].txn] # "none"
    /\ \A q \in Request : pc[q] = "resolve" =>
          latch[q.key] = q /\ intent[q.key] = met[q] /\ record[met[q].txn] # "none"

\* Nothing of an aborted or unfinished transaction ever becomes a version: every stored version is the
\* commit version of a transaction with a COMMITTED record that writes the key.
NoDirtyVersion ==
    \A k \in Key, v \in Version : store[k][v] # Absent =>
        \E t \in Committed : commit[t] = v /\ Writes(t, k)

\* All or nothing: once the record is COMMITTED, each key the transaction writes carries its version
\* or still its intent, whoever committed, cleared, aborted or retried what in between.
CommittedWritesDurable ==
    \A t \in Committed, k \in Key : Writes(t, k) =>
        intent[k].txn = t \/ store[k][commit[t]] # Absent

\* First committer wins: of two committed transactions that write one key, the later one by commit
\* version started after the other committed, unless it is an unconditional add (TxnConflict).
FirstCommitterWins ==
    \A t, u \in Committed, k \in Key :
        /\ t # u /\ commit[u] < commit[t]
        /\ Writes(u, k) /\ Write[t][k].type # "none"
        /\ ~IsAtomicOperation(Write[t][k])
        => commit[u] < start[t]

\* The versions of each key that have taken effect: those stored, and the intents of committed transactions.
Logical ==
    [k \in Key |-> [v \in Version |->
        LET i == intent[k]
        IN  IF i.txn \in Committed /\ commit[i.txn] = v /\ i.value # Nop THEN i.value
            ELSE store[k][v]]]

\* Every committed write was computed from the version right before it, on which its condition held:
\* no increment is lost, and of two conditional inserts one fails.
WritesChained ==
    \A t \in Committed, k \in Key : Writes(t, k) =>
        \E prev \in ReadAt(Logical[k], UpTo(commit[t] - 1)) :
            /\ EvalConditions(Write[t][k].cond, prev)
            /\ Logical[k][commit[t]] = ApplyPutOp(t, k, prev)

\* A version, once stored, never changes, and a record that is COMMITTED or ABORTED stays so, in spite
\* of retried, late and concurrent commits and aborts.
OutcomeStable ==
    [][/\ \A k \in Key, v \in Version : store[k][v] # Absent => store'[k][v] = store[k][v]
       /\ \A t \in Txn : record[t] \in {"committed", "aborted"} => record'[t] = record[t]]_vars

\* A Get that was woken by the commit of a transaction it did not wait for (the FIXME of signal_all).
Misled(q) == signal[q] # 0 /\ signal[q] # commit[met[q].txn]

\* A Get that resolved a committed Nop intent (PutType::Nop).
ReadsNop(q) ==
    /\ met[q].txn # NoTxn /\ met[q].value = Nop
    /\ result[q].version # 0 /\ result[q].version = commit[met[q].txn]

Answered(q) == q.kind = "get" /\ pc[q] = "done"

\* Snapshot reads: a finished Get returned the newest version at or below its start version of those
\* that have taken effect, and no commit that comes later changes that.  Excepted are the Gets that a
\* signal of another transaction (latch.rs:500) or a committed Nop intent (cmd_get.rs:76) misleads.
SnapshotRead ==
    \A q \in Request :
        Answered(q) /\ ~Misled(q) /\ ~ReadsNop(q)
        => result[q] \in ReadAt(Logical[q.key], UpTo(start[q.client]))

-----------------------------------------------------------------------------
\* The inductive invariant behind ResolveSound, NoDirtyVersion and CommittedWritesDurable

\* A record is as far as its client has brought it, and a commit version is there before COMMITTED.
RecordOfClient ==
    \A t \in Txn :
        /\ client[t] = "idle" <=> record[t] = "none"
        /\ client[t] \in {"idle", "prepare"} => commit[t] = 0
        /\ record[t] = "committed" => commit[t] # 0

\* A request of a transaction exists only from Begin on, and a CommitIntent from COMMITTED on.
RequestOfClient ==
    \A q \in Request : pc[q] # "none" =>
        /\ q.kind = "write_intent" => record[q.client] # "none"
        /\ q.kind = "commit_intent" => record[q.client] = "committed"

\* An intent belongs to a transaction that writes the key, and is a Nop only if the write is one.
IntentOfWrite ==
    \A k \in Key : intent[k].txn # NoTxn =>
        /\ k \in KeysOf(intent[k].txn)
        /\ intent[k].value = Nop <=> Write[intent[k].txn][k].type = "nop"
        /\ record[intent[k].txn] # "none"

\* Acknowledged intents stay in place while the record is RUNNING, and a commit version is taken only
\* when all of them are acknowledged.
IntentsAcked ==
    \A q \in Request : q.kind = "write_intent" =>
        /\ commit[q.client] # 0 => pc[q] = "done"
        /\ pc[q] = "done" /\ record[q.client] = "running" => intent[q.key].txn = q.client

\* A request that resolves an intent read it under the latch, and holds the latch until it has decided
\* unless the leader changed while it aborted the transaction.
ResolvesUnderLatch ==
    \A q \in Request :
        /\ pc[q] \in {"reread", "resolve", "abort", "wait"} => met[q].txn # NoTxn
        /\ pc[q] = "resolve" => latch[q.key] = q
        /\ pc[q] \in {"resolve", "abort"} /\ latch[q.key] = q => intent[q.key] = met[q]

\* What every step of clients, replicas and leader changes preserves: records, requests, intents and
\* latches agree, no version is dirty and no committed write is lost.
IInv ==
    /\ TypeOK /\ RecordOfClient /\ RequestOfClient /\ IntentOfWrite /\ IntentsAcked
    /\ ResolvesUnderLatch /\ NoDirtyVersion /\ CommittedWritesDurable

\* The root hands out every id once, so no two transactions share a commit version.
CommitVersionsUnique ==
    /\ \A t \in Txn : commit[t] # 0 => commit[t] < ts
    /\ \A t, u \in Txn : commit[t] # 0 /\ commit[t] = commit[u] => t = u

\* The intent of a committed transaction has not been turned into a version yet: it is not applied twice.
IntentUnstored ==
    \A t \in Committed, k \in Key : intent[k].txn = t => store[k][commit[t]] = Absent

-----------------------------------------------------------------------------
\* The inductive invariant behind FirstCommitterWins, WritesChained, SnapshotRead and the refinement

\* A client has a start version from its Begin on.  Start and commit versions are below the next id of
\* the root, a transaction commits after it started, and no id is both a start and a commit version.
StartsFresh ==
    /\ \A c \in Client : start[c] # 0 => start[c] < ts
    /\ \A t \in Txn :
          /\ start[t] = 0 <=> record[t] = "none"
          /\ commit[t] # 0 => start[t] < commit[t]
          /\ \A c \in Client : commit[t] # 0 => commit[t] # start[c]

\* write_intent placed the intent when the key had no version newer than the transaction, and the key
\* gets none while the intent is there.
IntentNewest ==
    \A k \in Key :
        LET t == intent[k].txn
        IN  t # NoTxn /\ ~IsAtomicOperation(Write[t][k])
            => \A v \in Version : store[k][v] # Absent => v < start[t]

\* Whoever wrote a key before the transaction whose intent it has also committed before.
IntentLast ==
    \A k \in Key, w \in Committed :
        LET t == intent[k].txn
        IN  t \notin {NoTxn, w} /\ commit[t] # 0 /\ k \in KeysOf(w) => commit[w] < commit[t]

\* An intent holds what its write makes of the newest version of the key, which meets its condition.
IntentComputed ==
    \A k \in Key :
        LET t == intent[k].txn
        IN  t # NoTxn => \E prev \in ReadNextKey(k) :
                /\ EvalConditions(Write[t][k].cond, prev)
                /\ intent[k].value = ApplyPutOp(t, k, prev)

\* What every step preserves of the order of the commits and of what each write was computed from.
OrderInv ==
    /\ IInv /\ CommitVersionsUnique /\ IntentUnstored /\ StartsFresh
    /\ IntentNewest /\ IntentLast /\ IntentComputed /\ FirstCommitterWins /\ WritesChained

\* A signal carries the commit version of a committed transaction to a Get that has met an intent; when
\* it comes, the transaction of that intent is decided.
SignalsCommitted ==
    \A q \in Request : q.kind = "get" =>
        /\ signal[q] # 0 => met[q].txn # NoTxn /\ \E t \in Committed : signal[q] = commit[t]
        /\ pc[q] = "woken" => signal[q] # 0 /\ record[met[q].txn] # "running"

\* The given versions without version c.
Without(versions, c) == [v \in Version |-> IF v = c THEN Absent ELSE versions[v]]

\* A Get that has met the intent of t: its rest is what its snapshot holds without t; a version of t
\* that the snapshot holds is above the rest and is the value that was read; and every other
\* transaction that has an intent on the key commits above the snapshot.
ResolvesSnapshot(q) ==
    LET t == met[q].txn
        k == q.key
        s == start[q.client]
    IN  /\ t \in Txn /\ record[t] # "none"
        /\ rest[q] \in ReadAt(Without(Logical[k], commit[t]), UpTo(s))
        /\ commit[t] # 0 /\ commit[t] <= s =>
              \A v \in UpTo(s) : Without(Logical[k], commit[t])[v] # Absent => v < commit[t]
        /\ record[t] = "running" => intent[k] = met[q]
        /\ record[t] = "committed" /\ met[q].value # Nop => Logical[k][commit[t]] = met[q].value
        /\ met[q].value = Nop => Write[t][k].type = "nop"
        /\ intent[k].txn \notin {NoTxn, t} /\ commit[intent[k].txn] # 0 => commit[intent[k].txn] > s

\* Nobody can commit on k at or below version s any more.
Settled(k, s) ==
    LET t == intent[k].txn
    IN  t # NoTxn /\ record[t] = "running" /\ commit[t] # 0 => commit[t] > s

\* Every Get, from the snapshot it takes to its answer, belongs to the snapshot of its start version.
GetsOfSnapshot ==
    \A q \in Request : q.kind = "get" =>
        /\ pc[q] # "none" => start[q.client] # 0
        /\ pc[q] \in {"reread", "resolve", "abort", "wait", "woken"} => ResolvesSnapshot(q)
        /\ pc[q] = "done" => Settled(q.key, start[q.client])
        /\ Answered(q) => result[q].version < ts

\* What every step preserves of the history that the versions and intents stand for: the order of
\* commits, what each write was computed from, and what each Get has seen and will answer.
HistoryInv == OrderInv /\ SignalsCommitted /\ GetsOfSnapshot /\ SnapshotRead

-----------------------------------------------------------------------------
\* What each reader got for each key, as far as nothing misled it.
Reads ==
    [r \in Reader |-> [k \in Key |->
        LET q == [kind |-> "get", client |-> r, key |-> k]
        IN  IF Answered(q) /\ ~Misled(q) /\ ~ReadsNop(q) THEN <<result[q]>> ELSE <<>>]]

\* The abstract store that Txn implements: a transaction takes effect when its record becomes
\* COMMITTED, a reader reads when its Get returns.
Store == INSTANCE SnapshotStore WITH committed <- Committed, history <- Logical, reads <- Reads

\* Snapshot isolation: every behaviour of clients, records, intents, latches and leader changes is a
\* behaviour of the store in which commits are atomic and reads see the snapshot of their start version.
SnapshotIsolation == Store!Spec
=============================================================================
