---------------------------- MODULE RecordWrite -----------------------------
(***************************************************************************)
(* The writes of one transaction record (client/src/txn_table.rs) on the   *)
(* leader of the group that has it (replica/eval/cmd_write.rs).  Each is a *)
(* ShardWriteRequest whose condition is evaluated on the engine under the  *)
(* row latch; the batch is proposed to raft, and the latch is released     *)
(* when the proposal is applied, or when the request is dropped.           *)
(***************************************************************************)
EXTENDS Naturals, Sequences

CONSTANTS
    Req,        \* requests
    Op,         \* Op[q]: "begin", "commit" or "abort"
    NoReq,
    MaxCancel   \* bound on the requests dropped by their client

ASSUME RecordWriteAssumption ==
    /\ Op \in [Req -> {"begin", "commit", "abort"}]
    /\ NoReq \notin Req
    /\ MaxCancel \in Nat

VARIABLES
    record,   \* state of the record in the engine
    log,      \* proposals raft has accepted and not applied
    latch,    \* the request that holds the latch of the record
    pc,       \* where each request stands
    cancels   \* requests dropped so far

vars == <<record, log, latch, pc, cancels>>

Init ==
    /\ record = "none"
    /\ log = <<>>
    /\ latch = NoReq
    /\ pc = [q \in Req |-> "sent"]
    /\ cancels = 0

\* The state the request sets.
Target(q) ==
    IF Op[q] = "begin" THEN "running" ELSE IF Op[q] = "commit" THEN "committed" ELSE "aborted"

\* begin_txn expects that the state key does not exist, commit_txn and abort_txn that it is RUNNING.
Expected(q) == IF Op[q] = "begin" THEN "none" ELSE "running"

\* Mutant: the write has no condition.
ProposeUnconditional(q) ==
    /\ pc[q] = "sent"
    /\ latch = NoReq
    /\ latch' = q
    /\ log' = Append(log, q)
    /\ pc' = [pc EXCEPT ![q] = "proposed"]
    /\ UNCHANGED <<record, cancels>>

\* Mutant: the condition is evaluated without the latch of the record.
ProposeUnlatched(q) ==
    /\ pc[q] = "sent"
    /\ record = Expected(q)
    /\ latch' = q
    /\ log' = Append(log, q)
    /\ pc' = [pc EXCEPT ![q] = "proposed"]
    /\ UNCHANGED <<record, cancels>>

\* batch_write: the condition holds on the engine, and the batch is proposed.
Propose(q) ==
    /\ pc[q] = "sent"
    /\ latch = NoReq
    /\ record = Expected(q)
    /\ latch' = q
    /\ log' = Append(log, q)
    /\ pc' = [pc EXCEPT ![q] = "proposed"]
    /\ UNCHANGED <<record, cancels>>

\* Mutant: a CasFailed of a retried write is taken for success.
CasFailedIgnored(q) ==
    /\ pc[q] = "sent"
    /\ latch = NoReq
    /\ record # Expected(q)
    /\ pc' = [pc EXCEPT ![q] = "ok"]
    /\ UNCHANGED <<record, log, latch, cancels>>

\* CasFailed: the client looks at the previous state, and takes its own target for success.
CasFailed(q) ==
    /\ pc[q] = "sent"
    /\ latch = NoReq
    /\ record # Expected(q)
    /\ pc' = [pc EXCEPT ![q] = IF record = Target(q) THEN "ok" ELSE "refused"]
    /\ UNCHANGED <<record, log, latch, cancels>>

\* Raft applies the oldest proposal; the request that waits for it is answered and drops its latch.
Apply ==
    /\ log # <<>>
    /\ record' = Target(Head(log))
    /\ log' = Tail(log)
    /\ pc' = [pc EXCEPT ![Head(log)] = IF @ = "proposed" THEN "ok" ELSE @]
    /\ latch' = IF latch = Head(log) THEN NoReq ELSE latch
    /\ UNCHANGED cancels

\* Another leader takes over and the proposals it did not get are lost: NotLeader, sent again.
Lose ==
    /\ log # <<>>
    /\ log' = <<>>
    /\ pc' = [q \in Req |-> IF pc[q] = "proposed" THEN "sent" ELSE pc[q]]
    /\ latch' = NoReq
    /\ UNCHANGED <<record, cancels>>

\* The client goes away: tonic drops the response stream and with it the request and its latch guard,
\* while its proposal stays in raft.
Cancel(q) ==
    /\ cancels < MaxCancel
    /\ pc[q] = "proposed"
    /\ pc' = [pc EXCEPT ![q] = "cancelled"]
    /\ latch' = NoReq
    /\ cancels' = cancels + 1
    /\ UNCHANGED <<record, log>>

Next ==
    \/ \E q \in Req : Propose(q) \/ CasFailed(q) \/ Cancel(q)
    \/ Apply
    \/ Lose

Spec == Init /\ [][Next]_vars

-----------------------------------------------------------------------------

RecordState == {"none", "running", "committed", "aborted"}

\* Every variable has its type.
TypeOK ==
    /\ record \in RecordState
    /\ log \in Seq(Req)
    /\ latch \in Req \cup {NoReq}
    /\ pc \in [Req -> {"sent", "proposed", "ok", "refused", "cancelled"}]
    /\ cancels \in 0 .. MaxCancel

\* The latch is held exactly by the request that waits for its proposal, and that proposal is the last
\* one in raft; what is before it was left there by requests that were dropped.
OneLiveProposal ==
    /\ \A q \in Req : pc[q] = "proposed" <=> latch = q
    /\ \A i \in 1 .. Len(log) :
          pc[log[i]] = "cancelled" \/ (i = Len(log) /\ pc[log[i]] = "proposed")

\* What clients are told agrees, as long as no request is dropped: never was one told that the
\* transaction committed and another that it aborted (commit_txn and abort_txn return Ok only for their
\* own outcome).
AnswersAgree ==
    cancels = 0 =>
        \A p, q \in Req : pc[p] = "ok" /\ pc[q] = "ok" => {Op[p], Op[q]} # {"commit", "abort"}

Record == INSTANCE TxnRecord

\* As long as no request is dropped the record is written atomically, whatever requests are retried
\* and proposals lost: every step is one of Txn's view of the transaction table.
AtomicRecord == Record!Init /\ [][cancels' = 0 => [Record!Next]_record]_vars

\* commit_txn: "[`Error::InvalidArgument`] is returned if the specified start version has been aborted",
\* abort_txn: "... if the specified txn has been committed": a decided record stays as it is.
OutcomeFinal == [][(record \in {"committed", "aborted"}) => (record' = record)]_vars
=============================================================================
