------------------------------- MODULE Execute -------------------------------
(***************************************************************************)
(* How a replica admits the requests of its group (server/src/replica:     *)
(* retry::execute, Replica::execute): a request takes meta_acl, a fair     *)
(* read-write lock, for reading, and for writing if it changes the group's *)
(* descriptor; its epoch is compared with the descriptor's; it is          *)
(* evaluated and its effects are proposed; the guard is held until the     *)
(* proposal is answered.                                                   *)
(*                                                                         *)
(* The data is one key: a transaction leaves an intent with WriteIntent    *)
(* and takes it away with CommitIntent, and a WriteIntent that meets the   *)
(* intent of another running transaction waits (module Txn has the whole   *)
(* of it).  The latch of the key is held from the evaluation of a request  *)
(* to the end of its proposal.                                             *)
(***************************************************************************)
EXTENDS Naturals, Sequences, FiniteSets

CONSTANTS
    Txn,       \* transactions: each sends a WriteIntent and then a CommitIntent
    Meta,      \* requests that change the descriptor (SplitShard, ChangeReplicas...)
    NoTxn,     \* no intent
    MaxCancel  \* bound on the requests whose connection is lost

Write == [kind : {"write"}, id : Txn]
Commit == [kind : {"commit"}, id : Txn]
ChangeMeta == [kind : {"meta"}, id : Meta]
Request == Write \cup Commit \cup ChangeMeta

VARIABLES
    pc,       \* where each request stands
    aclQueue, \* requests that wait for meta_acl, first come first served
    epoch,    \* epoch of the applied descriptor
    seen,     \* exec_ctx.epoch of each request
    intent,   \* the transaction whose intent the key has
    proposals, \* proposals that are not applied yet
    stale,    \* history: a proposal was applied at another epoch than it was evaluated at
    cancels   \* requests cancelled so far

admitVars == <<pc, aclQueue, epoch, seen, intent, proposals, stale, cancels>>

Idle == "idle"
Queued == "queued"
Checking == "checking"
Evaluating == "evaluating"
Proposed == "proposed"
Done == "done"
Dropped == "dropped"

\* is_change_meta_request, as take_acl_guard uses it.
IsChangeMetaRequest(r) == r.kind = "meta"

\* The requests that hold meta_acl.
Holders == {r \in Request : pc[r] \in {Checking, Evaluating, Proposed}}

AdmitInit ==
    /\ pc = [r \in Request |-> Idle]
    /\ aclQueue = <<>>
    /\ epoch = 0
    /\ seen = [r \in Request |-> 0]
    /\ intent = NoTxn
    /\ proposals = <<>>
    /\ stale = FALSE
    /\ cancels = 0

\* A client sends a request with the epoch it knows; a transaction commits once its intent is written.
Send(r) ==
    /\ pc[r] = Idle
    /\ r.kind = "commit" => pc[[kind |-> "write", id |-> r.id]] = Done
    /\ \E e \in 0 .. epoch : seen' = [seen EXCEPT ![r] = e]
    /\ pc' = [pc EXCEPT ![r] = Queued]
    /\ aclQueue' = Append(aclQueue, r)
    /\ UNCHANGED <<epoch, intent, proposals, stale, cancels>>

\* Mutant: a writer waits for other writers only.
TakeAclGuardShared(r) ==
    /\ aclQueue # <<>>
    /\ r = Head(aclQueue)
    /\ \A h \in Holders : ~IsChangeMetaRequest(h)
    /\ aclQueue' = Tail(aclQueue)
    /\ pc' = [pc EXCEPT ![r] = Checking]
    /\ UNCHANGED <<epoch, seen, intent, proposals, stale, cancels>>

\* meta_acl is fair: a request behind a waiting writer waits too.
TakeAclGuard(r) ==
    /\ aclQueue # <<>>
    /\ r = Head(aclQueue)
    /\ IF IsChangeMetaRequest(r) THEN Holders = {} ELSE \A h \in Holders : ~IsChangeMetaRequest(h)
    /\ aclQueue' = Tail(aclQueue)
    /\ pc' = [pc EXCEPT ![r] = Checking]
    /\ UNCHANGED <<epoch, seen, intent, proposals, stale, cancels>>

\* Mutant: a request with an old epoch gets through.
CheckRequestEarlySkipped(r) ==
    /\ pc[r] = Checking
    /\ pc' = [pc EXCEPT ![r] = Evaluating]
    /\ UNCHANGED <<aclQueue, epoch, seen, intent, proposals, stale, cancels>>

\* check_request_early finds the epoch of the descriptor.
CheckRequestEarly(r) ==
    /\ pc[r] = Checking
    /\ seen[r] = epoch
    /\ pc' = [pc EXCEPT ![r] = Evaluating]
    /\ UNCHANGED <<aclQueue, epoch, seen, intent, proposals, stale, cancels>>

\* EpochNotMatch: retry::execute tries again with the fresh epoch if is_executable, or answers it.
EpochNotMatch(r) ==
    /\ pc[r] = Checking
    /\ seen[r] < epoch
    /\ IF IsChangeMetaRequest(r)
       THEN /\ pc' = [pc EXCEPT ![r] = Done]
            /\ UNCHANGED <<seen, aclQueue>>
       ELSE /\ pc' = [pc EXCEPT ![r] = Queued]
            /\ seen' = [seen EXCEPT ![r] = epoch]
            /\ aclQueue' = Append(aclQueue, r)
    /\ UNCHANGED <<epoch, intent, proposals, stale, cancels>>

\* acquire_row_latches finds the latch of the key free.
LatchFree == \A h \in Write \cup Commit : pc[h] # Proposed

\* evaluate_command up to the proposal.  A WriteIntent waits as long as the key has the intent of
\* another transaction.
EvaluateCommand(r) ==
    /\ pc[r] = Evaluating
    /\ ~IsChangeMetaRequest(r) => LatchFree
    /\ r.kind = "write" => intent \in {NoTxn, r.id}
    /\ pc' = [pc EXCEPT ![r] = Proposed]
    /\ proposals' = Append(proposals, r)
    /\ UNCHANGED <<aclQueue, epoch, seen, intent, stale, cancels>>

\* A proposal is applied; if its request is still there it is answered and releases meta_acl.
ApplyProposal ==
    /\ proposals # <<>>
    /\ LET r == Head(proposals) IN
         /\ intent' = IF r.kind = "write" THEN r.id
                      ELSE IF r.kind = "commit" /\ intent = r.id THEN NoTxn ELSE intent
         /\ epoch' = IF r.kind = "meta" THEN epoch + 1 ELSE epoch
         /\ stale' = (stale \/ seen[r] # epoch)
         /\ pc' = [pc EXCEPT ![r] = IF @ = Proposed THEN Done ELSE @]
    /\ proposals' = Tail(proposals)
    /\ UNCHANGED <<aclQueue, seen, cancels>>

\* The waiters without a request, which waits at most once.
Leave(waiters, r) ==
    IF \E i \in 1 .. Len(waiters) : waiters[i] = r
    THEN LET i == CHOOSE j \in 1 .. Len(waiters) : waiters[j] = r
         IN SubSeq(waiters, 1, i - 1) \o SubSeq(waiters, i + 1, Len(waiters))
    ELSE waiters

\* The connection of a request is lost: its future is dropped with its guards.
Cancel(r) ==
    /\ cancels < MaxCancel
    /\ pc[r] \in {Queued, Checking, Evaluating, Proposed}
    /\ pc' = [pc EXCEPT ![r] = Dropped]
    /\ aclQueue' = Leave(aclQueue, r)
    /\ cancels' = cancels + 1
    /\ UNCHANGED <<epoch, seen, intent, proposals, stale>>

Step(r) == TakeAclGuard(r) \/ CheckRequestEarly(r) \/ EpochNotMatch(r) \/ EvaluateCommand(r)

AdmitNext == ApplyProposal \/ \E r \in Request : Send(r) \/ Step(r) \/ Cancel(r)

AdmitSpec == AdmitInit /\ [][AdmitNext]_admitVars

\* The replica's tasks run, raft applies what is proposed, and a client goes on to commit.
FairSpec ==
    /\ AdmitSpec
    /\ WF_admitVars(ApplyProposal)
    /\ \A r \in Request : WF_admitVars(Step(r))
    /\ \A r \in Commit : WF_admitVars(Send(r))

-----------------------------------------------------------------------------

\* Every variable has its type.
AdmitTypeOK ==
    /\ pc \in [Request -> {Idle, Queued, Checking, Evaluating, Proposed, Done, Dropped}]
    /\ aclQueue \in Seq(Request)
    /\ epoch \in Nat
    /\ seen \in [Request -> Nat]
    /\ intent \in Txn \cup {NoTxn}
    /\ proposals \in Seq(Request)
    /\ stale \in BOOLEAN
    /\ cancels \in Nat

\* A request that changes the descriptor holds meta_acl alone.
WriterExcludes ==
    \A r, h \in Holders : IsChangeMetaRequest(r) => h = r

\* What a request found out about the descriptor still holds when its proposal is applied, as long as no
\* request is cancelled: no descriptor change gets in between.
EpochFenced == cancels = 0 => ~stale

\* The comment of evaluate_command, "waiting while holding `read/write_acl_guard` will not affect other
\* requests": every request that arrives is answered.
RequestsAnswered == \A r \in Request : pc[r] = Queued ~> pc[r] = Done
=============================================================================
