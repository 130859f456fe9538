---------------------------- MODULE ProposalQueue ----------------------------
(***************************************************************************)
(* How one replica answers the proposals it made                           *)
(* (server/src/raftgroup: RaftNode::propose and Applier).  A proposal is   *)
(* appended to the raft log and its context, the index and term of the     *)
(* entry, to proposal_queue; applying an entry answers the context at the  *)
(* front of the queue if the indexes agree.                                *)
(*                                                                         *)
(* Raft itself (raft-rs) is external: it is the log of the current leader, *)
(* of which a prefix is chosen for ever, and the replica's own log, which  *)
(* follows the leader's.  A new leader's log has all that is chosen.       *)
(***************************************************************************)
EXTENDS Naturals, Sequences

CONSTANTS
    Req,      \* the proposals of this replica
    Other,    \* the content of every other entry: proposals elsewhere, empty entries
    MaxTerm,  \* bound on the terms
    MaxLog    \* bound on the length of the log

ASSUME ProposalQueueAssumption ==
    /\ Other \notin Req
    /\ MaxTerm \in Nat \ {0}
    /\ MaxLog \in Nat

VARIABLES
    log,      \* the replica's raft log
    lead,     \* the log of the leader of the current term
    chosen,   \* length of the chosen prefix of lead
    leader,   \* whether the replica is that leader
    term,     \* the current term
    applied,  \* last_applied_index
    queue,    \* proposal_queue
    answer    \* what each proposal was answered

vars == <<log, lead, chosen, leader, term, applied, queue, answer>>

Entry == [term : 1 .. MaxTerm, req : Req \cup {Other}]
Context == [index : 1 .. MaxLog, term : 1 .. MaxTerm, req : Req]

Init ==
    /\ log = <<>>
    /\ lead = <<>>
    /\ chosen = 0
    /\ leader = FALSE
    /\ term = 1
    /\ applied = 0
    /\ queue = <<>>
    /\ answer = [q \in Req |-> "none"]

-----------------------------------------------------------------------------
(* raft-rs *)

\* Every log a leader of the next term can have: a prefix of the old leader's log or of the replica's
\* with all that is chosen, and the empty entry of the new leader.
LogsOf(l, t) ==
    {Append(SubSeq(l, 1, n), [term |-> t, req |-> Other]) : n \in chosen .. Len(l)}

AgreesUpTo(n) == Len(log) >= n /\ \A i \in 1 .. n : log[i] = lead[i]

\* Another replica becomes the leader of a new term.
StepDown ==
    /\ term < MaxTerm
    /\ term' = term + 1
    /\ leader' = FALSE
    /\ lead' \in LogsOf(lead, term + 1) \cup (IF AgreesUpTo(chosen) THEN LogsOf(log, term + 1) ELSE {})
    /\ Len(lead') <= MaxLog
    /\ UNCHANGED <<log, chosen, applied, queue, answer>>

\* This replica becomes the leader of a new term.
BecomeLeader ==
    /\ term < MaxTerm
    /\ ~leader
    /\ AgreesUpTo(chosen)
    /\ Len(log) < MaxLog
    /\ term' = term + 1
    /\ leader' = TRUE
    /\ log' = Append(log, [term |-> term + 1, req |-> Other])
    /\ lead' = log'
    /\ UNCHANGED <<chosen, applied, queue, answer>>

\* The other leader appends an entry.
OtherAppend ==
    /\ ~leader
    /\ Len(lead) < MaxLog
    /\ term > 1
    /\ lead' = Append(lead, [term |-> term, req |-> Other])
    /\ UNCHANGED <<log, chosen, leader, term, applied, queue, answer>>

\* The replica receives the leader's entries up to n, and drops what disagrees with them.
Receive(n) ==
    /\ ~leader
    /\ ~AgreesUpTo(n)
    /\ AgreesUpTo(n - 1)
    /\ log' = SubSeq(lead, 1, n)
    /\ UNCHANGED <<lead, chosen, leader, term, applied, queue, answer>>

\* A quorum has the leader's entries up to n; a leader chooses only with an entry of its own term.
Choose(n) ==
    /\ n > chosen
    /\ lead[n].term = term
    /\ chosen' = n
    /\ UNCHANGED <<log, lead, leader, term, applied, queue, answer>>

-----------------------------------------------------------------------------
(* RaftNode and Applier *)

\* delegate_proposal_context: contexts at the back of the queue make room for the new one.
Delegate(ctx) ==
    LET stale == queue # <<>> /\ queue[Len(queue)].index >= ctx.index
    IN  /\ queue' = Append(IF stale THEN SubSeq(queue, 1, Len(queue) - 1) ELSE queue, ctx)
        /\ answer' = [q \in Req |->
               IF q = ctx.req THEN "pending"
               ELSE IF stale /\ q = queue[Len(queue)].req THEN "NotLeader" ELSE answer[q]]

\* propose on the leader.
Propose(q) ==
    /\ answer[q] = "none"
    /\ leader
    /\ Len(log) < MaxLog
    /\ log' = Append(log, [term |-> term, req |-> q])
    /\ lead' = log'
    /\ Delegate([index |-> Len(log) + 1, term |-> term, req |-> q])
    /\ UNCHANGED <<chosen, leader, term, applied>>

\* check_proposal_early refuses a proposal: the replica is not the leader, or it is busy (a leadership
\* transfer, a pending configuration change, a full raft).
Refuse(q) ==
    /\ answer[q] = "none"
    /\ answer' = [answer EXCEPT ![q] = IF leader THEN "ServiceIsBusy" ELSE "NotLeader"]
    /\ UNCHANGED <<log, lead, chosen, leader, term, applied, queue>>

\* Mutant: the terms are not compared.
ResponseProposalAnyTerm(index, entry) ==
    IF queue # <<>> /\ Head(queue).index = index
    THEN /\ queue' = Tail(queue)
         /\ answer' = [answer EXCEPT ![Head(queue).req] = "Ok"]
    ELSE UNCHANGED <<queue, answer>>

\* response_proposal for an applied entry.
ResponseProposal(index, entry) ==
    IF queue # <<>> /\ Head(queue).index = index
    THEN /\ queue' = Tail(queue)
         /\ answer' = [answer EXCEPT ![Head(queue).req] =
                IF Head(queue).term = entry.term THEN "Ok" ELSE "NotLeader"]
    ELSE UNCHANGED <<queue, answer>>

\* apply_entries, one entry at a time: a batch may end after every entry.
Apply ==
    /\ applied < chosen
    /\ AgreesUpTo(applied + 1)
    /\ applied' = applied + 1
    /\ ResponseProposal(applied + 1, log[applied + 1])
    /\ UNCHANGED <<log, lead, chosen, leader, term>>

\* apply_snapshot: the contexts stay in the queue.
ApplySnapshot ==
    /\ ~leader
    /\ applied < chosen
    /\ ~AgreesUpTo(chosen)
    /\ log' = SubSeq(lead, 1, chosen)
    /\ applied' = chosen
    /\ UNCHANGED <<lead, chosen, leader, term, queue, answer>>

Raft ==
    \/ StepDown \/ BecomeLeader \/ OtherAppend
    \/ \E n \in 1 .. Len(lead) : Receive(n) \/ Choose(n)

Next ==
    \/ Raft
    \/ \E q \in Req : Propose(q) \/ Refuse(q)
    \/ Apply
    \/ ApplySnapshot

Spec == Init /\ [][Next]_vars

-----------------------------------------------------------------------------

\* Every variable has its type.
TypeOK ==
    /\ log \in Seq(Entry) /\ lead \in Seq(Entry)
    /\ chosen \in 0 .. Len(lead)
    /\ leader \in BOOLEAN
    /\ term \in 1 .. MaxTerm
    /\ applied \in 0 .. chosen
    /\ queue \in Seq(Context)
    /\ answer \in [Req -> {"none", "pending", "Ok", "NotLeader", "ServiceIsBusy"}]

\* response_proposal and delegate_proposal_context never lie, whatever elections, truncations and
\* snapshots happen in between: Ok means that the entry was applied, an error that it never is.
AnswerTruthful ==
    \A q \in Req :
        /\ answer[q] = "Ok" => \E i \in 1 .. applied : lead[i].req = q
        /\ answer[q] \in {"NotLeader", "ServiceIsBusy"} => \A i \in 1 .. chosen : lead[i].req # q

=============================================================================
