---------------------------- MODULE ReplicaProofs ----------------------------
(***************************************************************************)
(* Theorems about how a replica admits and answers a request: module       *)
(* Execute, for any transactions, descriptor changes and number of lost    *)
(* connections, and module ProposalQueue, for any proposals, terms and     *)
(* lengths of the log.                                                     *)
(***************************************************************************)
EXTENDS Execute, ProposalQueue, TLAPS

-----------------------------------------------------------------------------
\* The answer to a proposal (ProposalQueue)

\* In a log the entry of a proposal is at most where its context says, and no other entry is there.
Located(l, c) == \A i \in 1 .. Len(l) : l[i].req = c.req <=> (i = c.index /\ l[i].term = c.term)

\* A log has no entry of a proposal.
Absent(l, q) == \A i \in 1 .. Len(l) : l[i].req # q

\* A context belongs to a proposal that waits; no entry of its term can get its index any more.
ContextOK(c) ==
    /\ answer[c.req] = "pending"
    /\ c.term <= term
    /\ c.term = term => c.index <= Len(lead)
    /\ Located(log, c) /\ Located(lead, c)

\* The inductive invariant: a leader's own log is the log of the leader, contexts are of different
\* proposals, and a proposal that was refused or not yet made is in neither log.
QueueInv ==
    /\ TypeOK
    /\ leader => log = lead
    /\ \A j \in 1 .. Len(queue) : ContextOK(queue[j])
    /\ \A j, k \in 1 .. Len(queue) : queue[j].req = queue[k].req => j = k
    /\ \A q \in Req : answer[q] \in {"none", "NotLeader", "ServiceIsBusy"} => Absent(log, q) /\ Absent(lead, q)
    /\ \A q \in Req : answer[q] = "Ok" => \E i \in 1 .. applied : lead[i].req = q

-----------------------------------------------------------------------------

\* The first entries of a log.
LEMMA Prefix ==
    ASSUME NEW s \in Seq(Entry), NEW n \in 0 .. Len(s)
    PROVE  /\ SubSeq(s, 1, n) \in Seq(Entry) /\ Len(SubSeq(s, 1, n)) = n
           /\ \A i \in 1 .. n : SubSeq(s, 1, n)[i] = s[i]
OBVIOUS

\* An entry behind the others.
LEMMA Pushed ==
    ASSUME NEW s \in Seq(Entry), NEW e \in Entry
    PROVE  /\ Append(s, e) \in Seq(Entry) /\ Len(Append(s, e)) = Len(s) + 1 /\ Len(s) \in Nat
           /\ \A i \in 1 .. Len(s) : Append(s, e)[i] = s[i]
           /\ Append(s, e)[Len(s) + 1] = e
OBVIOUS

\* Init: empty logs, no proposal made.
LEMMA InitInv == Init => QueueInv
<1> SUFFICES ASSUME Init PROVE QueueInv
  OBVIOUS
<1> USE DEF Init
<1>1. Len(log) = 0 /\ Len(lead) = 0 /\ Len(queue) = 0 /\ log = lead
  OBVIOUS
<1>2. TypeOK
  <2>1. leader \in BOOLEAN
    BY Zenon
  <2>2. log \in Seq(Entry) /\ lead \in Seq(Entry) /\ queue \in Seq(Context)
    OBVIOUS
  <2>3. chosen \in 0 .. Len(lead) /\ term \in 1 .. MaxTerm /\ applied \in 0 .. chosen
    BY <1>1, ProposalQueueAssumption
  <2>4. answer \in [Req -> {"none", "pending", "Ok", "NotLeader", "ServiceIsBusy"}]
    OBVIOUS
  <2> QED BY <2>1, <2>2, <2>3, <2>4 DEF TypeOK
<1> QED BY <1>1, <1>2 DEF QueueInv, Absent

-----------------------------------------------------------------------------
(* Raft *)

\* An entry that raft makes itself, which no proposal can be mistaken for.
Fresh(e, i) == e.req = Other /\ (e.term > term \/ (e.term = term /\ i > Len(lead)))

\* What an entry of a new log is: one of the two old logs at its index, or fresh.
Copied(l, i) ==
    \/ i \in 1 .. Len(log) /\ l[i] = log[i]
    \/ i \in 1 .. Len(lead) /\ l[i] = lead[i]
    \/ Fresh(l[i], i)

\* The logs hold copies, and what is applied stays.
LogsCopied ==
    /\ \A i \in 1 .. Len(log') : Copied(log', i)
    /\ \A i \in 1 .. Len(lead') : Copied(lead', i)
    /\ \A i \in 1 .. applied : lead'[i] = lead[i]

\* Whatever raft copies between the logs, the contexts and the answers remain true.
LEMMA RaftFrame ==
    ASSUME QueueInv, TypeOK', leader' => log' = lead', UNCHANGED <<queue, answer>>,
           term <= term', term' = term => Len(lead) <= Len(lead'), applied <= applied',
           LogsCopied
    PROVE  QueueInv'
<1> USE DEF LogsCopied
<1>1. \A j \in 1 .. Len(queue) : queue[j] \in Context
  BY SMTT(30), SMTT(40) DEF QueueInv, TypeOK
<1>2. ASSUME NEW c \in Context, ContextOK(c), NEW e, NEW i \in Nat, Fresh(e, i)
      PROVE  e.req # c.req /\ ~(i = c.index /\ e.term = c.term)
  <2>1. c.req \in Req /\ c.index \in Nat /\ c.term \in Nat /\ term \in Nat /\ Len(lead) \in Nat
    BY ProposalQueueAssumption, SMTT(30), SMTT(40) DEF Context, QueueInv, TypeOK
  <2>2. e.req # c.req
    BY <1>2, <2>1, ProposalQueueAssumption DEF Fresh
  <2>3. ~(i = c.index /\ e.term = c.term)
    BY <1>2, <2>1 DEF Fresh, ContextOK
  <2> QED BY <2>2, <2>3
<1>3. ASSUME NEW c \in Context, ContextOK(c) PROVE Located(log', c) /\ Located(lead', c)
  <2>1. ASSUME NEW l, NEW i \in Nat, Copied(l, i)
        PROVE  l[i].req = c.req <=> (i = c.index /\ l[i].term = c.term)
    <3>1. CASE i \in 1 .. Len(log) /\ l[i] = log[i]
      BY <1>3, <3>1 DEF ContextOK, Located
    <3>2. CASE i \in 1 .. Len(lead) /\ l[i] = lead[i]
      BY <1>3, <3>2 DEF ContextOK, Located
    <3>3. CASE Fresh(l[i], i)
      BY <1>2, <1>3, <3>3
    <3> QED BY <2>1, <3>1, <3>2, <3>3 DEF Copied
  <2>2. \A i \in 1 .. Len(log') : i \in Nat /\ Copied(log', i)
    OBVIOUS
  <2>3. \A i \in 1 .. Len(lead') : i \in Nat /\ Copied(lead', i)
    OBVIOUS
  <2>4. Located(log', c)
    BY <2>1, <2>2 DEF Located
  <2>5. Located(lead', c)
    BY <2>1, <2>3 DEF Located
  <2> QED BY <2>4, <2>5
<1>4. ASSUME NEW c \in Context, ContextOK(c) PROVE ContextOK(c)'
  <2>1. c.term <= term' /\ (c.term = term' => c.index <= Len(lead'))
    <3>1. c.index \in Nat /\ c.term \in Nat /\ term \in Nat /\ term' \in Nat /\ Len(lead) \in Nat /\ Len(lead') \in Nat
      BY ProposalQueueAssumption, SMTT(30), SMTT(40) DEF Context, QueueInv, TypeOK
    <3> QED BY <3>1, <1>4 DEF ContextOK
  <2> QED BY <1>3, <1>4, <2>1 DEF ContextOK, Located
<1>5. \A j \in 1 .. Len(queue') : ContextOK(queue[j])'
  BY <1>1, <1>4 DEF QueueInv
<1>6. ASSUME NEW q \in Req, answer'[q] \in {"none", "NotLeader", "ServiceIsBusy"}
      PROVE  Absent(log', q) /\ Absent(lead', q)
  <2>1. Absent(log, q) /\ Absent(lead, q) /\ q # Other
    BY <1>6, ProposalQueueAssumption, Zenon DEF QueueInv
  <2> QED BY <2>1 DEF Absent, Copied, Fresh, LogsCopied
<1>7. ASSUME NEW q \in Req, answer'[q] = "Ok" PROVE \E i \in 1 .. applied' : lead'[i].req = q
  <2>1. applied \in Nat /\ applied' \in Nat
    BY DEF QueueInv, TypeOK
  <2> QED BY <1>7, <2>1 DEF QueueInv
<1> QED BY <1>5, <1>6, <1>7 DEF QueueInv, Absent

\* A log of the next term of n + 1 entries.
NextLog(new, n) ==
    /\ new \in Seq(Entry) /\ Len(new) = n + 1
    /\ \A i \in 1 .. Len(new) : Copied(new, i)
    /\ \A i \in 1 .. chosen : new[i] = lead[i]

\* A log of the next term: what was chosen, and copied or fresh entries.
LEMMA NextTermLog ==
    ASSUME QueueInv, term < MaxTerm, NEW l \in Seq(Entry), l = lead \/ l = log,
           NEW n \in chosen .. Len(l), \A i \in 1 .. chosen : l[i] = lead[i],
           NEW new, new = Append(SubSeq(l, 1, n), [term |-> term + 1, req |-> Other])
    PROVE  NextLog(new, n)
<1> USE DEF NextLog
<1> DEFINE e == [term |-> term + 1, req |-> Other]
<1>1. e \in Entry /\ term \in Nat /\ chosen \in Nat /\ n \in Nat /\ n \in 0 .. Len(l)
  BY ProposalQueueAssumption DEF QueueInv, TypeOK, Entry
<1>2. /\ SubSeq(l, 1, n) \in Seq(Entry) /\ Len(SubSeq(l, 1, n)) = n
      /\ \A i \in 1 .. n : SubSeq(l, 1, n)[i] = l[i]
  BY <1>1, Prefix
<1>3. Fresh(e, n + 1)
  BY <1>1 DEF Fresh
<1> HIDE DEF e
<1>4. new = Append(SubSeq(l, 1, n), e)
  BY DEF e
<1>5. /\ new \in Seq(Entry) /\ Len(new) = n + 1
      /\ \A i \in 1 .. n : new[i] = l[i]
      /\ new[n + 1] = e
  BY <1>1, <1>2, <1>4, Pushed, SMTT(30), SMTT(40)
<1>6. \A i \in 1 .. Len(new) : i = n + 1 \/ i \in 1 .. n
  BY <1>1, <1>5
<1>7. \A i \in 1 .. n : i \in 1 .. Len(l)
  BY <1>1
<1>8. \A i \in 1 .. Len(new) : Copied(new, i)
  BY <1>3, <1>5, <1>6, <1>7 DEF Copied
<1>9. \A i \in 1 .. chosen : new[i] = lead[i]
  BY <1>1, <1>5, SMTT(30), SMTT(40)
<1> QED BY <1>5, <1>8, <1>9, Zenon

\* Another replica is elected.
LEMMA StepDownStep == ASSUME QueueInv, StepDown PROVE QueueInv'
<1>1. /\ term < MaxTerm /\ term' = term + 1 /\ leader' = FALSE
      /\ UNCHANGED <<log, chosen, applied, queue, answer>>
      /\ lead' \in LogsOf(lead, term + 1) \cup (IF AgreesUpTo(chosen) THEN LogsOf(log, term + 1) ELSE {})
  BY DEF StepDown
<1>2. /\ log \in Seq(Entry) /\ lead \in Seq(Entry) /\ term \in Nat /\ chosen \in 0 .. Len(lead)
      /\ applied \in 0 .. chosen /\ Len(lead) \in Nat
  BY ProposalQueueAssumption DEF QueueInv, TypeOK
<1>3. PICK l \in {lead, log} : lead' \in LogsOf(l, term + 1) /\ \A i \in 1 .. chosen : l[i] = lead[i]
  <2>1. CASE lead' \in LogsOf(lead, term + 1)
    BY <2>1
  <2>2. CASE AgreesUpTo(chosen) /\ lead' \in LogsOf(log, term + 1)
    BY <2>2 DEF AgreesUpTo
  <2> QED BY <1>1, <2>1, <2>2
<1>4. PICK n \in chosen .. Len(l) : lead' = Append(SubSeq(l, 1, n), [term |-> term + 1, req |-> Other])
  BY <1>3 DEF LogsOf
<1>5. /\ lead' \in Seq(Entry) /\ Len(lead') = n + 1
      /\ \A i \in 1 .. Len(lead') : Copied(lead', i)
      /\ \A i \in 1 .. chosen : lead'[i] = lead[i]
  BY <1>1, <1>2, <1>3, <1>4, NextTermLog, ZenonT(40) DEF NextLog
<1>6. TypeOK'
  <2>1. leader' \in BOOLEAN
    BY <1>1, Zenon
  <2>2. chosen' \in 0 .. Len(lead') /\ term' \in 1 .. MaxTerm /\ applied' \in 0 .. chosen'
    BY <1>1, <1>2, <1>5, ProposalQueueAssumption
  <2> QED BY <1>1, <1>2, <1>5, <2>1, <2>2 DEF TypeOK, QueueInv
<1>7. \A i \in 1 .. Len(log') : Copied(log', i)
  BY <1>1 DEF Copied
<1>8. \A i \in 1 .. applied : lead'[i] = lead[i]
  BY <1>2, <1>5
<1>9. term <= term' /\ term' # term /\ applied <= applied'
  BY <1>1, <1>2
<1>10. UNCHANGED <<queue, answer>> /\ ~leader'
  BY <1>1
<1> QED BY <1>5, <1>6, <1>7, <1>8, <1>9, <1>10, RaftFrame DEF LogsCopied

\* This replica is elected.
LEMMA BecomeLeaderStep == ASSUME QueueInv, BecomeLeader PROVE QueueInv'
<1>1. /\ term < MaxTerm /\ term' = term + 1 /\ leader' = TRUE /\ AgreesUpTo(chosen)
      /\ UNCHANGED <<chosen, applied, queue, answer>>
      /\ log' = Append(log, [term |-> term + 1, req |-> Other]) /\ lead' = log'
  BY DEF BecomeLeader
<1>2. /\ log \in Seq(Entry) /\ lead \in Seq(Entry) /\ term \in Nat /\ chosen \in 0 .. Len(lead)
      /\ applied \in 0 .. chosen /\ Len(log) \in Nat /\ chosen <= Len(log)
  BY <1>1, ProposalQueueAssumption DEF QueueInv, TypeOK, AgreesUpTo
<1>3. SubSeq(log, 1, Len(log)) = log
  BY <1>2
<1>4. /\ log' \in Seq(Entry) /\ Len(log') = Len(log) + 1
      /\ \A i \in 1 .. Len(log') : Copied(log', i)
      /\ \A i \in 1 .. chosen : log'[i] = lead[i]
  <2>1. Len(log) \in chosen .. Len(log) /\ \A i \in 1 .. chosen : log[i] = lead[i]
    BY <1>1, <1>2 DEF AgreesUpTo
  <2>2. log' = Append(SubSeq(log, 1, Len(log)), [term |-> term + 1, req |-> Other])
    BY <1>1, <1>3
  <2> QED BY <1>1, <1>2, <2>1, <2>2, NextTermLog, Zenon DEF NextLog
<1>5. TypeOK'
  <2>1. leader' \in BOOLEAN
    BY <1>1, Zenon
  <2>2. chosen' \in 0 .. Len(lead') /\ term' \in 1 .. MaxTerm /\ applied' \in 0 .. chosen'
    BY <1>1, <1>2, <1>4, ProposalQueueAssumption
  <2> QED BY <1>1, <1>2, <1>4, <2>1, <2>2 DEF TypeOK, QueueInv
<1>6. \A i \in 1 .. applied : lead'[i] = lead[i]
  BY <1>1, <1>2, <1>4
<1>7. term <= term' /\ term' # term /\ applied <= applied'
  BY <1>1, <1>2
<1>8. UNCHANGED <<queue, answer>> /\ log' = lead' /\ \A i \in 1 .. Len(lead') : Copied(lead', i)
  BY <1>1, <1>4
<1> QED BY <1>4, <1>5, <1>6, <1>7, <1>8, RaftFrame DEF LogsCopied

\* The other leader appends.
LEMMA OtherAppendStep == ASSUME QueueInv, OtherAppend PROVE QueueInv'
<1> DEFINE e == [term |-> term, req |-> Other]
<1>1. /\ ~leader /\ lead' = Append(lead, e)
      /\ UNCHANGED <<log, chosen, leader, term, applied, queue, answer>>
  BY DEF OtherAppend
<1>2. /\ lead \in Seq(Entry) /\ e \in Entry /\ Len(lead) \in Nat /\ term \in Nat /\ chosen \in 0 .. Len(lead)
      /\ applied \in 0 .. chosen
  BY ProposalQueueAssumption DEF QueueInv, TypeOK, Entry
<1>3. Fresh(e, Len(lead) + 1)
  BY <1>2 DEF Fresh
<1> HIDE DEF e
<1>4. /\ lead' \in Seq(Entry) /\ Len(lead') = Len(lead) + 1
      /\ \A i \in 1 .. Len(lead) : lead'[i] = lead[i]
      /\ lead'[Len(lead) + 1] = e
  BY <1>1, <1>2, Pushed
<1>5. \A i \in 1 .. Len(lead') : Copied(lead', i)
  <2>1. \A i \in 1 .. Len(lead') : i = Len(lead) + 1 \/ i \in 1 .. Len(lead)
    BY <1>2, <1>4
  <2> QED BY <1>3, <1>4, <2>1 DEF Copied
<1>6. \A i \in 1 .. Len(log') : Copied(log', i)
  BY <1>1 DEF Copied
<1>7. TypeOK'
  <2>1. chosen' \in 0 .. Len(lead')
    BY <1>1, <1>2, <1>4
  <2> QED BY <1>1, <1>4, <2>1 DEF TypeOK, QueueInv
<1>8. \A i \in 1 .. applied : lead'[i] = lead[i]
  BY <1>2, <1>4
<1>9. term <= term' /\ Len(lead) <= Len(lead') /\ applied <= applied' /\ UNCHANGED <<queue, answer>> /\ ~leader'
  BY <1>1, <1>2, <1>4
<1> QED BY <1>5, <1>6, <1>7, <1>8, <1>9, RaftFrame DEF LogsCopied

\* The replica takes entries of the leader, one by one or with a snapshot.
LEMMA TakeStep ==
    ASSUME QueueInv, ~leader, NEW n \in 0 .. Len(lead), log' = SubSeq(lead, 1, n),
           UNCHANGED <<lead, chosen, leader, term, queue, answer>>, applied <= applied', applied' \in 0 .. chosen
    PROVE  QueueInv'
<1>1. /\ lead \in Seq(Entry) /\ Len(lead) \in Nat /\ n \in Nat /\ term \in Nat
  BY ProposalQueueAssumption DEF QueueInv, TypeOK
<1>2. /\ log' \in Seq(Entry) /\ Len(log') = n /\ \A i \in 1 .. n : log'[i] = lead[i]
  BY <1>1, Prefix
<1>3. \A i \in 1 .. Len(log') : Copied(log', i)
  <2>1. \A i \in 1 .. Len(log') : i \in 1 .. Len(lead)
    BY <1>1, <1>2
  <2> QED BY <1>2, <2>1 DEF Copied
<1>4. \A i \in 1 .. Len(lead') : Copied(lead', i)
  BY DEF Copied
<1>5. TypeOK'
  BY <1>2 DEF TypeOK, QueueInv
<1>6. term <= term' /\ Len(lead) <= Len(lead') /\ ~leader' /\ UNCHANGED <<queue, answer>>
      /\ \A i \in 1 .. applied : lead'[i] = lead[i]
  BY <1>1
<1> QED BY <1>3, <1>4, <1>5, <1>6, RaftFrame DEF LogsCopied

\* Entries are chosen.
LEMMA ChooseStep == ASSUME QueueInv, NEW n \in 1 .. Len(lead), Choose(n) PROVE QueueInv'
<1>1. n > chosen /\ chosen' = n /\ UNCHANGED <<log, lead, leader, term, applied, queue, answer>>
  BY DEF Choose
<1>2. TypeOK'
  BY <1>1 DEF TypeOK, QueueInv
<1> QED BY <1>1, <1>2 DEF QueueInv, ContextOK, Located, Absent

-----------------------------------------------------------------------------
(* Proposals and answers *)

\* The contexts of the queue belong to proposals that wait.
LEMMA Waiting ==
    QueueInv => \A j \in 1 .. Len(queue) :
                   /\ queue[j] \in Context /\ queue[j].req \in Req /\ queue[j].index \in Nat
                   /\ answer[queue[j].req] = "pending"
<1> SUFFICES ASSUME QueueInv, NEW j \in 1 .. Len(queue)
             PROVE  /\ queue[j] \in Context /\ queue[j].req \in Req /\ queue[j].index \in Nat
                    /\ answer[queue[j].req] = "pending"
  OBVIOUS
<1>1. queue[j] \in Context
  BY DEF QueueInv, TypeOK
<1>2. queue[j].req \in Req /\ queue[j].index \in Nat
  BY <1>1, ProposalQueueAssumption DEF Context
<1>3. ContextOK(queue[j])
  BY DEF QueueInv
<1> QED BY <1>1, <1>2, <1>3 DEF ContextOK

\* A queue that is not empty has a last context.
LEMMA LastContext ==
    ASSUME NEW s \in Seq(Context), s # <<>> PROVE Len(s) \in 1 .. Len(s)
OBVIOUS

\* A proposal is refused before it is made.
LEMMA RefuseStep == ASSUME QueueInv, NEW q \in Req, Refuse(q) PROVE QueueInv'
<1>1. /\ answer[q] = "none" /\ UNCHANGED <<log, lead, chosen, leader, term, applied, queue>>
      /\ \/ answer' = [answer EXCEPT ![q] = "ServiceIsBusy"]
         \/ answer' = [answer EXCEPT ![q] = "NotLeader"]
  BY Zenon DEF Refuse
<1>2. TypeOK'
  BY <1>1, ZenonT(40) DEF TypeOK, QueueInv
<1>3. \A p \in Req \ {q} : answer'[p] = answer[p]
  BY <1>1 DEF TypeOK, QueueInv
<1>4. answer'[q] \in {"ServiceIsBusy", "NotLeader"}
  BY <1>1 DEF TypeOK, QueueInv
<1>5. \A j \in 1 .. Len(queue) : queue[j].req \in Req /\ queue[j].req # q
  BY <1>1, Waiting
<1>6. \A j \in 1 .. Len(queue') : ContextOK(queue[j])'
  BY <1>1, <1>3, <1>5 DEF QueueInv, ContextOK, Located
<1>7. \A p \in Req : answer'[p] \in {"none", "NotLeader", "ServiceIsBusy"} => Absent(log', p) /\ Absent(lead', p)
  BY <1>1, <1>3, <1>4 DEF QueueInv, Absent
<1>8. \A p \in Req : answer'[p] = "Ok" => \E i \in 1 .. applied' : lead'[i].req = p
  BY <1>1, <1>3, <1>4 DEF QueueInv
<1> QED BY <1>1, <1>2, <1>6, <1>7, <1>8 DEF QueueInv, Absent

\* The first contexts of a queue.
LEMMA FirstContexts ==
    ASSUME NEW s \in Seq(Context), NEW n \in 0 .. Len(s)
    PROVE  /\ SubSeq(s, 1, n) \in Seq(Context) /\ Len(SubSeq(s, 1, n)) = n
           /\ \A i \in 1 .. n : SubSeq(s, 1, n)[i] = s[i]
OBVIOUS

\* The oldest context is Head(queue), and the others move up.
Rest(s) ==
    /\ Head(s) \in Context /\ Head(s) = s[1] /\ Len(s) \in Nat /\ Len(s) >= 1
    /\ Tail(s) \in Seq(Context) /\ Len(Tail(s)) = Len(s) - 1
    /\ \A i \in 1 .. Len(Tail(s)) : Tail(s)[i] = s[i + 1] /\ i + 1 \in 1 .. Len(s)

\* The oldest context of a queue, and what is left.
LEMMA Popped ==
    ASSUME NEW s \in Seq(Context), s # <<>>
    PROVE  Rest(s)
BY DEF Rest

\* R is Q with c behind it, in the place of the last one if s.
Makes(Q, s, c, R) ==
    /\ R \in Seq(Context) /\ Len(Q) \in Nat
    /\ Len(R) = (IF s THEN Len(Q) ELSE Len(Q) + 1)
    /\ \A j \in 1 .. Len(R) - 1 : j \in 1 .. Len(Q) /\ R[j] = Q[j]
    /\ R[Len(R)] = c

\* The queue without its last context if that one makes room.
LEMMA Room ==
    ASSUME NEW Q \in Seq(Context), NEW s \in BOOLEAN, s => Q # <<>>,
           NEW c \in Context, NEW R, R = Append(IF s THEN SubSeq(Q, 1, Len(Q) - 1) ELSE Q, c)
    PROVE  Makes(Q, s, c, R)
<1> USE DEF Makes
<1>1. CASE ~s
  BY <1>1
<1>2. CASE s
  <2> DEFINE P == SubSeq(Q, 1, Len(Q) - 1)
  <2>1. /\ P \in Seq(Context) /\ Len(Q) \in Nat /\ Len(Q) >= 1 /\ Len(P) = Len(Q) - 1
        /\ \A j \in 1 .. Len(P) : P[j] = Q[j]
    <3>1. Len(Q) \in Nat /\ Len(Q) >= 1
      BY <1>2
    <3>2. Len(Q) - 1 \in 0 .. Len(Q)
      BY <3>1
    <3> QED BY <3>1, <3>2, FirstContexts, Zenon
  <2>2. R = Append(P, c)
    BY <1>2
  <2> HIDE DEF P
  <2>3. R \in Seq(Context) /\ Len(R) = Len(P) + 1 /\ R[Len(P) + 1] = c /\ \A j \in 1 .. Len(P) : R[j] = P[j]
    BY <2>1, <2>2
  <2> QED BY <1>2, <2>1, <2>3
<1> QED BY <1>1, <1>2, ZenonT(40)

\* The leader appends a proposal; a context it makes room for has no entry in the log.
LEMMA ProposeStep == ASSUME QueueInv, NEW q \in Req, Propose(q) PROVE QueueInv'
<1> DEFINE behind == queue # <<>> /\ queue[Len(queue)].index >= Len(log) + 1
<1>0. /\ answer[q] = "none" /\ leader /\ Len(log) < MaxLog /\ lead' = log'
      /\ log \in Seq(Entry) /\ Len(log) \in Nat /\ log = lead /\ chosen \in 0 .. Len(lead)
      /\ applied \in 0 .. chosen /\ term \in 1 .. MaxTerm /\ queue \in Seq(Context)
      /\ UNCHANGED <<chosen, leader, term, applied>>
  BY DEF Propose, QueueInv, TypeOK
<1>1. PICK e \in Entry, c \in Context :
        e = [term |-> term, req |-> q] /\ c = [index |-> Len(log) + 1, term |-> term, req |-> q]
  <2>1. [term |-> term, req |-> q] \in Entry
    BY <1>0 DEF Entry
  <2>2. [index |-> Len(log) + 1, term |-> term, req |-> q] \in Context
    BY <1>0, ProposalQueueAssumption DEF Context
  <2> QED BY <2>1, <2>2
<1>2. /\ log' = Append(log, e)
      /\ queue' = Append(IF behind THEN SubSeq(queue, 1, Len(queue) - 1) ELSE queue, c)
      /\ answer' = [p \in Req |-> IF p = q THEN "pending"
                                ELSE IF behind /\ p = queue[Len(queue)].req THEN "NotLeader" ELSE answer[p]]
  BY <1>1 DEF Propose, Delegate
<1>3. c.index = Len(log) + 1 /\ c.term = term /\ c.req = q /\ e.req = q /\ e.term = term /\ term \in Nat
  BY <1>0, <1>1, ProposalQueueAssumption
<1>4. /\ log' \in Seq(Entry) /\ Len(log') = Len(log) + 1
      /\ \A i \in 1 .. Len(log) : log'[i] = log[i]
      /\ log'[Len(log) + 1] = e
  BY <1>0, <1>2, Pushed
<1>5. behind \in BOOLEAN /\ (behind => queue # <<>>)
  BY Zenon
<1> HIDE DEF behind
<1>6. /\ queue' \in Seq(Context) /\ Len(queue) \in Nat
      /\ Len(queue') = (IF behind THEN Len(queue) ELSE Len(queue) + 1)
      /\ \A j \in 1 .. Len(queue') - 1 : j \in 1 .. Len(queue) /\ queue'[j] = queue[j]
      /\ queue'[Len(queue')] = c
  BY <1>0, <1>2, <1>3, <1>5, Room, SMTT(30), SMTT(40) DEF Makes
<1>7. /\ \A j \in 1 .. Len(queue) : queue[j] \in Context /\ queue[j].req \in Req /\ queue[j].req # q
      /\ Absent(log, q)
  BY <1>0, Waiting DEF QueueInv
<1>8. TypeOK'
  <2>1. answer' \in [Req -> {"none", "pending", "Ok", "NotLeader", "ServiceIsBusy"}]
    BY <1>0, <1>2 DEF TypeOK, QueueInv
  <2>2. chosen' \in 0 .. Len(lead') /\ applied' \in 0 .. chosen'
    BY <1>0, <1>2, <1>4
  <2> QED BY <1>0, <1>2, <1>4, <1>6, <2>1, <2>2 DEF TypeOK, QueueInv
<1>9. \A i \in 1 .. Len(log') : i \in 1 .. Len(log) \/ i = Len(log) + 1
  BY <1>0, <1>4
<1>10. Located(log', c)
  BY <1>0, <1>3, <1>4, <1>7, <1>9, ZenonT(40) DEF Located, Absent
<1>11. ASSUME NEW d \in Context, ContextOK(d), d.req # q PROVE Located(log', d)
  <2>1. d.index \in Nat /\ ~(Len(log) + 1 = d.index /\ term = d.term)
    BY <1>0, <1>11 DEF ContextOK, Context
  <2> QED BY <1>0, <1>3, <1>4, <1>9, <1>11, <2>1, ZenonT(40) DEF Located, ContextOK
<1>12. behind => Len(queue) \in 1 .. Len(queue) /\ queue[Len(queue)].index > Len(log)
  <2>1. \A j \in 1 .. Len(queue) : queue[j].index \in Nat
    BY Waiting
  <2> QED BY <1>0, <2>1, LastContext DEF behind
<1>13. ASSUME NEW j \in 1 .. Len(queue') - 1
       PROVE  /\ queue'[j] = queue[j] /\ j \in 1 .. Len(queue) /\ queue[j].req # q
              /\ answer'[queue[j].req] = "pending"
  <2>1. j \in 1 .. Len(queue) /\ queue'[j] = queue[j] /\ (behind => j # Len(queue)) /\ queue[j].req \in Req
        /\ queue[j].req # q
    BY <1>6, <1>7, SMTT(30), SMTT(40)
  <2>2. behind => queue[j].req # queue[Len(queue)].req
    BY <1>12, <2>1, ZenonT(40) DEF QueueInv
  <2>3. answer[queue[j].req] = "pending"
    BY <2>1, ZenonT(40) DEF QueueInv, ContextOK
  <2> QED BY <1>0, <1>2, <1>3, <2>1, <2>2, <2>3
<1>14. ASSUME NEW d, d \in Context, answer'[d.req] = "pending", d.term <= term,
              d.term = term => d.index <= Len(log) + 1, Located(log', d)
       PROVE  ContextOK(d)'
  BY <1>0, <1>2, <1>4, <1>14, ZenonT(40) DEF ContextOK, Located
<1>15. \A j \in 1 .. Len(queue') : j \in 1 .. Len(queue') - 1 \/ j = Len(queue')
  BY <1>6
<1>16. \A j \in 1 .. Len(queue') : ContextOK(queue[j])'
  <2>1. ASSUME NEW j \in 1 .. Len(queue') - 1, NEW d, d = queue[j] PROVE ContextOK(d)'
    <3>1. d \in Context /\ ContextOK(d) /\ d.req # q /\ answer'[d.req] = "pending"
      BY <1>7, <1>13, <2>1 DEF QueueInv
    <3>2. Located(log', d)
      BY <1>11, <3>1
    <3>3. d.term <= term /\ (d.term = term => d.index <= Len(log) + 1)
      BY <1>0, <3>1, SMTT(30), SMTT(40) DEF ContextOK, Context
    <3> QED BY <1>14, <3>1, <3>2, <3>3
  <2>2. ContextOK(c)'
    <3>1. answer'[q] = "pending"
      BY <1>0, <1>2, <1>3
    <3> QED BY <1>0, <1>3, <1>10, <1>14, <3>1
  <2> QED BY <1>6, <1>13, <1>15, <2>1, <2>2
<1>17. \A j, k \in 1 .. Len(queue') : queue'[j].req = queue'[k].req => j = k
  <2>1. ASSUME NEW j \in 1 .. Len(queue') - 1 PROVE queue'[j].req # queue'[Len(queue')].req
    BY <1>3, <1>6, <1>13, <2>1
  <2>2. ASSUME NEW j \in 1 .. Len(queue') - 1, NEW k \in 1 .. Len(queue') - 1, queue'[j].req = queue'[k].req
        PROVE  j = k
    <3>1. j \in 1 .. Len(queue) /\ k \in 1 .. Len(queue) /\ queue[j].req = queue[k].req
      BY <1>13, <2>2
    <3> QED BY <3>1 DEF QueueInv
  <2> QED BY <1>15, <2>1, <2>2
<1>18. ASSUME NEW p \in Req, answer'[p] \in {"none", "NotLeader", "ServiceIsBusy"}
       PROVE  Absent(log', p)
  <2>1. p # q
    BY <1>0, <1>2, <1>3, <1>18
  <2>2. Absent(log, p)
    <3>1. CASE behind /\ p = queue[Len(queue)].req
      <4>1. Located(log, queue[Len(queue)])
        BY <1>12, <3>1, ZenonT(40) DEF QueueInv, ContextOK
      <4>2. queue[Len(queue)].index \in Nat
        BY <1>7, <1>12, <3>1, SMTT(30), SMTT(40) DEF Context
      <4> QED BY <1>0, <1>12, <3>1, <4>1, <4>2, SMTT(30), SMTT(40) DEF Located, Absent
    <3>2. CASE ~(behind /\ p = queue[Len(queue)].req)
      BY <1>0, <1>2, <1>3, <1>18, <2>1, <3>2 DEF QueueInv
    <3> QED BY <3>1, <3>2
  <2> QED BY <1>3, <1>4, <1>9, <2>1, <2>2, ZenonT(40) DEF Absent
<1>19. ASSUME NEW p \in Req, answer'[p] = "Ok" PROVE \E i \in 1 .. applied' : lead'[i].req = p
  <2>1. answer[p] = "Ok"
    BY <1>0, <1>2, <1>19
  <2>2. PICK i \in 1 .. applied : lead[i].req = p
    BY <2>1 DEF QueueInv
  <2>3. i \in 1 .. Len(log)
    BY <1>0
  <2> QED BY <1>0, <1>2, <1>4, <2>2, <2>3
<1>20. leader' => log' = lead'
  BY <1>0, <1>2
<1>21. ASSUME NEW p \in Req, answer'[p] \in {"none", "NotLeader", "ServiceIsBusy"}
       PROVE  Absent(log, p)' /\ Absent(lead, p)'
  BY <1>0, <1>2, <1>18, <1>21, ZenonT(40) DEF Absent
<1> QED BY <1>8, <1>16, <1>17, <1>19, <1>20, <1>21 DEF QueueInv

\* An entry that nobody waits for is applied.
LEMMA ApplyUnasked ==
    ASSUME QueueInv, applied < chosen, applied' = applied + 1,
           UNCHANGED <<log, lead, chosen, leader, term, queue, answer>>
    PROVE  QueueInv'
<1>1. applied \in Nat /\ applied' \in 0 .. chosen /\ \A i \in 1 .. applied : i \in 1 .. applied'
  BY DEF QueueInv, TypeOK
<1>2. TypeOK'
  BY <1>1 DEF QueueInv, TypeOK
<1> QED BY <1>1, <1>2 DEF QueueInv, ContextOK, Located, Absent

\* An entry is applied at the index of the oldest context: the answer follows from the terms.
LEMMA ApplyAsked ==
    ASSUME QueueInv, applied < chosen, AgreesUpTo(applied + 1), applied' = applied + 1, queue # <<>>,
           NEW c, c = Head(queue), c.index = applied + 1, queue' = Tail(queue),
           NEW a, a = (IF c.term = log[applied + 1].term THEN "Ok" ELSE "NotLeader"),
           answer' = [answer EXCEPT ![c.req] = a], UNCHANGED <<log, lead, chosen, leader, term>>
    PROVE  QueueInv'
<1>1. queue \in Seq(Context) /\ chosen \in 0 .. Len(lead) /\ applied \in 0 .. chosen /\ Len(lead) \in Nat
      /\ applied + 1 \in 1 .. Len(lead) /\ applied + 1 \in 1 .. Len(log) /\ log[applied + 1] = lead[applied + 1]
  BY SMTT(30), SMTT(40) DEF QueueInv, TypeOK, AgreesUpTo
<1>2. /\ c = queue[1] /\ 1 \in 1 .. Len(queue) /\ queue' \in Seq(Context)
      /\ \A j \in 1 .. Len(queue') : queue'[j] = queue[j + 1] /\ j + 1 \in 1 .. Len(queue) /\ j + 1 # 1
  BY <1>1, Popped DEF Rest
<1>3. c.req \in Req /\ ContextOK(c)
  BY <1>2, Waiting DEF QueueInv
<1>4. \A p \in Req : answer'[p] = IF p = c.req THEN a ELSE answer[p]
  BY <1>3 DEF QueueInv, TypeOK
<1>5. TypeOK'
  <2>1. answer' \in [Req -> {"none", "pending", "Ok", "NotLeader", "ServiceIsBusy"}]
    BY <1>3 DEF QueueInv, TypeOK
  <2>2. applied' \in 0 .. chosen'
    BY <1>1, SMTT(30), SMTT(40)
  <2> QED BY <1>2, <2>1, <2>2 DEF QueueInv, TypeOK
<1>6. ASSUME NEW j \in 1 .. Len(queue'), NEW d, d = queue'[j] PROVE ContextOK(d)'
  <2>1. d = queue[j + 1] /\ j + 1 \in 1 .. Len(queue) /\ j + 1 # 1
    BY <1>2, <1>6, ZenonT(40)
  <2>2. d.req # c.req /\ d.req \in Req /\ ContextOK(d)
    BY <1>2, <2>1, Waiting DEF QueueInv
  <2>3. UNCHANGED <<log, lead, term>>
    BY Zenon
  <2> QED BY <1>4, <2>2, <2>3, ZenonT(40) DEF ContextOK, Located
<1>7. \A j \in 1 .. Len(queue') : ContextOK(queue[j])'
  BY <1>6
<1>8. \A j, k \in 1 .. Len(queue') : queue'[j].req = queue'[k].req => j = k
  BY <1>2 DEF QueueInv
<1>9. a = "NotLeader" => Absent(log, c.req) /\ Absent(lead, c.req)
  BY <1>1, <1>3, ZenonT(40) DEF ContextOK, Located, Absent
<1>10. ASSUME NEW p \in Req, answer'[p] \in {"none", "NotLeader", "ServiceIsBusy"}
       PROVE  Absent(log', p) /\ Absent(lead', p)
  BY <1>4, <1>9, <1>10 DEF QueueInv, Absent
<1>11. ASSUME NEW p \in Req, answer'[p] = "Ok" PROVE \E i \in 1 .. applied' : lead'[i].req = p
  <2>1. CASE p = c.req
    <3>1. c.term = lead[applied + 1].term
      BY <1>1, <1>4, <1>11, <2>1, SMTT(30), SMTT(40)
    <3>2. lead[applied + 1].req = c.req
      BY <1>1, <1>3, <3>1, ZenonT(40) DEF ContextOK, Located
    <3>3. applied + 1 \in 1 .. applied'
      BY <1>1
    <3> QED BY <2>1, <3>2, <3>3
  <2>2. CASE p # c.req
    <3>1. PICK i \in 1 .. applied : lead[i].req = p
      BY <1>4, <1>11, <2>2 DEF QueueInv
    <3>2. i \in 1 .. applied'
      BY <1>1
    <3> QED BY <3>1, <3>2, ZenonT(40)
  <2> QED BY <2>1, <2>2
<1> QED BY <1>5, <1>7, <1>8, <1>10, <1>11, ZenonT(40) DEF QueueInv, Absent

\* apply_entries.
LEMMA ApplyStep == ASSUME QueueInv, Apply PROVE QueueInv'
<1>1. /\ applied < chosen /\ AgreesUpTo(applied + 1) /\ applied' = applied + 1
      /\ UNCHANGED <<log, lead, chosen, leader, term>>
      /\ ResponseProposal(applied + 1, log[applied + 1])
  BY DEF Apply
<1>2. CASE queue # <<>> /\ Head(queue).index = applied + 1
  <2>1. PICK c, a : c = Head(queue) /\ a = (IF c.term = log[applied + 1].term THEN "Ok" ELSE "NotLeader")
    OBVIOUS
  <2>2. queue' = Tail(queue) /\ answer' = [answer EXCEPT ![c.req] = a]
    BY <1>1, <1>2, <2>1 DEF ResponseProposal
  <2> QED BY <1>1, <1>2, <2>1, <2>2, ApplyAsked, Zenon
<1>3. CASE ~(queue # <<>> /\ Head(queue).index = applied + 1)
  <2>1. UNCHANGED <<queue, answer>>
    BY <1>1, <1>3 DEF ResponseProposal
  <2> QED BY <1>1, <2>1, ApplyUnasked
<1> QED BY <1>2, <1>3

-----------------------------------------------------------------------------

\* Every step keeps the invariant.
LEMMA NextInv == QueueInv /\ [Next]_vars => QueueInv'
<1> SUFFICES ASSUME QueueInv, [Next]_vars PROVE QueueInv'
  OBVIOUS
<1>1. chosen \in 0 .. Len(lead) /\ applied \in 0 .. chosen
  BY DEF QueueInv, TypeOK
<1>2. ASSUME NEW n \in 1 .. Len(lead), Receive(n) PROVE QueueInv'
  <2>1. n \in 0 .. Len(lead) /\ ~leader /\ log' = SubSeq(lead, 1, n) /\ applied <= applied' /\ applied' \in 0 .. chosen
        /\ UNCHANGED <<lead, chosen, leader, term, queue, answer>>
    BY <1>1, <1>2 DEF Receive
  <2> QED BY <2>1, TakeStep
<1>3. CASE ApplySnapshot
  <2>1. ~leader /\ log' = SubSeq(lead, 1, chosen) /\ applied <= applied' /\ applied' \in 0 .. chosen
        /\ UNCHANGED <<lead, chosen, leader, term, queue, answer>>
    BY <1>1, <1>3 DEF ApplySnapshot
  <2> QED BY <1>1, <2>1, TakeStep
<1>4. CASE UNCHANGED vars
  BY <1>4 DEF vars, QueueInv, TypeOK, ContextOK, Located, Absent
<1> QED BY <1>2, <1>3, <1>4, StepDownStep, BecomeLeaderStep, OtherAppendStep, ChooseStep, ProposeStep, RefuseStep,
           ApplyStep DEF Next, Raft

\* A context of proposal_queue says where the entry of its proposal is, in every log that has it.
THEOREM QueueInductive == Spec => []QueueInv
BY InitInv, NextInv, PTL DEF Spec

\* AnswerTruthful: response_proposal and delegate_proposal_context answer Ok only for an entry that was
\* applied, and an error only for one that never is, whatever raft does in between.
THEOREM AnswersAreTrue == Spec => []AnswerTruthful
<1>1. QueueInv => AnswerTruthful
  <2> SUFFICES ASSUME QueueInv, NEW q \in Req
               PROVE  /\ answer[q] = "Ok" => \E i \in 1 .. applied : lead[i].req = q
                      /\ answer[q] \in {"NotLeader", "ServiceIsBusy"} => \A i \in 1 .. chosen : lead[i].req # q
    BY Zenon DEF AnswerTruthful
  <2>1. \A i \in 1 .. chosen : i \in 1 .. Len(lead)
    BY DEF QueueInv, TypeOK
  <2> QED BY <2>1 DEF QueueInv, Absent
<1> QED BY <1>1, QueueInductive, PTL

-----------------------------------------------------------------------------
\* The admission of a request (Execute)

\* Every element of a queue is in a state, and none is there twice.
AllAre(s, f, state) == \A i \in 1 .. Len(s) : f[s[i]] = state
Once(s) == \A i, j \in 1 .. Len(s) : s[i] = s[j] => i = j

\* A request that evaluates or has proposed has seen the epoch of the descriptor.
SeenEpoch == \A r \in Request : pc[r] \in {Evaluating, Proposed} => seen[r] = epoch

\* While no request is cancelled those that wait for meta_acl wait once, a proposal in raft is one of a
\* request that waits for it, and the descriptor has the epoch that every request that evaluates or has
\* proposed has seen.
Fenced ==
    /\ ~stale
    /\ AllAre(aclQueue, pc, Queued) /\ Once(aclQueue)
    /\ AllAre(proposals, pc, Proposed) /\ Once(proposals)
    /\ SeenEpoch

\* The inductive invariant.
ExecInv == AdmitTypeOK /\ WriterExcludes /\ (cancels = 0 => Fenced)

-----------------------------------------------------------------------------

\* The states of a request are different.
LEMMA States ==
    /\ Queued # Checking /\ Queued # Evaluating /\ Queued # Proposed /\ Idle # Proposed /\ Idle # Queued
    /\ Checking # Evaluating /\ Checking # Proposed /\ Evaluating # Proposed
    /\ Done # Checking /\ Done # Evaluating /\ Done # Proposed /\ Dropped # Checking
    /\ Dropped # Evaluating /\ Dropped # Proposed
BY DEF Idle, Queued, Checking, Evaluating, Proposed, Done, Dropped

\* The id of a request that writes an intent or commits it is a transaction.
LEMMA Ids == \A r \in Request : r.kind \in {"write", "commit"} => r.id \in Txn
BY DEF Request, Write, Commit, ChangeMeta

\* What is left of a queue, and a queue with one more request, are queues.
LEMMA QueueType ==
    ASSUME NEW s \in Seq(Request)
    PROVE  /\ s # <<>> => Head(s) \in Request /\ Tail(s) \in Seq(Request)
           /\ \A r \in Request : Append(s, r) \in Seq(Request)
OBVIOUS

\* A step that leaves the elements of a queue in their state.
LEMMA SameQueue ==
    ASSUME NEW s \in Seq(Request), NEW f, NEW g, NEW c, AllAre(s, f, c),
           \A r \in Request : f[r] = c => g[r] = c
    PROVE  AllAre(s, g, c)
<1>1. \A i \in 1 .. Len(s) : s[i] \in Request
  OBVIOUS
<1> QED BY <1>1, Zenon DEF AllAre

\* A request that was not in the state of the others goes behind them.
LEMMA PushedOnce ==
    ASSUME NEW s \in Seq(Request), NEW r \in Request, NEW f, NEW g, NEW c, AllAre(s, f, c), Once(s),
           f[r] # c, g[r] = c, \A x \in Request : x # r => g[x] = f[x]
    PROVE  AllAre(Append(s, r), g, c) /\ Once(Append(s, r))
<1>1. /\ Len(Append(s, r)) = Len(s) + 1 /\ Append(s, r)[Len(s) + 1] = r
      /\ \A i \in 1 .. Len(s) : Append(s, r)[i] = s[i]
  OBVIOUS
<1>2. \A i \in 1 .. Len(s) : s[i] \in Request /\ s[i] # r
  BY DEF AllAre
<1>3. \A i \in 1 .. Len(Append(s, r)) : i \in 1 .. Len(s) \/ i = Len(s) + 1
  BY <1>1
<1>4. AllAre(Append(s, r), g, c)
  BY <1>1, <1>2, <1>3 DEF AllAre
<1>5. Once(Append(s, r))
  BY <1>1, <1>2, <1>3, Zenon DEF Once
<1> QED BY <1>4, <1>5

\* The oldest request leaves the others, and is none of them.
LEMMA PoppedOnce ==
    ASSUME NEW s \in Seq(Request), s # <<>>, NEW f, NEW g, NEW c, AllAre(s, f, c), Once(s),
           \A x \in Request : x # Head(s) => g[x] = f[x]
    PROVE  f[Head(s)] = c /\ AllAre(Tail(s), g, c) /\ Once(Tail(s))
<1>1. /\ 1 \in 1 .. Len(s) /\ s[1] = Head(s)
      /\ \A i \in 1 .. Len(Tail(s)) : Tail(s)[i] = s[i + 1] /\ i + 1 \in 1 .. Len(s) /\ i + 1 # 1
      /\ \A i, j \in 1 .. Len(Tail(s)) : i + 1 = j + 1 => i = j
  OBVIOUS
<1>2. \A i \in 1 .. Len(s) : s[i] \in Request
  OBVIOUS
<1>3. \A i \in 1 .. Len(Tail(s)) : s[i + 1] # Head(s)
  BY <1>1, Zenon DEF Once
<1>4. AllAre(Tail(s), g, c)
  BY <1>1, <1>2, <1>3 DEF AllAre
<1>5. Once(Tail(s))
  BY <1>1 DEF Once
<1> QED BY <1>1, <1>4, <1>5, Zenon DEF AllAre

\* A request that leaves the waiters leaves requests behind.
LEMMA LeaveType ==
    ASSUME NEW s \in Seq(Request), NEW r \in Request PROVE Leave(s, r) \in Seq(Request)
<1>1. CASE \E i \in 1 .. Len(s) : s[i] = r
  <2> DEFINE k == CHOOSE j \in 1 .. Len(s) : s[j] = r
  <2>1. k \in 1 .. Len(s)
    BY <1>1
  <2> HIDE DEF k
  <2>2. SubSeq(s, 1, k - 1) \in Seq(Request) /\ SubSeq(s, k + 1, Len(s)) \in Seq(Request)
    BY <2>1
  <2>3. Leave(s, r) = SubSeq(s, 1, k - 1) \o SubSeq(s, k + 1, Len(s))
    BY <1>1, Zenon DEF Leave, k
  <2> QED BY <2>2, <2>3
<1>2. CASE ~\E i \in 1 .. Len(s) : s[i] = r
  BY <1>2 DEF Leave
<1> QED BY <1>1, <1>2

\* Who holds meta_acl depends on pc alone; fewer holders exclude each other too.
LEMMA FewerHolders ==
    ASSUME WriterExcludes, \A r \in Request : pc'[r] \in {Checking, Evaluating, Proposed} => r \in Holders
    PROVE  WriterExcludes'
BY DEF WriterExcludes, Holders

\* Init: nobody holds meta_acl.
LEMMA InitExecInv == AdmitInit => ExecInv
<1> SUFFICES ASSUME AdmitInit PROVE ExecInv
  OBVIOUS
<1> USE DEF AdmitInit
<1>1. AdmitTypeOK
  <2>0. stale \in BOOLEAN
    BY Zenon
  <2>1. aclQueue \in Seq(Request) /\ proposals \in Seq(Request) /\ epoch \in Nat /\ cancels \in Nat
    OBVIOUS
  <2>2. pc \in [Request -> {Idle, Queued, Checking, Evaluating, Proposed, Done, Dropped}]
    BY Zenon
  <2>3. seen \in [Request -> Nat] /\ intent \in Txn \cup {NoTxn}
    OBVIOUS
  <2> QED BY <2>0, <2>1, <2>2, <2>3 DEF AdmitTypeOK
<1>2. Holders = {}
  BY DEF Holders, Idle, Checking, Evaluating, Proposed
<1>3. Len(aclQueue) = 0 /\ Len(proposals) = 0 /\ \A r \in Request : seen[r] = epoch
  OBVIOUS
<1>4. Fenced
  BY <1>3 DEF Fenced, AllAre, Once, SeenEpoch
<1> QED BY <1>1, <1>2, <1>4, Zenon DEF ExecInv, WriterExcludes

-----------------------------------------------------------------------------
(* Steps that leave the proposals alone *)

\* Such a step keeps Fenced if the requests that wait for meta_acl still wait once, and those that
\* evaluate or have proposed have seen the epoch.
LEMMA FencedFrame ==
    ASSUME AdmitTypeOK, Fenced, UNCHANGED <<proposals, stale>>, AllAre(aclQueue', pc', Queued), Once(aclQueue'),
           \A r \in Request : pc[r] = Proposed => pc'[r] = Proposed, SeenEpoch'
    PROVE  Fenced'
<1>1. AllAre(proposals, pc', Proposed)
  BY SameQueue, Zenon DEF Fenced, AdmitTypeOK
<1> QED BY <1>1, Zenon DEF Fenced

\* A request arrives with an epoch its client knows.
LEMMA SendStep ==
    ASSUME ExecInv, NEW r \in Request, Send(r) PROVE ExecInv'
<1> USE DEF ExecInv
<1>1. /\ pc[r] = Idle /\ pc' = [pc EXCEPT ![r] = Queued] /\ aclQueue' = Append(aclQueue, r)
      /\ UNCHANGED <<epoch, intent, proposals, stale, cancels>>
  BY Zenon DEF Send
<1>2. /\ pc'[r] = Queued /\ \A p \in Request : p # r => pc'[p] = pc[p] /\ seen'[p] = seen[p]
      /\ seen' \in [Request -> Nat]
  BY <1>1 DEF Send, AdmitTypeOK
<1>3. AdmitTypeOK'
  BY <1>1, <1>2, QueueType, Zenon DEF AdmitTypeOK
<1>4. WriterExcludes'
  BY <1>2, FewerHolders, States, Zenon DEF Holders
<1>5. ASSUME cancels' = 0 PROVE Fenced'
  <2>1. Fenced
    BY <1>1, <1>5, Zenon
  <2>2. AllAre(aclQueue', pc', Queued) /\ Once(aclQueue')
    BY <1>1, <1>2, <2>1, PushedOnce, States, Zenon DEF Fenced, AdmitTypeOK
  <2>3. SeenEpoch'
    BY <1>1, <1>2, <2>1, States, Zenon DEF Fenced, SeenEpoch
  <2> QED BY <1>1, <1>2, <2>1, <2>2, <2>3, FencedFrame, States, Zenon
<1> QED BY <1>3, <1>4, <1>5, Zenon

\* The first waiter gets meta_acl: alone if it changes the descriptor.
LEMMA TakeAclGuardStep ==
    ASSUME ExecInv, NEW r \in Request, TakeAclGuard(r) PROVE ExecInv'
<1> USE DEF ExecInv
<1>1. /\ aclQueue # <<>> /\ r = Head(aclQueue) /\ aclQueue' = Tail(aclQueue)
      /\ pc' = [pc EXCEPT ![r] = Checking]
      /\ UNCHANGED <<epoch, seen, intent, proposals, stale, cancels>>
  BY Zenon DEF TakeAclGuard
<1>2. pc'[r] = Checking /\ \A p \in Request : p # r => pc'[p] = pc[p]
  BY <1>1 DEF AdmitTypeOK
<1>3. AdmitTypeOK'
  BY <1>1, QueueType, Zenon DEF AdmitTypeOK
<1>4. WriterExcludes'
  <2>1. Holders' \subseteq Holders \cup {r}
    BY <1>2, Zenon DEF Holders
  <2> QED BY <2>1 DEF WriterExcludes, TakeAclGuard
<1>5. ASSUME cancels' = 0 PROVE Fenced'
  <2>1. Fenced
    BY <1>1, <1>5, Zenon
  <2>2. pc[r] = Queued /\ AllAre(aclQueue', pc', Queued) /\ Once(aclQueue')
    BY <1>1, <1>2, <2>1, PoppedOnce, Zenon DEF Fenced, AdmitTypeOK
  <2>3. SeenEpoch'
    BY <1>1, <1>2, <2>1, States, Zenon DEF Fenced, SeenEpoch
  <2> QED BY <1>1, <1>2, <2>1, <2>2, <2>3, FencedFrame, States, Zenon
<1> QED BY <1>3, <1>4, <1>5, Zenon

\* A request with the epoch of the descriptor is evaluated.
LEMMA CheckRequestEarlyStep ==
    ASSUME ExecInv, NEW r \in Request, CheckRequestEarly(r) PROVE ExecInv'
<1> USE DEF ExecInv
<1>1. /\ pc[r] = Checking /\ seen[r] = epoch /\ pc' = [pc EXCEPT ![r] = Evaluating]
      /\ UNCHANGED <<aclQueue, epoch, seen, intent, proposals, stale, cancels>>
  BY Zenon DEF CheckRequestEarly
<1>2. pc'[r] = Evaluating /\ \A p \in Request : p # r => pc'[p] = pc[p]
  BY <1>1 DEF AdmitTypeOK
<1>3. AdmitTypeOK'
  BY <1>1, Zenon DEF AdmitTypeOK
<1>4. WriterExcludes'
  BY <1>1, <1>2, FewerHolders, Zenon DEF Holders
<1>5. ASSUME cancels' = 0 PROVE Fenced'
  <2>1. Fenced
    BY <1>1, <1>5, Zenon
  <2>2. AllAre(aclQueue', pc', Queued) /\ Once(aclQueue')
    BY <1>1, <1>2, <2>1, SameQueue, States, Zenon DEF Fenced, AdmitTypeOK
  <2>3. SeenEpoch'
    BY <1>1, <1>2, <2>1, Zenon DEF Fenced, SeenEpoch
  <2> QED BY <1>1, <1>2, <2>1, <2>2, <2>3, FencedFrame, States, Zenon
<1> QED BY <1>3, <1>4, <1>5, Zenon

\* A request with an older epoch is answered, or waits again with the fresh one.
LEMMA EpochNotMatchStep ==
    ASSUME ExecInv, NEW r \in Request, EpochNotMatch(r) PROVE ExecInv'
<1> USE DEF ExecInv
<1>1. /\ pc[r] = Checking
      /\ \/ /\ pc' = [pc EXCEPT ![r] = Done] /\ UNCHANGED <<seen, aclQueue>>
         \/ /\ pc' = [pc EXCEPT ![r] = Queued] /\ seen' = [seen EXCEPT ![r] = epoch]
            /\ aclQueue' = Append(aclQueue, r)
      /\ UNCHANGED <<epoch, intent, proposals, stale, cancels>>
  BY Zenon DEF EpochNotMatch
<1>2. /\ pc'[r] \in {Done, Queued} /\ \A p \in Request : p # r => pc'[p] = pc[p] /\ seen'[p] = seen[p]
      /\ seen' \in [Request -> Nat]
      /\ pc' \in [Request -> {Idle, Queued, Checking, Evaluating, Proposed, Done, Dropped}]
  BY <1>1, Zenon DEF AdmitTypeOK
<1>3. AdmitTypeOK'
  BY <1>1, <1>2, QueueType, Zenon DEF AdmitTypeOK
<1>4. WriterExcludes'
  BY <1>2, FewerHolders, States, Zenon DEF Holders
<1>5. ASSUME cancels' = 0 PROVE Fenced'
  <2>1. Fenced
    BY <1>1, <1>5, Zenon
  <2>2. AllAre(aclQueue', pc', Queued) /\ Once(aclQueue')
    <3>1. CASE aclQueue' = aclQueue
      <4>1. \A p \in Request : pc[p] = Queued => pc'[p] = Queued
        BY <1>1, <1>2, States, Zenon
      <4> QED BY <2>1, <3>1, <4>1, SameQueue, Zenon DEF Fenced, AdmitTypeOK
    <3>2. CASE aclQueue' = Append(aclQueue, r) /\ pc' = [pc EXCEPT ![r] = Queued]
      <4>1. pc'[r] = Queued /\ pc[r] # Queued
        BY <1>1, <3>2, States, Zenon DEF AdmitTypeOK
      <4> QED BY <1>2, <2>1, <3>2, <4>1, PushedOnce, Zenon DEF Fenced, AdmitTypeOK
    <3> QED BY <1>1, <3>1, <3>2, Zenon
  <2>3. SeenEpoch'
    BY <1>1, <1>2, <2>1, States, Zenon DEF Fenced, SeenEpoch
  <2> QED BY <1>1, <1>2, <2>1, <2>2, <2>3, FencedFrame, States, Zenon
<1> QED BY <1>3, <1>4, <1>5, Zenon

-----------------------------------------------------------------------------
(* Proposals *)

\* A request is proposed with what it has seen of the descriptor.
LEMMA EvaluateCommandStep ==
    ASSUME ExecInv, NEW r \in Request, EvaluateCommand(r) PROVE ExecInv'
<1> USE DEF ExecInv
<1>1. /\ pc[r] = Evaluating /\ pc' = [pc EXCEPT ![r] = Proposed] /\ proposals' = Append(proposals, r)
      /\ UNCHANGED <<aclQueue, epoch, seen, intent, stale, cancels>>
  BY Zenon DEF EvaluateCommand
<1>2. pc'[r] = Proposed /\ \A p \in Request : p # r => pc'[p] = pc[p]
  BY <1>1 DEF AdmitTypeOK
<1>3. AdmitTypeOK'
  BY <1>1, QueueType, Zenon DEF AdmitTypeOK
<1>4. WriterExcludes'
  BY <1>1, <1>2, FewerHolders, Zenon DEF Holders
<1>5. ASSUME cancels' = 0 PROVE Fenced'
  <2>1. Fenced
    BY <1>1, <1>5, Zenon
  <2>2. AllAre(proposals', pc', Proposed) /\ Once(proposals')
    BY <1>1, <1>2, <2>1, PushedOnce, States, Zenon DEF Fenced, AdmitTypeOK
  <2>3. AllAre(aclQueue', pc', Queued) /\ Once(aclQueue')
    BY <1>1, <1>2, <2>1, SameQueue, States, Zenon DEF Fenced, AdmitTypeOK
  <2>4. SeenEpoch'
    BY <1>1, <1>2, <2>1, Zenon DEF Fenced, SeenEpoch
  <2> QED BY <1>1, <2>1, <2>2, <2>3, <2>4, Zenon DEF Fenced
<1> QED BY <1>3, <1>4, <1>5, Zenon

\* The oldest proposal is applied.  One that changes the descriptor finds nobody else evaluating.
LEMMA ApplyProposalStep ==
    ASSUME ExecInv, ApplyProposal PROVE ExecInv'
<1> USE DEF ExecInv
<1> DEFINE h == Head(proposals)
<1>1. /\ proposals \in Seq(Request) /\ proposals # <<>> /\ proposals' = Tail(proposals)
      /\ intent' = (IF h.kind = "write" THEN h.id
                    ELSE IF h.kind = "commit" /\ intent = h.id THEN NoTxn ELSE intent)
      /\ epoch' = (IF h.kind = "meta" THEN epoch + 1 ELSE epoch)
      /\ stale' = (stale \/ seen[h] # epoch)
      /\ pc' = [pc EXCEPT ![h] = IF pc[h] = Proposed THEN Done ELSE pc[h]]
      /\ UNCHANGED <<aclQueue, seen, cancels>>
  BY DEF ApplyProposal, AdmitTypeOK
<1>2. h \in Request /\ h = Head(proposals)
  BY <1>1, QueueType, Zenon
<1> HIDE DEF h
<1>3. /\ pc'[h] = (IF pc[h] = Proposed THEN Done ELSE pc[h]) /\ \A p \in Request : p # h => pc'[p] = pc[p]
      /\ pc' \in [Request -> {Idle, Queued, Checking, Evaluating, Proposed, Done, Dropped}]
  BY <1>1, <1>2 DEF AdmitTypeOK
<1>4. AdmitTypeOK'
  <2>1. stale' \in BOOLEAN /\ proposals' \in Seq(Request)
    BY <1>1, QueueType, Zenon
  <2>2. epoch' \in Nat
    BY <1>1 DEF AdmitTypeOK
  <2>3. intent' \in Txn \cup {NoTxn}
    BY <1>1, <1>2, Ids DEF AdmitTypeOK
  <2> QED BY <1>1, <1>3, <2>1, <2>2, <2>3, Zenon DEF AdmitTypeOK
<1>5. WriterExcludes'
  BY <1>3, FewerHolders, States, Zenon DEF Holders
<1>6. ASSUME cancels' = 0 PROVE Fenced'
  <2>1. Fenced
    BY <1>1, <1>6, Zenon
  <2>2. pc[h] = Proposed /\ AllAre(proposals', pc', Proposed) /\ Once(proposals')
    BY <1>1, <1>2, <1>3, <2>1, PoppedOnce, Zenon DEF Fenced
  <2>3. AllAre(aclQueue', pc', Queued) /\ Once(aclQueue')
    BY <1>1, <1>2, <1>3, <2>1, <2>2, SameQueue, States, Zenon DEF Fenced, AdmitTypeOK
  <2>4. ASSUME NEW p \in Request, pc'[p] \in {Evaluating, Proposed} PROVE seen'[p] = epoch'
    <3>1. p # h /\ pc[p] \in {Evaluating, Proposed}
      BY <1>3, <2>2, <2>4, States, Zenon
    <3>2. h \in Holders /\ p \in Holders
      BY <1>2, <2>2, <3>1, Zenon DEF Holders
    <3>3. h.kind # "meta"
      BY <3>1, <3>2, Zenon DEF WriterExcludes, IsChangeMetaRequest
    <3> QED BY <1>1, <2>1, <3>1, <3>3, Zenon DEF Fenced, SeenEpoch
  <2>5. ~stale'
    BY <1>1, <1>2, <2>1, <2>2, Zenon DEF Fenced, SeenEpoch
  <2> QED BY <2>2, <2>3, <2>4, <2>5, Zenon DEF Fenced, SeenEpoch
<1> QED BY <1>4, <1>5, <1>6, Zenon

\* A dropped request gives its guards back.
LEMMA CancelStep ==
    ASSUME ExecInv, NEW r \in Request, Cancel(r) PROVE ExecInv'
<1> USE DEF ExecInv
<1>1. /\ pc' = [pc EXCEPT ![r] = Dropped] /\ aclQueue' = Leave(aclQueue, r) /\ cancels' = cancels + 1
      /\ UNCHANGED <<epoch, seen, intent, proposals, stale>>
  BY Zenon DEF Cancel
<1>2. pc'[r] = Dropped /\ \A p \in Request : p # r => pc'[p] = pc[p]
  BY <1>1 DEF AdmitTypeOK
<1>3. cancels' # 0 /\ cancels' \in Nat
  BY <1>1 DEF AdmitTypeOK
<1>4. AdmitTypeOK'
  BY <1>1, <1>3, LeaveType, Zenon DEF AdmitTypeOK
<1>5. WriterExcludes'
  BY <1>2, FewerHolders, States, Zenon DEF Holders
<1> QED BY <1>3, <1>4, <1>5, Zenon

-----------------------------------------------------------------------------

\* Every step keeps the invariant.
LEMMA NextExecInv == ExecInv /\ [AdmitNext]_admitVars => ExecInv'
<1> SUFFICES ASSUME ExecInv, [AdmitNext]_admitVars PROVE ExecInv'
  OBVIOUS
<1>1. CASE UNCHANGED admitVars
  BY <1>1, Zenon DEF admitVars, ExecInv, AdmitTypeOK, WriterExcludes, Holders, Fenced, SeenEpoch
<1> QED BY <1>1, SendStep, TakeAclGuardStep, CheckRequestEarlyStep, EpochNotMatchStep, EvaluateCommandStep,
           ApplyProposalStep, CancelStep DEF AdmitNext, Step

\* meta_acl excludes, and while no request is cancelled it fences the epoch.
THEOREM ExecInductive == AdmitSpec => []ExecInv
BY InitExecInv, NextExecInv, PTL DEF AdmitSpec

\* WriterExcludes: a request that changes the descriptor holds meta_acl alone (take_acl_guard).
THEOREM MetaAclExcludes == AdmitSpec => []WriterExcludes
<1>1. ExecInv => WriterExcludes
  BY DEF ExecInv
<1> QED BY <1>1, ExecInductive, PTL

\* EpochFenced: while no request is cancelled, a proposal is applied at the epoch that its request was
\* evaluated at (check_request_early under meta_acl).
THEOREM EpochIsFenced == AdmitSpec => []EpochFenced
<1>1. ExecInv => EpochFenced
  BY DEF ExecInv, EpochFenced, Fenced
<1> QED BY <1>1, ExecInductive, PTL
==============================================================================
