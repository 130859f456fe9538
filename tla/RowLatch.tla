------------------------------ MODULE RowLatch ------------------------------
(***************************************************************************)
(* The row latches of a replica (replica/eval/latch.rs): one LatchBlock    *)
(* per key, handed from guard to guard through oneshot channels.           *)
(*                                                                         *)
(* A request acquires the latches of its keys in sorted order, evaluates   *)
(* and drops its guards.  A request that meets the intent of a running     *)
(* transaction gives its latch away, sleeps in intent_waiters and takes    *)
(* the latch again when a commit or a clear of the key signals it.  The    *)
(* future of a request can be dropped at every await point.                *)
(***************************************************************************)
EXTENDS Naturals, Sequences

CONSTANTS
    Req,      \* requests executed by the replica
    Key,      \* user keys of one shard, numbered in byte order
    KeysOf,   \* the sorted keys of each request
    Resolver, \* requests that resolve intents (WriteIntent, and the resolve of Get and Scan)
    Signaller \* requests that signal intents (CommitIntent, ClearIntent)

ASSUME RowLatchAssumption ==
    /\ Key \subseteq Nat \ {0}
    /\ KeysOf \in [Req -> Seq(Key)]
    /\ Resolver \subseteq Req
    /\ Signaller \subseteq Req

VARIABLES
    hold,           \* LatchBlock::hold
    latch_waiters,  \* LatchBlock::latch_waiters, the senders in FIFO order
    intent_waiters, \* LatchBlock::intent_waiters
    guard,          \* the live guards (hold = true) of each request, held or in its channel
    pc,             \* where the future of each request stands
    want,           \* the key it acquires or waits on
    next,           \* position of the next key to acquire
    signal          \* DeferSignalLatchGuard::state is set

vars == <<hold, latch_waiters, intent_waiters, guard, pc, want, next, signal>>

NoKey == 0

(* The receiver of a sender in latch_waiters[k] still exists. *)
Waiting(r, k) == pc[r] \in {"waiting", "rewaiting"} /\ want[r] = k

Init ==
    /\ hold = [k \in Key |-> FALSE]
    /\ latch_waiters = [k \in Key |-> <<>>]
    /\ intent_waiters = [k \in Key |-> <<>>]
    /\ guard = [r \in Req |-> {}]
    /\ pc = [r \in Req |-> "start"]
    /\ want = [r \in Req |-> NoKey]
    /\ next = [r \in Req |-> 1]
    /\ signal = [r \in Req |-> FALSE]

-----------------------------------------------------------------------------

(* acquire_internal: take a free latch or queue a sender.  `got` is where  *)
(* the request continues with the guard, `wait` where it sleeps.           *)
AcquireInternal(r, k, got, wait) ==
    \/ /\ ~hold[k]
       /\ hold' = [hold EXCEPT ![k] = TRUE]
       /\ guard' = [guard EXCEPT ![r] = @ \cup {k}]
       /\ pc' = [pc EXCEPT ![r] = got]
       /\ UNCHANGED latch_waiters
    \/ /\ hold[k]
       /\ latch_waiters' = [latch_waiters EXCEPT ![k] = Append(@, r)]
       /\ pc' = [pc EXCEPT ![r] = wait]
       /\ UNCHANGED <<hold, guard>>

(* Mutant: the latch becomes free though requests wait for it. *)
TransferLatchGuardToNobody(k, g, p) ==
    /\ latch_waiters' = [latch_waiters EXCEPT ![k] = <<>>]
    /\ hold' = [hold EXCEPT ![k] = FALSE]
    /\ guard' = g
    /\ pc' = p

(* transfer_latch_guard: pop senders until one has a receiver; `g` are the *)
(* guards and `p` the program counters before the hand-over.               *)
TransferLatchGuard(k, g, p) ==
    \/ \E i \in 1 .. Len(latch_waiters[k]) :
          LET r == latch_waiters[k][i]
          IN /\ Waiting(r, k)
             /\ \A j \in 1 .. i - 1 : ~Waiting(latch_waiters[k][j], k)
             /\ latch_waiters' = [latch_waiters EXCEPT
                                    ![k] = SubSeq(@, i + 1, Len(@))]
             /\ guard' = [g EXCEPT ![r] = @ \cup {k}]
             /\ pc' = [p EXCEPT ![r] = IF @ = "waiting" THEN "granted" ELSE "regranted"]
             /\ UNCHANGED hold
    \/ /\ \A i \in 1 .. Len(latch_waiters[k]) : ~Waiting(latch_waiters[k][i], k)
       /\ latch_waiters' = [latch_waiters EXCEPT ![k] = <<>>]
       /\ hold' = [hold EXCEPT ![k] = FALSE]
       /\ guard' = g
       /\ pc' = p

-----------------------------------------------------------------------------

(* One iteration of the loop of acquire_row_latches. *)
AcquireNext(r) ==
    /\ pc[r] = "start"
    /\ next[r] <= Len(KeysOf[r])
    /\ want' = [want EXCEPT ![r] = KeysOf[r][next[r]]]
    /\ AcquireInternal(r, KeysOf[r][next[r]], "granted", "waiting")
    /\ UNCHANGED <<intent_waiters, next, signal>>

(* The guard arrives: latches.insert, and the loop goes on. *)
Insert(r) ==
    /\ pc[r] = "granted"
    /\ next' = [next EXCEPT ![r] = @ + 1]
    /\ pc' = [pc EXCEPT ![r] = "start"]
    /\ want' = [want EXCEPT ![r] = NoKey]
    /\ UNCHANGED <<hold, latch_waiters, intent_waiters, guard, signal>>

(* All latches are held: the request is evaluated and proposed, and a      *)
(* signaller that found its intent has set the deferred signal.            *)
Evaluate(r, found) ==
    /\ pc[r] = "start"
    /\ next[r] > Len(KeysOf[r])
    /\ found => r \in Signaller
    /\ signal' = [signal EXCEPT ![r] = found]
    /\ pc' = [pc EXCEPT ![r] = "drop"]
    /\ UNCHANGED <<hold, latch_waiters, intent_waiters, guard, want, next>>

(* RemoteLatchGuard::resolve_txn of a running transaction: queue for the   *)
(* signal and give the latch away.                                         *)
WaitIntent(r, k) ==
    /\ pc[r] = "start"
    /\ next[r] > Len(KeysOf[r])
    /\ r \in Resolver
    /\ k \in guard[r]
    /\ intent_waiters' = [intent_waiters EXCEPT ![k] = Append(@, r)]
    /\ want' = [want EXCEPT ![r] = k]
    /\ TransferLatchGuard(k, [guard EXCEPT ![r] = @ \ {k}], [pc EXCEPT ![r] = "intent"])
    /\ UNCHANGED <<next, signal>>

(* The signal arrived: acquire the latch again. *)
Reacquire(r) ==
    /\ pc[r] = "woken"
    /\ AcquireInternal(r, want[r], "regranted", "rewaiting")
    /\ UNCHANGED <<intent_waiters, want, next, signal>>

(* The latch is back in self; evaluation goes on, and may wait again. *)
Resume(r) ==
    /\ pc[r] = "regranted"
    /\ pc' = [pc EXCEPT ![r] = "start"]
    /\ want' = [want EXCEPT ![r] = NoKey]
    /\ UNCHANGED <<hold, latch_waiters, intent_waiters, guard, next, signal>>

QueuedForSignal(q) ==
    \E i \in 1 .. Len(intent_waiters[want[q]]) : intent_waiters[want[q]][i] = q

(* DeferSignalLatchGuard::drop signals under the latches... *)
SignalAll(r) ==
    /\ pc[r] = "drop"
    /\ signal[r]
    /\ signal' = [signal EXCEPT ![r] = FALSE]
    /\ pc' = [q \in Req |-> IF pc[q] = "intent" /\ want[q] \in guard[r]
                               /\ QueuedForSignal(q)
                            THEN "woken" ELSE pc[q]]
    /\ intent_waiters' = [k \in Key |-> IF k \in guard[r] THEN <<>> ELSE intent_waiters[k]]
    /\ UNCHANGED <<hold, latch_waiters, guard, want, next>>

(* ... and then every guard releases its latch. *)
Release(r, k) ==
    /\ pc[r] = "drop"
    /\ ~signal[r]
    /\ k \in guard[r]
    /\ TransferLatchGuard(k, [guard EXCEPT ![r] = @ \ {k}], pc)
    /\ UNCHANGED <<intent_waiters, want, next, signal>>

Finish(r) ==
    /\ pc[r] = "drop"
    /\ ~signal[r]
    /\ guard[r] = {}
    /\ pc' = [pc EXCEPT ![r] = "done"]
    /\ UNCHANGED <<hold, latch_waiters, intent_waiters, guard, want, next, signal>>

(* The caller goes away and the future is dropped at an await point: its   *)
(* receivers close and its guards, also one still in a channel, release.   *)
Cancel(r) ==
    /\ pc[r] \in {"waiting", "granted", "intent", "woken", "rewaiting", "regranted"}
    /\ pc' = [pc EXCEPT ![r] = "drop"]
    /\ UNCHANGED <<hold, latch_waiters, intent_waiters, guard, want, next, signal>>

Step(r) ==
    \/ AcquireNext(r) \/ Insert(r) \/ Reacquire(r) \/ Resume(r)
    \/ SignalAll(r) \/ Finish(r)
    \/ \E found \in BOOLEAN : Evaluate(r, found)
    \/ \E k \in Key : Release(r, k)

Next ==
    \E r \in Req :
        \/ Step(r)
        \/ Cancel(r)
        \/ \E k \in Key : WaitIntent(r, k)

Spec == Init /\ [][Next]_vars

-----------------------------------------------------------------------------
PC == {"start", "waiting", "granted", "intent", "woken", "rewaiting", "regranted",
       "drop", "done"}

(* Types of the latch table and of the request futures. *)
TypeOK ==
    /\ hold \in [Key -> BOOLEAN]
    /\ latch_waiters \in [Key -> Seq(Req)]
    /\ intent_waiters \in [Key -> Seq(Req)]
    /\ guard \in [Req -> SUBSET Key]
    /\ pc \in [Req -> PC]
    /\ want \in [Req -> Key \cup {NoKey}]
    /\ next \in [Req -> Nat \ {0}]
    /\ signal \in [Req -> BOOLEAN]

(* A row latch has at most one live guard, over hand-overs through        *)
(* channels, waits for intents and cancelled requests (acquire_internal,   *)
(* transfer_latch_guard).                                                  *)
MutualExclusion ==
    \A k \in Key, r, q \in Req : k \in guard[r] /\ k \in guard[q] => r = q

(* A latch whose block says `hold` has a live guard that will release it: *)
(* no cancelled waiter swallows the guard that was sent to it.             *)
NoLeakedLatch ==
    \A k \in Key : hold[k] <=> \E r \in Req : k \in guard[r]

(* A request that sleeps for a latch is queued behind a live guard, so    *)
(* the release of that guard will find it (release, transfer_latch_guard). *)
NoLostWaiter ==
    \A k \in Key, r \in Req : Waiting(r, k) =>
        /\ hold[k]
        /\ \E i \in 1 .. Len(latch_waiters[k]) : latch_waiters[k][i] = r

(* A request that sleeps for an intent has its sender in intent_waiters,  *)
(* so that the next signal of the key reaches it (resolve_txn, signal_all). *)
NoLostIntentWaiter ==
    \A r \in Req : pc[r] = "intent" => QueuedForSignal(r)

(* Latches taken in sorted order never block each other for good: every   *)
(* request that waits for a latch gets it or is cancelled                  *)
(* (acquire_row_latches).                                                  *)
WaitsForNone(r) == pc[r] \notin {"waiting", "rewaiting"}

\* Latches are sound, whichever requests are cancelled where: a row has one holder that is alive, and no
\* one waits for a latch that is free or for an intent that is gone (LatchBlock, transfer_latch_guard).
LatchesAreSound == TypeOK /\ MutualExclusion /\ NoLeakedLatch /\ NoLostWaiter /\ NoLostIntentWaiter
=============================================================================
