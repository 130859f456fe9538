--------------------------- MODULE RowLatchProofs ---------------------------
(***************************************************************************)
(* The row latches are sound for any requests, keys and queues: the        *)
(* invariant of LatchesAreSound needs only one more fact to be inductive,  *)
(* that a request that waits knows the key it waits for.                   *)
(***************************************************************************)
EXTENDS RowLatch, TLAPS

\* A request that acquires a latch, or sleeps for an intent, does so for a key of the shard.
WantsKey ==
    \A r \in Req :
      pc[r] \in {"waiting", "granted", "intent", "woken", "rewaiting", "regranted"} => want[r] \in Key

LatchInv == LatchesAreSound /\ WantsKey

\* A sender is in the queue.
In(x, queue) == \E i \in 1 .. Len(queue) : queue[i] = x

-----------------------------------------------------------------------------
\* Queues

\* A sender that is pushed goes behind the ones that are there.
LEMMA InAppend ==
    ASSUME NEW S, NEW s \in Seq(S), NEW x \in S
    PROVE  /\ Append(s, x) \in Seq(S)
           /\ In(x, Append(s, x))
           /\ \A y : In(y, s) => In(y, Append(s, x))
<1>1. Append(s, x) \in Seq(S) /\ Len(Append(s, x)) = Len(s) + 1 /\ Len(s) \in Nat
  OBVIOUS
<1>2. Append(s, x)[Len(s) + 1] = x /\ \A i \in 1 .. Len(s) : Append(s, x)[i] = s[i]
  OBVIOUS
<1>3. Len(s) + 1 \in 1 .. Len(Append(s, x)) /\ \A i \in 1 .. Len(s) : i \in 1 .. Len(Append(s, x))
  BY <1>1
<1> QED BY <1>1, <1>2, <1>3 DEF In

\* Popping the first i senders keeps the ones behind them.
LEMMA InRest ==
    ASSUME NEW S, NEW s \in Seq(S), NEW i \in 1 .. Len(s), NEW y, NEW j \in 1 .. Len(s),
           s[j] = y, j > i
    PROVE  In(y, SubSeq(s, i + 1, Len(s)))
<1>1. Len(s) \in Nat /\ i \in Nat /\ j \in Nat
  OBVIOUS
<1>2. Len(SubSeq(s, i + 1, Len(s))) = Len(s) - i
  BY <1>1
<1>3. j - i \in 1 .. Len(s) - i
  BY <1>1
<1>4. SubSeq(s, i + 1, Len(s))[j - i] = s[j]
  BY <1>1, <1>3
<1> QED BY <1>2, <1>3, <1>4, Zenon DEF In

LEMMA RestIsSeq ==
    ASSUME NEW S, NEW s \in Seq(S), NEW i \in 1 .. Len(s)
    PROVE  SubSeq(s, i + 1, Len(s)) \in Seq(S)
<1>1. Len(s) \in Nat /\ i \in Nat
  OBVIOUS
<1> QED BY <1>1

-----------------------------------------------------------------------------
\* No latch is held and nothing waits at first.
LEMMA InitLatchInv == Init => LatchInv
<1> SUFFICES ASSUME Init PROVE LatchInv
  OBVIOUS
<1>1. TypeOK
  BY RowLatchAssumption DEF Init, TypeOK, PC, NoKey
<1> QED BY <1>1 DEF Init, LatchInv, LatchesAreSound, MutualExclusion, NoLeakedLatch, NoLostWaiter,
               NoLostIntentWaiter, WantsKey, Waiting

-----------------------------------------------------------------------------
\* The two operations of a LatchBlock

\* acquire_internal gives a free latch to the request, or queues it behind a live guard; the
\* request was not waiting before.
LEMMA AcquireStep ==
    ASSUME LatchInv, NEW r \in Req, NEW k \in Key, NEW got, NEW wait,
           <<got, wait>> \in {<<"granted", "waiting">>, <<"regranted", "rewaiting">>},
           pc[r] \in {"start", "woken"},
           want' \in [Req -> Key \cup {NoKey}], want'[r] = k, \A q \in Req : q # r => want'[q] = want[q],
           AcquireInternal(r, k, got, wait), UNCHANGED <<intent_waiters, next, signal>>
    PROVE  LatchInv'
<1> USE DEF LatchInv, LatchesAreSound
<1>0. TypeOK
  OBVIOUS
<1>1. TypeOK'
  <2>1. CASE ~hold[k]
    <3>1. hold' = [hold EXCEPT ![k] = TRUE] /\ latch_waiters' = latch_waiters
      BY <2>1 DEF AcquireInternal
    <3>2. guard' = [guard EXCEPT ![r] = @ \cup {k}] /\ pc' = [pc EXCEPT ![r] = got]
      BY <2>1 DEF AcquireInternal
    <3>3. got \in PC
      BY DEF PC
    <3>4. hold' \in [Key -> BOOLEAN]
      BY <1>0, <3>1 DEF TypeOK
    <3>5. guard' \in [Req -> SUBSET Key] /\ pc' \in [Req -> PC]
      BY <1>0, <3>2, <3>3 DEF TypeOK
    <3> QED BY <1>0, <3>1, <3>4, <3>5 DEF TypeOK
  <2>2. CASE hold[k]
    <3>1. Append(latch_waiters[k], r) \in Seq(Req)
      BY <1>0 DEF TypeOK
    <3>2. latch_waiters' \in [Key -> Seq(Req)]
      BY <1>0, <2>2, <3>1, Zenon DEF AcquireInternal, TypeOK
    <3>3. hold' = hold /\ guard' = guard /\ pc' = [pc EXCEPT ![r] = wait]
      BY <2>2 DEF AcquireInternal
    <3>4. wait \in PC
      BY DEF PC
    <3>5. pc' \in [Req -> PC]
      BY <1>0, <3>3, <3>4 DEF TypeOK
    <3> QED BY <1>0, <3>2, <3>3, <3>5 DEF TypeOK
  <2> QED BY <2>1, <2>2
<1>2. \A q \in Req : q # r => pc'[q] = pc[q] /\ guard[q] = guard'[q]
  BY <1>0 DEF AcquireInternal, TypeOK
<1>3. pc'[r] \in {"granted", "waiting", "regranted", "rewaiting"}
  BY <1>0 DEF AcquireInternal, TypeOK
<1>4. WantsKey'
  BY <1>2, <1>3 DEF WantsKey
<1>5. NoLostIntentWaiter'
  BY <1>2, <1>3 DEF NoLostIntentWaiter, QueuedForSignal
<1>6. CASE ~hold[k]
  <2>1. /\ hold' = [hold EXCEPT ![k] = TRUE] /\ guard' = [guard EXCEPT ![r] = @ \cup {k}]
        /\ pc' = [pc EXCEPT ![r] = got] /\ latch_waiters' = latch_waiters
    BY <1>6 DEF AcquireInternal
  <2>2. \A q \in Req : k \notin guard[q]
    BY <1>6 DEF NoLeakedLatch
  <2>3. MutualExclusion'
    BY <1>0, <2>1, <2>2 DEF MutualExclusion, TypeOK
  <2>4. NoLeakedLatch'
    BY <1>0, <2>1, <2>2 DEF NoLeakedLatch, TypeOK
  <2>5. NoLostWaiter'
    BY <1>0, <2>1, <1>2 DEF NoLostWaiter, Waiting, TypeOK
  <2> QED BY <1>1, <1>4, <1>5, <2>3, <2>4, <2>5
<1>7. CASE hold[k]
  <2>1. /\ latch_waiters' = [latch_waiters EXCEPT ![k] = Append(@, r)]
        /\ pc' = [pc EXCEPT ![r] = wait] /\ hold' = hold /\ guard' = guard
    BY <1>7 DEF AcquireInternal
  <2>2. MutualExclusion' /\ NoLeakedLatch'
    BY <2>1 DEF MutualExclusion, NoLeakedLatch
  <2>3. ASSUME NEW l \in Key, NEW q \in Req, Waiting(q, l)'
        PROVE  hold'[l] /\ In(q, latch_waiters'[l])
    <3>1. latch_waiters[k] \in Seq(Req) /\ latch_waiters'[k] = Append(latch_waiters[k], r)
      BY <1>0, <2>1 DEF TypeOK
    <3>2. l # k => latch_waiters'[l] = latch_waiters[l]
      BY <1>0, <2>1 DEF TypeOK
    <3>3. CASE q = r
      <4>1. l = k
        BY <2>3, <3>3 DEF Waiting
      <4> QED BY <4>1, <3>3, <3>1, <2>1, <1>7, InAppend
    <3>4. CASE q # r
      <4>1. Waiting(q, l)
        BY <2>3, <3>4, <1>2 DEF Waiting
      <4>2. hold[l] /\ In(q, latch_waiters[l])
        BY <4>1 DEF NoLostWaiter, In
      <4> QED BY <4>2, <3>1, <3>2, <2>1, InAppend
    <3> QED BY <3>3, <3>4
  <2>4. NoLostWaiter'
    BY <2>3, ZenonT(40) DEF NoLostWaiter, In
  <2> QED BY <1>1, <1>4, <1>5, <2>2, <2>4
<1> QED BY <1>6, <1>7

\* transfer_latch_guard passes the latch of r to the first sender whose receiver lives, or frees it
\* when there is none; r itself does not wait, before or after.
LEMMA TransferStep ==
    ASSUME LatchInv, NEW r \in Req, NEW k \in Key, k \in guard[r],
           NEW at, at \in {"drop", "intent"},
           pc[r] \in {"start", "drop"},
           want' \in [Req -> Key \cup {NoKey}], at = "intent" => want'[r] = k,
           \A q \in Req : q # r => want'[q] = want[q],
           intent_waiters' \in [Key -> Seq(Req)],
           \A q \in Req : pc[q] = "intent" /\ want[q] \in Key => In(q, intent_waiters'[want[q]]),
           at = "intent" => In(r, intent_waiters'[k]),
           TransferLatchGuard(k, [guard EXCEPT ![r] = @ \ {k}], [pc EXCEPT ![r] = at]),
           UNCHANGED <<next, signal>>
    PROVE  LatchInv'
<1> USE DEF LatchInv, LatchesAreSound
<1>0. TypeOK
  OBVIOUS
<1> DEFINE g == [guard EXCEPT ![r] = @ \ {k}]
           p == [pc EXCEPT ![r] = at]
           queue == latch_waiters[k]
<1>1. /\ g \in [Req -> SUBSET Key] /\ p \in [Req -> PC] /\ queue \in Seq(Req)
      /\ \A q \in Req : k \notin g[q]
      /\ \A q \in Req, l \in Key : l # k => (l \in g[q] <=> l \in guard[q])
      /\ \A q \in Req : q # r => p[q] = pc[q]
      /\ p[r] = at
      /\ hold[k]
  BY <1>0 DEF TypeOK, PC, MutualExclusion, NoLeakedLatch
<1>2. CASE \E i \in 1 .. Len(queue) :
             /\ Waiting(queue[i], k)
             /\ \A j \in 1 .. i - 1 : ~Waiting(queue[j], k)
             /\ latch_waiters' = [latch_waiters EXCEPT ![k] = SubSeq(@, i + 1, Len(@))]
             /\ guard' = [g EXCEPT ![queue[i]] = @ \cup {k}]
             /\ pc' = [p EXCEPT ![queue[i]] = IF @ = "waiting" THEN "granted" ELSE "regranted"]
             /\ UNCHANGED hold
  <2>1. PICK i \in 1 .. Len(queue) :
             /\ Waiting(queue[i], k)
             /\ \A j \in 1 .. i - 1 : ~Waiting(queue[j], k)
             /\ latch_waiters' = [latch_waiters EXCEPT ![k] = SubSeq(@, i + 1, Len(@))]
             /\ guard' = [g EXCEPT ![queue[i]] = @ \cup {k}]
             /\ pc' = [p EXCEPT ![queue[i]] = IF @ = "waiting" THEN "granted" ELSE "regranted"]
             /\ hold' = hold
    BY <1>2, Zenon
  <2>2. PICK w \in Req : w = queue[i]
    BY <1>1
  <2>3. w # r /\ pc[w] \in {"waiting", "rewaiting"} /\ want[w] = k
    BY <2>1, <2>2 DEF Waiting
  <2>4. /\ guard' = [g EXCEPT ![w] = @ \cup {k}]
        /\ pc' = [p EXCEPT ![w] = IF @ = "waiting" THEN "granted" ELSE "regranted"]
    BY <2>1, <2>2
  <2>5. /\ pc' \in [Req -> PC] /\ guard' \in [Req -> SUBSET Key]
        /\ pc'[w] \in {"granted", "regranted"} /\ pc'[r] = at
        /\ \A q \in Req : q # r /\ q # w => pc'[q] = pc[q]
    <3>1. guard' \in [Req -> SUBSET Key]
      BY <1>1, <2>4, SMTT(30), ZenonT(60)
    <3>2. \A x \in {"granted", "regranted"} : x \in PC
      BY DEF PC
    <3>3. pc' \in [Req -> PC]
      BY <1>1, <2>4, <3>2, ZenonT(40)
    <3> QED BY <1>1, <2>3, <2>4, <3>1, <3>3, ZenonT(40)
  <2>6. latch_waiters' \in [Key -> Seq(Req)] /\ latch_waiters'[k] = SubSeq(queue, i + 1, Len(queue))
        /\ \A l \in Key : l # k => latch_waiters'[l] = latch_waiters[l]
    <3>1. SubSeq(queue, i + 1, Len(queue)) \in Seq(Req)
      BY <1>1, RestIsSeq
    <3> QED BY <1>0, <2>1, <3>1, Zenon DEF TypeOK
  <2>7. TypeOK'
    BY <1>0, <2>1, <2>5, <2>6, Zenon DEF TypeOK
  <2>8. \A q \in Req : (k \in guard'[q] <=> q = w)
        /\ \A l \in Key : l # k => (l \in guard'[q] <=> l \in guard[q])
    BY <1>1, <2>4
  <2>9. MutualExclusion'
    BY <2>8 DEF MutualExclusion
  <2>10. NoLeakedLatch'
    BY <1>1, <2>1, <2>8, SMTT(30), SMTT(40) DEF NoLeakedLatch
  <2>11. ASSUME NEW l \in Key, NEW q \in Req, Waiting(q, l)'
         PROVE  hold'[l] /\ In(q, latch_waiters'[l])
    <3>1. q # r /\ q # w
      BY <2>5, <2>11 DEF Waiting
    <3>2. Waiting(q, l)
      BY <2>5, <2>11, <3>1 DEF Waiting
    <3>3. hold[l] /\ In(q, latch_waiters[l])
      BY <3>2, SMTT(30), ZenonT(60) DEF NoLostWaiter, In
    <3>4. CASE l = k
      <4>1. PICK j \in 1 .. Len(queue) : queue[j] = q
        BY <3>3, <3>4 DEF In
      <4>2. Len(queue) \in Nat /\ j \notin 1 .. i - 1 /\ j # i
        BY <1>1, <2>1, <2>2, <3>1, <3>2, <3>4, <4>1, SMTT(30), SMTT(40)
      <4>3. j > i
        BY <4>2
      <4> QED BY <1>1, <2>1, <2>6, <3>3, <3>4, <4>1, <4>3, InRest
    <3> QED BY <2>1, <2>6, <3>3, <3>4
  <2>12. NoLostWaiter'
    BY <2>11 DEF NoLostWaiter, In
  <2>13. WantsKey'
    BY <2>3, <2>5, ZenonT(40) DEF WantsKey
  <2>14. NoLostIntentWaiter'
    <3>1. ASSUME NEW q \in Req, pc'[q] = "intent" PROVE In(q, intent_waiters'[want'[q]])
      <4>1. q # w
        BY <2>5, <3>1
      <4>2. q # r => pc[q] = "intent" /\ want'[q] = want[q] /\ want[q] \in Key
        BY <2>5, <3>1, <4>1 DEF WantsKey
      <4>3. q = r => at = "intent"
        BY <2>5, <3>1
      <4> QED BY <4>2, <4>3
    <3> QED BY <3>1, Zenon DEF NoLostIntentWaiter, QueuedForSignal, In
  <2> QED BY <2>7, <2>9, <2>10, <2>12, <2>13, <2>14
<1>3. CASE /\ \A i \in 1 .. Len(queue) : ~Waiting(queue[i], k)
           /\ latch_waiters' = [latch_waiters EXCEPT ![k] = <<>>]
           /\ hold' = [hold EXCEPT ![k] = FALSE]
           /\ guard' = g
           /\ pc' = p
  <2>1. TypeOK'
    BY <1>0, <1>1, <1>3, SMTT(30), SMTT(40) DEF TypeOK
  <2>2. MutualExclusion'
    BY <1>1, <1>3, SMTT(30), ZenonT(60) DEF MutualExclusion
  <2>3. NoLeakedLatch'
    BY <1>0, <1>1, <1>3 DEF NoLeakedLatch, TypeOK
  <2>4. \A q \in Req : ~Waiting(q, k)
    BY <1>3, SMTT(30), SMTT(40) DEF NoLostWaiter
  <2>5. NoLostWaiter'
    <3>1. ASSUME NEW l \in Key, NEW q \in Req, Waiting(q, l)'
          PROVE  hold'[l] /\ In(q, latch_waiters'[l])
      <4>1. q # r
        BY <1>1, <1>3, <3>1 DEF Waiting
      <4>2. Waiting(q, l) /\ l # k
        BY <1>1, <1>3, <2>4, <3>1, <4>1, ZenonT(40) DEF Waiting
      <4>3. hold'[l] = hold[l] /\ latch_waiters'[l] = latch_waiters[l]
        BY <1>0, <1>3, <4>2, ZenonT(40) DEF TypeOK
      <4> QED BY <4>2, <4>3 DEF NoLostWaiter, In
    <3> QED BY <3>1 DEF NoLostWaiter, In
  <2>6. WantsKey'
    BY <1>1, <1>3 DEF WantsKey
  <2>7. NoLostIntentWaiter'
    <3>1. ASSUME NEW q \in Req, pc'[q] = "intent" PROVE In(q, intent_waiters'[want'[q]])
      <4>1. q # r => pc[q] = "intent" /\ want'[q] = want[q] /\ want[q] \in Key
        BY <1>1, <1>3, <3>1, ZenonT(40) DEF WantsKey
      <4>2. q = r => at = "intent"
        BY <1>1, <1>3, <3>1
      <4> QED BY <4>1, <4>2, ZenonT(40)
    <3> QED BY <3>1 DEF NoLostIntentWaiter, QueuedForSignal, In
  <2> QED BY <2>1, <2>2, <2>3, <2>5, <2>6, <2>7, ZenonT(40)
<1> QED BY <1>2, <1>3, Zenon DEF TransferLatchGuard

-----------------------------------------------------------------------------
\* The steps of requests

\* Every step of a request keeps the invariant.
LEMMA NextLatchInv == LatchInv /\ [Next]_vars => LatchInv'
<1> SUFFICES ASSUME LatchInv, [Next]_vars PROVE LatchInv'
  OBVIOUS
<1> USE DEF LatchInv, LatchesAreSound
<1>0. TypeOK
  OBVIOUS
<1>1. ASSUME NEW r \in Req, AcquireNext(r) PROVE LatchInv'
  <2> DEFINE k == KeysOf[r][next[r]]
  <2>1. k \in Key
    <3>1. KeysOf[r] \in Seq(Key) /\ next[r] \in Nat \ {0} /\ next[r] <= Len(KeysOf[r])
      BY <1>0, <1>1, RowLatchAssumption, Zenon DEF AcquireNext, TypeOK
    <3>2. Len(KeysOf[r]) \in Nat
      BY <3>1
    <3>3. next[r] \in 1 .. Len(KeysOf[r])
      BY <3>1, <3>2
    <3> QED BY <3>1, <3>3
  <2>2. want' = [want EXCEPT ![r] = k] /\ AcquireInternal(r, k, "granted", "waiting")
        /\ pc[r] = "start" /\ UNCHANGED <<intent_waiters, next, signal>>
    BY <1>1 DEF AcquireNext
  <2>3. want' \in [Req -> Key \cup {NoKey}] /\ want'[r] = k /\ \A q \in Req : q # r => want'[q] = want[q]
    BY <1>0, <2>1, <2>2 DEF TypeOK
  <2> HIDE DEF k, LatchInv
  <2> QED BY <2>1, <2>2, <2>3, AcquireStep
<1>2. ASSUME NEW r \in Req, Reacquire(r) PROVE LatchInv'
  <2>1. /\ AcquireInternal(r, want[r], "regranted", "rewaiting") /\ pc[r] = "woken"
        /\ want' = want /\ UNCHANGED <<intent_waiters, next, signal>>
    BY <1>2 DEF Reacquire
  <2>2. want[r] \in Key /\ want' \in [Req -> Key \cup {NoKey}]
    BY <1>0, <2>1 DEF WantsKey, TypeOK
  <2> HIDE DEF LatchInv
  <2> QED BY <2>1, <2>2, AcquireStep
<1>3. ASSUME NEW r \in Req, NEW k \in Key, WaitIntent(r, k) PROVE LatchInv'
  <2>1. /\ pc[r] = "start" /\ k \in guard[r] /\ want' = [want EXCEPT ![r] = k]
        /\ intent_waiters' = [intent_waiters EXCEPT ![k] = Append(@, r)]
        /\ TransferLatchGuard(k, [guard EXCEPT ![r] = @ \ {k}], [pc EXCEPT ![r] = "intent"])
        /\ UNCHANGED <<next, signal>>
    BY <1>3 DEF WaitIntent
  <2>2. want' \in [Req -> Key \cup {NoKey}] /\ want'[r] = k /\ \A q \in Req : q # r => want'[q] = want[q]
    BY <1>0, <2>1 DEF TypeOK
  <2>3. intent_waiters[k] \in Seq(Req)
    BY <1>0 DEF TypeOK
  <2>4. Append(intent_waiters[k], r) \in Seq(Req) /\ In(r, Append(intent_waiters[k], r))
        /\ \A y : In(y, intent_waiters[k]) => In(y, Append(intent_waiters[k], r))
    BY <2>3, InAppend
  <2>5. /\ intent_waiters' \in [Key -> Seq(Req)] /\ intent_waiters'[k] = Append(intent_waiters[k], r)
        /\ \A l \in Key : l # k => intent_waiters'[l] = intent_waiters[l]
    BY <1>0, <2>1, <2>4 DEF TypeOK
  <2>6. \A q \in Req : pc[q] = "intent" /\ want[q] \in Key => In(q, intent_waiters[want[q]])
    BY DEF NoLostIntentWaiter, QueuedForSignal, In
  <2>7. \A q \in Req : pc[q] = "intent" /\ want[q] \in Key => In(q, intent_waiters'[want[q]])
    BY <2>4, <2>5, <2>6, Zenon
  <2> HIDE DEF LatchInv
  <2> QED BY <2>1, <2>2, <2>4, <2>5, <2>7, TransferStep, Zenon
<1>4. ASSUME NEW r \in Req, NEW k \in Key, Release(r, k) PROVE LatchInv'
  <2>1. /\ pc[r] = "drop" /\ k \in guard[r] /\ want' = want /\ intent_waiters' = intent_waiters
        /\ TransferLatchGuard(k, [guard EXCEPT ![r] = @ \ {k}], pc)
        /\ UNCHANGED <<next, signal>>
    BY <1>4 DEF Release
  <2>2. pc = [pc EXCEPT ![r] = "drop"]
    BY <1>0, <2>1 DEF TypeOK
  <2>3. TransferLatchGuard(k, [guard EXCEPT ![r] = @ \ {k}], [pc EXCEPT ![r] = "drop"])
    BY <2>1, <2>2
  <2>4. want' \in [Req -> Key \cup {NoKey}] /\ intent_waiters' \in [Key -> Seq(Req)]
    BY <1>0, <2>1 DEF TypeOK
  <2>5. \A q \in Req : pc[q] = "intent" /\ want[q] \in Key => In(q, intent_waiters'[want[q]])
    BY <2>1 DEF NoLostIntentWaiter, QueuedForSignal, In
  <2> HIDE DEF LatchInv
  <2> QED BY <2>1, <2>3, <2>4, <2>5, TransferStep, Zenon
<1>5. ASSUME NEW r \in Req, SignalAll(r) PROVE LatchInv'
  <2>1. /\ pc' = [q \in Req |-> IF pc[q] = "intent" /\ want[q] \in guard[r] /\ QueuedForSignal(q)
                                THEN "woken" ELSE pc[q]]
        /\ intent_waiters' = [k \in Key |-> IF k \in guard[r] THEN <<>> ELSE intent_waiters[k]]
        /\ signal' = [signal EXCEPT ![r] = FALSE]
        /\ UNCHANGED <<hold, latch_waiters, guard, want, next>>
    BY <1>5 DEF SignalAll
  <2>2. pc' \in [Req -> PC]
    BY <1>0, <2>1 DEF TypeOK, PC
  <2>3. intent_waiters' \in [Key -> Seq(Req)] /\ signal' \in [Req -> BOOLEAN]
    BY <1>0, <2>1 DEF TypeOK
  <2>4. TypeOK'
    BY <1>0, <2>1, <2>2, <2>3 DEF TypeOK
  <2>5. \A q \in Req : pc[q] # "intent" => pc'[q] = pc[q]
    BY <2>1
  <2>6. \A q \in Req : pc[q] = "intent" =>
          IF want[q] \in guard[r] THEN pc'[q] = "woken" ELSE pc'[q] = "intent"
    BY <2>1 DEF NoLostIntentWaiter
  <2>7. MutualExclusion' /\ NoLeakedLatch'
    BY <2>1 DEF MutualExclusion, NoLeakedLatch
  <2>8. NoLostWaiter'
    <3>1. \A q \in Req, k \in Key : Waiting(q, k)' => Waiting(q, k)
      BY <2>1, <2>5, <2>6 DEF Waiting
    <3> QED BY <2>1, <3>1 DEF NoLostWaiter
  <2>9. WantsKey'
    BY <2>1, <2>5, <2>6 DEF WantsKey
  <2>10. NoLostIntentWaiter'
    <3>1. ASSUME NEW q \in Req, pc'[q] = "intent" PROVE QueuedForSignal(q)'
      <4>1. pc[q] = "intent" /\ want[q] \notin guard[r]
        BY <2>5, <2>6, <3>1
      <4>2. want[q] \in Key /\ QueuedForSignal(q)
        BY <4>1 DEF WantsKey, NoLostIntentWaiter
      <4>3. intent_waiters'[want[q]] = intent_waiters[want[q]] /\ want' = want
        BY <2>1, <4>1, <4>2
      <4> QED BY <4>2, <4>3 DEF QueuedForSignal
    <3> QED BY <3>1 DEF NoLostIntentWaiter
  <2> QED BY <2>4, <2>7, <2>8, <2>9, <2>10
<1>6. ASSUME NEW r \in Req,
             Insert(r) \/ Resume(r) \/ Finish(r) \/ Cancel(r) \/ \E found \in BOOLEAN : Evaluate(r, found)
      PROVE  LatchInv'
  <2>1. /\ UNCHANGED <<hold, latch_waiters, intent_waiters, guard>>
        /\ pc' \in [Req -> PC] /\ pc'[r] \in {"start", "drop", "done"}
        /\ \A q \in Req : q # r => pc'[q] = pc[q] /\ want'[q] = want[q]
        /\ want' \in [Req -> Key \cup {NoKey}]
    BY <1>0, <1>6, Zenon DEF Insert, Resume, Finish, Cancel, Evaluate, TypeOK, PC
  <2>2. next' \in [Req -> Nat \ {0}]
    BY <1>0, <1>6 DEF Insert, Resume, Finish, Cancel, Evaluate, TypeOK
  <2>3. signal' \in [Req -> BOOLEAN]
    BY <1>0, <1>6 DEF Insert, Resume, Finish, Cancel, Evaluate, TypeOK
  <2>4. TypeOK'
    BY <1>0, <2>1, <2>2, <2>3 DEF TypeOK
  <2>5. MutualExclusion' /\ NoLeakedLatch'
    BY <2>1 DEF MutualExclusion, NoLeakedLatch
  <2>6. \A q \in Req, k \in Key : Waiting(q, k)' => Waiting(q, k)
    BY <2>1 DEF Waiting
  <2>7. NoLostWaiter'
    BY <2>1, <2>6 DEF NoLostWaiter
  <2>8. WantsKey'
    BY <2>1 DEF WantsKey
  <2>9. NoLostIntentWaiter'
    BY <2>1 DEF NoLostIntentWaiter, QueuedForSignal
  <2> QED BY <2>4, <2>5, <2>7, <2>8, <2>9
<1>7. CASE UNCHANGED vars
  BY <1>7 DEF vars, TypeOK, MutualExclusion, NoLeakedLatch, NoLostWaiter, NoLostIntentWaiter,
             QueuedForSignal, Waiting, WantsKey
<1>8. CASE Next
  BY <1>1, <1>2, <1>3, <1>4, <1>5, <1>6, <1>8 DEF Next, Step
<1> QED BY <1>7, <1>8

\* The invariant holds in every reachable state, for any requests, keys and order of cancellations.
THEOREM LatchInductive == Spec => []LatchInv
  BY InitLatchInv, NextLatchInv, PTL DEF Spec

\* A row latch has one live guard exactly while its block says it is held, a request that sleeps for
\* a latch is queued behind such a guard, and one that sleeps for an intent is in the queue the next
\* signal empties, whichever requests are cancelled at which await (LatchBlock of eval/latch.rs).
THEOREM LatchesStaySound == Spec => []LatchesAreSound
<1>1. LatchInv => LatchesAreSound
  BY DEF LatchInv
<1> QED BY <1>1, LatchInductive, PTL
=============================================================================
