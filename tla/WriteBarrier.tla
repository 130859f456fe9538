---------------------------- MODULE WriteBarrier ----------------------------
(***************************************************************************)
(* The write barrier of raft-engine and the loop of Engine::write around   *)
(* it.  The writers that arrive while one is working form the next group:  *)
(* the first of them is its leader, appends the batches of all of them,    *)
(* syncs once and wakes its followers and the next leader.  Writers are    *)
(* linked by pointers into the stacks of their threads, so that a pointer  *)
(* to a writer that has left is a dangling one.  Condition variables are   *)
(* those of parking_lot: they have no spurious wake-ups.                   *)
(***************************************************************************)
EXTENDS Integers, Sequences, SequencesExt, FiniteSets

CONSTANTS
    Writers,        \* the threads, each of which writes some batches
    MaxAttempts,    \* MAX_WRITE_ATTEMPT
    Plans           \* how many batches each writer writes, which of them are
                    \* synced, and how many appends find no space

VARIABLES
    head, tail, pending_leader, pending_index,
    next,           \* the link of each writer
    pc,             \* where each writer is
    group,          \* the writers start to back of the group of a leader
    output,         \* what a leader has set for each writer
    sync, attempt,  \* of Engine::write
    todo,           \* the flags of the batches to write
    log, synced,    \* the batches in the file, and how many are synced
    acked,          \* the batches whose write has returned Ok
    nospace

vars == <<head, tail, pending_leader, pending_index, next, pc, group, output, sync, attempt, todo,
          log, synced, acked, nospace>>
barrier == <<head, tail, pending_leader, pending_index, next>>
file == <<log, synced, nospace>>

None == "none"
NoGroup == [start |-> None, back |-> None, at |-> None]

Init ==
    /\ head = None /\ tail = None /\ pending_leader = None /\ pending_index = 0
    /\ next = [w \in Writers |-> None]
    /\ pc = [w \in Writers |-> "idle"]
    /\ group = [w \in Writers |-> NoGroup]
    /\ output = [w \in Writers |-> None]
    /\ sync = [w \in Writers |-> FALSE] /\ attempt = [w \in Writers |-> 0]
    /\ log = <<>> /\ synced = 0 /\ acked = {}
    /\ \E p \in Plans : todo = p.todo /\ nospace = p.nospace

\* The batch that a writer is writing, by the number that are left.
BatchOf(w) == <<w, Len(todo[w])>>

\* A write begins.
Write(w) ==
    /\ pc[w] = "idle" /\ todo[w] # <<>>
    /\ pc' = [pc EXCEPT ![w] = "enter"]
    /\ sync' = [sync EXCEPT ![w] = Head(todo[w])]
    /\ attempt' = [attempt EXCEPT ![w] = 1]
    /\ UNCHANGED <<barrier, group, output, todo, file, acked>>

LeadNow(w) == [start |-> w, back |-> tail', at |-> w]

\* enter: nobody is working, and the writer leads a group of its own.
EnterEmpty(w) ==
    /\ pc[w] = "enter" /\ tail = None
    /\ head' = w /\ tail' = w
    /\ next' = [next EXCEPT ![w] = None]
    /\ pc' = [pc EXCEPT ![w] = "lead"]
    /\ group' = [group EXCEPT ![w] = LeadNow(w)]
    /\ output' = [output EXCEPT ![w] = None]
    /\ UNCHANGED <<pending_leader, pending_index, sync, attempt, todo, file, acked>>

\* enter: the first writer behind the group at work leads the next group.
EnterAsLeader(w) ==
    /\ pc[w] = "enter" /\ tail # None /\ pending_leader = None
    /\ next' = [next EXCEPT ![tail] = w, ![w] = None]
    /\ tail' = w /\ pending_leader' = w
    /\ pending_index' = (pending_index + 1) % 4
    /\ pc' = [pc EXCEPT ![w] = "leader_cv"]
    /\ output' = [output EXCEPT ![w] = None]
    /\ UNCHANGED <<head, group, sync, attempt, todo, file, acked>>

FollowerCv(i) == IF i % 2 = 0 THEN "follower_cv0" ELSE "follower_cv1"

\* enter: the others follow it.
EnterAsFollower(w) ==
    /\ pc[w] = "enter" /\ tail # None /\ pending_leader # None
    /\ next' = [next EXCEPT ![tail] = w, ![w] = None]
    /\ tail' = w
    /\ pc' = [pc EXCEPT ![w] = FollowerCv(pending_index)]
    /\ output' = [output EXCEPT ![w] = None]
    /\ UNCHANGED <<head, pending_leader, pending_index, group, sync, attempt, todo, file, acked>>

\* The next leader takes the lock again; its group ends with the tail.
LeaderWakes(w) ==
    /\ pc[w] = "notified_leader"
    /\ pending_leader' = None
    /\ pc' = [pc EXCEPT ![w] = "lead"]
    /\ group' = [group EXCEPT ![w] = [start |-> w, back |-> tail, at |-> w]]
    /\ UNCHANGED <<head, tail, pending_index, next, output, sync, attempt, todo, file, acked>>

\* The leader appends the batch of the next writer of its group.
AppendNext(w) ==
    /\ pc[w] = "lead" /\ group[w].at # None
    /\ LET x == group[w].at IN
       /\ \/ /\ log' = Append(log, BatchOf(x))
             /\ output' = [output EXCEPT ![x] = "ok"]
             /\ UNCHANGED nospace
          \/ /\ nospace > 0 /\ nospace' = nospace - 1
             /\ output' = [output EXCEPT ![x] = "again"]
             /\ UNCHANGED log
       /\ sync' = [sync EXCEPT ![w] = @ \/ sync[x]]
       /\ group' = [group EXCEPT ![w].at = IF x = group[w].back THEN None ELSE next[x]]
    /\ UNCHANGED <<barrier, pc, attempt, todo, synced, acked>>

SyncLog(w) ==
    /\ pc[w] = "lead" /\ group[w].at = None
    /\ synced' = IF sync[w] THEN Len(log) ELSE synced
    /\ pc' = [pc EXCEPT ![w] = "exit"]
    /\ UNCHANGED <<barrier, group, output, sync, attempt, todo, log, nospace, acked>>

\* The writers after the leader has left: it wakes those who wait on cv.
Notified(w, cv) ==
    [x \in Writers |-> CASE x = w -> "finish"
                         [] pc[x] = "leader_cv" /\ pending_leader # None -> "notified_leader"
                         [] pc[x] = cv -> "finish"
                         [] OTHER -> pc[x]]

\* Mutant: the followers of the next group are woken instead of its own.
leader_exit_next(w) ==
    /\ pc[w] = "exit"
    /\ pc' = Notified(w, FollowerCv(pending_index))
    /\ IF pending_leader # None THEN head' = pending_leader /\ UNCHANGED tail
       ELSE head' = None /\ tail' = None
    /\ group' = [group EXCEPT ![w] = NoGroup]
    /\ UNCHANGED <<pending_leader, pending_index, next, output, sync, attempt, todo, file, acked>>

\* The leader leaves: it wakes its followers and the leader of the next group.
leader_exit(w) ==
    /\ pc[w] = "exit"
    /\ IF pending_leader # None
       THEN /\ pc' = Notified(w, FollowerCv(pending_index + 3))
            /\ head' = pending_leader /\ UNCHANGED tail
       ELSE /\ pc' = Notified(w, FollowerCv(pending_index))
            /\ head' = None /\ tail' = None
    /\ group' = [group EXCEPT ![w] = NoGroup]
    /\ UNCHANGED <<pending_leader, pending_index, next, output, sync, attempt, todo, file, acked>>

\* Mutant: a writer that found no space is done.
FinishNoRetry(w) ==
    /\ pc[w] = "finish"
    /\ pc' = [pc EXCEPT ![w] = "idle"] /\ todo' = [todo EXCEPT ![w] = Tail(@)]
    /\ acked' = acked \cup {BatchOf(w)}
    /\ UNCHANGED <<barrier, group, output, sync, attempt, file>>

\* finish: the write returns, or is tried once more in a later group.
Finish(w) ==
    /\ pc[w] = "finish"
    /\ IF output[w] = "again" /\ attempt[w] < MaxAttempts
       THEN /\ pc' = [pc EXCEPT ![w] = "enter"]
            /\ attempt' = [attempt EXCEPT ![w] = @ + 1]
            /\ UNCHANGED <<todo, acked>>
       ELSE /\ pc' = [pc EXCEPT ![w] = "idle"]
            /\ todo' = [todo EXCEPT ![w] = Tail(@)]
            /\ acked' = IF output[w] = "ok" THEN acked \cup {BatchOf(w)} ELSE acked
            /\ UNCHANGED attempt
    /\ UNCHANGED <<barrier, group, output, sync, file>>

Step(w) ==
    \/ Write(w) \/ EnterEmpty(w) \/ EnterAsLeader(w) \/ EnterAsFollower(w) \/ LeaderWakes(w)
    \/ AppendNext(w) \/ SyncLog(w) \/ leader_exit(w) \/ Finish(w)

Next == \E w \in Writers : Step(w)

Spec == Init /\ [][Next]_vars

-----------------------------------------------------------------------------
(* Properties *)

Stages == {"idle", "enter", "lead", "exit", "leader_cv", "follower_cv0", "follower_cv1",
           "notified_leader", "finish"}

\* The stages, links and outputs of writers have their types.
TypeOK ==
    /\ {head, tail, pending_leader} \subseteq Writers \cup {None} /\ pending_index \in 0 .. 3
    /\ next \in [Writers -> Writers \cup {None}] /\ pc \in [Writers -> Stages]
    /\ output \in [Writers -> {None, "ok", "again"}]
    /\ sync \in [Writers -> BOOLEAN] /\ attempt \in [Writers -> 0 .. MaxAttempts]
    /\ synced \in 0 .. Len(log) /\ nospace \in Nat

InBarrier(w) == pc[w] \in {"lead", "exit", "leader_cv", "follower_cv0", "follower_cv1", "notified_leader"}

\* The writers that pointers lead to are alive: the tail that a new writer is
\* linked to, and the ones that a leader walks over (WriterIter::next), have
\* not left the barrier, whose code is unsafe about it.
NoDanglingWriter ==
    /\ tail # None => InBarrier(tail)
    /\ pending_leader # None => pc[pending_leader] \in {"leader_cv", "notified_leader"}
    /\ \A w \in Writers : group[w].at # None => InBarrier(group[w].at)

\* A writer that leaves the barrier has been processed: the unwrap of its
\* output (Writer::finish) finds one.
LeavesProcessed == \A w \in Writers : pc[w] = "finish" => output[w] # None

\* Groups follow each other: one leader works at a time.
OneGroupAtATime ==
    \A v, w \in Writers : pc[v] \in {"lead", "exit"} /\ pc[w] \in {"lead", "exit"} => v = w

Position(b) == {i \in DOMAIN log : log[i] = b}

\* A write that has returned Ok is in the file exactly once, and is synced if it
\* was to be, whoever led its group; one that failed is not there.
AckedIsWritten ==
    /\ \A b \in acked : Cardinality(Position(b)) = 1
    /\ \A w \in Writers : pc[w] = "finish" /\ output[w] = "ok" /\ sync[w] =>
                            \A i \in Position(BatchOf(w)) : i <= synced

\* Every write returns: no follower and no leader waits for a wake-up that has
\* gone to somebody else.
Returned(w) == pc[w] = "idle"

=============================================================================
