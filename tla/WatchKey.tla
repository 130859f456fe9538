------------------------------ MODULE WatchKey ------------------------------
(***************************************************************************)
(* A client that watches one key.  Its task finds the shard, opens a       *)
(* stream and starts over when the stream ends (src/client/src/txn.rs).    *)
(* The node registers a watcher with the state machine of the leader, then *)
(* scans the key, then passes on what the watcher is told                  *)
(* (src/server/src/service/node.rs); the state machine of every replica    *)
(* takes in new watchers and fires them after it has committed a batch,    *)
(* and drops those of a shard that has moved out                           *)
(* (src/server/src/replica/fsm/mod.rs).  Group 1 has the replicas 1 and 2, *)
(* group 2 has replica 3; the shard of the key moves from group 1 to 2.    *)
(* Only the versions of the key matter, and the table a row belongs to.    *)
(***************************************************************************)
EXTENDS Integers, SequencesExt

CONSTANTS
    MaxVersion, \* bounds the versions that are written
    Scenarios   \* tables: of the rows written; the moves, transfers and snapshots

Groups == {1, 2}
Hosts == {1, 2, 3}
GroupOf(h) == IF h = 3 THEN 2 ELSE 1
WatchedTable == 1

VARIABLES
    glog,       \* glog[g]: the committed entries of group g
    applied,    \* applied[h]: entries that the engine of replica h has
    triggered,  \* triggered[h]: entries its watchers have been told of
    leader,     \* leader[g]
    reg,        \* replicas in whose channel the watcher waits (WatchHub.receivers)
    hub,        \* replicas whose hub has the watcher (WatchHub.watchers)
    stream,     \* the server's side of the stream that is open
    router,     \* the group and the leader that the client's router has
    cl,         \* WatchContext, and what the user has been given
    gap,        \* a snapshot has skipped entries of a replica with the watcher
    budget

vars == <<glog, applied, triggered, leader, reg, hub, stream, router, cl, gap, budget>>

Spend(f) == budget' = [budget EXCEPT ![f] = @ - 1]
NoStream == [host |-> 0, from |-> 0, pc |-> "end", buf |-> <<>>, closed |-> TRUE, items |-> <<>>]
Value(t, v) == [kind |-> "value", table |-> t, ver |-> v]
Item(kind) == [kind |-> kind, table |-> 0, ver |-> 0]

Init ==
    /\ budget \in Scenarios
    /\ glog = [g \in Groups |-> <<>>]
    /\ applied = [h \in Hosts |-> 0] /\ triggered = applied
    /\ leader = [g \in Groups |-> IF g = 1 THEN 1 ELSE 3]
    /\ reg = {} /\ hub = {}
    /\ stream = NoStream
    /\ router = [home |-> 1, host |-> 1]
    /\ cl = [pc |-> "find", ver |-> budget.from, out |-> <<>>]
    /\ gap = FALSE

-----------------------------------------------------------------------------
(* The groups *)

Entry(kind, t, v, vs) == [kind |-> kind, table |-> t, ver |-> v, vers |-> vs]
Kinds(entries) == {entries[i].kind : i \in DOMAIN entries}
Prefix(h) == SubSeq(glog[GroupOf(h)], 1, applied[h])

Home == IF "in" \in Kinds(glog[2]) THEN 2 ELSE 1

\* The shard is in the descriptor that replica h has applied.
HasShard(h) == IF GroupOf(h) = 1 THEN "out" \notin Kinds(Prefix(h)) ELSE "in" \in Kinds(Prefix(h))

VersionsIn(entries) ==
    {entries[i].ver : i \in {j \in DOMAIN entries : entries[j].kind = "put" /\ entries[j].table = WatchedTable}}
    \cup UNION {entries[i].vers : i \in DOMAIN entries}
Rows(h) == VersionsIn(Prefix(h))
Puts(entries) == SelectSeq(entries, LAMBDA e : e.kind = "put")
NextVersion == Len(Puts(glog[1])) + Len(Puts(glog[2])) + 1

\* A transaction commits a row of the key, in the watched table or in another one.
Put ==
    \E t \in budget.tables :
        /\ NextVersion <= MaxVersion
        /\ glog' = [glog EXCEPT ![Home] = Append(@, Entry("put", t, NextVersion, {}))]
        /\ UNCHANGED <<applied, triggered, leader, reg, hub, stream, router, cl, gap, budget>>

\* The shard, with its rows, is taken over by group 2.
Move ==
    /\ budget.moves > 0
    /\ glog' = [glog EXCEPT ![1] = Append(@, Entry("out", 0, 0, {})),
                            ![2] = Append(@, Entry("in", 0, 0, VersionsIn(glog[1])))]
    /\ Spend("moves")
    /\ UNCHANGED <<applied, triggered, leader, reg, hub, stream, router, cl, gap>>

Transfer ==
    /\ budget.transfers > 0
    /\ \E h \in {1, 2} \ {leader[1]} :
        /\ applied[h] = Len(glog[1])
        /\ leader' = [leader EXCEPT ![1] = h]
    /\ Spend("transfers")
    /\ UNCHANGED <<glog, applied, triggered, reg, hub, stream, router, cl, gap>>

\* GroupStateMachine::finish_plug: a batch becomes visible...
Commit(h) ==
    /\ triggered[h] = applied[h]
    /\ \E n \in applied[h] + 1 .. Len(glog[GroupOf(h)]) : applied' = [applied EXCEPT ![h] = n]
    /\ UNCHANGED <<glog, triggered, leader, reg, hub, stream, router, cl, gap, budget>>

\* ...then the waiting watchers are registered, all are fired for the puts of the
\* batch, whose table is not looked at, and those of a moved shard are dropped.
NewEntries(h) == SubSeq(Prefix(h), triggered[h] + 1, applied[h])
Fired(h) ==
    LET puts == Puts(NewEntries(h)) IN [i \in DOMAIN puts |-> Value(puts[i].table, puts[i].ver)]

MovedOut(h) == "out" \in Kinds(NewEntries(h))

Keeps(h) == (h \in hub \/ (h \in reg /\ HasShard(h))) /\ ~MovedOut(h)

Listens_late(h) == h \in hub
Listens(h) == h \in hub \/ (h \in reg /\ HasShard(h))

trigger_updation_watchers_keepreg(h) ==
    /\ triggered[h] < applied[h]
    /\ triggered' = [triggered EXCEPT ![h] = applied[h]]
    /\ reg' = reg
    /\ hub' = IF Keeps(h) THEN hub \cup {h} ELSE hub \ {h}
    /\ stream' = [stream EXCEPT
                    !.buf = IF Listens(h) THEN @ \o Fired(h) ELSE @,
                    !.closed = @ \/ (h \in reg \cup hub /\ ~Keeps(h))]
    /\ UNCHANGED <<glog, applied, leader, router, cl, gap, budget>>

trigger_updation_watchers(h) ==
    /\ triggered[h] < applied[h]
    /\ triggered' = [triggered EXCEPT ![h] = applied[h]]
    /\ reg' = reg \ {h}
    /\ hub' = IF Keeps(h) THEN hub \cup {h} ELSE hub \ {h}
    /\ stream' = [stream EXCEPT
                    !.buf = IF Listens(h) THEN @ \o Fired(h) ELSE @,
                    !.closed = @ \/ (h \in reg \cup hub /\ ~Keeps(h))]
    /\ UNCHANGED <<glog, applied, leader, router, cl, gap, budget>>

\* A replica that lags behind is sent a snapshot: no watcher is fired for it.
apply_snapshot(h) ==
    /\ budget.snapshots > 0
    /\ h # leader[GroupOf(h)]
    /\ triggered[h] = applied[h] /\ applied[h] < Len(glog[GroupOf(h)])
    /\ applied' = [applied EXCEPT ![h] = Len(glog[GroupOf(h)])]
    /\ triggered' = [triggered EXCEPT ![h] = Len(glog[GroupOf(h)])]
    /\ gap' = (gap \/ h \in hub \cup reg)
    /\ Spend("snapshots")
    /\ UNCHANGED <<glog, leader, reg, hub, stream, router, cl>>

-----------------------------------------------------------------------------
(* The stream of the node, handle_group_request *)

Fails(kind) == stream' = [stream EXCEPT !.pc = "end", !.items = Append(@, Item(kind))]

\* Node::execute_request refuses what the replica does not lead or does not have.
Refused(h) == h # leader[GroupOf(h)] \/ ~HasShard(h)
Refuse(h) == Fails(IF h # leader[GroupOf(h)] THEN "notleader" ELSE "epoch")

Register ==
    /\ stream.pc = "register"
    /\ \/ Refused(stream.host) /\ Refuse(stream.host) /\ UNCHANGED reg
       \/ /\ ~Refused(stream.host)
          /\ reg' = reg \cup {stream.host}
          /\ stream' = [stream EXCEPT !.pc = "scan"]
    /\ UNCHANGED <<glog, applied, triggered, leader, hub, router, cl, gap, budget>>

\* The versions of the key, the oldest first, from the version that is asked for.
ScannedValues(h) ==
    LET vs == SetToSortSeq({v \in Rows(h) : v >= stream.from}, LAMBDA a, b : a < b)
    IN [i \in DOMAIN vs |-> Value(WatchedTable, vs[i])]

\* The scan has no end key: it panics when the shard has another key after this one.
Scan ==
    /\ stream.pc = "scan"
    /\ \/ Refused(stream.host) /\ Refuse(stream.host)
       \/ ~Refused(stream.host) /\ budget.greater /\ Fails("panic")
       \/ /\ ~Refused(stream.host) /\ ~budget.greater
          /\ stream' = [stream EXCEPT !.pc = "events", !.items = @ \o ScannedValues(stream.host)]
    /\ UNCHANGED <<glog, applied, triggered, leader, reg, hub, router, cl, gap, budget>>

PassesEvent(e) == e.ver >= stream.from

Events ==
    /\ stream.pc = "events"
    /\ \/ /\ stream.buf # <<>>
          /\ stream' = [stream EXCEPT !.buf = Tail(@),
                          !.items = IF PassesEvent(Head(stream.buf)) THEN Append(@, Head(stream.buf)) ELSE @]
       \/ stream.buf = <<>> /\ stream.closed /\ Fails("moved")
    /\ UNCHANGED <<glog, applied, triggered, leader, reg, hub, router, cl, gap, budget>>

-----------------------------------------------------------------------------
(* The client *)

\* The router hears of moves and of leaders through the watch stream of the root.
RouterRefresh ==
    /\ router # [home |-> Home, host |-> leader[Home]]
    /\ router' = [home |-> Home, host |-> leader[Home]]
    /\ UNCHANGED <<glog, applied, triggered, leader, reg, hub, stream, cl, gap, budget>>

\* A new stream; the watcher of the one before loses its receiver.
Open ==
    /\ cl.pc = "find"
    /\ stream' = [NoStream EXCEPT !.host = router.host, !.from = cl.ver, !.pc = "register", !.closed = FALSE]
    /\ reg' = {} /\ hub' = {}
    /\ cl' = [cl EXCEPT !.pc = "read"]
    /\ UNCHANGED <<glog, applied, triggered, leader, router, gap, budget>>

Receive ==
    /\ cl.pc = "read" /\ stream.items # <<>>
    /\ stream' = [stream EXCEPT !.items = Tail(@)]
    /\ LET item == Head(stream.items) IN
       cl' = CASE item.kind = "value" -> [cl EXCEPT !.ver = item.ver + 1, !.out = Append(@, item)]
               [] item.kind = "moved" -> cl
               [] item.kind = "epoch" -> [cl EXCEPT !.pc = "find"]
               [] item.kind = "panic" -> [cl EXCEPT !.pc = "find"]
               [] item.kind = "notleader" -> [cl EXCEPT !.pc = "panicked"]
    /\ UNCHANGED <<glog, applied, triggered, leader, reg, hub, router, gap, budget>>

\* The stream is at its end: look the shard up again.
Reopen ==
    /\ cl.pc = "read" /\ stream.pc = "end" /\ stream.items = <<>>
    /\ cl' = [cl EXCEPT !.pc = "find"]
    /\ UNCHANGED <<glog, applied, triggered, leader, reg, hub, stream, router, gap, budget>>

Next ==
    \/ Put \/ Move \/ Transfer
    \/ \E h \in Hosts : Commit(h) \/ trigger_updation_watchers(h) \/ apply_snapshot(h)
    \/ Register \/ Scan \/ Events
    \/ RouterRefresh \/ Open \/ Receive \/ Reopen

Spec == Init /\ [][Next]_vars

-----------------------------------------------------------------------------
\* The types of the state.
TypeOK ==
    /\ \A h \in Hosts : triggered[h] \in 0 .. applied[h] /\ applied[h] \in 0 .. Len(glog[GroupOf(h)])
    /\ leader \in [Groups -> Hosts] /\ \A g \in Groups : GroupOf(leader[g]) = g
    /\ reg \subseteq Hosts /\ hub \subseteq Hosts /\ reg \cap hub = {}
    /\ stream.pc \in {"register", "scan", "events", "end"}
    /\ stream.closed \in BOOLEAN
    /\ cl.pc \in {"find", "read", "panicked"} /\ cl.ver \in 0 .. MaxVersion + 1

Given == {cl.out[i].ver : i \in {j \in DOMAIN cl.out : cl.out[j].table = WatchedTable}}
Wanted == {v \in VersionsIn(glog[Home]) : v >= budget.from}

\* Nothing is under way between the log of the group that has the shard and the user.
AtRest ==
    /\ cl.pc = "read" /\ stream.pc = "events" /\ ~stream.closed
    /\ stream.items = <<>> /\ stream.buf = <<>>
    /\ GroupOf(stream.host) = Home
    /\ triggered[stream.host] = Len(glog[Home])

\* The node registers the watcher before it scans, and the state machine takes in
\* waiting watchers before it fires a batch: whatever the interleaving of a commit,
\* the registration and the scan, and through moves of the shard and changes of the
\* leader, no version is left out, and the last one the user is given is the
\* newest, unless a snapshot has skipped entries of the replica that is watched.
NothingIsMissed ==
    AtRest /\ ~gap =>
        /\ Wanted \subseteq Given
        /\ Wanted # {} => cl.out[Len(cl.out)].ver = Max(Wanted)

\* "The values below this version are ignored": the user is given no version
\* below the one that was asked for, from the scan or from a watcher.
OldVersionsAreIgnored == \A i \in DOMAIN cl.out : cl.out[i].ver >= budget.from

\* A version that is committed reaches the user, also when the shard moves away
\* from the group that is watched: the watchers of a shard that moves out are
\* dropped, so the stream ends and the client looks the shard up again.
AllArrived == Wanted \subseteq Given \/ gap \/ cl.pc = "panicked" \/ budget.greater
=============================================================================
