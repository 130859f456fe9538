----------------------------- MODULE RootReport -----------------------------
(***************************************************************************)
(* What the root knows of one group, and what a client that watches the    *)
(* root knows of it.  The nodes report changes of the group's descriptor   *)
(* and of the states of its replicas (node/job/report_state.rs); the root  *)
(* leader also asks every node in turn (root/heartbeat.rs).  Both write    *)
(* the rows of the root group (root/schema.rs), read them back, and push   *)
(* the changes to the watchers (root/watch.rs), whose clients keep them in *)
(* their routers (client/src/rpc/router.rs).                               *)
(*                                                                         *)
(* Every access to a row is an await: reports and heartbeats interleave at *)
(* each of them, also across a change of the root leader.  The rows are    *)
(* those of a raft group, so only the root leader reads or writes them.    *)
(* An epoch stands for the descriptor that has it.                         *)
(***************************************************************************)
EXTENDS Integers, Sequences, FiniteSets, SequencesExt

CONSTANT Scenarios \* what may happen: numbers of changes, elections, moves, faults; whether a client watches

Roots == {1, 2}
Replicas == {1, 2}
None == 0
AllNodes == <<1, 2>>  \* the nodes of the replicas, as list_node has them

VARIABLES
    budget,  \* what is left of the scenario
    group,   \* the group itself: epoch of its descriptor, term and role of each replica
    chan,    \* the StateChannel of the node of each replica
    report,  \* the report each node has sent, and how far the root has handled it
    table,   \* the rows of the root group: epoch of the descriptor, states of the replicas
    root,    \* leader of the root group, and the root nodes whose RootCore is set
    due,     \* HeartbeatQueue of each root node: the nodes scheduled, the earliest first
    hb,      \* the heartbeat each root node is sending
    hub,     \* WatchHub of each root node: write guard, the client's watcher, its updates
    client   \* state_main of a router: its stream, and what it knows of the group

vars == <<budget, group, chan, report, table, root, due, hb, hub, client>>

Spend(field) == budget[field] > 0 /\ budget' = [budget EXCEPT ![field] = @ - 1]

NoTask == [pc |-> "idle", at |-> None, batch |-> <<>>, i |-> 1, events |-> <<>>, changed |-> FALSE]
NoBeat == [pc |-> "idle", node |-> None, epoch |-> 0, state |-> [term |-> 0, role |-> "Follower"],
           events |-> <<>>, changed |-> FALSE]

Init ==
    /\ budget \in Scenarios
    /\ group = [epoch |-> 1, replica |-> [r \in Replicas |->
                    [term |-> 1, role |-> IF r = 1 THEN "Leader" ELSE "Follower"]]]
    /\ chan = [r \in Replicas |-> <<>>]
    /\ report = [r \in Replicas |-> NoTask]
    /\ table = [epoch |-> 1, state |-> group.replica]
    /\ root = [leader |-> 1, core |-> {1}]
    /\ due = [n \in Roots |-> IF n = 1 THEN AllNodes ELSE <<>>]
    /\ hb = [n \in Roots |-> NoBeat]
    /\ hub = [n \in Roots |-> [guard |-> FALSE, watcher |-> FALSE, updates |-> <<>>]]
    /\ client = [pc |-> "idle", at |-> None, epoch |-> 0, seen |-> 0, leader |-> None]

-----------------------------------------------------------------------------
(* The group, and what its replicas tell the StateChannel of their node.   *)

Term == CHOOSE t \in {group.replica[r].term : r \in Replicas} :
            \A r \in Replicas : group.replica[r].term <= t
StateUpdate(term, role) == [kind |-> "state", epoch |-> 0, term |-> term, role |-> role]
DescUpdate(epoch) == [kind |-> "desc", epoch |-> epoch, term |-> 0, role |-> "Follower"]

on_state_updated(r, term, role) ==
    /\ group' = [group EXCEPT !.replica[r] = [term |-> term, role |-> role]]
    /\ chan' = [chan EXCEPT ![r] = @ \o <<StateUpdate(term, role)>>
                    \o (IF role = "Leader" THEN <<DescUpdate(group.epoch)>> ELSE <<>>)]

on_descriptor_updated(r) ==
    /\ group.replica[r] = [term |-> Term, role |-> "Leader"]
    /\ Spend("changes")
    /\ group' = [group EXCEPT !.epoch = @ + 1]
    /\ chan' = [chan EXCEPT ![r] = Append(@, DescUpdate(group.epoch + 1))]
    /\ UNCHANGED <<report, table, root, due, hb, hub, client>>

Campaign(r) ==
    /\ group.replica[r].role = "Follower"
    /\ Spend("elections")
    /\ on_state_updated(r, Term + 1, "Candidate")
    /\ UNCHANGED <<report, table, root, due, hb, hub, client>>

Win(r) ==
    /\ group.replica[r].role = "Candidate"
    /\ on_state_updated(r, Term, "Leader")
    /\ UNCHANGED <<budget, report, table, root, due, hb, hub, client>>

Follow(r) ==
    /\ group.replica[r].term < Term
    /\ on_state_updated(r, Term, "Follower")
    /\ UNCHANGED <<budget, report, table, root, due, hb, hub, client>>

-----------------------------------------------------------------------------
(* The leader of the root group.  step_leader looks whether it still leads *)
(* once in a while only; it tells no watcher when it does not.             *)

MoveRoot(n) ==
    /\ n # root.leader
    /\ Spend("moves")
    /\ root' = [root EXCEPT !.leader = n]
    /\ UNCHANGED <<group, chan, report, table, due, hb, hub, client>>

step_leader(n) ==
    /\ root.leader = n /\ n \notin root.core
    /\ root' = [root EXCEPT !.core = @ \cup {n}]
    /\ due' = [due EXCEPT ![n] = AllNodes]
    /\ UNCHANGED <<budget, group, chan, report, table, hb, hub, client>>

drop_leader(n) ==
    /\ root.leader # n /\ n \in root.core
    /\ root' = [root EXCEPT !.core = @ \ {n}]
    /\ due' = [due EXCEPT ![n] = <<>>]
    /\ UNCHANGED <<budget, group, chan, report, table, hb, hub, client>>

-----------------------------------------------------------------------------
(* Rows and watchers.                                                      *)

\* A state the root has already, or one that is older than the one it has.
KnownState(pre, s) == pre.term > s.term \/ (pre.term = s.term /\ pre.role = s.role)

GroupEvent(epoch) == [kind |-> "group", epoch |-> epoch, leader |-> None]

\* leader_state in the router takes the leader of the highest term of the states listed.
ListedLeaders == {r \in Replicas : table.state[r].role = "Leader"}
list_group_state ==
    [kind |-> "state", epoch |-> 0,
     leader |-> IF ListedLeaders = {} THEN None
                ELSE CHOOSE r \in ListedLeaders :
                        \A q \in ListedLeaders : table.state[q].term <= table.state[r].term]

\* Mutant of notify: it passes over a hub whose guard is held.
notify_try(n, events) ==
    hub' = IF hub[n].watcher /\ ~hub[n].guard THEN [hub EXCEPT ![n].updates = @ \o events] ELSE hub

\* WatchHub::notify waits for the write guard of an initializer.
notify(n, events) ==
    /\ ~hub[n].guard
    /\ hub' = IF hub[n].watcher THEN [hub EXCEPT ![n].updates = @ \o events] ELSE hub

-----------------------------------------------------------------------------
(* Reports.                                                                *)

Advance(t) == IF t.i = Len(t.batch) THEN [t EXCEPT !.pc = "list"]
              ELSE [t EXCEPT !.pc = "read", !.i = @ + 1]

report_state_worker(r) ==
    /\ report[r].pc = "idle" /\ chan[r] # <<>>
    /\ report' = [report EXCEPT ![r] = [NoTask EXCEPT !.pc = "send", !.batch = chan[r]]]
    /\ chan' = [chan EXCEPT ![r] = <<>>]
    /\ UNCHANGED <<budget, group, table, root, due, hb, hub, client>>

ReportArrives(r, n) ==
    /\ report[r].pc = "send" /\ n \in root.core
    /\ report' = [report EXCEPT ![r].pc = "read", ![r].at = n]
    /\ UNCHANGED <<budget, group, chan, table, root, due, hb, hub, client>>

ReportRead(r) ==
    LET u == report[r].batch[report[r].i]
        known == \/ u.kind = "desc" /\ table.epoch >= u.epoch
                 \/ u.kind = "state" /\ KnownState(table.state[r], [term |-> u.term, role |-> u.role])
    IN  /\ report[r].pc = "read" /\ report[r].at = root.leader
        /\ report' = [report EXCEPT ![r] = IF known THEN Advance(@) ELSE [@ EXCEPT !.pc = "put"]]
        /\ UNCHANGED <<budget, group, chan, table, root, due, hb, hub, client>>

ReportPut(r) ==
    LET u == report[r].batch[report[r].i]
    IN  /\ report[r].pc = "put" /\ report[r].at = root.leader
        /\ \/ /\ u.kind = "desc"
              /\ table' = [table EXCEPT !.epoch = u.epoch]
              /\ report' = [report EXCEPT ![r] =
                    Advance([@ EXCEPT !.events = Append(@, GroupEvent(u.epoch))])]
           \/ /\ u.kind = "state"
              /\ table' = [table EXCEPT !.state[r] = [term |-> u.term, role |-> u.role]]
              /\ report' = [report EXCEPT ![r] = Advance([@ EXCEPT !.changed = TRUE])]
        /\ UNCHANGED <<budget, group, chan, root, due, hb, hub, client>>

ReportList(r) ==
    /\ report[r].pc = "list" /\ report[r].at = root.leader
    /\ report' = [report EXCEPT ![r].pc = "notify",
                    ![r].events = IF report[r].changed THEN Append(@, list_group_state) ELSE @]
    /\ UNCHANGED <<budget, group, chan, table, root, due, hb, hub, client>>

ReportNotify(r) ==
    /\ report[r].pc = "notify"
    /\ notify(report[r].at, report[r].events)
    /\ report' = [report EXCEPT ![r] = NoTask]
    /\ UNCHANGED <<budget, group, chan, table, root, due, hb, client>>

\* The handler returns an error, or its connection breaks and it is dropped: it is sent again.
ReportAgain(r) ==
    /\ report' = [report EXCEPT ![r] = [NoTask EXCEPT !.pc = "send", !.batch = report[r].batch]]
    /\ UNCHANGED <<group, chan, table, root, due, hb, hub, client>>
ReportFails(r) ==
    /\ report[r].pc \in {"read", "put", "list"} /\ report[r].at # root.leader
    /\ ReportAgain(r)
    /\ UNCHANGED budget
ReportBreaks(r) ==
    /\ report[r].pc \in {"read", "put", "list", "notify"}
    /\ Spend("breaks")
    /\ ReportAgain(r)

ReportStep(r) ==
    \/ report_state_worker(r) \/ \E n \in Roots : ReportArrives(r, n)
    \/ ReportRead(r) \/ ReportPut(r) \/ ReportList(r) \/ ReportNotify(r) \/ ReportFails(r)

-----------------------------------------------------------------------------
(* Heartbeats.                                                             *)

\* send_heartbeat reads rows before it calls the node: an error drops the node from the queue.
send_heartbeat(n) ==
    /\ hb[n].pc = "idle" /\ n \in root.core
    /\ due[n] # <<>>
    /\ due' = [due EXCEPT ![n] = Tail(@)]
    /\ hb' = IF root.leader # n THEN hb
             ELSE [hb EXCEPT ![n] = [NoBeat EXCEPT !.pc = "wait", !.node = Head(due[n])]]
    /\ UNCHANGED <<budget, group, chan, report, table, root, hub, client>>

\* Mutant of collect_group_detail: the descriptor of the next epoch.
collect_group_detail_next(n) ==
    /\ hb[n].pc = "wait"
    /\ LET s == group.replica[hb[n].node]
       IN  hb' = [hb EXCEPT ![n].pc = "list", ![n].state = s,
                    ![n].epoch = IF s.role = "Leader" THEN group.epoch + 1 ELSE 0]
    /\ UNCHANGED <<budget, group, chan, report, table, root, due, hub, client>>

collect_group_detail(n) ==
    /\ hb[n].pc = "wait"
    /\ LET s == group.replica[hb[n].node]
       IN  hb' = [hb EXCEPT ![n].pc = "list", ![n].state = s,
                    ![n].epoch = IF s.role = "Leader" THEN group.epoch ELSE 0]
    /\ UNCHANGED <<budget, group, chan, report, table, root, due, hub, client>>

BeatList(n) ==
    /\ hb[n].pc = "list" /\ root.leader = n
    /\ hb' = [hb EXCEPT ![n].pc = IF hb[n].epoch > table.epoch THEN "desc" ELSE "read"]
    /\ UNCHANGED <<budget, group, chan, report, table, root, due, hub, client>>

BeatPutDesc(n) ==
    /\ hb[n].pc = "desc" /\ root.leader = n
    /\ table' = [table EXCEPT !.epoch = hb[n].epoch]
    /\ hb' = [hb EXCEPT ![n].pc = "read", ![n].events = <<GroupEvent(hb[n].epoch)>>]
    /\ UNCHANGED <<budget, group, chan, report, root, due, hub, client>>

BeatRead(n) ==
    /\ hb[n].pc = "read" /\ root.leader = n
    /\ hb' = [hb EXCEPT ![n].pc = IF KnownState(table.state[hb[n].node], hb[n].state)
                                  THEN "states" ELSE "put"]
    /\ UNCHANGED <<budget, group, chan, report, table, root, due, hub, client>>

BeatPut(n) ==
    /\ hb[n].pc = "put" /\ root.leader = n
    /\ table' = [table EXCEPT !.state[hb[n].node] = hb[n].state]
    /\ hb' = [hb EXCEPT ![n].pc = "states", ![n].changed = TRUE]
    /\ UNCHANGED <<budget, group, chan, report, root, due, hub, client>>

BeatStates(n) ==
    /\ hb[n].pc = "states" /\ root.leader = n
    /\ hb' = [hb EXCEPT ![n].pc = IF hb[n].events # <<>> \/ hb[n].changed THEN "notify" ELSE "done",
                ![n].events = IF hb[n].changed THEN Append(@, list_group_state) ELSE @]
    /\ UNCHANGED <<budget, group, chan, report, table, root, due, hub, client>>

BeatNotify(n) ==
    /\ hb[n].pc = "notify"
    /\ notify(n, hb[n].events)
    /\ hb' = [hb EXCEPT ![n].pc = "done", ![n].events = <<>>]
    /\ UNCHANGED <<budget, group, chan, report, table, root, due, client>>

\* try_schedule does nothing unless the queue is enabled.
BeatDone(n) ==
    /\ hb[n].pc = "done"
    /\ due' = IF n \in root.core THEN [due EXCEPT ![n] = Append(@, hb[n].node)] ELSE due
    /\ hb' = [hb EXCEPT ![n] = NoBeat]
    /\ UNCHANGED <<budget, group, chan, report, table, root, hub, client>>

BeatFails(n) ==
    /\ hb[n].pc \in {"list", "desc", "read", "put", "states"} /\ root.leader # n
    /\ hb' = [hb EXCEPT ![n] = NoBeat]
    /\ UNCHANGED <<budget, group, chan, report, table, root, due, hub, client>>

\* The node does not answer: it is scheduled again.
BeatLost(n) ==
    /\ hb[n].pc = "wait" /\ Spend("lost")
    /\ hb' = [hb EXCEPT ![n].pc = "done"]
    /\ UNCHANGED <<group, chan, report, table, root, due, hub, client>>

BeatStep(n) ==
    \/ send_heartbeat(n) \/ collect_group_detail(n) \/ BeatList(n) \/ BeatPutDesc(n)
    \/ BeatRead(n) \/ BeatPut(n) \/ BeatStates(n) \/ BeatNotify(n) \/ BeatDone(n) \/ BeatFails(n)

-----------------------------------------------------------------------------
(* The client that watches.  create_watcher keeps the write guard of the   *)
(* hub until the rows are listed, so that no change falls in between.      *)

create_watcher(n) ==
    /\ client.pc = "idle" /\ budget.watches /\ n \in root.core /\ ~hub[n].guard
    /\ hub' = [hub EXCEPT ![n] = [guard |-> TRUE, watcher |-> TRUE, updates |-> <<>>]]
    /\ client' = [client EXCEPT !.pc = "groups", !.at = n]
    /\ UNCHANGED <<budget, group, chan, report, table, root, due, hb>>

\* Only groups of a newer epoch than the client's are listed, and only their states.
WatchListGroups ==
    /\ client.pc = "groups" /\ root.leader = client.at
    /\ \/ /\ table.epoch > client.epoch
          /\ hub' = [hub EXCEPT ![client.at].updates = Append(@, GroupEvent(table.epoch))]
          /\ client' = [client EXCEPT !.pc = "states"]
       \/ /\ table.epoch <= client.epoch
          /\ hub' = [hub EXCEPT ![client.at].guard = FALSE]
          /\ client' = [client EXCEPT !.pc = "stream"]
    /\ UNCHANGED <<budget, group, chan, report, table, root, due, hb>>

WatchListStates ==
    /\ client.pc = "states" /\ root.leader = client.at
    /\ hub' = [hub EXCEPT ![client.at].updates = Append(@, list_group_state),
                          ![client.at].guard = FALSE]
    /\ client' = [client EXCEPT !.pc = "stream"]
    /\ UNCHANGED <<budget, group, chan, report, table, root, due, hb>>

\* The watcher is dropped: notify passes over it from now on.
WatchEnds ==
    /\ hub' = [hub EXCEPT ![client.at] = [guard |-> FALSE, watcher |-> FALSE, updates |-> <<>>]]
    /\ client' = [client EXCEPT !.pc = "idle", !.at = None]
    /\ UNCHANGED <<group, chan, report, table, root, due, hb>>
WatchFails ==
    /\ client.pc \in {"groups", "states"} /\ root.leader # client.at
    /\ WatchEnds
    /\ UNCHANGED budget
StreamBreaks ==
    /\ client.pc = "stream" /\ Spend("reconnects")
    /\ WatchEnds

apply_update_event(view, event) ==
    IF event.kind = "group"
    THEN [view EXCEPT !.epoch = event.epoch, !.seen = IF event.epoch > @ THEN event.epoch ELSE @]
    ELSE [view EXCEPT !.leader = event.leader]

\* poll_next takes all the updates at once; watch_events applies them in order.
watch_events ==
    /\ client.pc = "stream" /\ hub[client.at].updates # <<>>
    /\ client' = FoldLeft(apply_update_event, client, hub[client.at].updates)
    /\ hub' = [hub EXCEPT ![client.at].updates = <<>>]
    /\ UNCHANGED <<budget, group, chan, report, table, root, due, hb>>

ClientStep ==
    \/ \E n \in Roots : create_watcher(n)
    \/ WatchListGroups \/ WatchListStates \/ WatchFails \/ watch_events

-----------------------------------------------------------------------------
Next ==
    \/ \E r \in Replicas : on_descriptor_updated(r) \/ Campaign(r) \/ Win(r) \/ Follow(r)
    \/ \E n \in Roots : MoveRoot(n) \/ step_leader(n) \/ drop_leader(n)
    \/ \E r \in Replicas : ReportStep(r) \/ ReportBreaks(r)
    \/ \E n \in Roots : BeatStep(n) \/ BeatLost(n)
    \/ ClientStep \/ StreamBreaks

Spec == Init /\ [][Next]_vars

-----------------------------------------------------------------------------
Roles == {"Follower", "Candidate", "Leader"}
IsState(s) == s.term \in Nat /\ s.role \in Roles

\* The shape of the state: tasks, rows, queues and the client's view of the group.
TypeOK ==
    /\ \A r \in Replicas : IsState(group.replica[r]) /\ IsState(table.state[r])
    /\ table.epoch \in 1..group.epoch
    /\ root.leader \in Roots /\ root.core \subseteq Roots
    /\ \A r \in Replicas : report[r].pc \in {"idle", "send", "read", "put", "list", "notify"}
    /\ \A n \in Roots : /\ hb[n].pc \in {"idle", "wait", "list", "desc", "read", "put",
                                         "states", "notify", "done"}
                        /\ due[n] \in Seq(Replicas)
    /\ client.pc \in {"idle", "groups", "states", "stream"}
    /\ client.at \in Roots \cup {None}

\* A handler of root node n has written and has not told the watchers yet.
Unsent(n) ==
    \/ \E r \in Replicas : report[r].at = n /\ report[r].events # <<>>
    \/ hb[n].events # <<>>
QueuedEpochs(n) == {hub[n].updates[i].epoch : i \in DOMAIN hub[n].updates}

Fresh == client.pc = "stream" /\ client.at = root.leader

\* A change that is in the rows is known to a watcher of the root leader:
\* the router has seen it, it is in the watcher's updates, or a handler
\* that has written is about to notify (Root::watch lists the rows under
\* the guard of the hub, and every writer notifies after its write).
NothingIsMissed ==
    Fresh /\ ~Unsent(client.at) =>
        \E e \in QueuedEpochs(client.at) \cup {client.seen} : e >= table.epoch

(* The rows end up as the group is, though two handlers that have each     *)
(* compared an epoch or a term with a row may write the older one last:    *)
(* the next heartbeat writes the newer one again.                          *)
RootIsCurrent == table = [epoch |-> group.epoch, state |-> group.replica]

(* A client whose stream is with the root leader ends up with the newest   *)
(* descriptor of the group, although two handlers may notify in the wrong  *)
(* order (apply_group_descriptor keeps the newest epoch for the shards).   *)
WatcherIsCurrent == client.at = root.leader /\ budget.watches => client.seen = group.epoch

=============================================================================
