----------------------------- MODULE RootClient -----------------------------
(***************************************************************************)
(* How a client finds the leader of the root group: the shared core with   *)
(* the cached root descriptor and the index of its leader, the fast path   *)
(* (ask the cached leader), the slow path (ask every root node) and the    *)
(* refresh through the nodes that the discovery lists                      *)
(* (src/client/src/rpc/root_client.rs).  Several requests share one core   *)
(* and work on copies of it.  The root nodes fail, elect leaders, are      *)
(* replaced, and send their descriptor to the nodes with heartbeats that   *)
(* may arrive out of order (src/server/src/root/heartbeat.rs,              *)
(* src/server/src/node/mod.rs).  Only the epoch of a descriptor and the    *)
(* order of its nodes matter here.                                         *)
(***************************************************************************)
EXTENDS Integers, SequencesExt

CONSTANTS
    Roots,      \* Roots[e]: the nodes of the root group in epoch e
    Nodes,
    Discovery,  \* the nodes the discovery lists, in order
    Requests,
    MaxMail,    \* a bound on the heartbeats under way
    Scenarios   \* the faults of one behaviour, and its requests

None == 0
Epochs == 1 .. Len(Roots)

VARIABLES
    root,   \* the root group: epoch, leader, term and the fallen nodes
    hasCore,\* the nodes whose Root holds a RootCore
    view,   \* view[n]: the root descriptor node n has saved
    mail,   \* heartbeats under way
    core,   \* ClientShared.core
    lock,   \* the request that holds refresh_descriptor_lock
    req,    \* one record per request
    budget

vars == <<root, hasCore, view, mail, core, lock, req, budget>>
clusterVars == <<root, hasCore, view, mail>>
clientVars == <<core, lock, req>>

Spend(f) == budget' = [budget EXCEPT ![f] = @ - 1]
NoRoot == [epoch |-> 0, nodes |-> <<>>]
EmptyCore == [leader |-> None, term |-> 0, root |-> NoRoot]
NewRequest == [pc |-> "idle", core |-> EmptyCore, save |-> FALSE, pos |-> 0, result |-> "none"]

\* A client that has asked the l-th root node before.
CachedCore(l) == [leader |-> l, term |-> 0, root |-> [epoch |-> 1, nodes |-> Roots[1]]]

\* Every node of the first root descriptor is up, has it, and one of them leads.
Init ==
    /\ budget \in Scenarios
    /\ root = [epoch |-> 1, leader |-> Roots[1][1], term |-> 1, down |-> {}]
    /\ hasCore = {Roots[1][1]}
    /\ view = [n \in Nodes |-> [epoch |-> 1, nodes |-> Roots[1]]]
    /\ mail = {}
    /\ core \in {EmptyCore} \cup {CachedCore(l) : l \in budget.cached}
    /\ lock = None
    /\ req = [i \in Requests |-> [NewRequest EXCEPT !.pc = IF i \in budget.reqs THEN @ ELSE "done"]]

-----------------------------------------------------------------------------
(* The root group *)

Members == ToSet(Roots[root.epoch])

\* A node that is not the only one the discovery can still reach stops for good.
NodeFails ==
    /\ budget.fails > 0
    /\ \E n \in Nodes \ root.down :
        /\ \E m \in ToSet(Discovery) \ {n} : m \notin root.down
        /\ root' = [root EXCEPT !.down = @ \cup {n}, !.leader = IF @ = n THEN None ELSE @]
        /\ hasCore' = hasCore \ {n}
    /\ Spend("fails")
    /\ UNCHANGED <<view, mail, clientVars>>

Elect(n) ==
    /\ n \in Members \ root.down
    /\ root' = [root EXCEPT !.leader = n, !.term = @ + 1]
    /\ UNCHANGED <<hasCore, view, mail, clientVars>>

ElectFirst == root.leader = None /\ (\E n \in Members : Elect(n)) /\ UNCHANGED budget
Depose == budget.elects > 0 /\ root.leader # None /\ (\E n \in Members \ {root.leader} : Elect(n)) /\ Spend("elects")

\* The new leader has read its schema; one that was deposed drops its core later.
Serve ==
    /\ root.leader # None /\ root.leader \notin hasCore
    /\ hasCore' = hasCore \cup {root.leader}
    /\ UNCHANGED <<root, view, mail, clientVars, budget>>
StepDown(n) ==
    /\ n \in hasCore /\ n # root.leader
    /\ hasCore' = hasCore \ {n}
    /\ UNCHANGED <<root, view, mail, clientVars, budget>>

\* A change of the configuration of the root group: its leader stays a member.
ReplaceRoots ==
    /\ budget.replaces > 0
    /\ root.epoch < Len(Roots)
    /\ root.leader # None /\ root.leader \in ToSet(Roots[root.epoch + 1])
    /\ root' = [root EXCEPT !.epoch = @ + 1]
    /\ Spend("replaces")
    /\ UNCHANGED <<hasCore, view, mail, clientVars>>

IndexOf(nodes, n) == CHOOSE k \in DOMAIN nodes : nodes[k] = n

\* ReplicaNodes::move_first swaps the node to the front.
move_first(nodes, n) ==
    IF n \in ToSet(nodes)
    THEN [nodes EXCEPT ![1] = n, ![IndexOf(nodes, n)] = nodes[1]]
    ELSE nodes

\* The descriptor that the serving leader puts on its heartbeats.
RootDesc == [epoch |-> root.epoch, nodes |-> move_first(Roots[root.epoch], root.leader)]

SendHeartbeat(n) ==
    /\ root.leader \in hasCore
    /\ view[n] # RootDesc
    /\ [to |-> n, root |-> RootDesc] \notin mail /\ Cardinality(mail) < MaxMail
    /\ mail' = mail \cup {[to |-> n, root |-> RootDesc]}
    /\ UNCHANGED <<root, hasCore, view, clientVars, budget>>

\* Node::update_root saves whatever arrives, an older descriptor too.
update_root(n) ==
    \E m \in mail :
        /\ m.to = n
        /\ mail' = mail \ {m}
        /\ view' = [view EXCEPT ![n] = IF n \in root.down THEN @ ELSE m.root]
        /\ UNCHANGED <<root, hasCore, clientVars, budget>>

-----------------------------------------------------------------------------
(* The answer of a node to a request of the root service *)

NotRoot(n, term, leader) ==
    [code |-> "notroot", root |-> view[n], term |-> term, leader |-> leader]
NotAvailable == [code |-> "notavailable", root |-> NoRoot, term |-> 0, leader |-> None]
Ok == [code |-> "ok", root |-> NoRoot, term |-> 0, leader |-> None]

\* Root::wrap.  Without a core a node knows neither term nor leader; with one
\* that is out of date its replica refuses, and may or may not know the leader.
Answers(n) ==
    IF n \in root.down THEN {NotAvailable}
    ELSE IF n \notin hasCore THEN {NotRoot(n, 0, None)}
    ELSE IF n # root.leader THEN {NotRoot(n, root.term, l) : l \in {None, root.leader}}
    ELSE {Ok}

-----------------------------------------------------------------------------
(* A request *)

\* ClientCore::apply_leader
apply_leader(c, leader, term) ==
    IF leader \in ToSet(c.root.nodes)
    THEN [c EXCEPT !.leader = IndexOf(c.root.nodes, leader), !.term = term]
    ELSE c

\* Client::apply_core
apply_core_any(c) == c
apply_core(c) == IF core.root.epoch <= c.root.epoch THEN c ELSE core

Begin(i) ==
    /\ req[i].pc = "idle"
    /\ req' = [req EXCEPT ![i] = [@ EXCEPT !.core = core, !.pc = "loop"]]
    /\ UNCHANGED <<clusterVars, core, lock, budget>>

\* The top of the loop: the fast path is taken when a leader is known.
Loop(i) ==
    /\ req[i].pc = "loop"
    /\ req' = [req EXCEPT ![i].pc = IF req[i].core.leader # None THEN "fast" ELSE "slow", ![i].pos = 1]
    /\ UNCHANGED <<clusterVars, core, lock, budget>>

Finished(r) == [r EXCEPT !.pc = "done", !.result = "ok"]

FastNotRoot(r, a) ==
    LET newer == r.core.root.epoch <= a.root.epoch
        c == IF newer THEN [r.core EXCEPT !.leader = None, !.root = a.root] ELSE r.core
    IN IF newer /\ a.leader # None /\ c.term < a.term
       THEN [r EXCEPT !.core = apply_leader(c, a.leader, a.term), !.save = TRUE, !.pc = "loop"]
       ELSE [r EXCEPT !.core = c, !.pc = "slow"]

NextAddress(r) == [r EXCEPT !.pos = @ + 1]

\* What a NotRoot answer to the slow path makes of it.
SlowNotRoot(r, a) ==
    LET c == [r.core EXCEPT !.leader = None, !.root = a.root]
        named == a.leader # None /\ c.term < a.term
    IN IF r.core.root.epoch < a.root.epoch
       THEN [r EXCEPT !.core = IF named THEN apply_leader(c, a.leader, a.term) ELSE c,
                      !.save = @ \/ named, !.pc = "loop"]
       ELSE NextAddress(r)

\* An answer can be lost: the client sees a timeout of what the root has done.
Heard(a) == {a} \cup (IF a.code = "ok" /\ budget.lost > 0 THEN {NotAvailable} ELSE {})
PayFor(a, heard) == IF heard = a THEN UNCHANGED budget ELSE Spend("lost")

Fast(i) ==
    /\ req[i].pc = "fast"
    /\ \E a \in Answers(req[i].core.root.nodes[req[i].core.leader]) : \E heard \in Heard(a) :
        /\ req' = [req EXCEPT ![i] =
             CASE heard.code = "ok" -> Finished(@)
               [] heard.code = "notroot" -> FastNotRoot(@, heard)
               [] heard.code = "notavailable" -> [@ EXCEPT !.pc = "slow"]]
        /\ core' = IF heard.code = "ok" /\ req[i].save THEN apply_core(req[i].core) ELSE core
        /\ PayFor(a, heard)
    /\ UNCHANGED <<clusterVars, lock>>

\* The cached leader was asked already and is left out.
SkipLeader(i) ==
    /\ req[i].pc = "slow" /\ req[i].pos <= Len(req[i].core.root.nodes)
    /\ req[i].pos = req[i].core.leader
    /\ req' = [req EXCEPT ![i].pos = @ + 1]
    /\ UNCHANGED <<clusterVars, core, lock, budget>>

Slow(i) ==
    /\ req[i].pc = "slow" /\ req[i].pos <= Len(req[i].core.root.nodes)
    /\ req[i].pos # req[i].core.leader
    /\ \E a \in Answers(req[i].core.root.nodes[req[i].pos]) : \E heard \in Heard(a) :
        /\ req' = [req EXCEPT ![i] =
             CASE heard.code = "ok" -> Finished(@)
               [] heard.code = "notroot" -> SlowNotRoot(@, heard)
               [] heard.code = "notavailable" -> NextAddress(@)]
        /\ core' = IF heard.code = "ok" THEN apply_core([req[i].core EXCEPT !.leader = req[i].pos]) ELSE core
        /\ PayFor(a, heard)
    /\ UNCHANGED <<clusterVars, lock>>

\* Client::refresh_client_core: one request at a time; what another one has
\* found meanwhile is taken over.
Refresh_unlocked(i) ==
    /\ req[i].pc = "slow" /\ req[i].pos > Len(req[i].core.root.nodes)
    /\ req' = [req EXCEPT ![i] = [@ EXCEPT !.pos = 1, !.pc = "refresh"]]
    /\ UNCHANGED <<clusterVars, core, lock, budget>>

Refresh(i) ==
    /\ req[i].pc = "slow" /\ req[i].pos > Len(req[i].core.root.nodes)
    /\ lock = None
    /\ \/ /\ core.root.epoch > req[i].core.root.epoch
          /\ req' = [req EXCEPT ![i] = [@ EXCEPT !.core = core, !.pc = "loop"]]
          /\ UNCHANGED lock
       \/ /\ core.root.epoch <= req[i].core.root.epoch
          /\ req' = [req EXCEPT ![i] = [@ EXCEPT !.pos = 1, !.pc = "refresh"]]
          /\ lock' = i
    /\ UNCHANGED <<clusterVars, core, budget>>

\* Client::refresh_root_descriptor: the next node of the discovery.
RefreshNode(i) ==
    /\ req[i].pc = "refresh"
    /\ \/ /\ req[i].pos > Len(Discovery)
          /\ req' = [req EXCEPT ![i].pc = "loop"]
          /\ lock' = None
       \/ /\ req[i].pos <= Len(Discovery)
          /\ LET n == Discovery[req[i].pos] IN
             IF n \notin root.down /\ view[n].epoch > req[i].core.root.epoch
             THEN /\ req' = [req EXCEPT ![i] =
                        [@ EXCEPT !.core = [@ EXCEPT !.leader = None, !.root = view[n]], !.pc = "loop"]]
                  /\ lock' = None
             ELSE req' = [req EXCEPT ![i].pos = @ + 1] /\ UNCHANGED lock
    /\ UNCHANGED <<clusterVars, core, budget>>

RequestStep(i) ==
    Begin(i) \/ Loop(i) \/ Fast(i) \/ SkipLeader(i) \/ Slow(i) \/ Refresh(i) \/ RefreshNode(i)

Next ==
    \/ NodeFails \/ ElectFirst \/ Depose \/ Serve \/ ReplaceRoots
    \/ \E n \in Nodes : StepDown(n) \/ SendHeartbeat(n) \/ update_root(n)
    \/ \E i \in Requests : RequestStep(i)

Spec == Init /\ [][Next]_vars

-----------------------------------------------------------------------------
\* A descriptor: the nodes of its epoch, in some order.
DescOK(d) ==
    \/ d = NoRoot
    \/ /\ d.epoch \in Epochs
       /\ Len(d.nodes) = Len(Roots[d.epoch]) /\ ToSet(d.nodes) = ToSet(Roots[d.epoch])
CoreType(c) == DescOK(c.root) /\ c.leader \in 0 .. Max({Len(Roots[e]) : e \in Epochs}) /\ c.term \in Nat

\* The types of the state.
TypeOK ==
    /\ root.epoch \in Epochs /\ root.leader \in Nodes \cup {None} /\ root.down \subseteq Nodes
    /\ hasCore \subseteq Nodes
    /\ \A n \in Nodes : DescOK(view[n])
    /\ \A m \in mail : m.to \in Nodes /\ DescOK(m.root)
    /\ CoreType(core)
    /\ lock \in Requests \cup {None}
    /\ \A i \in Requests : (lock = i) = (req[i].pc = "refresh")
    /\ \A i \in Requests :
        /\ CoreType(req[i].core)
        /\ req[i].pc \in {"idle", "loop", "fast", "slow", "refresh", "done"}
        /\ req[i].save \in BOOLEAN /\ req[i].pos \in 0 .. 4

\* invoke_with_timeout indexes root_nodes with the cached leader: the index
\* belongs to the descriptor beside it, in the shared core and in every copy, so
\* a replaced descriptor never keeps the leader of the one before.
LeaderIsListed ==
    /\ core.leader \in 0 .. Len(core.root.nodes)
    /\ \A i \in Requests : req[i].core.leader \in 0 .. Len(req[i].core.root.nodes)
    /\ \A i \in Requests : req[i].pc = "fast" => req[i].core.leader # None

\* A request that ends with an older descriptor than the one another request has
\* saved meanwhile does not overwrite it: the epoch of the shared core only grows
\* (Client::apply_core), and so does the epoch of each request's copy, however
\* old the descriptors are that the nodes answer with.
EpochsGrow ==
    [][/\ core'.root.epoch >= core.root.epoch
       /\ \A i \in Requests : req'[i].core.root.epoch >= req[i].core.root.epoch]_vars

\* Once faults stop, every request reaches the leader: neither the jumps back to
\* the top of the loop on a newer descriptor or a newer term, nor the wait for
\* the refresh lock, go on for ever.
RequestsAreOver == \A i \in Requests : req[i].pc = "done"
=============================================================================
