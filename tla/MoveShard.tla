------------------------------ MODULE MoveShard -----------------------------
(***************************************************************************)
(* Moving a shard from one group to another while clients write to it      *)
(* (server/src/node/move_shard, replica/move_shard.rs, replica/fsm,        *)
(* node/mod.rs, client/src/move_shard_client.rs).                          *)
(*                                                                         *)
(* The root asks the destination to accept the shard.  The destination's   *)
(* leader sets the source up, pulls the shard key by key, commits itself,  *)
(* tells the source to move the shard out, and applies; the source deletes *)
(* what it moved out, and applies.  From its setup on the source forwards  *)
(* every request to the destination, with the row of the key, which the    *)
(* destination ingests unless it has a row of that key.                    *)
(*                                                                         *)
(* Grain: a proposal is evaluated under the latch or the acl guard that it *)
(* holds until it is applied, so a proposal is one step; each await of a   *)
(* coordinator or of a forwarded request ends a step.  A group is its      *)
(* applied state; of a replica only what LeaseState says of the move, and  *)
(* its coordinator with its channel.  A chunk is the row of one key.       *)
(***************************************************************************)
EXTENDS Naturals, FiniteSets, Sequences

CONSTANTS
    SrcReplica, DstReplica,  \* replicas of the source and of the destination
    NKey,                    \* the keys of the shard, in order: 1 .. NKey
    Request,                 \* requests of the clients
    KeyOf, Kind,             \* key and kind of a request: "put" or "commit"
    Base, Intent,            \* entries of a row: a version, the intent of a transaction
    Row0,                    \* the rows of the shard at the start
    MaxMove,                 \* bound on the moves the root asks for
    MaxFault,                \* bound on configuration and leader changes, lags and restarts
    Calm                     \* nothing hits a move at its weak spots, see below

Key == 1 .. NKey
Group == {"src", "dst"}
Replica == SrcReplica \cup DstReplica
Members(g) == IF g = "src" THEN SrcReplica ELSE DstReplica
GroupOf(r) == IF r \in SrcReplica THEN "src" ELSE "dst"

Row == SUBSET ({Base, Intent} \cup Request)
Epoch == 0 .. MaxFault + 2 * MaxMove
Desc == [src : Epoch, dst : Epoch]
Step == {"prepare", "moving", "moved"}
MoveState == [desc : Desc, step : Step, last : 0 .. NKey]
NoDesc == [src |-> 0, dst |-> 0]
NoState == [desc |-> NoDesc, step |-> "none", last |-> 0]

ASSUME MoveShardAssumption ==
    /\ SrcReplica \cap DstReplica = {}
    /\ SrcReplica # {} /\ DstReplica # {}
    /\ NKey \in Nat \ {0}
    /\ KeyOf \in [Request -> Key]
    /\ Kind \in [Request -> {"put", "commit"}]
    /\ Base # Intent /\ {Base, Intent} \cap Request = {}
    /\ Row0 \in [Key -> SUBSET {Base, Intent}]
    /\ MaxMove \in Nat /\ MaxFault \in Nat
    /\ Calm \in BOOLEAN

VARIABLES
    epoch,     \* GroupDesc::epoch of each group
    serves,    \* is the shard in GroupDesc::shards?
    state,     \* MoveShardState of each group, as applied
    data,      \* the rows each group stores
    leader,    \* the replica of each group that is ready to serve
    lease,     \* LeaseState::move_shard_state of each replica
    lag,       \* followers that do not get the log
    inbox,     \* move_shard_state_subscriber of each replica
    coord,     \* what the MoveShardCoordinator of each replica is doing
    request,   \* how far each request is
    payload,   \* the row a forwarded request carries
    moves,     \* moves the root has asked for
    faults     \* configuration and leader changes, lags and restarts so far

groupVars == <<epoch, serves, state, data>>
replicaVars == <<leader, lease, lag, inbox>>
clientVars == <<request, payload>>
bounds == <<moves, faults>>
vars == <<groupVars, replicaVars, coord, clientVars, bounds>>

Idle == [pc |-> "idle", desc |-> NoDesc, last |-> 0, key |-> 0, row |-> {}]

(***************************************************************************)
(* What the state machine and its observer do with an event.               *)
(***************************************************************************)

\* Every replica that gets the log stores the state, and the leader's coordinator is told.
Publish(g, s) ==
    /\ state' = [state EXCEPT ![g] = s]
    /\ lease' = [r \in Replica |-> IF r \in Members(g) \ lag THEN s ELSE lease[r]]
    /\ inbox' = IF s = NoState THEN inbox ELSE [inbox EXCEPT ![leader[g]] = Append(@, s)]
    /\ UNCHANGED <<leader, lag>>

\* The Ingest event: only the first one is an update the observer hears of.
Ingest(g, k) ==
    IF state[g].step = "prepare"
    THEN Publish(g, [state[g] EXCEPT !.step = "moving", !.last = k])
    ELSE /\ state' = [state EXCEPT ![g].last = k]
         /\ UNCHANGED replicaVars

Max(S) == CHOOSE x \in S : \A y \in S : y <= x

\* The Apply event: the shard changes hands in the descriptor, under an epoch above both.
ApplyMoved(g) ==
    /\ epoch' = [epoch EXCEPT ![g] = 1 + Max({epoch[g], state[g].desc.src, state[g].desc.dst})]
    /\ serves' = [serves EXCEPT ![g] = g = "dst"]
    /\ Publish(g, NoState)

Ready(r) == leader[GroupOf(r)] = r
Moving(r) == lease[r] # NoState
SameMove(r, d) == Moving(r) /\ lease[r].desc = d

Rests(r) == coord' = [coord EXCEPT ![r] = Idle]
Goes(r, pc) == coord' = [coord EXCEPT ![r].pc = pc]

(***************************************************************************)
(* The coordinator.                                                        *)
(***************************************************************************)

\* The root asks the destination for the shard, with an epoch of the source it has heard of.
AcceptShard(e) ==
    /\ moves < MaxMove
    /\ e <= epoch["src"] /\ (e = epoch["src"] => serves["src"])
    /\ ~serves["dst"]
    /\ ~Moving(leader["dst"])
    /\ Publish("dst", [desc |-> [src |-> e, dst |-> epoch["dst"]], step |-> "prepare", last |-> 0])
    /\ moves' = moves + 1
    /\ UNCHANGED <<epoch, serves, data, coord, clientVars, faults>>

\* Mutant: the destination applies the move before the source is told.
StepOfHasty(r, s) ==
    CASE GroupOf(r) = "dst" /\ s.step = "prepare" -> "acquire"
      [] GroupOf(r) = "dst" /\ s.step = "moving" -> "pull"
      [] GroupOf(r) = "dst" /\ s.step = "moved" -> "finish"
      [] OTHER -> "idle"

StepOf(r, s) ==
    CASE GroupOf(r) = "dst" /\ s.step = "prepare" -> "acquire"
      [] GroupOf(r) = "dst" /\ s.step = "moving" -> "pull"
      [] GroupOf(r) = "dst" /\ s.step = "moved" -> "move_out"
      [] GroupOf(r) = "src" /\ s.step = "moved" -> "gc"
      [] OTHER -> "idle"

\* The coordinator takes the next state off its channel and starts the step for it.
NextStep(r) ==
    /\ coord[r].pc = "idle" /\ inbox[r] # <<>>
    /\ inbox' = [inbox EXCEPT ![r] = Tail(@)]
    /\ LET s == Head(inbox[r])
       IN  coord' = [coord EXCEPT ![r] =
               [Idle EXCEPT !.pc = StepOf(r, s), !.desc = s.desc, !.last = IF s.step = "moving" THEN s.last ELSE 0]]
    /\ UNCHANGED <<groupVars, leader, lease, lag, clientVars, bounds>>

\* check_moving_shard_setup on the source's leader.
MustRollback(d) ==
    LET s == leader["src"]
    IN  d.src < epoch["src"] \/ (Moving(s) /\ ~SameMove(s, d))

\* Mutant: an answer that is lost is taken for a refusal.
AcquireGivesUp(r) ==
    /\ coord[r].pc = "acquire"
    /\ IF MustRollback(coord[r].desc) \/ Moving(leader["src"])
       THEN UNCHANGED <<state, replicaVars>>
       ELSE Publish("src", [desc |-> coord[r].desc, step |-> "prepare", last |-> 0])
    /\ IF MustRollback(coord[r].desc) THEN Goes(r, "abort") ELSE Goes(r, "enter") \/ Goes(r, "abort")
    /\ UNCHANGED <<epoch, serves, data, clientVars, bounds>>

\* acquire_shard reaches the source's leader; its answer may be lost, and then it is sent again.
Acquire(r) ==
    /\ coord[r].pc = "acquire"
    /\ LET d == coord[r].desc
       IN  \/ /\ MustRollback(d)
              /\ Goes(r, "abort")
              /\ UNCHANGED <<state, replicaVars>>
           \/ /\ ~MustRollback(d)
              /\ IF Moving(leader["src"])
                 THEN UNCHANGED <<state, replicaVars>>
                 ELSE Publish("src", [desc |-> d, step |-> "prepare", last |-> 0])
              /\ Goes(r, "enter") \/ UNCHANGED coord
    /\ UNCHANGED <<epoch, serves, data, clientVars, bounds>>

EnterPulling(r) ==
    /\ coord[r].pc = "enter"
    /\ IF Ready(r) /\ SameMove(r, coord[r].desc)
       THEN Ingest("dst", 0)
       ELSE UNCHANGED <<state, replicaVars>>
    /\ Rests(r)
    /\ UNCHANGED <<epoch, serves, data, clientVars, bounds>>

Abort(r) ==
    /\ coord[r].pc = "abort"
    /\ IF Ready(r) /\ SameMove(r, coord[r].desc)
       THEN Publish("dst", NoState)
       ELSE UNCHANGED <<state, replicaVars>>
    /\ Rests(r)
    /\ UNCHANGED <<epoch, serves, data, clientVars, bounds>>

Knows(g) == serves[g] \/ state[g] # NoState
KeysAfter(g, k) == {j \in Key : j > k /\ data[g][j] # {}}
First(S) == CHOOSE j \in S : \A i \in S : j <= i

\* A chunk is read on the source's leader; no chunk ends the pull.
PullChunk(r) ==
    /\ coord[r].pc = "pull" /\ Knows("src")
    /\ LET left == KeysAfter("src", coord[r].last)
       IN  IF left = {}
           THEN Goes(r, "commit")
           ELSE coord' = [coord EXCEPT ![r].pc = "ingest", ![r].key = First(left),
                                       ![r].row = data["src"][First(left)]]
    /\ UNCHANGED <<groupVars, replicaVars, clientVars, bounds>>

\* Mutants: the row replaces the entries of the group, or is added to them.
IngestedOver(k, row) == data' = [data EXCEPT !["dst"][k] = row]

\* ingest_value_set: the row is stored unless the group has entries of the key.
Ingested(k, row) ==
    data' = IF data["dst"][k] = {} THEN [data EXCEPT !["dst"][k] = row] ELSE data

IngestChunk(r) ==
    /\ coord[r].pc = "ingest"
    /\ IF Ready(r) /\ Moving(r)
       THEN Ingested(coord[r].key, coord[r].row) /\ Goes(r, "save")
       ELSE Rests(r) /\ UNCHANGED data
    /\ UNCHANGED <<epoch, serves, state, replicaVars, clientVars, bounds>>

SaveProgress(r) ==
    /\ coord[r].pc = "save"
    /\ IF Ready(r) /\ Moving(r)
       THEN /\ Ingest("dst", coord[r].key)
            /\ coord' = [coord EXCEPT ![r].pc = "pull", ![r].last = coord[r].key,
                                      ![r].key = 0, ![r].row = {}]
       ELSE Rests(r) /\ UNCHANGED <<state, replicaVars>>
    /\ UNCHANGED <<epoch, serves, data, clientVars, bounds>>

\* is_moving_shard_finished: the descriptor says that the shard has changed hands since.
Finished(g, d) ==
    IF g = "src" THEN d.src < epoch[g] /\ ~serves[g] ELSE d.dst < epoch[g] /\ serves[g]

\* check_moving_shard_commit says no error.
Committable(g, d) == Finished(g, d) \/ SameMove(leader[g], d)

Commit(g, d) ==
    IF Finished(g, d) \/ lease[leader[g]].step = "moved"
    THEN UNCHANGED <<state, replicaVars>>
    ELSE Publish(g, [state[g] EXCEPT !.step = "moved"])

CommitDest(r) ==
    /\ coord[r].pc = "commit"
    /\ IF Ready(r) /\ Committable("dst", coord[r].desc)
       THEN Commit("dst", coord[r].desc)
       ELSE UNCHANGED <<state, replicaVars>>
    /\ Rests(r)
    /\ UNCHANGED <<epoch, serves, data, clientVars, bounds>>

\* move_out reaches the source's leader; its answer may be lost, and then it is sent again.
MoveOut(r) ==
    /\ coord[r].pc = "move_out"
    /\ \/ /\ Committable("src", coord[r].desc)
          /\ Commit("src", coord[r].desc)
          /\ Goes(r, "finish") \/ UNCHANGED coord
       \/ /\ ~Committable("src", coord[r].desc)
          /\ Rests(r)
          /\ UNCHANGED <<state, replicaVars>>
    /\ UNCHANGED <<epoch, serves, data, clientVars, bounds>>

\* remove_shard: the source deletes the rows it stores, from the first key to the last.
CollectChunk(r) ==
    /\ coord[r].pc = "gc"
    /\ LET left == KeysAfter("src", coord[r].last)
       IN  IF left = {}
           THEN Goes(r, "finish")
           ELSE coord' = [coord EXCEPT ![r].pc = "delete", ![r].key = First(left),
                                       ![r].row = data["src"][First(left)]]
    /\ UNCHANGED <<groupVars, replicaVars, clientVars, bounds>>

DeleteChunk(r) ==
    /\ coord[r].pc = "delete"
    /\ IF Ready(r) /\ Moving(r)
       THEN /\ data' = [data EXCEPT !["src"][coord[r].key] = @ \ coord[r].row]
            /\ coord' = [coord EXCEPT ![r].pc = "gc", ![r].last = coord[r].key,
                                      ![r].key = 0, ![r].row = {}]
       ELSE Rests(r) /\ UNCHANGED data
    /\ UNCHANGED <<epoch, serves, state, replicaVars, clientVars, bounds>>

Finish(r) ==
    /\ coord[r].pc = "finish"
    /\ IF Ready(r) /\ SameMove(r, coord[r].desc)
       THEN ApplyMoved(GroupOf(r))
       ELSE UNCHANGED <<epoch, serves, state, replicaVars>>
    /\ Rests(r)
    /\ UNCHANGED <<data, clientVars, bounds>>

(***************************************************************************)
(* Requests of the clients.                                                *)
(***************************************************************************)

\* What a request leaves in the row of its key.
Written(q, row) ==
    CASE Kind[q] = "put" -> row \cup {q}
      [] Kind[q] = "commit" -> IF Intent \in row THEN (row \ {Intent}) \cup {q} ELSE row

Executed(g, q) ==
    /\ data' = [data EXCEPT ![g][KeyOf[q]] = Written(q, @)]
    /\ request' = [request EXCEPT ![q] = "acked"]
    /\ payload' = [payload EXCEPT ![q] = {}]

\* The leader that knows of no move executes the request itself.
Execute(g, q) ==
    /\ request[q] = "new" /\ serves[g] /\ ~Moving(leader[g])
    /\ Executed(g, q)
    /\ UNCHANGED <<epoch, serves, state, replicaVars, coord, bounds>>

\* During a move the source forwards the request, with the row that it has.
Forward(q) ==
    /\ request[q] = "new" /\ serves["src"] /\ Moving(leader["src"])
    /\ request' = [request EXCEPT ![q] = "forwarded"]
    /\ payload' = [payload EXCEPT ![q] = data["src"][KeyOf[q]]]
    /\ UNCHANGED <<groupVars, replicaVars, coord, bounds>>

\* The destination first ingests the row; that the move has ended is no error.
ForwardIngest(q) ==
    /\ request[q] = "forwarded"
    /\ IF payload[q] # {} /\ Moving(leader["dst"])
       THEN Ingested(KeyOf[q], payload[q])
       ELSE UNCHANGED data
    /\ request' = [request EXCEPT ![q] = "ingested"]
    /\ UNCHANGED <<epoch, serves, state, replicaVars, coord, payload, bounds>>

\* Then it executes the request; without the shard it answers EpochNotMatch, and the source
\* sends the same forward again.
ForwardExecute(q) ==
    /\ request[q] = "ingested"
    /\ IF Knows("dst")
       THEN Executed("dst", q)
       ELSE request' = [request EXCEPT ![q] = "forwarded"] /\ UNCHANGED <<data, payload>>
    /\ UNCHANGED <<epoch, serves, state, replicaVars, coord, bounds>>

\* A transport error of a write is not retried: the client is told that it failed.
ForwardLost(q) ==
    /\ request[q] \in {"forwarded", "ingested"}
    /\ request' = [request EXCEPT ![q] = "failed"]
    /\ payload' = [payload EXCEPT ![q] = {}]
    /\ UNCHANGED <<groupVars, replicaVars, coord, bounds>>

(***************************************************************************)
(* Raft and the schedulers.  With Calm, they leave a move alone at the     *)
(* three spots where the code does not cope: a descriptor change of a      *)
(* source that may yet be asked again to set up, the return of a leader    *)
(* whose coordinator has not ended its last step, and a snapshot that      *)
(* brings a MoveShardState.                                                *)
(***************************************************************************)

\* The destination may ask a source for its setup that has been set up.
MayAcquireAgain ==
    /\ state["src"] # NoState
    /\ \/ state["dst"].step = "prepare"
       \/ \E r \in DstReplica : coord[r].pc = "acquire"

\* ChangeReplicas, and every other change of the descriptor that a move does not block.
ChangeReplicas(g) ==
    /\ faults < MaxFault
    /\ Calm => ~MayAcquireAgain \/ g = "dst"
    /\ epoch' = [epoch EXCEPT ![g] = @ + 1]
    /\ faults' = faults + 1
    /\ UNCHANGED <<serves, state, data, replicaVars, coord, clientVars, moves>>

\* A new leader has applied an entry of its term: its coordinator is told of the move.
Elect(r) ==
    /\ faults < MaxFault
    /\ ~Ready(r) /\ r \notin lag
    /\ Calm => coord[r].pc = "idle" /\ inbox[r] = <<>>
    /\ leader' = [leader EXCEPT ![GroupOf(r)] = r]
    /\ inbox' = IF Moving(r) THEN [inbox EXCEPT ![r] = Append(@, lease[r])] ELSE inbox
    /\ faults' = faults + 1
    /\ UNCHANGED <<groupVars, lease, lag, coord, clientVars, moves>>

FallBehind(r) ==
    /\ faults < MaxFault
    /\ ~Ready(r) /\ r \notin lag
    /\ lag' = lag \cup {r}
    /\ faults' = faults + 1
    /\ UNCHANGED <<groupVars, leader, lease, inbox, coord, clientVars, moves>>

\* The log brings every update of the state to the observer.
CatchUp(r) ==
    /\ r \in lag
    /\ lag' = lag \ {r}
    /\ lease' = [lease EXCEPT ![r] = state[GroupOf(r)]]
    /\ UNCHANGED <<groupVars, leader, inbox, coord, clientVars, bounds>>

\* A snapshot replaces the descriptor and the term that LeaseState has, not the move.
InstallSnapshot(r) ==
    /\ r \in lag
    /\ Calm => lease[r] = state[GroupOf(r)]
    /\ lag' = lag \ {r}
    /\ UNCHANGED <<groupVars, leader, lease, inbox, coord, clientVars, bounds>>

\* A follower restarts: LeaseState is what its engine has, its coordinator starts anew.
Restart(r) ==
    /\ faults < MaxFault
    /\ ~Ready(r)
    /\ lease' = [lease EXCEPT ![r] = IF r \in lag THEN @ ELSE state[GroupOf(r)]]
    /\ inbox' = [inbox EXCEPT ![r] = <<>>]
    /\ Rests(r)
    /\ faults' = faults + 1
    /\ UNCHANGED <<groupVars, leader, lag, clientVars, moves>>

Init ==
    /\ epoch = [g \in Group |-> 0]
    /\ serves = [g \in Group |-> g = "src"]
    /\ state = [g \in Group |-> NoState]
    /\ data = [g \in Group |-> IF g = "src" THEN Row0 ELSE [k \in Key |-> {}]]
    /\ leader \in {f \in [Group -> Replica] : \A g \in Group : f[g] \in Members(g)}
    /\ lease = [r \in Replica |-> NoState]
    /\ lag = {}
    /\ inbox = [r \in Replica |-> <<>>]
    /\ coord = [r \in Replica |-> Idle]
    /\ request = [q \in Request |-> "new"]
    /\ payload = [q \in Request |-> {}]
    /\ moves = 0
    /\ faults = 0

Coordinate(r) ==
    \/ NextStep(r) \/ Acquire(r) \/ EnterPulling(r) \/ Abort(r)
    \/ PullChunk(r) \/ IngestChunk(r) \/ SaveProgress(r) \/ CommitDest(r)
    \/ MoveOut(r) \/ CollectChunk(r) \/ DeleteChunk(r) \/ Finish(r)

Serve(q) ==
    \/ \E g \in Group : Execute(g, q)
    \/ Forward(q) \/ ForwardIngest(q) \/ ForwardExecute(q) \/ ForwardLost(q)

Next ==
    \/ \E e \in Epoch : AcceptShard(e)
    \/ \E r \in Replica : Coordinate(r)
    \/ \E q \in Request : Serve(q)
    \/ \E g \in Group : ChangeReplicas(g)
    \/ \E r \in Replica :
          Elect(r) \/ FallBehind(r) \/ CatchUp(r) \/ InstallSnapshot(r) \/ Restart(r)

Spec == Init /\ [][Next]_vars

(***************************************************************************)
(* Properties.                                                             *)
(***************************************************************************)

\* Descriptors, states of the move, rows and requests have their types.
TypeOK ==
    /\ epoch \in [Group -> Epoch]
    /\ serves \in [Group -> BOOLEAN]
    /\ state \in [Group -> MoveState \cup {NoState}]
    /\ data \in [Group -> [Key -> Row]]
    /\ leader \in [Group -> Replica] /\ \A g \in Group : leader[g] \in Members(g)
    /\ lease \in [Replica -> MoveState \cup {NoState}]
    /\ lag \subseteq Replica
    /\ inbox \in [Replica -> Seq(MoveState)]
    /\ coord \in [Replica -> [pc : {"idle", "acquire", "enter", "abort", "pull", "ingest", "save",
                                    "commit", "move_out", "gc", "delete", "finish"},
                              desc : Desc, last : 0 .. NKey, key : 0 .. NKey, row : Row]]
    /\ request \in [Request -> {"new", "forwarded", "ingested", "acked", "failed"}]
    /\ payload \in [Request -> Row]

\* The row of a key that a client reads: the destination's when it has the shard, or when it
\* has entries of the key that the source's payload does not replace.
Visible(k) ==
    IF serves["dst"] \/ (state["dst"] # NoState /\ data["dst"][k] # {})
    THEN data["dst"][k] ELSE data["src"][k]

\* A write that was acknowledged, by the source or by the destination that a request was
\* forwarded to, and what the shard held before, is found at every point of the move:
\* no chunk that was read earlier takes its place, and no row is deleted before it is copied.
NoLostWrite ==
    \A k \in Key :
        /\ Base \in Row0[k] => Base \in Visible(k)
        /\ \A q \in Request :
              request[q] = "acked" /\ KeyOf[q] = k => q \in Visible(k)

\* An intent that a commit turned into a version does not come back with a chunk or with a
\* payload that was read before: the row at the destination is not replaced.
NoRevivedIntent ==
    \A q \in Request : request[q] = "acked" /\ Kind[q] = "commit" => Intent \notin Visible(KeyOf[q])

\* The shard is never without a group to go to, nor in two groups that both execute requests:
\* the source drops it only for a destination that committed, and the destination adds it
\* only when the source forwards or drops it.
OneOwner ==
    /\ serves["src"] \/ serves["dst"] \/ state["dst"].step = "moved"
    /\ serves["dst"] /\ serves["src"] => Moving(leader["src"]) /\ state["src"].step = "moved"

\* A source that was set up has a destination that knows of the move, or that has the shard:
\* a destination that gives up (setup_source_group) leaves no source behind that forwards to it.
SourceHasDest ==
    state["src"] # NoState =>
        \/ state["dst"] # NoState /\ state["dst"].desc = state["src"].desc
        \/ serves["dst"]

\* The rows of a shard survive its moves: no acknowledged write is lost, and no intent that was committed
\* comes back (ingest_value_set, forwarded requests).
RowsAreKept == TypeOK /\ NoLostWrite /\ NoRevivedIntent
=============================================================================
