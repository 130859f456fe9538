------------------------------ MODULE MCShards ------------------------------
(***************************************************************************)
(* The shards of a cluster: a behaviour is one of MoveShard (one key is    *)
(* put, the intent of another key is committed, while their shard moves),  *)
(* or one of RootJobs (the jobs that create and purge tables).             *)
(***************************************************************************)
EXTENDS MoveShard, TLC

CONSTANTS put, commit, Root, JobGroup, None

VARIABLES
    part,    \* the component of the behaviour
    job_leader, job_store, job_hosts, job_built, job_core, job_enable, job_mem, job_res, job_lead,
    job_run, job_sub, job_req, job_term, job_late, job_budget


\* Replicas of a group are alike, and so are root nodes and the groups a shard may be placed in.
MCSymmetry ==
    Permutations(SrcReplica) \cup Permutations(DstReplica) \cup Permutations(Root)
        \cup Permutations(JobGroup)
MCKeyOf == [q \in Request |-> IF q = put THEN 1 ELSE 2]
MCKind == [q \in Request |-> IF q = put THEN "put" ELSE "commit"]
MCRow0 == [k \in Key |-> IF k = 1 THEN {Base} ELSE {Intent}]

Req(op, name) == [op |-> op, name |-> name]
Scenario(a, b, changes, crashes, errors, grows) ==
    [work |-> [c \in 1 .. 2 |-> IF c = 1 THEN a ELSE b],
     moves |-> changes, crashes |-> crashes, faults |-> errors, grows |-> grows]
Nothing == Req("none", "t1")
JobScenarios == {
    Scenario(Req("create", "t1"), Req("create", "t1"), 0, 0, 0, 0),
    Scenario(Req("create", "t1"), Req("delete", "t1"), 1, 0, 0, 0),
    Scenario(Req("create", "t1"), Req("drop_db", "t1"), 0, 0, 0, 0),
    Scenario(Req("create", "t1"), Req("create", "t2"), 0, 0, 1, 0),
    Scenario(Req("create", "t1"), Nothing, 1, 1, 1, 0),
    Scenario(Nothing, Nothing, 1, 0, 1, 1)}

Job == INSTANCE RootJobs WITH
    leader <- job_leader, store <- job_store, hosts <- job_hosts, built <- job_built,
    core <- job_core, enable <- job_enable, mem <- job_mem, res <- job_res, lead <- job_lead,
    run <- job_run, sub <- job_sub, req <- job_req, term <- job_term, late <- job_late,
    budget <- job_budget, Root <- Root, Client <- 1 .. 2, Name <- {"t1", "t2"}, Group <- JobGroup,
    Node <- 1 .. 2, Scenarios <- JobScenarios
jobVars ==
    <<job_leader, job_store, job_hosts, job_built, job_core, job_enable, job_mem, job_res, job_lead,
      job_run, job_sub, job_req, job_term, job_late, job_budget>>

\* The component that does not run keeps one state.
MCInit ==
    /\ part \in {"move", "job"}
    /\ Init
    /\ part = "job" => Job!Init
    /\ part = "move" =>
           /\ job_leader = None /\ job_store = None /\ job_hosts = None
           /\ job_built = None /\ job_core = None /\ job_enable = None
           /\ job_mem = None /\ job_res = None /\ job_lead = None
           /\ job_run = None /\ job_sub = None /\ job_req = None
           /\ job_term = None /\ job_late = None /\ job_budget = None

MCNext ==
    \/ /\ part = "move" /\ Next
       /\ UNCHANGED <<part, jobVars>>
    \/ /\ part = "job" /\ Job!Next
       /\ UNCHANGED <<part, vars>>

MCSpec == MCInit /\ [][MCNext]_<<part, vars, jobVars>>

\* A table is in the schema only if its shard was created in some group:
\* the descriptor is written after the shards, whatever errors, leaders and
\* rounds of the runner come between.
TablesHaveShards == part = "job" => Job!TablesHaveShards

\* A client that is told that its table was created finds it in the schema,
\* unless a request deletes it: the answer is read from the history, which a
\* job reaches after its descriptor is written.
OkMeansCreated == part = "job" => Job!OkMeansCreated

\* No job is forgotten: one that has a row is in the memory of the root that
\* leads and recovered under this leadership, or its submitter is about to put
\* it there.  The exception are jobs that were submitted, written or finished
\* while the node recovered: by tasks of an earlier leadership of this node,
\* or because an early return of step_leader left the jobs enabled.  They can
\* slip in between the listing and the filling.
JobsAreTracked == part = "job" => Job!JobsAreTracked

\* A resource lock admits one job of a table at a time, over leaders too, as
\* long as no job slipped in while the node recovered.
OneJobPerTable == part = "job" => Job!OneJobPerTable

\* The jobs of the root are sound: each is tracked by the root that leads, alone on its table, and a
\* table that is in the schema or was answered to a client has its shards (bg_job.rs).
JobsAreSound ==
    /\ part = "job" => Job!TypeOK
    /\ TablesHaveShards /\ OkMeansCreated /\ JobsAreTracked /\ OneJobPerTable
=============================================================================
