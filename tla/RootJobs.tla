------------------------------- MODULE RootJobs -------------------------------
(***************************************************************************)
(* The background jobs of the root (server/src/root/bg_job.rs) over the    *)
(* job, history and table rows of the schema (schema.rs), with the         *)
(* requests that submit them and the loop that takes and gives up the      *)
(* leadership of the root (mod.rs).                                        *)
(*                                                                         *)
(* The rows live in the root group, so every read and write of them        *)
(* succeeds on the leader of that group and fails elsewhere; each await is *)
(* one step, between any two of which the leadership may move or a root    *)
(* process may restart.  A submitter is a client's request, the scheduler  *)
(* of a root node, or the job runner of a root node.                       *)
(***************************************************************************)
EXTENDS Integers, Sequences, FiniteSets, SequencesExt

CONSTANTS Root,       \* nodes with a replica of the root group
          Client,     \* requests to the root, one each
          Name,       \* table names of the one user database
          Group,      \* user groups a shard can be placed in
          Node,       \* nodes a new group gets its replicas on
          Scenarios,  \* records [work, moves, crashes, faults, grows]
          None

VARIABLES leader,  \* leader of the root group, or None
          store,   \* rows of the schema: jobs, history, tables, db, next ids
          hosts,   \* table id -> groups its shard was created in
          built,   \* <<group id, node>>: replicas created for new groups
          core,    \* RootShared::core is Some
          enable, mem, res,   \* JobCore: enable, mem_jobs, res_locks
          lead,    \* progress of run_schedule and step_leader
          run,     \* run_background_jobs: what it is doing
          sub,     \* submitter -> its call of Jobs::submit
          req,     \* client -> its request
          term,    \* changes of the leadership so far
          late,    \* ghost: jobs not submitted, pushed and finished under a recovered leadership
          budget

svars == <<leader, term, late, store, hosts, built>>
mvars == <<core, enable, mem, res, lead>>
vars == <<svars, mvars, run, sub, req, budget>>

Sched(n) == <<"sched", n>>
Runner(n) == <<"run", n>>
Submitter == {<<"client", c>> : c \in Client} \cup {Sched(n) : n \in Root}
               \cup {Runner(n) : n \in Root}

\* A row is keyed by the bytes of the job's id: put_job writes little endian,
\* update_job looks up big endian.
LeBytes(id) == <<id % 256, id \div 256>>
BeBytes(id) == <<id \div 256, id % 256>>

Job(kind, key, tid, status) ==
    [id |-> 0, kind |-> kind, key |-> key, tid |-> tid, status |-> status,
     todo |-> <<>>, gid |-> 0]
NoJob == Job("none", None, 0, "none")

CreateTableJob(name, tid) == [Job("table", name, tid, "creating") EXCEPT !.todo = <<tid>>]
PurgeTableJob(name, tid) == Job("purge", name, tid, "none")
PurgeDatabaseJob == Job("purge_db", None, 0, "none")
CreateOneGroupJob == Job("group", None, 0, "init")

res_key(job) == IF job.kind \in {"table", "purge"} THEN {job.key} ELSE {}

Idle == [pc |-> "idle", queue |-> <<>>, cur |-> NoJob, place |-> None, left |-> <<>>]
NotLeading == [pc |-> "follower", jobs |-> <<>>, era |-> 0]
NoCall == [pc |-> "none", node |-> None, job |-> NoJob, term |-> 0]

Ids(jobs) == {jobs[i].id : i \in DOMAIN jobs}

Init ==
    /\ budget \in Scenarios
    /\ leader = None /\ term = 0 /\ late = {}
    /\ store = [jobs |-> <<>>, history |-> <<>>, tables |-> [x \in Name |-> 0],
                db |-> TRUE, nextJob |-> 1, nextTable |-> 1, nextGroup |-> 1]
    /\ hosts = [t \in 1..Cardinality(Client) |-> {}]
    /\ built = {}
    /\ core = [n \in Root |-> FALSE] /\ enable = [n \in Root |-> FALSE]
    /\ mem = [n \in Root |-> <<>>] /\ res = [n \in Root |-> {}]
    /\ lead = [n \in Root |-> NotLeading]
    /\ run = [n \in Root |-> Idle]
    /\ sub = [p \in Submitter |-> NoCall]
    /\ req = [c \in Client |-> [op |-> budget.work[c].op, name |-> budget.work[c].name,
                                pc |-> IF budget.work[c].op = "none" THEN "done" ELSE "new",
                                node |-> None, tid |-> 0, ans |-> None]]

put_job(s, job) ==
    [s EXCEPT !.jobs = Append(SelectSeq(@, LAMBDA r : r.key # LeBytes(job.id)),
                              [key |-> LeBytes(job.id), job |-> job])]
list_job == [i \in DOMAIN store.jobs |-> store.jobs[i].job]
append_job(job) ==
    put_job([store EXCEPT !.nextJob = @ + 1], [job EXCEPT !.id = store.nextJob])
put_job_history(job) ==
    [store EXCEPT !.history = [id \in DOMAIN @ \cup {job.id} |->
                                 IF id = job.id THEN job ELSE @[id]]]
delete_job(id) == [store EXCEPT !.jobs = SelectSeq(@, LAMBDA r : r.key # LeBytes(id))]
found_for_update(id) == \E i \in DOMAIN store.jobs : store.jobs[i].key = BeBytes(id)

(***************************************************************************)
(* Jobs::submit: the check of the leadership, of the core and of the       *)
(* resource lock run without an await; then the row is written, then the   *)
(* job is pushed to mem_jobs, and the caller may wait until it is gone     *)
(* from there and read its outcome from the history.  An append that fails *)
(* leaves the resource locked.                                             *)
(***************************************************************************)
\* Ghost: node n leads, and has recovered its jobs under this leadership.
Recovered(n) == leader = n /\ lead[n].pc \in {"nodes", "loop", "grow"} /\ lead[n].era = term
Era(n) == IF Recovered(n) THEN term ELSE -1
Slips(p, id) == IF Recovered(sub[p].node) /\ sub[p].term = term THEN late ELSE late \cup {id}

Waits(job) == job.kind \in {"table", "group"}

submit(p, n, job) ==
    \/ /\ ~enable[n] \/ ~core[n]
       /\ sub' = [sub EXCEPT ![p] = [pc |-> "err", node |-> n, job |-> job, term |-> Era(n)]]
       /\ UNCHANGED res
    \/ /\ enable[n] /\ core[n] /\ res_key(job) \cap res[n] # {}
       /\ sub' = [sub EXCEPT ![p] = [pc |-> "exists", node |-> n, job |-> job, term |-> Era(n)]]
       /\ UNCHANGED res
    \/ /\ enable[n] /\ core[n] /\ res_key(job) \cap res[n] = {}
       /\ sub' = [sub EXCEPT ![p] = [pc |-> "append", node |-> n, job |-> job, term |-> Era(n)]]
       /\ res' = [res EXCEPT ![n] = @ \cup res_key(job)]

AppendRow(p) ==
    LET n == sub[p].node IN
    /\ sub[p].pc = "append"
    /\ \/ /\ leader = n
          /\ store' = append_job(sub[p].job)
          /\ late' = Slips(p, store.nextJob)
          /\ sub' = [sub EXCEPT ![p].pc = "push", ![p].job.id = store.nextJob]
       \/ /\ leader # n
          /\ sub' = [sub EXCEPT ![p].pc = "err"]
          /\ UNCHANGED <<store, late>>
    /\ UNCHANGED <<leader, term, hosts, built, mvars, run, req, budget>>

PushJob(p) ==
    LET n == sub[p].node IN
    /\ sub[p].pc = "push"
    /\ mem' = [mem EXCEPT ![n] = Append(@, sub[p].job)]
    /\ sub' = [sub EXCEPT ![p].pc = IF Waits(sub[p].job) THEN "wait" ELSE "ok"]
    /\ late' = Slips(p, sub[p].job.id)
    /\ UNCHANGED <<leader, term, store, hosts, built, core, enable, res, lead, run, req, budget>>

\* What the history says of a job: a status the caller has no arm for, or no
\* row while this node leads, is unreachable!().
Outcome(n, id) ==
    IF id \notin DOMAIN store.history THEN IF enable[n] THEN "panic" ELSE "err"
    ELSE CASE store.history[id].status = "finish" -> "ok"
           [] store.history[id].status = "abort" -> "abort"
           [] OTHER -> "panic"

wait_and_check_result(p) ==
    LET n == sub[p].node IN
    /\ sub[p].pc = "wait" /\ sub[p].job.id \notin Ids(mem[n])
    /\ sub' = [sub EXCEPT ![p].pc = IF core[n] /\ leader = n
                                    THEN Outcome(n, sub[p].job.id) ELSE "err"]
    /\ UNCHANGED <<svars, mvars, run, req, budget>>

(***************************************************************************)
(* run_background_jobs and advance_jobs: the runner of a node takes a copy *)
(* of mem_jobs and handles the jobs in order; the first error ends the     *)
(* round, and the next round takes the jobs from mem_jobs again.           *)
(***************************************************************************)
Reach(n) == core[n] /\ leader = n    \* schema() and an operation of its store

Fail(n) == run' = [run EXCEPT ![n] = Idle]
To(n, r) == run' = [run EXCEPT ![n] = r]

advance_jobs(n) ==
    /\ run[n].pc = "idle" /\ core[n] /\ mem[n] # <<>>
    /\ To(n, [Idle EXCEPT !.pc = "next", !.queue = mem[n]])
    /\ UNCHANGED <<svars, mvars, sub, req, budget>>

handle_job(n) ==
    LET r == run[n] IN
    /\ r.pc = "next"
    /\ To(n, IF r.queue = <<>> THEN Idle
             ELSE [Idle EXCEPT !.pc = "step", !.cur = Head(r.queue), !.queue = Tail(r.queue)])
    /\ UNCHANGED <<svars, mvars, sub, req, budget>>

\* save_create_table, save_create_group and JobCore::update.
SaveJob(n) ==
    LET r == run[n]
        found == found_for_update(r.cur.id) IN
    /\ r.pc = "save"
    /\ IF Reach(n) THEN To(n, [r EXCEPT !.pc = "step"]) ELSE Fail(n)
    /\ store' = IF Reach(n) /\ found THEN put_job(store, r.cur) ELSE store
    /\ mem' = IF Reach(n) /\ found
              THEN [mem EXCEPT ![n] = [i \in DOMAIN @ |->
                                         IF @[i].id = r.cur.id THEN r.cur ELSE @[i]]]
              ELSE mem
    /\ UNCHANGED <<leader, term, late, hosts, built, core, enable, res, lead, sub, req, budget>>

Step(n, kind, status) == run[n].pc = "step" /\ run[n].cur.kind = kind /\ run[n].cur.status = status
Save(r, status) == [r EXCEPT !.pc = "save", !.cur.status = status]

\* handle_wait_create_shard, one shard: a group is placed, then asked.
PlaceShard(n) ==
    LET r == run[n] IN
    /\ Step(n, "table", "creating")
    /\ IF Reach(n)
       THEN \E g \in Group : To(n, [r EXCEPT !.pc = "shard", !.place = g,
                                             !.cur.todo = Front(r.cur.todo)])
       ELSE Fail(n)
    /\ UNCHANGED <<svars, mvars, sub, req, budget>>

\* try_create_shard retries for ten seconds; what fails may have been done.
\* handle_wait_cleanup_shard then pops the shards without deleting them, and
\* the job is aborted.  (Saves with nothing between them are one step.)
CreateShard(n) ==
    LET r == run[n]
        made == [hosts EXCEPT ![r.cur.tid] = @ \cup {r.place}] IN
    /\ r.pc = "shard"
    /\ \/ /\ hosts' = made /\ UNCHANGED budget
          /\ To(n, Save(r, IF r.cur.todo = <<>> THEN "write_desc" ELSE "creating"))
       \/ /\ budget.faults > 0 /\ budget' = [budget EXCEPT !.faults = @ - 1]
          /\ hosts' \in {hosts, made}
          /\ To(n, Save(r, "abort"))
    /\ UNCHANGED <<leader, term, late, store, built, mvars, sub, req>>

\* handle_write_desc: Schema::create_table asserts that there is no such row.
handle_write_desc(n) ==
    LET r == run[n] IN
    /\ Step(n, "table", "write_desc")
    /\ \/ ~Reach(n) /\ Fail(n) /\ UNCHANGED store
       \/ /\ Reach(n) /\ store.tables[r.cur.key] # 0
          /\ To(n, [r EXCEPT !.pc = "panic"]) /\ UNCHANGED store
       \/ /\ Reach(n) /\ store.tables[r.cur.key] = 0
          /\ store' = [store EXCEPT !.tables[r.cur.key] = r.cur.tid]
          /\ To(n, Save(r, "finish"))
    /\ UNCHANGED <<leader, term, late, hosts, built, mvars, sub, req, budget>>

handle_init_create_group_replicas(n) ==
    LET r == run[n] IN
    /\ Step(n, "group", "init")
    /\ IF Reach(n)
       THEN /\ To(n, [Save(r, "creating") EXCEPT !.cur.gid = store.nextGroup,
                                                 !.cur.todo = SetToSeq(Node)])
            /\ store' = [store EXCEPT !.nextGroup = @ + 1]
       ELSE Fail(n) /\ UNCHANGED store
    /\ UNCHANGED <<leader, term, late, hosts, built, mvars, sub, req, budget>>

\* handle_wait_create_group_replicas, one replica: a failure is counted and
\* the loop goes on; after the loop the status is Finish whatever happened.
CreateReplica(n) ==
    LET r == run[n] IN
    /\ Step(n, "group", "creating")
    /\ To(n, [Save(r, IF Len(r.cur.todo) = 1 THEN "finish" ELSE "creating")
                EXCEPT !.cur.todo = Front(@)])
    /\ \/ built' = built \cup {<<r.cur.gid, Last(r.cur.todo)>>} /\ UNCHANGED budget
       \/ /\ budget.faults > 0 /\ budget' = [budget EXCEPT !.faults = @ - 1]
          /\ UNCHANGED built
    /\ UNCHANGED <<leader, term, late, store, hosts, mvars, sub, req>>

\* handle_purge_table: try_remove_shard does nothing.
handle_purge_table(n) ==
    /\ Step(n, "purge", "none")
    /\ IF Reach(n) THEN To(n, [run[n] EXCEPT !.pc = "history"]) ELSE Fail(n)
    /\ UNCHANGED <<svars, mvars, sub, req, budget>>

\* handle_purge_database: for every table listed, a purge job is submitted
\* (one that exists already is enough) and its row is deleted.
ListTables(n) ==
    /\ Step(n, "purge_db", "none")
    /\ IF Reach(n)
       THEN To(n, [run[n] EXCEPT !.pc = "tables",
                                 !.left = SetToSeq({x \in Name : store.tables[x] # 0})])
       ELSE Fail(n)
    /\ UNCHANGED <<svars, mvars, sub, req, budget>>

PurgeNextTable(n) ==
    LET r == run[n] IN
    /\ r.pc = "tables"
    /\ \/ /\ r.left = <<>> /\ To(n, [r EXCEPT !.pc = "history"])
          /\ UNCHANGED <<sub, res>>
       \/ /\ r.left # <<>> /\ To(n, [r EXCEPT !.pc = "purging"])
          /\ submit(Runner(n), n, PurgeTableJob(Last(r.left), store.tables[Last(r.left)]))
    /\ UNCHANGED <<svars, core, enable, mem, lead, req, budget>>

DeleteTableRow(n) ==
    LET r == run[n]
        call == sub[Runner(n)].pc IN
    /\ r.pc = "purging" /\ call \in {"ok", "exists", "err"}
    /\ IF call = "err" \/ leader # n THEN Fail(n) /\ UNCHANGED store
       ELSE /\ store' = [store EXCEPT !.tables[Last(r.left)] = 0]
            /\ To(n, [r EXCEPT !.pc = "tables", !.left = Front(@)])
    /\ sub' = [sub EXCEPT ![Runner(n)] = NoCall]
    /\ UNCHANGED <<leader, term, late, hosts, built, mvars, req, budget>>

(***************************************************************************)
(* JobCore::finish: the history row is written, the job's row is deleted,  *)
(* and then the job leaves mem_jobs and its resource is unlocked.          *)
(***************************************************************************)
Ended(r) == r.pc = "history" \/ (r.pc = "step" /\ r.cur.status \in {"finish", "abort"})

WriteHistory(n) ==
    LET r == run[n] IN
    /\ Ended(r)
    /\ IF Reach(n) THEN store' = put_job_history(r.cur) /\ To(n, [r EXCEPT !.pc = "delete"])
       ELSE Fail(n) /\ UNCHANGED store
    /\ UNCHANGED <<leader, term, late, hosts, built, mvars, sub, req, budget>>

finish(n) ==
    LET r == run[n] IN
    /\ r.pc = "delete"
    /\ IF leader = n
       THEN /\ store' = delete_job(r.cur.id)
            /\ mem' = [mem EXCEPT ![n] = SelectSeq(@, LAMBDA j : j.id # r.cur.id)]
            /\ res' = [res EXCEPT ![n] = @ \ res_key(r.cur)]
            /\ late' = IF Recovered(n) THEN late ELSE late \cup {r.cur.id}
            /\ To(n, [r EXCEPT !.pc = "next"])
       ELSE Fail(n) /\ UNCHANGED <<store, mem, res, late>>
    /\ UNCHANGED <<leader, term, hosts, built, core, enable, lead, sub, req, budget>>

(***************************************************************************)
(* run_schedule and step_leader: the core is published before the jobs are *)
(* recovered, an error of a read returns early, and the loop looks at the  *)
(* leadership only between two rounds of the scheduler, which may wait for *)
(* the outcome of a job that creates a group.                              *)
(***************************************************************************)
At(n, pc) == lead' = [lead EXCEPT ![n].pc = pc]

StepLeader(n) ==
    /\ lead[n].pc = "follower" /\ leader = n
    /\ core' = [core EXCEPT ![n] = TRUE]
    /\ lead' = [lead EXCEPT ![n] = [NotLeading EXCEPT !.pc = "recover", !.era = term]]
    /\ UNCHANGED <<svars, enable, mem, res, run, sub, req, budget>>

ListJobs(n) ==
    /\ lead[n].pc = "recover"
    /\ lead' = [lead EXCEPT ![n] = IF leader = n THEN [lead[n] EXCEPT !.pc = "fill", !.jobs = list_job]
                                   ELSE NotLeading]
    /\ UNCHANGED <<svars, core, enable, mem, res, run, sub, req, budget>>

\* mutants: the jobs found are not taken over; their resources are not locked.
on_step_leader_empty(n) ==
    /\ lead[n].pc = "fill"
    /\ enable' = [enable EXCEPT ![n] = TRUE]
    /\ lead' = [lead EXCEPT ![n].pc = "nodes", ![n].jobs = <<>>]
    /\ UNCHANGED <<svars, core, mem, res, run, sub, req, budget>>

on_step_leader(n) ==
    LET jobs == lead[n].jobs IN
    /\ lead[n].pc = "fill"
    /\ mem' = [mem EXCEPT ![n] = jobs]
    /\ res' = [res EXCEPT ![n] = UNION {res_key(jobs[i]) : i \in DOMAIN jobs}]
    /\ enable' = [enable EXCEPT ![n] = TRUE]
    /\ lead' = [lead EXCEPT ![n].pc = "nodes", ![n].jobs = <<>>]
    /\ UNCHANGED <<svars, core, run, sub, req, budget>>

ListNodes(n) ==
    /\ lead[n].pc = "nodes"
    /\ At(n, IF leader = n THEN "loop" ELSE "follower")
    /\ UNCHANGED <<svars, core, enable, mem, res, run, sub, req, budget>>

\* poll_and_schedule when the allocator wants a group: the job is waited for.
SubmitCreateGroup(n) ==
    /\ lead[n].pc = "loop" /\ leader = n /\ budget.grows > 0
    /\ budget' = [budget EXCEPT !.grows = @ - 1]
    /\ submit(Sched(n), n, CreateOneGroupJob)
    /\ At(n, "grow")
    /\ UNCHANGED <<svars, core, enable, mem, run, req>>

CreateGroupDone(n) ==
    /\ lead[n].pc = "grow" /\ sub[Sched(n)].pc \in {"ok", "err"}
    /\ At(n, "loop")
    /\ sub' = [sub EXCEPT ![Sched(n)] = NoCall]
    /\ UNCHANGED <<svars, core, enable, mem, res, run, req, budget>>

on_drop_leader(n) ==
    /\ lead[n].pc = "loop" /\ leader # n
    /\ enable' = [enable EXCEPT ![n] = FALSE]
    /\ res' = [res EXCEPT ![n] = {}]
    /\ core' = [core EXCEPT ![n] = FALSE]
    /\ At(n, "follower")
    /\ UNCHANGED <<svars, mem, run, sub, req, budget>>

(***************************************************************************)
(* Root::create_table, delete_table and delete_database.                   *)
(***************************************************************************)
Caller(c) == <<"client", c>>
Done(c, ans) == req' = [req EXCEPT ![c].pc = "done", ![c].ans = ans]

create_table(c, n) ==
    LET r == req[c] IN
    /\ r.op = "create"
    /\ \/ ~store.db /\ Done(c, "err") /\ UNCHANGED store
       \/ store.db /\ store.tables[r.name] # 0 /\ Done(c, "exists") /\ UNCHANGED store
       \/ /\ store.db /\ store.tables[r.name] = 0
          /\ store' = [store EXCEPT !.nextTable = @ + 1]
          /\ req' = [req EXCEPT ![c].pc = "submit", ![c].node = n, ![c].tid = store.nextTable]

delete_table(c, n) ==
    LET tid == store.tables[req[c].name] IN
    /\ req[c].op = "delete"
    /\ IF tid = 0 THEN Done(c, "ok")
       ELSE req' = [req EXCEPT ![c].pc = "submit", ![c].node = n, ![c].tid = tid]
    /\ UNCHANGED store

delete_database(c, n) ==
    /\ req[c].op = "drop_db"
    /\ IF store.db THEN req' = [req EXCEPT ![c].pc = "submit", ![c].node = n]
       ELSE Done(c, "err")
    /\ UNCHANGED store

NewRequest(c, n) ==
    /\ req[c].pc = "new" /\ Reach(n)
    /\ create_table(c, n) \/ delete_table(c, n) \/ delete_database(c, n)
    /\ UNCHANGED <<leader, term, late, hosts, built, mvars, run, sub, budget>>

JobOf(r) == CASE r.op = "create" -> CreateTableJob(r.name, r.tid)
              [] r.op = "delete" -> PurgeTableJob(r.name, r.tid)
              [] r.op = "drop_db" -> PurgeDatabaseJob

SubmitRequest(c) ==
    /\ req[c].pc = "submit"
    /\ submit(Caller(c), req[c].node, JobOf(req[c]))
    /\ req' = [req EXCEPT ![c].pc = "called"]
    /\ UNCHANGED <<svars, core, enable, mem, lead, run, budget>>

\* The answer of a create is the job's outcome; the others go on to their row.
JobAnswered(c) ==
    LET call == sub[Caller(c)].pc IN
    /\ req[c].pc = "called" /\ call \in {"ok", "err", "exists", "abort"}
    /\ IF call = "ok" /\ req[c].op # "create" THEN req' = [req EXCEPT ![c].pc = "row"]
       ELSE Done(c, call)
    /\ UNCHANGED <<svars, mvars, run, sub, budget>>

DeleteRow(c) ==
    LET r == req[c] IN
    /\ r.pc = "row"
    /\ IF leader = r.node
       THEN /\ store' = IF r.op = "delete" THEN [store EXCEPT !.tables[r.name] = 0]
                        ELSE [store EXCEPT !.db = FALSE]
            /\ Done(c, "ok")
       ELSE Done(c, "err") /\ UNCHANGED store
    /\ UNCHANGED <<leader, term, late, hosts, built, mvars, run, sub, budget>>

(***************************************************************************)
(* Elections of the root group, and restarts of a root process.            *)
(***************************************************************************)
Elect(n) ==
    /\ leader = None /\ leader' = n /\ term' = term + 1
    /\ UNCHANGED <<late, store, hosts, built, mvars, run, sub, req, budget>>

LoseLeadership ==
    /\ leader # None /\ budget.moves > 0
    /\ leader' = None
    /\ budget' = [budget EXCEPT !.moves = @ - 1]
    /\ term' = term + 1
    /\ UNCHANGED <<late, store, hosts, built, mvars, run, sub, req>>

Restart(n) ==
    /\ budget.crashes > 0 /\ core[n] /\ budget' = [budget EXCEPT !.crashes = @ - 1]
    /\ leader' = IF leader = n THEN None ELSE leader
    /\ term' = term + 1
    /\ core' = [core EXCEPT ![n] = FALSE] /\ enable' = [enable EXCEPT ![n] = FALSE]
    /\ mem' = [mem EXCEPT ![n] = <<>>] /\ res' = [res EXCEPT ![n] = {}]
    /\ lead' = [lead EXCEPT ![n] = NotLeading]
    /\ run' = [run EXCEPT ![n] = Idle]
    /\ sub' = [p \in Submitter |-> IF sub[p].node = n THEN NoCall ELSE sub[p]]
    /\ req' = [c \in Client |-> IF req[c].node = n /\ req[c].pc # "done"
                                THEN [req[c] EXCEPT !.pc = "done", !.ans = "err"] ELSE req[c]]
    /\ UNCHANGED <<late, store, hosts, built>>

RunnerNext(n) ==
    \/ advance_jobs(n) \/ handle_job(n) \/ SaveJob(n)
    \/ PlaceShard(n) \/ CreateShard(n)
    \/ handle_write_desc(n)
    \/ handle_init_create_group_replicas(n) \/ CreateReplica(n)
    \/ handle_purge_table(n) \/ ListTables(n) \/ PurgeNextTable(n) \/ DeleteTableRow(n)
    \/ WriteHistory(n) \/ finish(n)

LeadNext(n) ==
    \/ StepLeader(n) \/ ListJobs(n) \/ on_step_leader(n) \/ ListNodes(n)
    \/ SubmitCreateGroup(n) \/ CreateGroupDone(n) \/ on_drop_leader(n)

SubmitNext(p) == AppendRow(p) \/ PushJob(p) \/ wait_and_check_result(p)

RequestNext(c) == SubmitRequest(c) \/ JobAnswered(c) \/ DeleteRow(c)

Next ==
    \/ \E n \in Root : RunnerNext(n) \/ LeadNext(n) \/ Elect(n) \/ Restart(n)
    \/ \E p \in Submitter : SubmitNext(p)
    \/ \E c \in Client : RequestNext(c) \/ \E n \in Root : NewRequest(c, n)
    \/ LoseLeadership

Spec == Init /\ [][Next]_vars

(***************************************************************************)
(* Properties.                                                             *)
(***************************************************************************)
\* The variables have their types.
TypeOK ==
    /\ leader \in Root \cup {None}
    /\ core \in [Root -> BOOLEAN] /\ enable \in [Root -> BOOLEAN]
    /\ res \in [Root -> SUBSET Name]
    /\ \A n \in Root : Ids(mem[n]) \subseteq 1..(store.nextJob - 1)
    /\ \A t \in DOMAIN hosts : hosts[t] \subseteq Group
    /\ \A i \in DOMAIN store.jobs : store.jobs[i].key = LeBytes(store.jobs[i].job.id)

\* A table is in the schema only if its shard was created in some group:
\* the descriptor is written after the shards, whatever errors, leaders and
\* rounds of the runner come between.
TablesHaveShards ==
    \A x \in Name : store.tables[x] # 0 => hosts[store.tables[x]] # {}

Deleting(x) == \E d \in Client : /\ req[d].pc # "new"
                                 /\ req[d].op = "drop_db" \/ (req[d].op = "delete" /\ req[d].name = x)

\* A client that is told that its table was created finds it in the schema,
\* unless a request deletes it: the answer is read from the history, which a
\* job reaches after its descriptor is written.
OkMeansCreated ==
    \A c \in Client : req[c].op = "create" /\ req[c].ans = "ok" =>
        store.tables[req[c].name] = req[c].tid \/ Deleting(req[c].name)

\* No job is forgotten: one that has a row is in the memory of the root that
\* leads and recovered under this leadership, or its submitter is about to put
\* it there.  The exception are jobs that were submitted, written or finished
\* while the node recovered: by tasks of an earlier leadership of this node,
\* or because an early return of step_leader left the jobs enabled.  They can
\* slip in between the listing and the filling.
JobsAreTracked ==
    \A n \in Root : Recovered(n) =>
        \A i \in DOMAIN store.jobs :
            \/ store.jobs[i].job.id \in Ids(mem[n]) \cup late
            \/ \E p \in Submitter : /\ sub[p].pc = "push" /\ sub[p].node = n
                                    /\ sub[p].job.id = store.jobs[i].job.id

\* A resource lock admits one job of a table at a time, over leaders too, as
\* long as no job slipped in while the node recovered.
OneJobPerTable ==
    late = {} => \A i, j \in DOMAIN store.jobs :
        i # j => res_key(store.jobs[i].job) \cap res_key(store.jobs[j].job) = {}

================================================================================
