----------------------------- MODULE EtcdStore -----------------------------
(***************************************************************************)
(* The etcd layer (layers/etcd): puts, ranges, deletes of ranges and etcd  *)
(* transactions of several clients on layer servers, over one table of the *)
(* database.                                                               *)
(*                                                                         *)
(* The database is what the transactions of module Txn implement, the      *)
(* store of SnapshotStore: a read sees the versions up to its own, and the *)
(* writes of a transaction take effect in one step if nobody wrote their   *)
(* keys after its start version and their conditions hold.  A transaction  *)
(* of the layer reads outside of it, before its start version.             *)
(* A stream over a range is a snapshot, as in RangeScan; the keys that a   *)
(* page may leave out there are not left out here.  Requests with leases,  *)
(* which the layer does not support, are left out, and a transaction       *)
(* modifies a key once, as the service demands.                            *)
(***************************************************************************)
EXTENDS MvccScan

CONSTANTS Client, ServerOf,   \* the layer server of each client
    UserKeys,               \* the keys of the table, sequences of bytes
    Scenarios               \* the requests of the clients: a set of functions

VARIABLES
    exists,   \* "nothing", "database" or "table": what was created for the layer
    handles,  \* the layer servers that have their handle
    opener,   \* the client that holds the mutex of the handle, of each server
    rows,     \* the versions of each key, oldest first
    clock,    \* the last version that a commit got
    req,      \* the request of each client
    call      \* what the server keeps of it

vars == <<exists, handles, opener, rows, clock, req, call>>

Nobody == 0   \* no client
NoKv == [create |-> 0, mod |-> 0, version |-> 0, data |-> 0]
Deleted == [create |-> 0, data |-> 0, version |-> 0]   \* a tombstone: no put has version 0

\* The newest version of a key up to `at`, as get_raw_value returns it.
ReadAt(k, at) ==
    LET n == Cardinality({i \in DOMAIN rows[k] : rows[k][i].revision <= at})
    IN  IF n = 0 THEN [revision |-> 0, record |-> Deleted] ELSE rows[k][n]

\* A ValueRecord does not know the revision it is created at.
decode_to_key_value(value) ==
    IF value.record = Deleted THEN NoKv
    ELSE [create  |-> IF value.record.create = 0 THEN value.revision ELSE value.record.create,
          mod     |-> value.revision,
          version |-> value.record.version,
          data    |-> value.record.data]

KvAt(k, at) == decode_to_key_value(ReadAt(k, at))

ValueRecordFrom(kv) == [create |-> kv.create, data |-> kv.data, version |-> kv.version]

-----------------------------------------------------------------------------
\* Requests

\* The keys of a request; NoKey as the end is no bound.  A prefix is the range up to its next boundary.
build_request_range(key, range_end) ==
    IF range_end = <<>> THEN [begin |-> key, end |-> key \o <<0>>]
    ELSE IF range_end[1] = 0
    THEN [begin |-> IF key # <<>> /\ key[1] = 0 THEN <<>> ELSE key, end |-> NoKey]
    ELSE [begin |-> key, end |-> range_end]

InRange(r, k) == LexLeq(r.begin, k) /\ (r.end = NoKey \/ LexLess(k, r.end))

\* The filters of a RangeRequest; zero is no bound.
PassesFilters(r, kv) ==
    /\ r.min_create = 0 \/ r.min_create <= kv.create
    /\ r.max_create = 0 \/ kv.create <= r.max_create
    /\ r.min_mod = 0 \/ r.min_mod <= kv.mod
    /\ r.max_mod = 0 \/ kv.mod <= r.max_mod

\* The keys that a stream over the table yields at a version.
Streamed(range, at) ==
    {k \in UserKeys : InRange(range, k) /\ KvAt(k, at) # NoKv}

FirstOf(keys, n) == {k \in keys : Cardinality({l \in keys : LexLess(l, k)}) < n}

RangeResponse(r, at) ==
    LET found == {k \in Streamed(build_request_range(r.key, r.range_end), at) :
                     PassesFilters(r, KvAt(k, at))}
        kept  == IF r.limit = 0 THEN found ELSE FirstOf(found, r.limit)
    IN  [type |-> "range", at |-> at, request |-> r,
         kvs |-> [k \in kept |-> KvAt(k, at)],
         more |-> r.limit # 0 /\ Cardinality(kept) = r.limit]

is_matched(result, a, b) ==
    CASE result = "equal"    -> a = b
      [] result = "notequal" -> a # b
      [] result = "less"     -> a < b
      [] OTHER               -> a > b

\* What a compare of a transaction finds in a key-value.
Matches(cmp, kv) == is_matched(cmp.result, kv[cmp.union], cmp.value)

CompareIsValid(cmp) == cmp.key # <<>> /\ cmp.target = cmp.union /\ cmp.range_end = <<>>

-----------------------------------------------------------------------------
\* The handle

Started(r) ==
    [pc |-> "apply", ops |-> <<r>>, need |-> {}, seen |-> <<>>, writes |-> {}, resp |-> <<>>, start |-> 0,
     revision |-> 0]

Init ==
    /\ exists = "nothing" /\ handles = {}
    /\ opener = [s \in {ServerOf[c] : c \in Client} |-> Nobody]
    /\ rows = [k \in UserKeys |-> <<>>]
    /\ clock = 0
    /\ req \in Scenarios
    /\ call = [c \in Client |-> [Started(req[c]) EXCEPT !.pc = "new"]]

Goes(c, pc) == call' = [call EXCEPT ![c].pc = pc]

\* A request has its handle: it begins.
Begins(c) == call' = [call EXCEPT ![c] = Started(req[c])]

Unlock(c) == opener' = [opener EXCEPT ![ServerOf[c]] = Nobody]

TakeHandle(c) ==
    /\ call[c].pc = "new" /\ opener[ServerOf[c]] = Nobody
    /\ ServerOf[c] \in handles
    /\ Begins(c)
    /\ UNCHANGED <<exists, handles, opener, rows, clock, req>>

OpenDatabase(c) ==
    /\ call[c].pc = "new" /\ opener[ServerOf[c]] = Nobody
    /\ ServerOf[c] \notin handles
    /\ opener' = [opener EXCEPT ![ServerOf[c]] = c]
    /\ Goes(c, IF exists = "nothing" THEN "create_database" ELSE "open_table")
    /\ UNCHANGED <<exists, handles, rows, clock, req>>

\* A second server that creates the database meanwhile gets AlreadyExists.
CreateDatabase(c) ==
    /\ call[c].pc = "create_database"
    /\ IF exists = "nothing"
       THEN exists' = "database" /\ Goes(c, "open_table") /\ UNCHANGED opener
       ELSE Goes(c, "error") /\ Unlock(c) /\ UNCHANGED exists
    /\ UNCHANGED <<handles, rows, clock, req>>

HasTable(c) == handles' = handles \cup {ServerOf[c]} /\ Unlock(c) /\ Begins(c)

OpenTable(c) ==
    /\ call[c].pc = "open_table"
    /\ IF exists = "table" THEN HasTable(c) ELSE Goes(c, "create_table") /\ UNCHANGED <<handles, opener>>
    /\ UNCHANGED <<exists, rows, clock, req>>

CreateTable(c) ==
    /\ call[c].pc = "create_table"
    /\ IF exists = "database"
       THEN exists' = "table" /\ HasTable(c)
       ELSE Goes(c, "error") /\ Unlock(c) /\ UNCHANGED <<exists, handles>>
    /\ UNCHANGED <<rows, clock, req>>

-----------------------------------------------------------------------------
\* The operations of a request, one after the other

Op(c) == Head(call[c].ops)

IsNext(c, type) == call[c].pc = "apply" /\ call[c].ops # <<>> /\ Op(c).type = type

\* What a put makes of the key-value it read, and what it expects of the key.
PutWrite(put, kv) ==
    [key    |-> put.key,
     expect |-> kv.mod,   \* 0: expect_not_exists
     record |-> ValueRecordFrom([kv EXCEPT !.version = @ + 1,
                                           !.data = IF put.ignore_value THEN @ ELSE put.value])]

\* The value to keep of a key that has none is a todo!() of the layer.
apply_put(c) ==
    /\ IsNext(c, "put")
    /\ LET put == Op(c)
           kv == KvAt(put.key, clock)
       IN  IF put.ignore_value /\ kv = NoKv THEN Goes(c, "panic")
           ELSE call' = [call EXCEPT ![c].ops = Tail(@),
                                     ![c].writes = @ \cup {PutWrite(put, kv)},
                                     ![c].resp = Append(@, [type |-> "put", request |-> put, prev_kv |-> kv])]
    /\ UNCHANGED <<exists, handles, opener, rows, clock, req>>

apply_delete_range(c) ==
    /\ IsNext(c, "delete")
    /\ LET range == build_request_range(Op(c).key, Op(c).range_end)
           found == Streamed(range, clock)
       IN  call' = [call EXCEPT
                      ![c].ops = Tail(@),
                      ![c].writes = @ \cup {[key |-> k, expect |-> KvAt(k, clock).mod, record |-> Deleted] : k \in found},
                      ![c].resp = Append(@, [type |-> "delete", at |-> clock, range |-> range,
                                             prev_kvs |-> [k \in found |-> KvAt(k, clock)]])]
    /\ UNCHANGED <<exists, handles, opener, rows, clock, req>>

\* A range has a version of its own, the one that was asked for or the current one.
apply_range(c) ==
    /\ IsNext(c, "range")
    /\ LET at == IF Op(c).revision > 0 THEN Op(c).revision ELSE clock
       IN  call' = [call EXCEPT ![c].ops = Tail(@), ![c].resp = Append(@, RangeResponse(Op(c), at))]
    /\ UNCHANGED <<exists, handles, opener, rows, clock, req>>

apply_txn(c) ==
    /\ IsNext(c, "txn")
    /\ IF \A i \in DOMAIN Op(c).compare : CompareIsValid(Op(c).compare[i])
       THEN call' = [call EXCEPT ![c].pc = "compare", ![c].seen = <<>>,
                                 ![c].need = {Op(c).compare[i].key : i \in DOMAIN Op(c).compare}]
       ELSE Goes(c, "error")
    /\ UNCHANGED <<exists, handles, opener, rows, clock, req>>

\* A task for each key that is compared reads it, at a version of its own.
ReadCompared(c, k) ==
    /\ call[c].pc = "compare" /\ k \in call[c].need
    /\ call' = [call EXCEPT ![c].need = @ \ {k},
                            ![c].seen = Append(@, [key |-> k, at |-> clock, kv |-> KvAt(k, clock)])]
    /\ UNCHANGED <<exists, handles, opener, rows, clock, req>>

SeenOf(c, k) == (CHOOSE i \in DOMAIN call[c].seen : call[c].seen[i].key = k)

\* All compares together choose the operations that come next.
Compare(c) ==
    /\ call[c].pc = "compare" /\ call[c].need = {}
    /\ LET txn == Op(c)
           passed == \A i \in DOMAIN txn.compare :
                       Matches(txn.compare[i], call[c].seen[SeenOf(c, txn.compare[i].key)].kv)
       IN  call' = [call EXCEPT
                      ![c].pc = "apply",
                      ![c].ops = (IF passed THEN txn.success ELSE txn.failure) \o Tail(@),
                      ![c].resp = Append(@, [type |-> "txn", compare |-> txn.compare, seen |-> call[c].seen,
                                             passed |-> passed])]
    /\ UNCHANGED <<exists, handles, opener, rows, clock, req>>

-----------------------------------------------------------------------------
\* The commit

\* A range is answered; the others commit, from a start version after all their reads.
Applied(c) ==
    /\ call[c].pc = "apply" /\ call[c].ops = <<>>
    /\ call' = [call EXCEPT ![c].pc = IF req[c].type = "range" THEN "ok" ELSE "commit", ![c].start = clock]
    /\ UNCHANGED <<exists, handles, opener, rows, clock, req>>

Latest(k) == ReadAt(k, clock)

Conflicts(c, w) == Latest(w.key).revision > call[c].start

\* Mutant: an expected version is not compared.
ConditionHolds_exists(w) == (w.expect = 0) = (Latest(w.key).record = Deleted)

\* expect_version and expect_not_exists of the latest version (eval_condition).
ConditionHolds(w) ==
    IF w.expect = 0 THEN Latest(w.key).record = Deleted
    ELSE Latest(w.key).revision = w.expect

Committable(c) == \A w \in call[c].writes : ~Conflicts(c, w) /\ ConditionHolds(w)

\* A conflict is not done again, and can not be reported: its Status is a todo!().
TxnConflict(c) ==
    /\ call[c].pc = "commit"
    /\ \E w \in call[c].writes : Conflicts(c, w)
    /\ Goes(c, "panic")
    /\ UNCHANGED <<exists, handles, opener, rows, clock, req>>

\* CasFailed: the request is done again from the start.
CasFailed(c) ==
    /\ call[c].pc = "commit"
    /\ \E w \in call[c].writes : ~Conflicts(c, w) /\ ~ConditionHolds(w)
    /\ Begins(c)
    /\ UNCHANGED <<exists, handles, opener, rows, clock, req>>

RowsAfter(c) ==
    [k \in UserKeys |->
       LET mine == {w \in call[c].writes : w.key = k}
       IN  IF mine = {} THEN rows[k]
           ELSE Append(rows[k], [revision |-> clock + 1, record |-> (CHOOSE w \in mine : TRUE).record])]

\* The writes take effect at the commit version; the answer may get lost.
Commit(c) ==
    /\ call[c].pc = "commit" /\ Committable(c)
    /\ rows' = RowsAfter(c)
    /\ clock' = clock + 1
    /\ \E pc \in {"ok", "error"} : call' = [call EXCEPT ![c].pc = pc, ![c].revision = clock + 1]
    /\ UNCHANGED <<exists, handles, opener, req>>

\* A call to the database fails.
Fail(c) ==
    /\ call[c].pc \notin {"new", "ok", "error", "panic"}
    /\ Goes(c, "error")
    /\ IF opener[ServerOf[c]] = c THEN Unlock(c) ELSE UNCHANGED opener
    /\ UNCHANGED <<exists, handles, rows, clock, req>>

Next ==
    \E c \in Client :
      \/ TakeHandle(c) \/ OpenDatabase(c) \/ CreateDatabase(c) \/ OpenTable(c) \/ CreateTable(c)
      \/ apply_put(c) \/ apply_delete_range(c) \/ apply_range(c) \/ apply_txn(c) \/ Compare(c)
      \/ \E k \in UserKeys : ReadCompared(c, k)
      \/ Applied(c) \/ TxnConflict(c) \/ CasFailed(c) \/ Commit(c) \/ Fail(c)

Spec == Init /\ [][Next]_vars

-----------------------------------------------------------------------------
\* Properties

TypeOK ==
    /\ exists \in {"nothing", "database", "table"}
    /\ handles # {} => exists = "table"
    /\ \A s \in DOMAIN opener : opener[s] \in Client \cup {Nobody}
    /\ \A k \in UserKeys : \A i \in DOMAIN rows[k] : rows[k][i].revision \in 1 .. clock

\* The versions of a key: the first put after a delete creates it, every other one counts up and keeps the
\* create revision, so no put of two clients is lost (apply_put with expect_version and
\* decode_to_key_value).
RevisionsChain ==
    \A k \in UserKeys : \A i \in DOMAIN rows[k] :
      LET before == IF i = 1 THEN NoKv ELSE decode_to_key_value(rows[k][i - 1])
          now    == decode_to_key_value(rows[k][i])
      IN  /\ i > 1 => rows[k][i - 1].revision < rows[k][i].revision
          /\ rows[k][i].record # Deleted =>
               /\ now.version = before.version + 1
               /\ now.create = IF before = NoKv THEN now.mod ELSE before.create

Answers(c, type) == {call[c].resp[i] : i \in {j \in DOMAIN call[c].resp : call[c].resp[j].type = type}}

Done(c) == call[c].pc = "ok" /\ req[c].type # "range"

Before(k, revision) == KvAt(k, revision - 1)

Changed(k, after, before) == \E i \in DOMAIN rows[k] : rows[k][i].revision > after /\ rows[k][i].revision < before

\* The prev_kv of a put is what the put replaced, and its revision is where the new value is.
PutsAreTrue ==
    \A c \in Client : Done(c) => \A a \in Answers(c, "put") :
      LET k == a.request.key
      IN  /\ a.prev_kv = Before(k, call[c].revision)
          /\ KvAt(k, call[c].revision) =
               [a.prev_kv EXCEPT !.mod = call[c].revision, !.version = @ + 1,
                                 !.create = IF @ = 0 THEN call[c].revision ELSE @,
                                 !.data = IF a.request.ignore_value THEN @ ELSE a.request.value]

\* A delete of a range removes what it reports, as it is reported, and leaves only keys of the range that were
\* created after it read the range.
DeletesAreTrue ==
    \A c \in Client : Done(c) => \A a \in Answers(c, "delete") :
      \A k \in UserKeys : InRange(a.range, k) =>
        IF k \in DOMAIN a.prev_kvs
        THEN a.prev_kvs[k] = Before(k, call[c].revision) /\ KvAt(k, call[c].revision) = NoKv
        ELSE Before(k, call[c].revision) = NoKv \/ Changed(k, a.at, call[c].revision)

\* A transaction takes the branch its compares choose just before its revision, unless a key it compared was
\* changed after it was read: compares are read at different versions and nothing fences them.
BranchesAreTrue ==
    \A c \in Client : Done(c) => \A a \in Answers(c, "txn") :
      \/ \E i \in DOMAIN a.seen : Changed(a.seen[i].key, a.seen[i].at, call[c].revision)
      \/ a.passed = \A i \in DOMAIN a.compare : Matches(a.compare[i], Before(a.compare[i].key, call[c].revision))

\* The end of a range is a bound, its key, or none: as the comment of build_request_range has it, for keys and ends
\* that do not begin with a zero byte and go on.
RangesAreBuilt ==
    \A key \in UserKeys, range_end \in UserKeys \cup {<<>>, <<0>>} :
      (\A b \in {key, range_end} : b = <<>> \/ b[1] # 0 \/ b = <<0>>) =>
        {k \in UserKeys : InRange(build_request_range(key, range_end), k)} =
          (CASE range_end = <<>>  -> {key}
             [] range_end = <<0>> -> {k \in UserKeys : key = <<0>> \/ LexLeq(key, k)}
             [] OTHER             -> {k \in UserKeys : LexLeq(key, k) /\ LexLess(k, range_end)})

\* The layer is a key-value store with revisions, whatever its clients, servers and lost answers do at the same time.
EtcdIsTrue ==
    TypeOK /\ RevisionsChain /\ PutsAreTrue /\ DeletesAreTrue /\ BranchesAreTrue /\ RangesAreBuilt
=============================================================================
