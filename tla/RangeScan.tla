------------------------------ MODULE RangeScan -----------------------------
\* A client that scans a range of a table, page by page and shard by shard
\* (client/src/range.rs), while a transaction writes to the table and the root
\* splits and moves its shards (server/src/replica/eval/cmd_scan.rs, node/mod.rs).
\*
\* Every page is evaluated over a snapshot of its own, one user key per step, so that
\* the transaction can be decided between the keys of a page. The transaction, the
\* router and the move are reduced to what a scan can see of them: modules Txn, Routing
\* and MoveShard model them in full.
EXTENDS MvccScan

CONSTANTS Scenarios,
    MaxRetries    \* bound on answers that are lost and on forwards that fail

Groups == {1, 2}

VARIABLES
    rows,      \* the rows of each group engine
    layout,    \* the shards: [id, lo, hi, grp]
    epoch,     \* the epoch of each group
    move,      \* the shard being moved, 0 if none
    view,      \* what the client's router knows: [layout, epoch]
    txn,       \* [state, start, commit, todo]: the writer; todo are keys without intent yet
    clock,     \* the last version handed out
    sc,        \* RangeScanner and the page it waits for
    budget     \* the scenario: its writes and requests, and what may still happen

vars == <<rows, layout, epoch, move, view, txn, clock, sc, budget>>
dataVars == <<rows, txn, clock>>
shardVars == <<layout, epoch, move>>

Row(k, v, x, t) == [key |-> k, ver |-> v, val |-> x, txn |-> t]
OwnerOf(k) == CHOOSE s \in layout : in_range(s.lo, s.hi, k)

\* Where requests for a key are executed: a moving shard forwards them, and the
\* versions of the key with them.
HomeOf(k) == IF OwnerOf(k).id = move THEN 3 - OwnerOf(k).grp ELSE OwnerOf(k).grp

RowsOf(g, k) == {r \in rows[g] : r.key = k}
Ingested(k) == IF RowsOf(HomeOf(k), k) = {} THEN RowsOf(OwnerOf(k).grp, k) ELSE {}

\* extract_request_range
extract_request_range(range) ==
    IF range.kind = "prefix"
    THEN [begin |-> range.begin, end |-> lexical_next_boundary(range.begin)]
    ELSE [begin |-> range.begin, end |-> range.end]

\* RangeStream::init; the version is taken when the scan starts.
NewScanner ==
    LET r == extract_request_range(budget.range)
    IN  [state |-> "Normal", pc |-> "find", version |-> clock, cursor_key |-> r.begin,
         end_key |-> r.end, shard |-> [id |-> 0], epoch |-> 0, snap |-> [rest |-> <<>>, current |-> NoKey],
         data |-> <<>>, has_more |-> FALSE, out |-> <<>>]

Idle == [state |-> "None"]

Init ==
    /\ budget \in Scenarios
    /\ rows = [g \in Groups |-> IF g = 1 THEN budget.rows ELSE {}]
    /\ layout = {[id |-> 1, lo |-> <<>>, hi |-> <<>>, grp |-> 1]}
    /\ epoch = [g \in Groups |-> 1]
    /\ move = 0
    /\ view = [layout |-> layout, epoch |-> epoch]
    /\ txn = [state |-> "none", start |-> 0, commit |-> 0, todo |-> DOMAIN budget.writes]
    /\ clock = budget.clock
    /\ sc = Idle

----------------------------------------------------------------------------
\* The transaction (external: module Txn).

BeginTxn ==
    /\ txn.state = "none" /\ txn.todo # {}
    /\ clock' = clock + 1
    /\ txn' = [txn EXCEPT !.state = "open", !.start = clock + 1]
    /\ UNCHANGED <<rows, shardVars, view, sc, budget>>

WriteIntent(k) ==
    /\ txn.state = "open" /\ k \in txn.todo
    /\ rows' = [rows EXCEPT ![HomeOf(k)] =
                    @ \cup Ingested(k) \cup {Row(k, IntentVersion, budget.writes[k], txn.start)}]
    /\ txn' = [txn EXCEPT !.todo = @ \ {k}]
    /\ UNCHANGED <<clock, shardVars, view, sc, budget>>

AllocCommit ==
    /\ txn.state = "open" /\ txn.todo = {} /\ txn.commit = 0
    /\ clock' = clock + 1
    /\ txn' = [txn EXCEPT !.commit = clock + 1]
    /\ UNCHANGED <<rows, shardVars, view, sc, budget>>

CommitTxn ==
    /\ txn.state = "open" /\ txn.commit # 0
    /\ txn' = [txn EXCEPT !.state = "committed"]
    /\ UNCHANGED <<rows, clock, shardVars, view, sc, budget>>

\* The rows of a group after the intent of k is committed or cleared.
Settled(g, k, t) ==
    LET intents == {r \in rows[g] : r.key = k /\ IsIntent(r)}
        written == IF t.state = "committed" THEN {Row(k, t.commit, r.val, 0) : r \in intents} ELSE {}
    IN  (rows[g] \ intents) \cup written

SettleIntent(k) ==
    /\ txn.state \in {"committed", "aborted"}
    /\ \E r \in RowsOf(HomeOf(k), k) \cup Ingested(k) : IsIntent(r)
    /\ rows' = [rows EXCEPT ![HomeOf(k)] =
                    IF Ingested(k) = {} THEN Settled(HomeOf(k), k, txn)
                    ELSE @ \cup {IF IsIntent(r) THEN Row(k, txn.commit, r.val, 0) ELSE r :
                            r \in {x \in Ingested(k) : IsIntent(x) => txn.state = "committed"}}]
    /\ UNCHANGED <<txn, clock, shardVars, view, sc, budget>>

----------------------------------------------------------------------------
\* Splits and moves (external: modules MoveShard and RootSchedule).

SplitShard ==
    /\ budget.split # NoKey /\ move = 0
    /\ LET s == OwnerOf(budget.split)
       IN  /\ layout' = (layout \ {s}) \cup {[s EXCEPT !.hi = budget.split], [s EXCEPT !.id = 2, !.lo = budget.split]}
           /\ epoch' = [epoch EXCEPT ![s.grp] = @ + 1]
    /\ budget' = [budget EXCEPT !.split = NoKey]
    /\ UNCHANGED <<rows, txn, clock, move, view, sc>>

StartMove ==
    /\ move = 0 /\ budget.move \in {s.id : s \in layout}
    /\ move' = budget.move
    /\ budget' = [budget EXCEPT !.move = 0]
    /\ UNCHANGED <<dataVars, layout, epoch, view, sc>>

Moving == CHOOSE s \in layout : s.id = move

\* The keys that were not written meanwhile are pulled, and the source forgets the shard.
FinishMove ==
    /\ move # 0
    /\ LET ks == {r.key : r \in {x \in rows[Moving.grp] : in_range(Moving.lo, Moving.hi, x.key)}}
           dst == 3 - Moving.grp
       IN  /\ rows' = [rows EXCEPT ![dst] = @ \cup UNION {Ingested(k) : k \in ks},
                                   ![Moving.grp] = {r \in @ : r.key \notin ks}]
           /\ layout' = (layout \ {Moving}) \cup {[Moving EXCEPT !.grp = dst]}
    /\ epoch' = [g \in Groups |-> 1 + (CHOOSE e \in {epoch[1], epoch[2]} : \A f \in Groups : epoch[f] <= e)]
    /\ move' = 0
    /\ UNCHANGED <<txn, clock, view, sc, budget>>

\* The root's watch stream tells the router.
Refresh ==
    /\ view # [layout |-> layout, epoch |-> epoch]
    /\ view' = [layout |-> layout, epoch |-> epoch]
    /\ UNCHANGED <<dataVars, shardVars, sc, budget>>

----------------------------------------------------------------------------
\* The scanner.

Start ==
    /\ sc = Idle
    /\ sc' = NewScanner
    /\ UNCHANGED <<dataVars, shardVars, view, budget>>

At(pc) == sc.state = "Normal" /\ sc.pc = pc

FindShard ==
    /\ At("find")
    /\ LET s == CHOOSE s \in view.layout : in_range(s.lo, s.hi, sc.cursor_key)
       IN  sc' = [sc EXCEPT !.pc = "send", !.shard = s, !.epoch = view.epoch[s.grp]]
    /\ UNCHANGED <<dataVars, shardVars, view, budget>>

\* A retryable error: the scanner sleeps and looks the shard of its cursor up again.
RetryShard == [sc EXCEPT !.pc = "find"]

EpochNotMatch ==
    /\ At("send") /\ epoch[sc.shard.grp] > sc.epoch
    /\ sc' = RetryShard
    /\ UNCHANGED <<dataVars, shardVars, view, budget>>

\* The request of the page that the scanner asks for.
PageRequest ==
    [start_version |-> sc.version, limit |-> budget.limit, start_key |-> sc.cursor_key,
     end_key |-> sc.end_key, exclude_start_key |-> FALSE, exclude_end_key |-> TRUE,
     include_raw_data |-> FALSE, ignore_txn_intent |-> FALSE]

PageMode == [kind |-> "range", start |-> sc.cursor_key, end |-> sc.shard.hi]

\* The leader of the group takes a snapshot.
ScanShard ==
    /\ At("send") /\ epoch[sc.shard.grp] = sc.epoch /\ sc.shard.id # move
    /\ sc' = [sc EXCEPT !.pc = "scan", !.data = <<>>, !.has_more = FALSE,
                        !.snap = next_mvcc_iterator(Snapshot(rows[sc.shard.grp], PageMode), PageMode)]
    /\ UNCHANGED <<dataVars, shardVars, view, budget>>

\* The shard is moving: the node forwards the scan to the destination and executes it
\* itself under ExecCtx::default(), that is with epoch 0. The answer is EpochNotMatch with
\* the epoch that the client has, for which GroupClient panics.
ForwardScan ==
    /\ At("send") /\ epoch[sc.shard.grp] = sc.epoch /\ sc.shard.id = move
    /\ sc' = IF epoch[sc.shard.grp] > 0 THEN [sc EXCEPT !.state = "Panicked"] ELSE RetryShard
    /\ UNCHANGED <<dataVars, shardVars, view, budget>>

\* The destination can not be reached: the source's answer is not looked at.
ForwardFails ==
    /\ At("send") /\ epoch[sc.shard.grp] = sc.epoch /\ sc.shard.id = move
    /\ budget.retries < MaxRetries
    /\ budget' = [budget EXCEPT !.retries = @ + 1]
    /\ sc' = RetryShard
    /\ UNCHANGED <<dataVars, shardVars, view>>

\* What resolve_txn returns: the value of the intent if its transaction has committed.
\* The intent may be gone since the snapshot, then it is the newest visible version.
Resolved(e) ==
    IF e.txn = txn.start /\ txn.state = "committed" THEN <<Row(e.key, txn.commit, e.val, 0)>> ELSE <<>>

PageIsFull(data) == PageRequest.limit # 0 /\ Len(data) = PageRequest.limit

\* One user key of the page. A transaction that is open is waited for, or aborted when
\* it has expired.
ScanKey(t) ==
    LET entries == MvccEntries(sc.snap)
        resolve == MustResolve(PageRequest, entries)
        found   == IF resolve /\ t.state = "committed" THEN Resolved(entries[1]) ELSE <<>>
        values  == scan_value_set(PageRequest, entries, found)
        data    == sc.data \o values
        full    == values # <<>> /\ PageIsFull(data)
    IN  /\ At("scan") /\ sc.snap.current # NoKey /\ ~is_exceeds(sc.end_key, sc.snap.current)
        /\ IF resolve THEN t.state # "open" ELSE t = txn
        /\ txn' = t
        /\ sc' = [sc EXCEPT !.data = data, !.has_more = full,
                            !.pc = IF full THEN "reply" ELSE "scan",
                            !.snap = next_mvcc_iterator(@, PageMode)]
        /\ UNCHANGED <<rows, clock, shardVars, view, budget>>

ScanNext == \E t \in {txn, [txn EXCEPT !.state = "aborted"]} :
    /\ t = txn \/ txn.state = "open"
    /\ ScanKey(t)

\* The snapshot, or the range asked for, is exhausted.
ScanExhausted ==
    /\ At("scan")
    /\ sc.snap.current = NoKey \/ is_exceeds(sc.end_key, sc.snap.current)
    /\ sc' = [sc EXCEPT !.pc = "reply"]
    /\ UNCHANGED <<dataVars, shardVars, view, budget>>

\* The answer is lost: scans are read only and sent again, to the next replica.
ReplyLost ==
    /\ At("reply") /\ budget.retries < MaxRetries
    /\ budget' = [budget EXCEPT !.retries = @ + 1]
    /\ sc' = [sc EXCEPT !.pc = "send"]
    /\ UNCHANGED <<dataVars, shardVars, view>>

is_entire_range_scanned(end, hi) ==
    IF end = NoKey THEN hi = <<>> ELSE LexLeq(end, hi) \/ hi = <<>>

\* The page is handed to the stream, and the cursor moves behind it, or to the next shard.
TakePage ==
    LET cursor == IF sc.data = <<>> THEN sc.cursor_key
                  ELSE lexical_next_boundary(sc.data[Len(sc.data)].key)
        page   == [sc EXCEPT !.out = @ \o sc.data, !.cursor_key = cursor, !.data = <<>>]
    IN  /\ At("reply")
        /\ sc' = IF sc.has_more THEN [page EXCEPT !.pc = "send"]
                 ELSE IF is_entire_range_scanned(sc.end_key, sc.shard.hi)
                 THEN [page EXCEPT !.state = "Finished"]
                 ELSE [page EXCEPT !.pc = "find", !.cursor_key = sc.shard.hi]
        /\ UNCHANGED <<dataVars, shardVars, view, budget>>

\* The consumer drops the stream, which aborts the task of the scanner.
Cancel ==
    /\ sc.state = "Normal" /\ budget.cancel
    /\ sc' = [sc EXCEPT !.state = "Cancelled"]
    /\ UNCHANGED <<dataVars, shardVars, view, budget>>

ScanStep == FindShard \/ EpochNotMatch \/ ScanShard \/ ForwardScan \/ ScanNext \/ ScanExhausted \/ TakePage

Next ==
    \/ Start \/ ScanStep \/ ForwardFails \/ ReplyLost \/ Cancel
    \/ BeginTxn \/ AllocCommit \/ CommitTxn
    \/ \E k \in DOMAIN budget.writes : WriteIntent(k) \/ SettleIntent(k)
    \/ SplitShard \/ StartMove \/ FinishMove \/ Refresh

Spec == Init /\ [][Next]_vars

----------------------------------------------------------------------------
\* Properties.

\* The pages, cursors and stores of a scan have their types.
TypeOK ==
    /\ \A g \in Groups : \A r \in rows[g] : r.ver \in 1..IntentVersion /\ (IsIntent(r) <=> r.txn # 0)
    /\ \A s \in layout : s.grp \in Groups
    /\ move \in {0, 1, 2}
    /\ txn.state \in {"none", "open", "committed", "aborted"}
    /\ sc.state \in {"None", "Normal", "Finished", "Cancelled", "Panicked"}
    /\ sc.state = "Normal" /\ budget.limit # 0 => Len(sc.data) <= budget.limit

\* Every version that was ever committed.
History ==
    budget.rows \cup
    (IF txn.state = "committed" THEN {Row(k, txn.commit, budget.writes[k], 0) : k \in DOMAIN budget.writes} ELSE {})

\* What a reader of version v sees of the range that was asked for.
Expected(v) ==
    LET r == extract_request_range(budget.range)
        asked == {h \in History : LexLeq(r.begin, h.key) /\ (r.end = NoKey \/ LexLess(h.key, r.end))}
    IN  {h \in asked : /\ h.ver <= v /\ h.val # Tombstone
                       /\ \A n \in asked : n.key = h.key /\ n.ver <= v => n.ver <= h.ver}

OnlyMaxBytes(k) == \A i \in DOMAIN k : k[i] = MaxByte

\* The cursor steps over every key that extends the last key of a page, and starts
\* again at the empty key behind a key of greatest bytes only.
PlainKeys ==
    LET ks == {r.key : r \in budget.rows} \cup DOMAIN budget.writes
    IN  /\ budget.limit # 0 => \A k \in ks : ~OnlyMaxBytes(k) /\ \A l \in ks \ {k} : SubSeq(l, 1, Smaller(Len(k), Len(l))) # k
        /\ budget.range.kind = "prefix" => ~OnlyMaxBytes(budget.range.begin)

Passed(k) == sc.state = "Finished" \/ LexLess(k, sc.cursor_key)

\* At every moment the pages handed out hold exactly what a reader of the scan's version
\* sees of the keys that the cursor has passed, each key once and in order, whatever was
\* committed, split, moved or sent again meanwhile (RangeScanner::scan_inner).
PagesAreSnapshot ==
    sc.state \in {"Normal", "Finished"} /\ PlainKeys =>
        /\ {[key |-> sc.out[i].key, val |-> sc.out[i].val] : i \in DOMAIN sc.out}
              = {[key |-> h.key, val |-> h.val] : h \in {x \in Expected(sc.version) : Passed(x.key)}}
        /\ \A i, j \in DOMAIN sc.out : i < j => LexLess(sc.out[i].key, sc.out[j].key)

\* A scan comes to an end: shards that split and move, lost answers and open
\* transactions only delay it.
ScanIsOver == PlainKeys => sc.state # "Normal"

\* The answer of group g to a scan of the moving shard.
PageOf(g, limit) ==
    LET req  == [start_version |-> clock, limit |-> limit, start_key |-> Moving.lo, end_key |-> NoKey,
                 exclude_start_key |-> FALSE, exclude_end_key |-> TRUE,
                 include_raw_data |-> FALSE, ignore_txn_intent |-> FALSE]
        mode == [kind |-> "range", start |-> Moving.lo, end |-> Moving.hi]
        from(snap) == LET es == MvccEntries(snap)
                      IN  scan_value_set(req, es, IF MustResolve(req, es) THEN Resolved(es[1]) ELSE <<>>)
        walk[n \in 0..Cardinality(rows[g])] ==
            IF n = 0 THEN [snap |-> next_mvcc_iterator(Snapshot(rows[g], mode), mode), data |-> <<>>]
            ELSE LET w == walk[n - 1]
                 IN  IF w.snap.current = NoKey THEN w
                     ELSE [snap |-> next_mvcc_iterator(w.snap, mode), data |-> w.data \o from(w.snap)]
        all == walk[Cardinality(rows[g])].data
    IN  IF limit # 0 /\ Len(all) >= limit
        THEN [data |-> SubSeq(all, 1, limit), has_more |-> TRUE]
        ELSE [data |-> all, has_more |-> FALSE]

KeysOf(resp) == {resp.data[i].key : i \in DOMAIN resp.data}

\* The merged answer to a scan of a moving shard is in order and has every key once, the
\* destination's value where it has one; up to its last key it leaves no key of either
\* group out, and without has_more it leaves out none at all (merge_scan_response).
\* Two cases are not covered: the source has more, and its page ends before that of the
\* destination; and the destination has a tombstone, which hides nothing of the source.
MergeLeavesNothingOut ==
    move # 0 /\ txn.state # "open" =>
        \A limit \in {0, 1, 2} :
            LET dst == 3 - Moving.grp
                target == PageOf(dst, limit)
                source == PageOf(Moving.grp, limit)
                merged == merge_scan_response(target, source)
                visible == KeysOf(PageOf(dst, 0)) \cup KeysOf(PageOf(Moving.grp, 0))
            IN  /\ source.has_more => \A k \in KeysOf(target) : \E l \in KeysOf(source) : LexLeq(k, l)
                /\ \A r \in rows[dst] : r.val # Tombstone
                =>
                /\ \A i, j \in DOMAIN merged.data : i < j => LexLess(merged.data[i].key, merged.data[j].key)
                /\ \A i \in DOMAIN merged.data : merged.data[i].key \in KeysOf(target) =>
                        merged.data[i] \in {target.data[n] : n \in DOMAIN target.data}
                /\ \A k \in visible \ KeysOf(merged) :
                        merged.has_more /\ \A l \in KeysOf(merged) : LexLess(l, k)

\* What range.rs promises: "All keys in [begin, inf) are scanned", here of any range.
AllKeysAreScanned ==
    sc.state = "Finished" =>
        {sc.out[i].key : i \in DOMAIN sc.out} = {h.key : h \in Expected(sc.version)}

\* A scan by pages is a snapshot of its version through splits, moves, lost answers and transactions, and
\* the merged answers of the two groups of a move leave nothing out (scan_inner, merge_scan_response).
ScansAreSnapshots == TypeOK /\ PagesAreSnapshot /\ MergeLeavesNothingOut
============================================================================
