----------------------------- MODULE RaftEngine -----------------------------
(***************************************************************************)
(* raft-engine, the store of the raft logs: writers append batches to the  *)
(* files of the append queue and then apply them to the tables in memory,  *)
(* while one thread purges old files.  A purge copies what the old files   *)
(* still hold into the rewrite queue, and the rewrite queue into new files *)
(* of its own.  The engine may stop at any time and lose what is not       *)
(* synced, and is then opened again from its files.                        *)
(*                                                                         *)
(* A writer is the only one of its raft groups and knows what its log is   *)
(* (ref), as a replica does.  File sizes are numbers of batches, and the   *)
(* share of garbage in the rewrite queue may be anything.                  *)
(***************************************************************************)
EXTENDS MemTable

CONSTANTS
    AppendLimit,        \* purge_threshold and purge_rewrite_threshold, in files
    RewriteLimit,
    BatchLimit,         \* max_batch_bytes, in entries and keys
    MaxRewriteEntries,  \* MAX_REWRITE_ENTRIES_PER_REGION
    MaxForce,           \* MAX_COUNT_BEFORE_FORCE_REWRITE
    RecoveryThreads,
    Scenarios           \* the operations of each writer, the size of a file, and how many faults

VARIABLES
    disk,       \* the files of both queues
    mts,        \* the tables in memory
    hook,       \* the files of the append queue with batches not yet applied
    wr,         \* the writers
    pg,         \* the purge thread
    gid,        \* the next id of an atomic group
    cand,       \* how often a group was asked to compact
    ref,        \* what the writers have written: up to the last sync, and after each later batch
    stamp,      \* the number of batches written, which is their content
    raced,      \* a batch was applied to the tables while its file was rewritten
    budget

vars == <<disk, mts, hook, wr, pg, gid, cand, ref, stamp, raced, budget>>

Queues == {"Append", "Rewrite"}
NoPurge == [pc |-> "idle", q |-> "none", gate |-> 0, todo |-> <<>>, out |-> <<>>, batch |-> <<>>,
            start |-> 0, barrier |-> 0, min |-> 0, next |-> [g \in Regions |-> 0]]
NothingWritten == [first |-> 1, vals |-> <<>>, kvs |-> [k \in Keys |-> 0], floor |-> 0]

-----------------------------------------------------------------------------
(* What the writers mean *)

NextIndex(a) == a.first + Len(a.vals)

\* Entries follow the log, but for the last o.back of it.
AppendAt(o, a) == NextIndex(a) - Min({o.back, Len(a.vals)})

\* The batch of operation o of a writer, with content v.
BatchOf(o, a, v) ==
    CASE o.op = "append" -> <<Entries(o.g, AppendAt(o, a), [i \in 1 .. o.n |-> v])>>
      [] o.op = "append_put" -> <<Entries(o.g, AppendAt(o, a), [i \in 1 .. o.n |-> v]), Put(o.g, o.k, v)>>
      [] o.op = "compact" -> <<Compact(o.g, Max({a.first, NextIndex(a) - o.n}))>>
      [] o.op = "clean" -> <<Clean(o.g)>>
      [] o.op = "put" -> <<Put(o.g, o.k, v)>>
      [] o.op = "del" -> <<Del(o.g, o.k)>>

Written(a, it, v) ==
    CASE it.op = "entries" -> [a EXCEPT !.vals = SubSeq(@, 1, it.at - a.first) \o it.vals]
      [] it.op = "compact" -> IF it.at <= a.first THEN a
                              ELSE [a EXCEPT !.first = it.at,
                                             !.vals = SubSeq(@, it.at - a.first + 1, Len(@))]
      [] it.op = "clean" -> [NothingWritten EXCEPT !.floor = v]
      [] it.op = "put" -> [a EXCEPT !.kvs[it.k] = it.vals[1]]
      [] it.op = "del" -> [a EXCEPT !.kvs[it.k] = 0]
WrittenAll(r, batch, v) ==
    FoldLeft(LAMBDA x, it : [x EXCEPT ![it.g] = Written(@, it, v)], r, batch)

-----------------------------------------------------------------------------
(* The files *)

LastSeq(d) == d.first + Len(d.files) - 1
Rotated(d) == [d EXCEPT !.files = Append(@, <<>>), !.synced = 0]
Appended(d, batch) == [d EXCEPT !.files[Len(d.files)] = Append(@, batch)]
Synced(d) == [d EXCEPT !.synced = Len(Last(d.files))]
IsFull(d) == Len(Last(d.files)) >= budget.fill

\* The queue to append to: a full file is closed and a new one is started.
Writable(d) == IF IsFull(d) THEN Rotated(d) ELSE d

post_new_log_file(h, seq) == Append(h, [seq |-> seq, n |-> 0])
CountFile(h, seq, by) ==
    [i \in DOMAIN h |-> IF h[i].seq = seq THEN [h[i] EXCEPT !.n = @ + by] ELSE h[i]]

-----------------------------------------------------------------------------
(* Opening *)

\* The threads that replay each queue.
Concurrency(a, b) ==
    LET threads == Min({RecoveryThreads, a + b})
        forAppend == Max({1, (threads * a) \div (a + b)})
    IN IF a > 0 /\ b > 0 THEN [Append |-> forAppend, Rewrite |-> Max({1, threads - forAppend})]
       ELSE [Append |-> threads, Rewrite |-> threads]

Recovered(d) ==
    LET c == Concurrency(Len(d["Append"].files), Len(d["Rewrite"].files))
        m(q) == recover_queue_imp(q, d[q].first, d[q].files, c[q])
    IN merge_append_context(m("Rewrite"), m("Append"))

open_with(d) ==
    /\ disk' = d
    /\ mts' = Recovered(d)
    /\ hook' = [i \in DOMAIN d["Append"].files |-> [seq |-> d["Append"].first + i - 1, n |-> 0]]
    /\ pg' = NoPurge /\ gid' = 0 /\ cand' = [g \in Regions |-> 0]

\* A queue after a stop: of the last file the first keep batches, and without
\* the first k files when the stop comes while files are deleted.
AfterStop(d, keep, k) ==
    [first |-> d.first + k,
     files |-> [i \in 1 .. Len(d.files) - k |->
                  IF i = Len(d.files) - k THEN SubSeq(Last(d.files), 1, keep) ELSE d.files[i + k]],
     synced |-> keep]

Deletable(q) == IF pg.pc = "purge" /\ pg.q = q THEN pg.min - disk[q].first ELSE 0

\* What a stop may leave: kept batches and deleted files of each queue.
StopPoints ==
    {p \in [ka : 0 .. budget.fill, kr : 0 .. budget.fill, da : 0 .. Deletable("Append"), dr : 0 .. Deletable("Rewrite")] :
       /\ p.ka \in disk["Append"].synced .. Len(Last(disk["Append"].files))
       /\ p.kr \in disk["Rewrite"].synced .. Len(Last(disk["Rewrite"].files))}
DiskAfter(p) == [Append |-> AfterStop(disk["Append"], p.ka, p.da), Rewrite |-> AfterStop(disk["Rewrite"], p.kr, p.dr)]

\* What was written from the kept batches on.
WrittenSince(p) == SubSeq(ref, p.ka - disk["Append"].synced + 1, Len(ref))

\* A writer takes what it finds in the table as its log.
Found(t, a) ==
    [first |-> IF t.ents = <<>> THEN a.first ELSE t.first, vals |-> [i \in DOMAIN t.ents |-> t.ents[i].v],
     kvs |-> [k \in Keys |-> t.kvs[k].v], floor |-> a.floor]

\* The engine stops and is opened again.
Stop ==
    /\ budget.stops > 0
    /\ budget' = [budget EXCEPT !.stops = @ - 1]
    /\ \E p \in StopPoints :
         /\ open_with(DiskAfter(p))
         /\ ref' = <<[g \in Regions |-> Found(mts'.tabs[g], WrittenSince(p)[1][g])]>>
    /\ wr' = [w \in DOMAIN wr |-> [wr[w] EXCEPT !.handle = 0, !.batch = <<>>, !.tries = 0]]
    /\ UNCHANGED <<stamp, raced>>

Init ==
    /\ \E s \in Scenarios :
         /\ wr = [w \in DOMAIN s.scripts |-> [script |-> s.scripts[w], handle |-> 0, batch |-> <<>>, tries |-> 0]]
         /\ budget = [stops |-> s.stops, purges |-> s.purges, nospace |-> s.nospace,
                      fill |-> s.fill]       \* target_file_size, in batches
    /\ disk = [q \in Queues |-> [first |-> 1, files |-> <<<<>>>>, synced |-> 0]]
    /\ mts = NoTables /\ hook = <<[seq |-> 1, n |-> 0]>>
    /\ pg = NoPurge /\ gid = 0 /\ cand = [g \in Regions |-> 0]
    /\ ref = <<[g \in Regions |-> NothingWritten]>> /\ stamp = 0 /\ raced = FALSE

-----------------------------------------------------------------------------
(* Writers *)

\* The append queue and the hook of the purge after d was extended by a batch.
WriteTo(d, h, w, batch, sync) ==
    LET d2 == Appended(d, batch) IN
    /\ disk' = [disk EXCEPT !["Append"] = IF sync THEN Synced(d2) ELSE d2]
    /\ hook' = CountFile(h, LastSeq(d), 1)
    /\ wr' = [wr EXCEPT ![w] = [script |-> Tail(@.script), handle |-> LastSeq(d),
                               batch |-> batch, tries |-> 0]]

\* A batch is written to the active file; a full file is synced and closed first.
AppendLog(w) ==
    /\ wr[w].handle = 0 /\ wr[w].script # <<>>
    /\ LET o == Head(wr[w].script)
           full == IsFull(disk["Append"])
           d == Writable(disk["Append"])
           h == IF full THEN post_new_log_file(hook, LastSeq(d)) ELSE hook
           batch == BatchOf(o, Last(ref)[o.g], stamp + 1)
           r == WrittenAll(Last(ref), batch, stamp + 1)
       IN /\ WriteTo(d, h, w, batch, o.sync)
          /\ ref' = IF o.sync THEN <<r>>
                    ELSE IF full THEN <<Last(ref), r>> ELSE Append(ref, r)
    /\ stamp' = stamp + 1
    /\ UNCHANGED <<mts, pg, gid, cand, raced, budget>>

\* No space is left: the write is undone and a new file is started for another
\* attempt, after which the write fails.
AppendFails(w) ==
    /\ wr[w].handle = 0 /\ wr[w].script # <<>> /\ budget.nospace > 0
    /\ budget' = [budget EXCEPT !.nospace = @ - 1]
    /\ LET d == Rotated(Writable(disk["Append"]))
           h == IF IsFull(disk["Append"]) THEN post_new_log_file(hook, LastSeq(d) - 1) ELSE hook
       IN /\ disk' = [disk EXCEPT !["Append"] = d]
          /\ hook' = post_new_log_file(h, LastSeq(d))
    /\ wr' = [wr EXCEPT ![w] = IF @.tries = 0 THEN [@ EXCEPT !.tries = 1]
                              ELSE [@ EXCEPT !.tries = 0, !.script = Tail(@)]]
    /\ ref' = <<Last(ref)>>
    /\ UNCHANGED <<mts, pg, gid, cand, stamp, raced>>

\* A purge keeps the table of a group that is removed meanwhile.
Detached(todo, g) ==
    [i \in DOMAIN todo |-> IF todo[i].g = g /\ ~todo[i].dead
                           THEN [g |-> g, dead |-> TRUE, tab |-> mts.tabs[g]] ELSE todo[i]]

\* The batch of a writer is applied to the tables.
ApplyMemtables(w) ==
    /\ wr[w].handle # 0
    /\ mts' = apply_append_writes(mts, finish_write(wr[w].batch, "Append", wr[w].handle))
    /\ hook' = CountFile(hook, wr[w].handle, -1)
    /\ pg' = IF wr[w].batch[1].op = "clean" THEN [pg EXCEPT !.todo = Detached(@, wr[w].batch[1].g)] ELSE pg
    /\ wr' = [wr EXCEPT ![w] = [@ EXCEPT !.handle = 0, !.batch = <<>>]]
    /\ raced' = (raced \/ (pg.pc = "rewrite" /\ wr[w].handle <= pg.gate))
    /\ UNCHANGED <<disk, gid, cand, ref, stamp, budget>>

-----------------------------------------------------------------------------
(* Rewriting *)

ItemSize(it) == IF it.op = "entries" THEN Len(it.vals) ELSE 1
BatchSize(items) == FoldLeft(LAMBDA n, it : n + ItemSize(it), 0, items)

\* The group of a rewrite that does not fit into one batch is a sequence of
\* batches.  Rewriting the rewrite queue must replay all of them or none.
Mark(a, atomic) ==
    IF ~atomic THEN <<>> ELSE <<GroupMark(gid, IF a.grp THEN "middle" ELSE "begin")>>
MarkKind(a, atomic) == IF ~atomic THEN "plain" ELSE IF a.grp THEN "middle" ELSE "begin"
Emitted(a, g, atomic) ==
    [cur |-> <<>>, at |-> a.at + Len(a.cur), batch |-> <<>>, prev |-> 0, grp |-> atomic,
     out |-> Append(a.out, [items |-> a.batch \o Mark(a, atomic) \o <<Entries(g, a.at, a.cur)>>,
                            kind |-> MarkKind(a, atomic), g |-> g])]
Flushed(a, g) ==
    [a EXCEPT !.batch = <<>>, !.prev = 0,
              !.out = Append(@, [items |-> a.batch, kind |-> "plain", g |-> g])]

\* One entry v of group g; last says that none follows.
SplitStep(a0, v, last, g, atomic) ==
    LET a == [a0 EXCEPT !.cur = Append(@, v)] IN
    IF last \/ Len(a.cur) + a.prev <= BatchLimit THEN a
    ELSE IF ~atomic \/ a.prev = 0 THEN Emitted(a, g, atomic)
    ELSE IF Len(a.cur) <= BatchLimit THEN Flushed(a, g)
    ELSE Emitted(Flushed(a, g), g, atomic)

Puts(g, kvs) ==
    LET list == SetToSeq(kvs) IN [i \in DOMAIN list |-> Put(g, list[i].k, list[i].v)]

\* What is left of a table after the split, with its keys.
SplitRest(a, g, kvs) ==
    LET items == a.batch \o (IF a.cur = <<>> THEN <<>> ELSE <<Entries(g, a.at, a.cur)>>) \o Puts(g, kvs)
    IN IF a.grp
       THEN [a EXCEPT !.batch = <<>>,
                      !.out = Append(@, [items |-> Append(items, GroupMark(gid, "end")),
                                         kind |-> "end", g |-> g])]
       ELSE IF BatchSize(items) > BatchLimit
       THEN [a EXCEPT !.batch = <<>>,
                      !.out = Append(@, [items |-> items, kind |-> "plain", g |-> g])]
       ELSE [a EXCEPT !.batch = items]

\* The batches that rewrite entries es and keys kvs of group g, after batch.
Split(batch, g, es, kvs, atomic) ==
    LET n == Len(es.vals)
        a == [cur |-> <<>>, at |-> es.at, batch |-> batch, prev |-> BatchSize(batch), grp |-> FALSE, out |-> <<>>]
    IN SplitRest(FoldLeft(LAMBDA b, i : SplitStep(b, es.vals[i], i = n, g, atomic), a, [i \in 1 .. n |-> i]),
                 g, kvs)

TableOf(h) == IF h.dead THEN h.tab ELSE mts.tabs[h.g]

\* The next table of a rewrite is read.
FetchMemtable ==
    /\ pg.pc = "rewrite" /\ pg.out = <<>> /\ pg.todo # <<>>
    /\ LET h == Head(pg.todo)
           t == TableOf(h)
           es == IF pg.gate # 0 THEN fetch_entry_indexes_before(t, pg.gate)
                 ELSE fetch_rewritten_entry_indexes(t)
           kvs == IF pg.gate # 0 THEN fetch_kvs_before(t, pg.gate) ELSE fetch_rewritten_kvs(t)
           a == Split(pg.batch, h.g, es, kvs, pg.gate = 0)
       IN /\ pg' = [pg EXCEPT !.todo = Tail(@), !.out = a.out, !.batch = a.batch]
          /\ gid' = IF a.grp THEN gid + 1 ELSE gid
    /\ UNCHANGED <<disk, mts, hook, wr, cand, ref, stamp, raced, budget>>

\* A batch is appended to the rewrite queue.
RewriteTo(items, sync) ==
    LET d == Appended(Writable(disk["Rewrite"]), items)
    IN disk' = [disk EXCEPT !["Rewrite"] = IF sync THEN Synced(d) ELSE d]

\* A batch of a rewrite is written, and the tables refer to it from now on.
RewriteImpl ==
    /\ pg.pc = "rewrite" /\ pg.out # <<>>
    /\ LET b == Head(pg.out)
           seq == LastSeq(Writable(disk["Rewrite"]))
           m == apply_rewrite_writes(mts, finish_write(b.items, "Rewrite", seq), pg.gate)
       IN /\ RewriteTo(b.items, FALSE)
          /\ mts' = IF b.kind = "end" THEN apply_rewrite_atomic_group(m, b.g, pg.start, seq) ELSE m
          /\ pg' = [pg EXCEPT !.out = Tail(@), !.start = IF b.kind = "begin" THEN seq ELSE @]
    /\ UNCHANGED <<hook, wr, gid, cand, ref, stamp, raced, budget>>

\* The end of a rewrite: the last batch is written and the queue is synced.
FinishRewrite ==
    /\ pg.pc = "rewrite" /\ pg.out = <<>> /\ pg.todo = <<>>
    /\ IF pg.batch = <<>>
       THEN disk' = [disk EXCEPT !["Rewrite"] = Synced(@)] /\ UNCHANGED mts
       ELSE /\ RewriteTo(pg.batch, TRUE)
            /\ mts' = apply_rewrite_writes(
                        mts, finish_write(pg.batch, "Rewrite", LastSeq(Writable(disk["Rewrite"]))), pg.gate)
    /\ cand' = IF pg.q = "Append" THEN pg.next ELSE cand
    /\ pg' = [pg EXCEPT !.pc = "rescan", !.batch = <<>>]
    /\ UNCHANGED <<hook, wr, gid, ref, stamp, raced, budget>>

-----------------------------------------------------------------------------
(* A purge *)

ActiveFile(q) == LastSeq(disk[q])
ManyFiles(q, limit) == Len(disk[q].files) > 1 /\ Len(disk[q].files) > limit

Handles(gs) ==
    LET list == SetToSeq(gs)
    IN [i \in DOMAIN list |-> [g |-> list[i], dead |-> FALSE, tab |-> NoTable]]

CanPurge == pg.pc = "idle" /\ budget.purges > 0
PurgeSpent == budget' = [budget EXCEPT !.purges = @ - 1]

\* A purge begins with the rewrite queue when too much of it is garbage: it is
\* copied to new files.
RewriteRewriteQueue ==
    /\ CanPurge /\ ManyFiles("Rewrite", RewriteLimit)
    /\ disk' = [disk EXCEPT !["Rewrite"] = Rotated(@)]
    /\ pg' = [pg EXCEPT !.pc = "rewrite", !.q = "Rewrite", !.gate = 0,
                        !.todo = Handles({g \in Regions : mts.tabs[g].here /\ min_file_seq(mts.tabs[g], "Rewrite") # 0})]
    /\ PurgeSpent
    /\ UNCHANGED <<mts, hook, wr, gid, cand, ref, stamp, raced>>

SkipRewriteQueue ==
    /\ CanPurge /\ Len(disk["Append"].files) > 1
    /\ pg' = [pg EXCEPT !.pc = "check"]
    /\ PurgeSpent
    /\ UNCHANGED <<disk, mts, hook, wr, gid, cand, ref, stamp, raced>>

\* Watermarks at tenths of the append queue, never the active file.
append_queue_watermark(tenths) ==
    LET d == disk["Append"] IN Min({d.first + (Len(d.files) * tenths) \div 10, LastSeq(d) - 1})

\* Mutant: the files that are not applied are purged as well.
AllReadyForPurge == ActiveFile("Append")

\* The first file with batches that are not applied, or the active file.
first_file_not_ready_for_purge ==
    Min({ActiveFile("Append")} \cup {hook[i].seq : i \in {j \in DOMAIN hook : hook[j].n > 0}})

CheckAppendQueue ==
    /\ pg.pc = "check"
    /\ pg' = IF ManyFiles("Append", AppendLimit)
             THEN [pg EXCEPT !.pc = "tombstones", !.q = "Append", !.gate = append_queue_watermark(7),
                             !.min = append_queue_watermark(2), !.barrier = first_file_not_ready_for_purge]
             ELSE NoPurge
    /\ UNCHANGED <<disk, mts, hook, wr, gid, cand, ref, stamp, raced, budget>>

\* The marks of the groups that were removed go to the rewrite queue, synced.
RewriteTombstones ==
    /\ pg.pc = "tombstones"
    /\ IF mts.removed = <<>> THEN disk' = [disk EXCEPT !["Rewrite"] = Synced(@)]
       ELSE RewriteTo(take_cleaned_region_logs(mts), TRUE)
    /\ mts' = [mts EXCEPT !.removed = <<>>]
    /\ pg' = [pg EXCEPT !.pc = "collect"]
    /\ UNCHANGED <<hook, wr, gid, cand, ref, stamp, raced, budget>>

IsOld(t, compact) == t.rw > 0 \/ (min_file_seq(t, "Append") # 0 /\ min_file_seq(t, "Append") < compact)
HasOldRefs(t, gate) == min_file_seq(t, "Append") # 0 /\ min_file_seq(t, "Append") <= gate
IsHeavy(t, gate, count) == has_at_least_some_entries_before(t, gate, count)

\* The heavy groups are asked to compact, and rewritten when they were asked
\* too often.  Other groups are rewritten when they are not heavy.
AskToCompact(g) ==
    LET t == mts.tabs[g] IN t.here /\ IsOld(t, pg.min) /\ IsHeavy(t, pg.gate, MaxRewriteEntries)
ToRewrite(g) ==
    LET t == mts.tabs[g] IN
    /\ t.here /\ HasOldRefs(t, pg.gate)
    /\ IF AskToCompact(g) THEN cand[g] >= MaxForce
       ELSE ~IsHeavy(t, pg.gate, MaxRewriteEntries + t.rw)

rewrite_or_compact_append_queue ==
    /\ pg.pc = "collect"
    /\ pg' = [pg EXCEPT !.pc = "rewrite", !.min = 0,
                        !.todo = Handles({g \in Regions : ToRewrite(g)}),
                        !.next = [g \in Regions |-> IF AskToCompact(g) /\ cand[g] < MaxForce
                                                    THEN cand[g] + 1 ELSE 0]]
    /\ UNCHANGED <<disk, mts, hook, wr, gid, cand, ref, stamp, raced, budget>>

\* The files that no table refers to are the ones to delete.
RescanMemtables ==
    /\ pg.pc = "rescan"
    /\ LET seq == IF pg.q = "Append" THEN pg.barrier ELSE ActiveFile("Rewrite")
           refs == {min_file_seq(mts.tabs[g], pg.q) : g \in {x \in Regions : mts.tabs[x].here}} \ {0}
       IN pg' = [pg EXCEPT !.pc = "purge", !.min = Min({seq} \cup refs)]
    /\ UNCHANGED <<disk, mts, hook, wr, gid, cand, ref, stamp, raced, budget>>

\* Deleting them, and what follows: the append queue, or the end.
PurgeTo ==
    /\ pg.pc = "purge"
    /\ LET d == disk[pg.q]
           n == IF pg.min > d.first THEN pg.min - d.first ELSE 0
       IN /\ disk' = [disk EXCEPT ![pg.q] = [@ EXCEPT !.first = d.first + n, !.files = SubSeq(@, n + 1, Len(@))]]
          /\ hook' = IF pg.q = "Append" THEN SelectSeq(hook, LAMBDA f : f.seq >= d.first + n) ELSE hook
    /\ pg' = IF pg.q = "Rewrite" THEN [NoPurge EXCEPT !.pc = "check"] ELSE NoPurge
    /\ UNCHANGED <<mts, wr, gid, cand, ref, stamp, raced, budget>>

Writes == \E w \in DOMAIN wr : AppendLog(w) \/ AppendFails(w) \/ ApplyMemtables(w)
Purges ==
    \/ RewriteRewriteQueue \/ SkipRewriteQueue \/ CheckAppendQueue \/ RewriteTombstones
    \/ rewrite_or_compact_append_queue \/ FetchMemtable \/ RewriteImpl \/ FinishRewrite
    \/ RescanMemtables \/ PurgeTo

\* A failed assertion stops the engine.
Next == (mts.ok /\ (Writes \/ Purges)) \/ Stop

Spec == Init /\ [][Next]_vars

-----------------------------------------------------------------------------
(* Properties *)

\* The table of a group holds at least what was written: the entries and keys
\* are those of the writer, and nothing that precedes a removal is there.
Holds(t, a) ==
    /\ a.vals # <<>> =>
         /\ t.here /\ t.first <= a.first /\ last_index(t) = NextIndex(a) - 1
         /\ \A i \in DOMAIN a.vals : t.ents[a.first - t.first + i].v = a.vals[i]
    /\ \A k \in Keys : a.kvs[k] # 0 => t.kvs[k].v = a.kvs[k]
    /\ \A i \in DOMAIN t.ents : t.ents[i].v > a.floor
    /\ \A k \in Keys : t.kvs[k] # NoKv => t.kvs[k].v > a.floor

\* The entry of a log at an index, 0 if there is none.
EntryAt(a, i) == IF i - a.first + 1 \in DOMAIN a.vals THEN a.vals[i - a.first + 1] ELSE 0
Entry(t, i) == IF i - t.first + 1 \in DOMAIN t.ents THEN t.ents[i - t.first + 1].v ELSE 0

\* A table holds what the batch that was kept last, and none of those that were
\* lost, says of the group: since is what was written from that batch on.
Survives(t, since, g) ==
    LET kept == since[1][g]
        stays(i) == \A n \in DOMAIN since : EntryAt(since[n][g], i) = EntryAt(kept, i)
        keeps(k) == \A n \in DOMAIN since : since[n][g].kvs[k] = kept.kvs[k]
    IN /\ \A i \in kept.first .. NextIndex(kept) - 1 : stays(i) => Entry(t, i) = EntryAt(kept, i)
       /\ \A k \in Keys : kept.kvs[k] # 0 /\ keeps(k) => t.kvs[k].v = kept.kvs[k]
       /\ kept.vals # <<>> => last_index(t) <= NextIndex(kept) - 1
       /\ \A i \in DOMAIN t.ents : t.ents[i].v > kept.floor
       /\ \A k \in Keys : t.kvs[k] # NoKv => t.kvs[k].v > kept.floor

\* Wherever the engine stops, opening it again (Engine::open_with) brings back
\* the entries and keys that are in its files, whatever a purge was doing: only
\* what a lost batch has replaced may be missing, no entry follows the end of
\* the log, and no group that was cleaned comes back.  A batch that is applied
\* while its file is rewritten is left out (see LocationsAreTrue).
NothingIsLost ==
    raced \/ \A p \in StopPoints :
      LET m == Recovered(DiskAfter(p))
      IN m.ok /\ \A g \in Regions : Survives(m.tabs[g], WrittenSince(p), g)

\* The content of file seq of queue q at an index or a key of a group.
HasEntry(q, seq, g, i, v) ==
    \E b \in Range(disk[q].files[seq - disk[q].first + 1]), n \in 1 .. 3 :
       n <= Len(b) /\ b[n].op = "entries" /\ b[n].g = g
         /\ i - b[n].at + 1 \in DOMAIN b[n].vals /\ b[n].vals[i - b[n].at + 1] = v
HasKey(q, seq, g, k, v) ==
    \E b \in Range(disk[q].files[seq - disk[q].first + 1]) :
       \E n \in DOMAIN b : b[n].op = "put" /\ b[n].g = g /\ b[n].k = k /\ b[n].vals = <<v>>
Exists(loc) == loc.seq \in disk[loc.q].first .. LastSeq(disk[loc.q])

\* The location of every entry and key of the tables is the one of its content:
\* the file has not been purged and holds it (MemTable::get_entry, rewrite_key).
LocationsAreTrue ==
    \A g \in Regions :
      LET t == mts.tabs[g] IN
      /\ \A i \in DOMAIN t.ents :
           Exists(t.ents[i]) /\ HasEntry(t.ents[i].q, t.ents[i].seq, g, t.first + i - 1, t.ents[i].v)
      /\ \A k \in Keys : t.kvs[k] # NoKv =>
           Exists(t.kvs[k]) /\ HasKey(t.kvs[k].q, t.kvs[k].seq, g, k, t.kvs[k].v)

\* The same, but for a batch that is applied while its file is rewritten.
LocationsAreLive == raced \/ LocationsAreTrue

\* A writer reads back what it wrote, with the purge anywhere in its work.
WritersSeeTheirWrites ==
    raced \/ \A g \in Regions :
      (\A w \in DOMAIN wr : \A i \in DOMAIN wr[w].batch : wr[w].batch[i].g # g)
        => Holds(mts.tabs[g], Last(ref)[g])

\* The tables of a group as far as they can be observed.
Observed(t) == [here |-> t.here, ents |-> t.ents, kvs |-> t.kvs, rw |-> t.rw,
                first |-> IF t.ents = <<>> THEN 0 ELSE t.first]

\* The files of a queue may be replayed in chunks by machines of their own:
\* their merged state is the same as when they are replayed by one machine
\* (the contract of ReplayMachine).
ChunksAgree ==
    \A q \in Queues :
      LET all(n) == recover_queue_imp(q, disk[q].first, disk[q].files, n)
          one == all(1)
      IN \A n \in 2 .. Len(disk[q].files) :
           LET many == all(n) IN
           /\ many.mts.ok = one.mts.ok
           /\ \A g \in Regions : Observed(many.mts.tabs[g]) = Observed(one.mts.tabs[g])

\* Tables, files, writers and the purge have their types.
TypeOK ==
    /\ \A q \in Queues : disk[q].first \in Nat \ {0} /\ Len(disk[q].files) > 0
                         /\ disk[q].synced \in 0 .. Len(Last(disk[q].files))
    /\ Len(hook) = Len(disk["Append"].files) /\ \A i \in DOMAIN hook : hook[i].n \in Nat
    /\ pg.pc \in {"idle", "check", "tombstones", "collect", "rewrite", "rescan", "purge"}
    /\ pg.q \in Queues \cup {"none"}
    /\ gid \in GroupIds /\ cand \in [Regions -> 0 .. MaxForce]
    /\ Len(ref) = Len(Last(disk["Append"].files)) - disk["Append"].synced + 1

=============================================================================
