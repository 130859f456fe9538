------------------------------ MODULE MemTable ------------------------------
(***************************************************************************)
(* The in-memory index of raft-engine: one table per raft group with the   *)
(* location of every log entry and of every key.  Tables are values here   *)
(* and a method is an operator from tables to tables.  A location is the   *)
(* queue and the sequence number of a log file, with the content that is   *)
(* written there.  A set of tables carries the flag ok, which a failed     *)
(* assertion clears.  Only numbers of files and indexes are kept of the    *)
(* sizes, and the statistics of live and deleted entries are left out.     *)
(***************************************************************************)
EXTENDS Integers, Sequences, SequencesExt, FiniteSets, FiniteSetsExt

CONSTANTS Regions, Keys

NoKv == [q |-> "none", seq |-> 0, v |-> 0]
\* No atomic group: a group ends at the file of its last batch.
NoGroup == [start |-> 0, end |-> 0]

MemTableNew == [here |-> TRUE, first |-> 0, ents |-> <<>>, rw |-> 0,
                kvs |-> [k \in Keys |-> NoKv], ag |-> NoGroup]
NoTable == [MemTableNew EXCEPT !.here = FALSE]

last_index(t) == t.first + Len(t.ents) - 1

-----------------------------------------------------------------------------
(* Entries *)

unsafe_truncate_back(t, index) ==
    LET n == IF index > t.first THEN index - t.first ELSE 0
    IN [t EXCEPT !.ents = SubSeq(@, 1, Min({n, Len(@)})), !.rw = Min({@, n})]

\* When prepare_append panics: a hole, or an overwrite of compacted entries.
AppendPanics(t, at, allow_hole, allow_overwrite) ==
    /\ t.ents # <<>>
    /\ \/ at < t.first /\ ~allow_overwrite
       \/ last_index(t) + 1 < at /\ ~allow_hole

prepare_append(t, at) ==
    IF t.ents = <<>> THEN [t EXCEPT !.first = at]
    ELSE IF at < t.first \/ last_index(t) + 1 < at
    THEN [unsafe_truncate_back(t, 0) EXCEPT !.first = at]
    ELSE unsafe_truncate_back(t, at)

\* The table after the entries at locs, the first of which has index at.
append(t, at, locs) ==
    IF locs = <<>> THEN t ELSE [prepare_append(t, at) EXCEPT !.ents = @ \o locs]

replay_rewrite(t, at, locs) ==
    IF locs = <<>> THEN t
    ELSE LET a == append(t, at, locs) IN [a EXCEPT !.rw = Len(a.ents)]

compact_to(t, index) ==
    IF t.ents = <<>> \/ index <= t.first THEN t
    ELSE LET count == Min({index - t.first, Len(t.ents)})
         IN [t EXCEPT !.first = index,
                      !.ents = SubSeq(@, count + 1, Len(@)),
                      !.rw = @ - Min({count, @})]

\* The rewritten entries that are still in the table, and the position in the
\* table of the first of them.
RewriteFirst(t, at) == Max({at, t.first})
RewriteOverlap(t, at, locs) ==
    Max({0, Min({at + Len(locs) - 1, last_index(t)}) + 1 - RewriteFirst(t, at)})
RewritePos(t, at) == RewriteFirst(t, at) - t.first

\* A rewrite stops at an entry that was appended since its input was read.  A
\* gate of 0 means that the rewrite queue itself is rewritten.
IsNewAppend(loc, gate) == IF gate # 0 THEN loc.seq > gate ELSE loc.q = "Append"
RewriteLen(t, at, locs, gate) ==
    Cardinality({i \in 1 .. RewriteOverlap(t, at, locs) :
                   \A j \in 1 .. i : ~IsNewAppend(t.ents[RewritePos(t, at) + j], gate)})

\* The assertions of a rewrite: the entry before the rewritten ones is itself
\* a rewritten one, and rewriting the append queue only moves forward.
RewritePanics(t, at, locs, gate) ==
    /\ t.ents # <<>> /\ locs # <<>> /\ RewriteOverlap(t, at, locs) > 0
    /\ LET pos == RewritePos(t, at) IN
       \/ pos # 0 /\ t.ents[pos].q # "Rewrite"
       \/ gate # 0 /\ pos + RewriteLen(t, at, locs, gate) < t.rw

rewrite(t, at, locs, gate) ==
    IF t.ents = <<>> \/ locs = <<>> \/ RewriteOverlap(t, at, locs) = 0 THEN t
    ELSE LET pos == RewritePos(t, at)
             len == RewriteLen(t, at, locs, gate)
             from == RewriteFirst(t, at) - at
         IN [t EXCEPT
               !.ents = [i \in DOMAIN @ |-> IF i > pos /\ i <= pos + len
                                            THEN locs[from + i - pos] ELSE @[i]],
               !.rw = IF gate = 0 THEN Max({@, pos + len}) ELSE pos + len]

-----------------------------------------------------------------------------
(* Keys *)

put(t, k, v, file) == [t EXCEPT !.kvs[k] = [q |-> file.q, seq |-> file.seq, v |-> v]]
delete(t, k) == [t EXCEPT !.kvs[k] = NoKv]

rewrite_key(t, k, gate, seq) ==
    LET kv == t.kvs[k] IN
    IF kv.q = "Rewrite" THEN [t EXCEPT !.kvs[k].seq = seq]
    ELSE IF kv.q = "Append" /\ gate # 0 /\ kv.seq <= gate
    THEN [t EXCEPT !.kvs[k].q = "Rewrite", !.kvs[k].seq = seq]
    ELSE t

-----------------------------------------------------------------------------
(* What a purge reads of a table *)

\* The entries [at, vals] of the table in positions i to j.
Slice(t, i, j) == [at |-> t.first + i - 1, vals |-> [n \in 1 .. j - i + 1 |-> t.ents[i + n - 1].v]]

\* The appended entries that are not newer than the gate, up to the first that is.
fetch_entry_indexes_before(t, gate) ==
    LET old == {i \in t.rw + 1 .. Len(t.ents) : \A j \in t.rw + 1 .. i : t.ents[j].seq <= gate}
    IN Slice(t, t.rw + 1, t.rw + Cardinality(old))
fetch_rewritten_entry_indexes(t) == Slice(t, 1, t.rw)

fetch_kvs_before(t, gate) ==
    {[k |-> k, v |-> t.kvs[k].v] : k \in {x \in Keys : t.kvs[x].q = "Append" /\ t.kvs[x].seq <= gate}}
fetch_rewritten_kvs(t) ==
    {[k |-> k, v |-> t.kvs[k].v] : k \in {x \in Keys : t.kvs[x].q = "Rewrite"}}

\* The oldest file of a queue that the table refers to, as a set.
OldestRefs(t, q) ==
    {t.ents[i].seq : i \in IF q = "Append" THEN {t.rw + 1} \cap DOMAIN t.ents
                                            ELSE {j \in {1} : t.rw > 0}}
    \cup {t.kvs[k].seq : k \in {x \in Keys : t.kvs[x].q = q}}
\* 0 stands for None.
min_file_seq(t, q) ==
    LET refs == OldestRefs(t, q) IN
    IF refs = {} THEN 0
    ELSE IF q = "Rewrite" /\ t.ag # NoGroup /\ Min(refs) <= t.ag.end
    THEN Min({t.ag.start, Min(refs)})
    ELSE Min(refs)

has_at_least_some_entries_before(t, gate, count) ==
    count <= Len(t.ents) /\ t.ents[count].seq <= gate

-----------------------------------------------------------------------------
(* Tables of neighbouring parts of a queue, and of the two queues *)

\* The keys of a newer table replace those of an older one.
PutAll(t, r) == [t EXCEPT !.kvs = [k \in Keys |-> IF r.kvs[k] # NoKv THEN r.kvs[k] ELSE @[k]]]

MergePanics(t, r) ==
    \/ r.ents # <<>> /\ AppendPanics(t, r.first, r.rw > 0, TRUE)
    \/ r.ag # NoGroup /\ t.ag # NoGroup /\ t.ag.end > r.ag.start
merge_newer_neighbor(t, r) ==
    LET p == prepare_append(t, r.first)
        e == IF r.ents = <<>> THEN t
             ELSE [p EXCEPT !.ents = @ \o r.ents, !.rw = @ + r.rw]
    IN [PutAll(e, r) EXCEPT !.ag = IF r.ag # NoGroup THEN r.ag ELSE @]

merge_append_table(t, r) == PutAll(append(t, r.first, r.ents), r)

-----------------------------------------------------------------------------
(***************************************************************************)
(* How the engine applies the items of its log to the tables, and how it   *)
(* rebuilds them from the files of the append queue and of the rewrite     *)
(* queue when it is opened.  The files of a queue are divided into chunks  *)
(* that are replayed by machines of their own, whose states are merged.    *)
(*                                                                         *)
(* An item is a record with the fields g (the raft group), op, at (an      *)
(* index), vals, k (a key) and file; the last one is set when a batch is   *)
(* written or decoded.                                                     *)
(***************************************************************************)
CONSTANT MaxGroup       \* the last id of an atomic group

GroupIds == 0 .. MaxGroup

Item(g, op, at, vals, k) == [g |-> g, op |-> op, at |-> at, vals |-> vals, k |-> k]
Entries(g, at, vals) == Item(g, "entries", at, vals, "")
Compact(g, at) == Item(g, "compact", at, <<>>, "")
Clean(g) == Item(g, "clean", 0, <<>>, "")
Put(g, k, v) == Item(g, "put", 0, <<v>>, k)
Del(g, k) == Item(g, "del", 0, <<>>, k)
\* The mark that a batch is the begin, a middle or the end of an atomic group.
GroupMark(id, status) == Item(id, "group", 0, <<>>, status)

\* The items of a batch with the file that they are written to or read from.
finish_write(batch, q, seq) ==
    [i \in DOMAIN batch |-> batch[i] @@ [file |-> [q |-> q, seq |-> seq]]]

Locations(it) ==
    [i \in DOMAIN it.vals |-> [q |-> it.file.q, seq |-> it.file.seq, v |-> it.vals[i]]]

\* The result of a step on the value of the state before it: TLC evaluates that
\* value once, before the step.
From(value, Step(_)) == CHOOSE y \in {Step(x) : x \in {value}} : TRUE

-----------------------------------------------------------------------------
(* The set of tables *)

NoTables == [tabs |-> [g \in Regions |-> NoTable], removed |-> <<>>, ok |-> TRUE]

get_or_insert(m, g) == IF m.tabs[g].here THEN m.tabs[g] ELSE MemTableNew
remove(m, g, record_tombstone) ==
    [m EXCEPT !.tabs[g] = NoTable,
              !.removed = IF record_tombstone THEN Append(@, g) ELSE @]

\* One item on the table of its group.
ItemOnTable(t, it) ==
    CASE it.op = "compact" -> compact_to(t, it.at)
      [] it.op = "put" -> put(t, it.k, it.vals[1], it.file)
      [] it.op = "del" -> delete(t, it.k)
      [] it.op = "entries" /\ it.file.q = "Append" -> append(t, it.at, Locations(it))
      [] it.op = "entries" /\ it.file.q = "Rewrite" -> replay_rewrite(t, it.at, Locations(it))

\* One item on the tables; record says whether a cleaned group is remembered.
ApplyItem(m, it, allow_hole, allow_overwrite, record) ==
    IF it.op = "group" THEN m
    ELSE IF it.op = "clean" THEN remove(m, it.g, record)
    ELSE LET t == get_or_insert(m, it.g) IN
         IF it.op = "entries" /\ AppendPanics(t, it.at, allow_hole, allow_overwrite)
         THEN [m EXCEPT !.ok = FALSE]
         ELSE [m EXCEPT !.tabs[it.g] = ItemOnTable(t, it)]

apply_append_writes(m, items) ==
    FoldLeft(LAMBDA a, it : ApplyItem(a, it, FALSE, FALSE, TRUE), m, items)
replay_append_writes(m, items) ==
    FoldLeft(LAMBDA a, it : ApplyItem(a, it, FALSE, TRUE, TRUE), m, items)
replay_rewrite_writes(m, items) ==
    FoldLeft(LAMBDA a, it : ApplyItem(a, it, TRUE, TRUE, FALSE), m, items)

\* One item of a batch that was written to file seq of the rewrite queue.
RewriteItem(m, it, gate) ==
    IF it.op \in {"group", "clean"} THEN m
    ELSE LET t == get_or_insert(m, it.g) IN
         IF it.op = "put"
         THEN [m EXCEPT !.tabs[it.g] = rewrite_key(t, it.k, gate, it.file.seq)]
         ELSE IF RewritePanics(t, it.at, Locations(it), gate)
         THEN [m EXCEPT !.ok = FALSE]
         ELSE [m EXCEPT !.tabs[it.g] = rewrite(t, it.at, Locations(it), gate)]
apply_rewrite_writes(m, items, gate) ==
    FoldLeft(LAMBDA a, it : RewriteItem(a, it, gate), m, items)

apply_rewrite_atomic_group(m, g, start, end) ==
    LET t == get_or_insert(m, g) IN
    IF t.ag # NoGroup /\ t.ag.end > start THEN [m EXCEPT !.ok = FALSE]
    ELSE [m EXCEPT !.tabs[g] = [t EXCEPT !.ag = [start |-> start, end |-> end]]]

\* A batch with the marks of deleted groups, and the tables without them.
take_cleaned_region_logs(m) == [i \in DOMAIN m.removed |-> Clean(m.removed[i])]

-----------------------------------------------------------------------------
(* Replay *)

MachineNew == [tomb |-> <<>>, mts |-> NoTables, pend |-> [id \in GroupIds |-> <<>>]]

is_tombstone(it) == it.op \in {"clean", "compact", "del"}

\* The groups of an id after their last one was replaced.
SetLast(mc, id, grp) == [mc EXCEPT !.pend[id] = Append(Front(@), grp)]
\* A group with the items of a later batch of it.
Joined(grp, new, status) ==
    [grp EXCEPT !.items = @ \o new.items, !.tomb = @ \o new.tomb, !.end = new.end, !.status = status]

\* A group that is complete is replayed, and its tables remember its files.
ReplayGroup(mc, id, grp, new) ==
    LET items == grp.items \o new.items
        m == replay_rewrite_writes(mc.mts, items)
        rids == {items[i].g : i \in DOMAIN items}
    IN [mc EXCEPT
          !.tomb = @ \o grp.tomb \o new.tomb,
          !.mts = FoldSet(LAMBDA g, a : apply_rewrite_atomic_group(a, g, grp.start, new.end), m, rids),
          !.pend[id] = Front(@)]

accept_new_group(mc, id, new) ==
    IF mc.pend[id] = <<>> THEN [mc EXCEPT !.pend[id] = <<new>>]
    ELSE LET grp == Last(mc.pend[id])
             old == grp.status
         IN CASE old = "end" /\ new.status = "begin" -> [mc EXCEPT !.pend[id] = Append(@, new)]
              [] old # "end" /\ new.status = "begin" -> SetLast(mc, id, new)
              [] old = "end" /\ new.status # "begin" -> mc
              [] old # "end" /\ new.status = "middle" -> SetLast(mc, id, Joined(grp, new, old))
              [] old = "middle" /\ new.status = "end" -> SetLast(mc, id, Joined(grp, new, "end"))
              [] old = "begin" /\ new.status = "end" -> ReplayGroup(mc, id, grp, new)

\* A batch of a file goes to the machine of its chunk.
replay(mc, items) ==
    LET tomb == SelectSeq(items, is_tombstone)
        marks == SelectSeq(items, LAMBDA it : it.op = "group")
    IN IF items[1].file.q = "Append"
       THEN [mc EXCEPT !.mts = replay_append_writes(@, items), !.tomb = @ \o tomb]
       ELSE IF marks = <<>>
       THEN [mc EXCEPT !.mts = replay_rewrite_writes(@, items), !.tomb = @ \o tomb]
       ELSE accept_new_group(mc, marks[1].g,
              [status |-> marks[1].k,
               items |-> SelectSeq(items, LAMBDA it : it.op # "group"), tomb |-> tomb,
               start |-> items[1].file.seq, end |-> items[1].file.seq])

\* The tables of a chunk after those of the chunk that follows it.
MergeTables(m, r) ==
    FoldSet(LAMBDA g, a :
              IF ~r.tabs[g].here THEN a
              ELSE IF MergePanics(get_or_insert(a, g), r.tabs[g]) THEN [a EXCEPT !.ok = FALSE]
              ELSE [a EXCEPT !.tabs[g] = merge_newer_neighbor(get_or_insert(a, g), r.tabs[g])],
            [m EXCEPT !.ok = @ /\ r.ok], Regions)

\* A machine after the one that has replayed the files that follow.
merge(mc, rhs, q) ==
    LET pend == FoldLeft(LAMBDA a, id :
                           From(a, LAMBDA x : FoldLeft(LAMBDA b, grp : accept_new_group(b, id, grp),
                                                       x, rhs.pend[id])),
                         [mc EXCEPT !.tomb = @ \o rhs.tomb],
                         [i \in 1 .. MaxGroup + 1 |-> i - 1])
        m == IF q = "Append" THEN replay_append_writes(pend.mts, rhs.tomb)
                             ELSE replay_rewrite_writes(pend.mts, rhs.tomb)
    IN From(pend, LAMBDA p : [p EXCEPT !.mts = From(m, LAMBDA x : MergeTables(x, rhs.mts))])

\* The machine of the files i to j of a queue, from the first file.
ReplayFiles(mc, q, first, files, i, j) ==
    FoldLeft(LAMBDA a, n :
               FoldLeft(LAMBDA b, batch :
                          From(b, LAMBDA x : replay(x, finish_write(batch, q, first + n - 1))),
                        a, files[n]),
             mc, [n \in 1 .. j - i + 1 |-> i + n - 1])

\* The chunks of a queue of n files, as pairs of first and last file.
Chunks(n, size) ==
    [c \in 1 .. (n + size - 1) \div size |-> <<(c - 1) * size + 1, Min({c * size, n})>>]

recover_queue_imp(q, first, files, concurrency) ==
    IF files = <<>> \/ concurrency = 0 THEN MachineNew
    ELSE LET size == Max({1, (Len(files) + concurrency - 1) \div concurrency})
             chunk(c) == ReplayFiles(MachineNew, q, first, files, c[1], c[2])
         IN FoldLeft(LAMBDA a, c : From(a, LAMBDA x : From(chunk(c), LAMBDA y : merge(x, y, q))),
                     MachineNew, Chunks(Len(files), size))

\* The tables of the rewrite queue take what the append queue says.
MergeAppend(m, rhs) ==
    LET t == apply_append_writes(m, rhs.tomb) IN
    FoldSet(LAMBDA g, a :
              IF ~rhs.mts.tabs[g].here THEN a
              ELSE IF a.tabs[g].here
              THEN [a EXCEPT !.tabs[g] = merge_append_table(@, rhs.mts.tabs[g])]
              ELSE [a EXCEPT !.tabs[g] = rhs.mts.tabs[g]],
            [t EXCEPT !.ok = @ /\ rhs.mts.ok], Regions)

merge_append_context(rewrite_mc, append_mc) ==
    From(rewrite_mc.mts, LAMBDA x : From(append_mc, LAMBDA y : MergeAppend(x, y)))

=============================================================================
