------------------------------ MODULE MvccScan ------------------------------
\* The multi-version rows of a group engine and a scan over them (engine/group.rs
\* and replica/eval/cmd_scan.rs): how a user key and a version become a key of the
\* storage engine, how a snapshot walks the user keys, which version of a key a
\* scan returns, and how the answers of the two groups of a moving shard are merged.
\*
\* A user key is a sequence of bytes 0..MaxByte, so that prefixes and the greatest
\* byte (0xFF) happen with short keys; a group of the encoding has GroupLen bytes (8
\* in the code). All rows are of one table.
EXTENDS Integers, Sequences, FiniteSets

LOCAL INSTANCE SequencesExt

CONSTANTS MaxByte, GroupLen,
    IntentVersion   \* TXN_INTENT_VERSION = u64::MAX: the version of an intent's row

Tombstone == "tombstone"
\* An Option<Vec<u8>> that is None.
NoKey == <<-1>>

\* The order of byte strings.
LexLess(a, b) ==
    \E i \in 1..Len(b) :
        /\ Len(a) >= i - 1 /\ SubSeq(a, 1, i - 1) = SubSeq(b, 1, i - 1)
        /\ Len(a) = i - 1 \/ a[i] < b[i]

LexLeq(a, b) == a = b \/ LexLess(a, b)

in_range(start, end, key) == LexLeq(start, key) /\ (end = <<>> \/ LexLess(key, end))

\* The next key that does not have `bytes` as a prefix; empty when there is none.
lexical_next_boundary(bytes) ==
    LET small == {i \in DOMAIN bytes : bytes[i] # MaxByte}
        last  == CHOOSE i \in small : \A j \in small : j <= i
    IN  IF small = {} THEN <<>> ELSE [SubSeq(bytes, 1, last) EXCEPT ![last] = @ + 1]

----------------------------------------------------------------------------
\* Keys of the storage engine: groups of bytes, each followed by the number of
\* bytes in it, one more when another group follows; then the version, inverted.

Smaller(a, b) == IF a < b THEN a ELSE b

GroupsOf(key) == (Len(key) - 1) \div GroupLen + 1

EncodedGroup(key, i) ==
    LET from == (i - 1) * GroupLen
        size == Smaller(GroupLen, Len(key) - from)
        more == i < GroupsOf(key)
    IN  [j \in 1..GroupLen |-> IF j <= size THEN key[from + j] ELSE 0]
            \o <<IF size = GroupLen /\ more THEN size + 1 ELSE size>>

mvcc_key(key, version) ==
    FlattenSeq([i \in 1..GroupsOf(key) |-> EncodedGroup(key, i)]) \o <<IntentVersion - version>>

\* Where an iterator that starts at `key` is positioned.
raw(key) == IF key = <<>> THEN <<>> ELSE mvcc_key(key, IntentVersion)

revert_mvcc_key(enc) ==
    LET group(i) == SubSeq(enc, (i - 1) * (GroupLen + 1) + 1, i * (GroupLen + 1))
    IN  FlattenSeq([i \in 1..((Len(enc) - 1) \div (GroupLen + 1)) |->
            SubSeq(group(i), 1, Smaller(group(i)[GroupLen + 1], GroupLen))])

version(enc) == IntentVersion - enc[Len(enc)]

----------------------------------------------------------------------------
\* A row of the engine is [key, ver, val, txn]; the row of an intent has
\* ver = IntentVersion and the start version of its transaction in txn.

RawKey(row) == mvcc_key(row.key, row.ver)

\* The rows an iterator from `start` returns, in the order of their raw keys, with
\* the user key and the version read back from them.
IterateFrom(rows, start) ==
    LET seek  == raw(start)
        found == {x \in {[raw |-> RawKey(r), row |-> r] : r \in rows} : LexLeq(seek, x.raw)}
        nth(i) == CHOOSE x \in found : Cardinality({y \in found : LexLess(y.raw, x.raw)}) = i - 1
        entry(x) == [x.row EXCEPT !.key = revert_mvcc_key(x.raw), !.ver = version(x.raw)]
    IN  [i \in 1..Cardinality(found) |-> entry(nth(i))]

\* A snapshot is [rest, current]: the entries not yet consumed, the cached one
\* included, and the user key being iterated. `mode` is a SnapshotRange.
Snapshot(rows, mode) ==
    [rest |-> IterateFrom(rows, mode.start), current |-> NoKey]

is_valid_key(mode, key) ==
    IF mode.kind = "prefix" THEN IsPrefix(mode.start, key) ELSE in_range(mode.start, mode.end, key)

\* Versions of the current key that the scan left are skipped here.
next_mvcc_iterator(snap, mode) ==
    LET rest == SelectSeq(snap.rest, LAMBDA e : e.key # snap.current)
    IN  IF rest = <<>> \/ ~is_valid_key(mode, rest[1].key)
        THEN [rest |-> <<>>, current |-> NoKey]
        ELSE [rest |-> rest, current |-> rest[1].key]

MvccEntries(snap) == SelectSeq(snap.rest, LAMBDA e : e.key = snap.current)

----------------------------------------------------------------------------
\* A request is [start_version, limit, start_key, end_key, exclude_start_key,
\* exclude_end_key, include_raw_data, ignore_txn_intent].

is_exceeds(end, key) == end # NoKey /\ LexLess(end, key)

is_exclude_boundary(req, key) ==
    \/ req.exclude_start_key /\ req.start_key = key
    \/ req.exclude_end_key /\ req.end_key = key

IsIntent(e) == e.ver = IntentVersion

MustResolve_newer(req, entries) ==
    /\ entries # <<>> /\ IsIntent(entries[1]) /\ ~req.ignore_txn_intent
    /\ ~is_exclude_boundary(req, entries[1].key)
    /\ entries[1].txn > req.start_version

\* The intent of a key that a scan has to resolve: the first entry, if it is visible.
MustResolve(req, entries) ==
    /\ entries # <<>> /\ IsIntent(entries[1]) /\ ~req.ignore_txn_intent
    /\ ~is_exclude_boundary(req, entries[1].key)
    /\ entries[1].txn <= req.start_version

\* The values of one key. `found` is what resolving the intent returned: a sequence
\* with the committed value, or the empty one (aborted, or not visible).
scan_value_set(req, entries, found) ==
    LET tail    == SelectSeq(entries, LAMBDA e : e.ver <= req.start_version
                        /\ (IsIntent(e) => req.ignore_txn_intent))
        visible == SelectSeq(found, LAMBDA e : e.ver <= req.start_version) \o tail
    IN  IF entries = <<>> \/ is_exclude_boundary(req, entries[1].key) \/ visible = <<>> THEN <<>>
        ELSE IF req.include_raw_data THEN visible
        ELSE SelectSeq(<<visible[1]>>, LAMBDA e : e.val # Tombstone)

\* Responses are [data, has_more], with one value per key in data. Where both have a
\* key the value of the target is taken; what the source has after the last value of
\* the target is only taken when the target has no more.
merge_scan_response(target, source) ==
    LET t == target.data
        s == source.data
        from[i \in 1..(Len(t) + 1), j \in 1..(Len(s) + 1)] ==
            IF i <= Len(t) /\ j <= Len(s)
            THEN CASE LexLess(t[i].key, s[j].key) -> <<t[i]>> \o from[i + 1, j]
                   [] t[i].key = s[j].key         -> <<t[i]>> \o from[i + 1, j + 1]
                   [] OTHER                       -> <<s[j]>> \o from[i, j + 1]
            ELSE IF i <= Len(t) THEN SubSeq(t, i, Len(t))
            ELSE IF ~target.has_more THEN SubSeq(s, j, Len(s))
            ELSE <<>>
    IN  [data |-> from[1, 1], has_more |-> target.has_more \/ source.has_more]
=============================================================================
