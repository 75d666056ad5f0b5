------------------------------- MODULE Cursor -------------------------------
(***************************************************************************)
(* One iterator over a memtable that keeps growing and one table, step by  *)
(* step: the shard merge of the memtable (memtable.rs MemMerge and         *)
(* ArenaMerge), the table iterator (sst/iter.rs), the merge of the two and *)
(* the group resolution (iterator.rs), the range mask's cursors            *)
(* (range_tombstone.rs) and the tail that reopens at a newer floor         *)
(* (tailing.rs).  A positioning call runs entry by entry, so that a writer *)
(* can insert between any two.  The caller moves an iterator only while it *)
(* is valid and seeks inside its bounds; elsewhere the code promises       *)
(* nothing.                                                                *)
(***************************************************************************)
EXTENDS Reads

CONSTANTS CurTop,       \* keys are 1 .. CurTop - 1
          CurStores,    \* what an iterator is opened over, one chosen at the start:
                        \* [pts, spans, table, run, lower, upper, read_seq, tail]
          MaxLate       \* entries inserted after that

VARIABLES curStore,
          curLate,      \* entries inserted since the iterator was opened
          curRead,      \* its read sequence
          curLower,     \* its lower bound [k, incl]
          curKids,      \* MergingIter: [mem, sst, dir]
          curIdx,       \* the FragCursor of each source
          curIt,        \* the iterator and its call in progress
          curWant,      \* ghost: the key the call must end on, 0 for none
          curTail       \* TailingIterator::cursor, 0 before the first key

cursorVars == <<curStore, curLate, curRead, curLower, curKids, curIdx, curIt, curWant, curTail>>

NoEntry == [k |-> 0, s |-> 0, kind |-> KindPut, ttl |-> 0, v |-> <<>>]
SeqMax == 100                                   \* u64::MAX: before every version of a key

Precedes(a, b) == Before(a.k, a.s, b.k, b.s)

-----------------------------------------------------------------------------
(* The memtable child: hash shards, one cursor in each *)

Shards == {0, 1}
shard_of(k) == k % 2

FirstEntry(es) == IF es = {} THEN NoEntry ELSE CHOOSE e \in es : \A o \in es : ~Precedes(o, e)
LastEntry(es) == IF es = {} THEN NoEntry ELSE CHOOSE e \in es : \A o \in es : ~Precedes(e, o)

find_ge(es, k, s) == FirstEntry({e \in es : ~Before(e.k, e.s, k, s)})
find_gt(es, k, s) == FirstEntry({e \in es : Before(k, s, e.k, e.s)})
find_le(es, k, s) == LastEntry({e \in es : ~Before(k, s, e.k, e.s)})
find_lt(es, k, s) == LastEntry({e \in es : Before(e.k, e.s, k, s)})

ShardEntries(i) == {e \in curStore.pts \cup curLate : shard_of(e.k) = i}

\* position_all: every shard cursor is placed and the heap rebuilt; the heap is
\* the set of valid cursors, its top the first of them in the direction.
position_all(dir, cur) == [dir |-> dir, cur |-> cur]

MemValid(m) == \E i \in Shards : m.cur[i] # NoEntry
MemTop(m) ==
    CHOOSE i \in Shards : /\ m.cur[i] # NoEntry
                          /\ \A j \in Shards \ {i} : m.cur[j] # NoEntry =>
                                IF m.dir > 0 THEN Precedes(m.cur[i], m.cur[j]) ELSE Precedes(m.cur[j], m.cur[i])

\* next, prev, settle_top.  A change of direction re-places every cursor
\* (flip_to_forward, flip_to_backward).
mem_next(m) ==
    IF ~MemValid(m) THEN m
    ELSE LET top == MemTop(m)
             e == m.cur[top]
         IN  IF m.dir < 0 THEN position_all(1, [i \in Shards |-> find_gt(ShardEntries(i), e.k, e.s)])
             ELSE [m EXCEPT !.cur[top] = find_gt(ShardEntries(top), e.k, e.s)]

mem_prev(m) ==
    IF ~MemValid(m) THEN m
    ELSE LET top == MemTop(m)
             e == m.cur[top]
         IN  IF m.dir > 0 THEN position_all(-1, [i \in Shards |-> find_lt(ShardEntries(i), e.k, e.s)])
             ELSE [m EXCEPT !.cur[top] = find_lt(ShardEntries(top), e.k, e.s)]

-----------------------------------------------------------------------------
(* The table child.  A position is [valid, raw, b, r, i]: whether a block   *)
(* is loaded, the block, the restart run in it and the entry in that.  A   *)
(* block of a table without prefix deltas is one run.                      *)

Table == curStore.table
Runs(b) == IF curStore.run = 0 THEN <<Table.blocks[b]>> ELSE Cut(Table.blocks[b], curStore.run)
SstAt(p) == Runs(p.b)[p.r][p.i]
NoBlock(p) == [p EXCEPT !.valid = FALSE, !.raw = FALSE]

position_in_run(b, r, i) == [valid |-> TRUE, raw |-> TRUE, b |-> b, r |-> r, i |-> i]

\* load_block and enter_block_start, enter_block_end.
enter_block_start(p, b) == IF b \in DOMAIN Table.blocks THEN position_in_run(b, 1, 1) ELSE NoBlock(p)
enter_block_end(p, b) ==
    IF b \in DOMAIN Table.blocks
    THEN LET r == Len(Runs(b)) IN position_in_run(b, r, Len(Runs(b)[r])) ELSE NoBlock(p)

\* find_in_run: the first entry of the run not before the target, 0 if none.
find_in_run(run, k, s) ==
    LET rest == {i \in DOMAIN run : ~Before(run[i].k, run[i].s, k, s)} IN IF rest = {} THEN 0 ELSE Min(rest)

\* seek_delta: the run of the last anchor before the target, or the entry after it.
seek_delta(p, b, k, s) ==
    LET runs == Runs(b)
        r == Max({1} \cup {x \in DOMAIN runs : Before(runs[x][1].k, runs[x][1].s, k, s)})
        i == find_in_run(runs[r], k, s)
    IN  IF i # 0 THEN position_in_run(b, r, i)
        ELSE IF r < Len(runs) THEN position_in_run(b, r + 1, 1)
        ELSE enter_block_start(p, b + 1)

sst_seek(p, k, s) ==
    LET b == find_block(Table, k, s)
    IN  IF b > Len(Table.blocks) THEN [p EXCEPT !.valid = FALSE] ELSE seek_delta(p, b, k, s)

next_delta(p) ==
    IF p.i < Len(Runs(p.b)[p.r]) THEN [p EXCEPT !.i = @ + 1]
    ELSE IF p.r < Len(Runs(p.b)) THEN [p EXCEPT !.r = @ + 1, !.i = 1]
    ELSE enter_block_start(p, p.b + 1)
sst_next(p) == IF p.valid THEN next_delta(p) ELSE p

prev_delta(p) ==
    IF p.i > 1 THEN position_in_run(p.b, p.r, p.i - 1)
    ELSE IF p.r > 1 THEN position_in_run(p.b, p.r - 1, Len(Runs(p.b)[p.r - 1]))
    ELSE IF p.b > 1 THEN enter_block_end(p, p.b - 1)
    ELSE [p EXCEPT !.valid = FALSE]
sst_prev(p) == IF p.raw THEN prev_delta(p) ELSE p

sst_seek_for_prev(p, k, s) ==
    LET at == sst_seek(p, k, s)
    IN  IF ~at.valid THEN enter_block_end(p, Len(Table.blocks))
        ELSE IF Before(k, s, SstAt(at).k, SstAt(at).s) THEN sst_prev(at) ELSE at

-----------------------------------------------------------------------------
(* MergingIter over the children 1 (memtable) and 2 (table) *)

\* The heap: the children that are valid.
Heap(kids) == {c \in {1, 2} : IF c = 1 THEN MemValid(kids.mem) ELSE kids.sst.valid}
At(kids, c) == IF c = 1 THEN kids.mem.cur[MemTop(kids.mem)] ELSE SstAt(kids.sst)

\* before: exact ties go to the earlier child whatever the direction.
child_before(kids, i, j) ==
    LET a == At(kids, i)
        b == At(kids, j)
    IN  IF a.k = b.k /\ a.s = b.s THEN i < j ELSE IF kids.dir > 0 THEN Precedes(a, b) ELSE Precedes(b, a)

MergeTop(kids) == CHOOSE c \in Heap(kids) : \A d \in Heap(kids) \ {c} : child_before(kids, c, d)

advance(kids, forward) ==
    IF MergeTop(kids) = 1
    THEN [kids EXCEPT !.mem = IF forward THEN mem_next(@) ELSE mem_prev(@)]
    ELSE [kids EXCEPT !.sst = IF forward THEN sst_next(@) ELSE sst_prev(@)]

seek_ge(k, s) ==
    [dir |-> 1, mem |-> position_all(1, [i \in Shards |-> find_ge(ShardEntries(i), k, s)]),
     sst |-> sst_seek(curKids.sst, k, s)]
seek_le(k, s) ==
    [dir |-> -1, mem |-> position_all(-1, [i \in Shards |-> find_le(ShardEntries(i), k, s)]),
     sst |-> sst_seek_for_prev(curKids.sst, k, s)]
merge_first ==
    [dir |-> 1, mem |-> position_all(1, [i \in Shards |-> FirstEntry(ShardEntries(i))]),
     sst |-> enter_block_start(curKids.sst, 1)]
merge_last ==
    [dir |-> -1, mem |-> position_all(-1, [i \in Shards |-> LastEntry(ShardEntries(i))]),
     sst |-> enter_block_end(curKids.sst, Len(Table.blocks))]

-----------------------------------------------------------------------------
(* The range mask: per source the window and a cursor that only walks *)

MaskSources == <<fragment_spans(curStore.spans, 0, CurTop), Table.frags>>
FragWindow(n) == window(MaskSources[n], curLower.k, curStore.upper)

FragWalkUpOnly(frags, idx, key) == Min({j \in idx .. Len(frags) : frags[j].end > key} \cup {Len(frags) + 1})

\* FragCursor::covering_seq: up past the fragments that end at or before the
\* key, then down while the one below ends after it.
FragWalk(frags, idx, key) ==
    LET up == Min({j \in idx .. Len(frags) : frags[j].end > key} \cup {Len(frags) + 1})
    IN  Min({j \in 1 .. up : \A x \in j .. up - 1 : frags[x].end > key})
FragSeq(frags, idx, key) ==
    IF idx > Len(frags) \/ frags[idx].start > key THEN 0
    ELSE Newest({s \in frags[idx].seqs : s <= curRead})

MaskWalk(key) == [n \in 1 .. 2 |-> FragWalk(FragWindow(n), curIdx[n], key)]
MaskSeq(key) == Newest({FragSeq(FragWindow(n), MaskWalk(key)[n], key) : n \in 1 .. 2})

-----------------------------------------------------------------------------
(* Iterator.  pc is idle, or the direction of the call in progress; open   *)
(* says a group is being drained.                                          *)

NoBase == [found |-> FALSE, s |-> 0, none |-> TRUE, v |-> <<>>]
IdleIt == [valid |-> FALSE, key |-> 0, value |-> <<>>, pc |-> "idle",
           open |-> FALSE, base |-> NoBase, ops |-> <<>>, last |-> 0]
CursorNow == 0

WrittenNow ==
    {[range |-> FALSE, entry |-> e] : e \in curStore.pts \cup curLate \cup ToSet(Entries(Table))}
      \cup {[range |-> TRUE, span |-> sp] : sp \in curStore.spans \cup spans_of_fragments(Table.frags)}
Above(k) == IF curLower.incl THEN curLower.k <= k ELSE curLower.k < k
ShownAt(read) ==
    {k \in 1 .. CurTop - 1 : k < curStore.upper /\ Visible(WrittenNow, k, read, CursorNow) # None}
Shown == {k \in ShownAt(curRead) : Above(k)}
Lowest(ks) == IF ks = {} THEN 0 ELSE Min(ks)

OpenKids == [dir |-> 1, mem |-> [dir |-> 1, cur |-> [i \in Shards |-> NoEntry]],
             sst |-> [valid |-> FALSE, raw |-> FALSE, b |-> 1, r |-> 1, i |-> 1]]

CursorInitIn(stores) ==
    /\ curStore \in stores
    /\ curLate = {} /\ curRead = curStore.read_seq /\ curLower = curStore.lower
    /\ curKids = OpenKids /\ curIdx = <<1, 1>>
    /\ curIt = IdleIt /\ curWant = 0 /\ curTail = 0

Call(dir, kids, want) ==
    /\ curIt.pc = "idle"
    /\ curKids' = kids
    /\ curIt' = [curIt EXCEPT !.pc = dir, !.open = FALSE]
    /\ curWant' = want
    /\ UNCHANGED <<curStore, curLate, curRead, curLower, curIdx, curTail>>

SeekToFirst ==
    Call("forward",
         IF curLower.k = 0 THEN merge_first
         ELSE IF curLower.incl THEN seek_ge(curLower.k, SeqMax) ELSE seek_ge(curLower.k, 0),
         Lowest(Shown))

\* The upper bound is exclusive: seek_lt.
SeekToLast ==
    /\ ~curStore.tail
    /\ Call("backward",
            IF curStore.upper = CurTop THEN merge_last ELSE seek_le(curStore.upper, SeqMax),
            Newest(Shown))

Seek(k) ==
    /\ Above(k) /\ k < curStore.upper
    /\ Call("forward", seek_ge(k, SeqMax), Lowest({x \in Shown : x >= k}))

SeekForPrev(k) ==
    /\ ~curStore.tail /\ Above(k) /\ k < curStore.upper
    /\ Call("backward", seek_le(k, 0), Newest({x \in Shown : x <= k}))

IterNext ==
    /\ curIt.valid
    /\ Call("forward", IF curKids.dir < 0 THEN seek_ge(curIt.key, 0) ELSE curKids,
            Lowest({x \in Shown : x > curIt.key}))

IterPrev ==
    /\ ~curStore.tail /\ curIt.valid
    /\ Call("backward", IF curKids.dir > 0 THEN seek_le(curIt.key, SeqMax) ELSE curKids,
            Newest({x \in Shown : x < curIt.key}))

Forward == curIt.pc = "forward"
Running == curIt.pc # "idle"
TopInGroup == Heap(curKids) # {} /\ At(curKids, MergeTop(curKids)).k = curIt.key

\* advance_forward, advance_backward: the next group, or nothing left.
EnterGroup ==
    /\ Running /\ ~curIt.open
    /\ curIt' = IF Heap(curKids) = {} THEN [curIt EXCEPT !.valid = FALSE, !.pc = "idle"]
                ELSE [curIt EXCEPT !.open = TRUE, !.key = At(curKids, MergeTop(curKids)).k,
                                   !.base = NoBase, !.ops = <<>>, !.last = 0]
    /\ UNCHANGED <<curStore, curLate, curRead, curLower, curKids, curIdx, curWant, curTail>>

\* One entry of resolve_merging_group.
take_entry(it, e, forward) ==
    IF e.s = it.last \/ e.s > curRead THEN [it EXCEPT !.last = e.s]
    ELSE IF e.kind = KindMerge
         THEN [it EXCEPT !.last = e.s, !.ops = IF forward /\ it.base.found THEN @ ELSE Append(@, e)]
    ELSE IF it.base.found /\ e.s <= it.base.s THEN [it EXCEPT !.last = e.s]
    ELSE [it EXCEPT !.last = e.s, !.ops = IF forward THEN @ ELSE <<>>,
                    !.base = [found |-> TRUE, s |-> e.s, none |-> dead(e, CursorNow), v |-> e.v]]

GroupEntry ==
    /\ Running /\ curIt.open /\ TopInGroup
    /\ curIt' = take_entry(curIt, At(curKids, MergeTop(curKids)), Forward)
    /\ curKids' = advance(curKids, Forward)
    /\ UNCHANGED <<curStore, curLate, curRead, curLower, curIdx, curWant, curTail>>

\* fold_group: what the drained group resolves to, [live, s, v].
resolved(it, forward, cover) ==
    LET ops == SelectSeq(it.ops, LAMBDA e : e.s > cover)
        order == IF forward THEN Reverse(ops) ELSE ops
    IN  IF ops = <<>> THEN [live |-> it.base.found /\ ~it.base.none, s |-> it.base.s, v |-> it.base.v]
        ELSE [live |-> TRUE, s |-> Newest({ops[i].s : i \in DOMAIN ops}),
              v |-> full_merge(IF it.base.none \/ it.base.s <= cover THEN None ELSE it.base.v,
                               [i \in DOMAIN order |-> order[i].v])]

\* The group is drained: shown unless dead, masked or outside the bound ahead.
CloseGroup ==
    /\ Running /\ curIt.open /\ ~TopInGroup
    /\ LET cover == MaskSeq(curIt.key)
           res == resolved(curIt, Forward, cover)
           shown == res.live /\ cover <= res.s
           asked == curIt.ops # <<>> \/ res.live
           inside == IF Forward THEN curIt.key < curStore.upper ELSE Above(curIt.key)
       IN  /\ curIdx' = IF asked THEN MaskWalk(curIt.key) ELSE curIdx
           /\ curIt' = IF shown
                       THEN [curIt EXCEPT !.pc = "idle", !.open = FALSE, !.valid = inside, !.value = res.v]
                       ELSE [curIt EXCEPT !.open = FALSE]
           /\ curTail' = IF shown /\ inside THEN curIt.key ELSE curTail
    /\ UNCHANGED <<curStore, curLate, curRead, curLower, curKids, curWant>>

-----------------------------------------------------------------------------
(* A writer, and the tail *)

LastSeq == Newest({e.s : e \in curStore.pts \cup curLate \cup ToSet(Entries(Table))}
                    \cup {sp.seq : sp \in curStore.spans \cup spans_of_fragments(Table.frags)})

\* A commit after the iterator was opened: into the memtable, above its read
\* sequence.
LateInsert(k, kind) ==
    /\ Cardinality(curLate) < MaxLate
    /\ LET s == (IF LastSeq > curRead THEN LastSeq ELSE curRead) + 1
       IN  curLate' = curLate \cup {[k |-> k, s |-> s, kind |-> kind, ttl |-> 0,
                                     v |-> IF kind = KindDelete THEN <<>> ELSE <<s>>]}
    /\ UNCHANGED <<curStore, curRead, curLower, curKids, curIdx, curIt, curWant, curTail>>

\* TailingIterator::refresh: a new segment at the newer floor, strictly after
\* the last key yielded.
TailRefresh ==
    /\ curStore.tail /\ curIt.pc = "idle" /\ ~curIt.valid
    /\ LastSeq > curRead
    /\ curRead' = LastSeq
    /\ curLower' = IF curTail = 0 THEN curLower ELSE [k |-> curTail, incl |-> FALSE]
    /\ curIdx' = <<1, 1>>
    /\ curKids' = IF curTail = 0 THEN [merge_first EXCEPT !.sst = enter_block_start(OpenKids.sst, 1)]
                  ELSE [seek_ge(curTail, 0) EXCEPT !.sst = sst_seek(OpenKids.sst, curTail, 0)]
    /\ curIt' = [IdleIt EXCEPT !.pc = "forward"]
    /\ curWant' = Lowest({k \in ShownAt(LastSeq) : k > curTail})
    /\ UNCHANGED <<curStore, curLate, curTail>>

CursorNext ==
    \/ SeekToFirst \/ SeekToLast
    \/ \E k \in 1 .. CurTop - 1 : Seek(k) \/ SeekForPrev(k)
    \/ IterNext \/ IterPrev
    \/ EnterGroup \/ GroupEntry \/ CloseGroup
    \/ \E k \in 1 .. CurTop - 1, kind \in {KindPut, KindDelete} : LateInsert(k, kind)
    \/ TailRefresh

CursorSpec == CursorInitIn(CurStores) /\ [][CursorNext]_cursorVars

\* Every completed call leaves the iterator on exactly the key the snapshot
\* puts there, with the value the snapshot gives it, or invalid when there is
\* none: through any mix of seeks, steps and reversals, in tables and shards,
\* while a writer inserts between any two entries, and across the refreshes of
\* a tail (iterator.rs, sst/iter.rs, memtable.rs, tailing.rs).
CursorExact ==
    curIt.pc = "idle" =>
        /\ curIt.valid = (curWant # 0)
        /\ curIt.valid => /\ curIt.key = curWant
                          /\ curIt.value = Visible(WrittenNow, curIt.key, curRead, CursorNow)

=============================================================================
