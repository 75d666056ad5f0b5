------------------------------- MODULE Tables -------------------------------
(***************************************************************************)
(* Memtables (memtable.rs, memtable_arena.rs) and SSTables (sst/): what a  *)
(* writer lays out, how a reader and its iterator find an entry in it.     *)
(*                                                                         *)
(* An entry is [k, s, kind, ttl, v]; v is a value as the sequence of the   *)
(* writes merged into it, so a lost or doubled operand shows.  A table is  *)
(* its metadata and its data blocks, each cut into restart runs; bytes,    *)
(* checksums, compression, the value log and the mmap/pread choice are     *)
(* left out.                                                               *)
(***************************************************************************)
EXTENDS RangeTombstones

CONSTANTS BlockEntries,     \* entries after which a data block is cut
          RestartInterval   \* entries between two restart points

KindPut == "put"
KindDelete == "delete"
KindMerge == "merge"

tombstone(e) == e.kind = KindDelete
expired(e, now) == e.ttl # 0 /\ e.ttl <= now
dead(e, now) == tombstone(e) \/ expired(e, now)

\* cmp_internal: user key ascending, sequence descending.
Before(k1, s1, k2, s2) == k1 < k2 \/ (k1 = k2 /\ s1 > s2)

\* The operator the models use: the operands, oldest first, after the base.
full_merge(existing, operands) == InTurn(LAMBDA acc, v : acc \o v, existing, operands)

-----------------------------------------------------------------------------
(* Memtables *)

NewMemtable == [pts |-> {}, spans |-> {}]

put(mem, e) == [mem EXCEPT !.pts = @ \cup {e}]
add_range(mem, sp) == [mem EXCEPT !.spans = @ \cup {sp}]

NotThere == [found |-> FALSE, s |-> 0, dead |-> FALSE, kind |-> KindPut, v |-> <<>>]
Found(e, now) == [found |-> TRUE, s |-> e.s, dead |-> dead(e, now), kind |-> e.kind, v |-> e.v]

\* Memtable::get: the first entry at or after (key, read_seq).
MemGet(mem, key, read_seq, now) ==
    LET visible == {e \in mem.pts : e.k = key /\ e.s <= read_seq}
    IN  IF visible = {} THEN NotThere
        ELSE Found(CHOOSE e \in visible : \A o \in visible : o.s <= e.s, now)

\* Versions of one key as the read path folds them; a base ends a source's list.
ChainVersion(e, now) ==
    [s |-> e.s, merge |-> e.kind = KindMerge, none |-> e.kind # KindMerge /\ dead(e, now), v |-> e.v]

UpToBase(vs) ==
    LET bases == {i \in DOMAIN vs : ~vs[i].merge}
    IN  IF bases = {} THEN vs ELSE SubSeq(vs, 1, Min(bases))

MemChain(mem, key, read_seq, now) ==
    LET visible == Sorted({e \in mem.pts : e.k = key /\ e.s <= read_seq}, LAMBDA a, b : a.s > b.s)
    IN  UpToBase([i \in DOMAIN visible |-> ChainVersion(visible[i], now)])

\* Memtable::iter / flush_merge: every entry in internal order.
MemEntries(mem) == Sorted(mem.pts, LAMBDA a, b : Before(a.k, a.s, b.k, b.s))

-----------------------------------------------------------------------------
(* SSTables *)

\* shortest_separator: some a <= sep < b, past a when there is room.
shortest_separator(a, b) == IF b > a + 1 THEN a + 1 ELSE a

Cut(ents, size) ==
    [i \in 1 .. (Len(ents) + size - 1) \div size |->
        SubSeq(ents, (i - 1) * size + 1, IF i * size < Len(ents) THEN i * size ELSE Len(ents))]

\* Writer::settle_pending_index: the index key of a block that has a successor.
settle_pending_index(last, next) ==
    LET sep == shortest_separator(last.k, next.k)
    IN  [k |-> sep, s |-> IF sep = last.k THEN last.s ELSE 0]

\* Writer::add ... finish: sorted entries and range fragments to a table with
\* the given number of entries to a block.
IndexOf(blocks) ==
    [b \in DOMAIN blocks |->
        LET last == blocks[b][Len(blocks[b])]
        IN  IF b < Len(blocks) THEN settle_pending_index(last, blocks[b + 1][1])
            ELSE [k |-> last.k, s |-> last.s]]

WriteBlocks(id, level, ents, frags, size) ==
    LET blocks == Cut(ents, size)
    IN  [id |-> id, level |-> level, blocks |-> blocks, frags |-> frags,
         index |-> IndexOf(blocks),
         bloom |-> {ents[i].k : i \in DOMAIN ents},
         min_key |-> IF ents = <<>> THEN 0 ELSE ents[1].k,
         max_key |-> IF ents = <<>> THEN 0 ELSE ents[Len(ents)].k,
         max_seq |-> Newest({ents[i].s : i \in DOMAIN ents})]

WriteTable(id, level, ents, frags) == WriteBlocks(id, level, ents, frags, BlockEntries)

Entries(t) == InTurn(LAMBDA acc, b : acc \o b, <<>>, t.blocks)

has_ranges(t) == t.frags # <<>>
range_min_key(t) == t.frags[1].start
range_max_key(t) == t.frags[Len(t.frags)].end
span_min(t) == IF has_ranges(t) /\ range_min_key(t) < t.min_key THEN range_min_key(t) ELSE t.min_key
span_max(t) == IF has_ranges(t) /\ range_max_key(t) > t.max_key THEN range_max_key(t) ELSE t.max_key
span_contains(t, key) == span_min(t) <= key /\ key <= span_max(t)

\* Reader::find_block: the first index entry at or after (key, seq); Len + 1 if none.
find_block(t, key, seq) ==
    Min({b \in DOMAIN t.index : ~Before(t.index[b].k, t.index[b].s, key, seq)} \cup {Len(t.index) + 1})

\* restart_scan_offset: the last restart point before (key, read_seq), or the start.
restart_scan_offset(block, key, read_seq) ==
    Max({1} \cup {i \in DOMAIN block : (i - 1) % RestartInterval = 0
                                       /\ Before(block[i].k, block[i].s, key, read_seq)})

\* scan_point_entry: forward from there to the first entry not before the target.
scan_point_entry(block, offset, key, read_seq, now) ==
    LET rest == {i \in offset .. Len(block) : ~Before(block[i].k, block[i].s, key, read_seq)}
    IN  IF rest = {} \/ block[Min(rest)].k # key THEN NotThere ELSE Found(block[Min(rest)], now)

\* Reader::get_unfiltered.
get_unfiltered(t, key, read_seq, now) ==
    LET b == find_block(t, key, read_seq)
    IN  IF b > Len(t.index) THEN NotThere
        ELSE scan_point_entry(t.blocks[b], restart_scan_offset(t.blocks[b], key, read_seq),
                              key, read_seq, now)

\* bloom_may_contain: no false negatives; keys of the same parity collide.
bloom_may_contain(t, key) == \E k \in t.bloom : k % 2 = key % 2

\* SstIterator::seek and the entries it then yields: the rest of the block
\* found, or the next block when the target is past its last entry.
FromBlock(blocks, b, key, seq) ==
    IF b > Len(blocks) THEN <<>>
    ELSE SelectSeq(blocks[b], LAMBDA e : ~Before(e.k, e.s, key, seq))
           \o InTurn(LAMBDA acc, x : acc \o x, <<>>, SubSeq(blocks, b + 1, Len(blocks)))

SstSeek(t, key, seq) == FromBlock(t.blocks, find_block(t, key, seq), key, seq)

\* collect_table_chain: a table's versions of the key, up to its first base.
ChainIn(ents, key, now) ==
    LET run == Max({n \in 0 .. Len(ents) : \A i \in 1 .. n : ents[i].k = key})
    IN  UpToBase([i \in 1 .. run |-> ChainVersion(ents[i], now)])

collect_table_chain(t, key, read_seq, now) ==
    IF bloom_may_contain(t, key) THEN ChainIn(SstSeek(t, key, read_seq), key, now) ELSE <<>>

=============================================================================
