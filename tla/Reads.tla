------------------------------- MODULE Reads -------------------------------
(***************************************************************************)
(* The read path of a column family: point reads (get, get_into,           *)
(* multi_get; column_family.rs) and scans (iterator.rs) over a state       *)
(* [mem, imms, levels].  imms is oldest first and levels[1] is level 0,    *)
(* newest first.  The reference they are compared with is Visible.         *)
(***************************************************************************)
EXTENDS Tables

None == <<>>                                   \* NotFound

\* What a key reads as: the operands written since its last base, over it,
\* counting nothing at or below the newest range delete over the key.
Visible(written, key, read_seq, now) ==
    LET cover == covering_seq({w.span : w \in {x \in written : x.range}}, key, read_seq)
        versions == {w.entry : w \in {x \in written : ~x.range}}
        seen == {e \in versions : e.k = key /\ e.s <= read_seq /\ e.s > cover}
        base == Newest({e.s : e \in {x \in seen : x.kind # KindMerge}})
        ops == Sorted({e \in seen : e.s > base}, LAMBDA a, b : a.s < b.s)
        below == {e \in seen : e.s = base /\ ~dead(e, now)}
    IN  full_merge(IF below = {} THEN None ELSE (CHOOSE e \in below : TRUE).v,
                   [i \in DOMAIN ops |-> ops[i].v])

-----------------------------------------------------------------------------
(* Sources *)

key_in_range(t, key) == t.min_key <= key /\ key <= t.max_key

\* find_overlapping_at: the first table not wholly before the key.
find_overlapping_at(level, key) ==
    LET lo == Min({i \in DOMAIN level : level[i].max_key >= key} \cup {Len(level) + 1})
    IN  [hit |-> lo <= Len(level) /\ level[lo].min_key <= key, lo |-> lo]

gap_owner_none(level, key, lo) == {}

\* gap_owner: the table to the left, when its fragments reach past the key.
gap_owner(level, key, lo) ==
    IF lo > 1 /\ has_ranges(level[lo - 1]) /\ key < range_max_key(level[lo - 1])
    THEN {level[lo - 1]} ELSE {}

\* point_read_sources: the tables to search, in order, and those consulted for
\* their range tombstones only.
LevelHit(level, key) ==
    LET at == find_overlapping_at(level, key) IN IF at.hit THEN <<level[at.lo]>> ELSE <<>>

point_tables(st, key) ==
    SelectSeq(st.levels[1], LAMBDA t : key_in_range(t, key))
      \o InTurn(LAMBDA acc, level : acc \o LevelHit(level, key), <<>>, Tail(st.levels))

range_tables(st, key) ==
    {t \in ToSet(st.levels[1]) :
        ~key_in_range(t, key) /\ has_ranges(t) /\ span_contains(t, key)}
      \cup UNION {gap_owner(st.levels[l], key, find_overlapping_at(st.levels[l], key).lo)
                  : l \in 2 .. Len(st.levels)}

Memtables(st) == <<st.mem>> \o [i \in DOMAIN st.imms |-> st.imms[Len(st.imms) + 1 - i]]

covering_range_seq(st, key, read_seq) ==
    LET tables == point_tables(st, key)
        mems == Memtables(st)
    IN  Newest({covering_seq(mems[i].spans, key, read_seq) : i \in DOMAIN mems}
          \cup {covering_seq_in(t.frags, key, read_seq)
                : t \in ToSet(tables) \cup range_tables(st, key)})

-----------------------------------------------------------------------------
(* Point reads *)

\* PointReadCandidate::consider: a strictly newer find replaces the candidate.
consider(c, found) ==
    IF found.found /\ (~c.found \/ found.s > c.s) THEN found ELSE c

\* PointReadCandidate::mask: a newer range tombstone deletes what was found.
mask(c, cover) ==
    IF cover # 0 /\ (~c.found \/ cover > c.s)
    THEN [found |-> TRUE, s |-> cover, dead |-> TRUE, kind |-> KindDelete, v |-> <<>>]
    ELSE c

resolved_above(c, t) == c.found /\ t.max_seq <= c.s

\* consider_sstables, one table: skipped when it cannot hold a newer version.
consider_sstable(c, t, key, read_seq, now) ==
    IF resolved_above(c, t) \/ ~bloom_may_contain(t, key) THEN c
    ELSE consider(c, get_unfiltered(t, key, read_seq, now))

\* fold_chain: newest first, a repeated sequence skipped, down to the first base.
NewestFirst(versions) ==
    LET first == {i \in DOMAIN versions : \A j \in DOMAIN versions : j < i => versions[j].s # versions[i].s}
    IN  Sorted({versions[i] : i \in first}, LAMBDA a, b : a.s > b.s)

fold_versions(chain) ==
    LET ops == SelectSeq(chain, LAMBDA x : x.merge)
        based == Len(ops) < Len(chain) /\ ~chain[Len(chain)].none
    IN  full_merge(IF based THEN chain[Len(chain)].v ELSE None,
                   [i \in DOMAIN ops |-> ops[Len(ops) + 1 - i].v])

fold_chain(versions) == fold_versions(UpToBase(NewestFirst(versions)))

\* fold_point_chain: the range floor goes in first, as a deleted base.
fold_point_chain(st, key, read_seq, now, floor) ==
    LET first == IF floor = 0 THEN <<>> ELSE <<[s |-> floor, merge |-> FALSE, none |-> TRUE, v |-> None]>>
        mems == InTurn(LAMBDA acc, m : acc \o MemChain(m, key, read_seq, now), first, Memtables(st))
    IN  fold_chain(InTurn(LAMBDA acc, t : acc \o collect_table_chain(t, key, read_seq, now),
                          mems, point_tables(st, key)))

finish(st, c, key, read_seq, now, floor) ==
    IF c.kind = KindMerge THEN fold_point_chain(st, key, read_seq, now, floor)
    ELSE IF c.found /\ ~c.dead THEN c.v ELSE None

\* resolve_point: memtables newest first, the range mask, then the tables.
resolve_point(st, key, read_seq, now, cover) ==
    LET mems == InTurn(LAMBDA c, m : consider(c, MemGet(m, key, read_seq, now)), NotThere, Memtables(st))
    IN  InTurn(LAMBDA c, t : consider_sstable(c, t, key, read_seq, now),
               mask(mems, cover), point_tables(st, key))

get(st, key, read_seq, now) ==
    LET cover == covering_range_seq(st, key, read_seq)
    IN  finish(st, resolve_point(st, key, read_seq, now, cover), key, read_seq, now, cover)

\* multi_get: table by table for the whole batch, each table at the keys it may hold.
multi_get(st, keys, read_seq, now) ==
    LET cover == [k \in keys |-> covering_range_seq(st, k, read_seq)]
        mems == [k \in keys |-> mask(InTurn(LAMBDA c, m : consider(c, MemGet(m, k, read_seq, now)),
                                            NotThere, Memtables(st)), cover[k])]
        Batch(cands, t) ==
            [k \in keys |-> IF t \in ToSet(point_tables(st, k))
                            THEN consider_sstable(cands[k], t, k, read_seq, now) ELSE cands[k]]
        all == InTurn(LAMBDA acc, level : acc \o level, <<>>, st.levels)
        cands == InTurn(Batch, mems, all)
    IN  [k \in keys |-> finish(st, cands[k], k, read_seq, now, cover[k])]

-----------------------------------------------------------------------------
(* Scans over [lower, upper) *)

\* sst_in_bounds, sorted_level_start and the break in append_sorted_level_children.
sst_in_bounds(t, lower, upper) == t.max_key >= lower /\ t.min_key < upper

append_sorted_level_children(level, lower, upper) ==
    LET start == Min({i \in DOMAIN level : level[i].max_key >= lower} \cup {Len(level) + 1})
        stop == Min({i \in start .. Len(level) : level[i].min_key >= upper} \cup {Len(level) + 1})
    IN  [i \in 1 .. stop - start |-> Entries(level[start + i - 1])]

\* iterator_children: one sorted run of entries per source.
iterator_children(st, lower, upper) ==
    LET mems == Memtables(st)
        l0 == SelectSeq(st.levels[1], LAMBDA t : sst_in_bounds(t, lower, upper))
    IN  [i \in DOMAIN mems |-> MemEntries(mems[i])]
          \o [i \in DOMAIN l0 |-> Entries(l0[i])]
          \o InTurn(LAMBDA acc, level : acc \o append_sorted_level_children(level, lower, upper),
                    <<>>, Tail(st.levels))

\* iterator_range_mask: every memtable, and every table whose span meets the bounds.
span_in_bounds(t, lower, upper) == span_max(t) >= lower /\ span_min(t) < upper

iterator_range_mask(st, lower, upper) ==
    LET mems == Memtables(st)
        tables == UNION {ToSet(st.levels[l]) : l \in DOMAIN st.levels}
    IN  {window(fragment_spans(mems[i].spans, 0, KeyTop), lower, upper) : i \in DOMAIN mems}
          \cup {window(t.frags, lower, upper)
                : t \in {x \in tables : has_ranges(x) /\ span_in_bounds(x, lower, upper)}}

\* MergingIter: the versions of one key, newest first, or oldest first in a
\* backward traversal.  Of two copies with the same sequence the earlier child's
\* comes first in either direction, and the second is skipped.
group(children, key, forward) ==
    LET vs == UNION {{[e |-> e, c |-> c] : e \in {x \in ToSet(children[c]) : x.k = key}} : c \in DOMAIN children}
        seen == {v.e : v \in {x \in vs : ~\E o \in vs : o.e.s = x.e.s /\ o.c < x.c}}
    IN  Sorted(seen, LAMBDA a, b : IF forward THEN a.s > b.s ELSE a.s < b.s)

\* resolve_merging_group: forward, the operands before the first visible base;
\* backward, every base met discards the operands below it.
resolve_visible(visible, forward) ==
    LET bases == {i \in DOMAIN visible : visible[i].kind # KindMerge}
        at == IF bases = {} THEN 0 ELSE IF forward THEN Min(bases) ELSE Max(bases)
        ops == IF at = 0 THEN visible
               ELSE IF forward THEN SubSeq(visible, 1, at - 1) ELSE SubSeq(visible, at + 1, Len(visible))
    IN  [base |-> IF at = 0 THEN {} ELSE {visible[at]},
         operands |-> IF forward THEN Reverse(ops) ELSE ops]

resolve_merging_group(vs, forward, read_seq) ==
    resolve_visible(SelectSeq(vs, LAMBDA e : e.s <= read_seq), forward)

\* fold_group, is_live and masked_by_range: the value the group shows, or None.
fold_group(g, cover, now) ==
    LET ops == SelectSeq(g.operands, LAMBDA e : e.s > cover)
        below == {e \in g.base : ~dead(e, now) /\ (e.s > cover \/ (ops = <<>> /\ e.s = cover))}
    IN  full_merge(IF below = {} THEN None ELSE (CHOOSE e \in below : TRUE).v,
                   [i \in DOMAIN ops |-> ops[i].v])

\* A whole traversal from seek_to_first (or seek_to_last) to the end: the value
\* shown for every key inside the bounds.
scan(st, lower, upper, forward, read_seq, now) ==
    LET children == iterator_children(st, lower, upper)
        sources == iterator_range_mask(st, lower, upper)
    IN  [k \in {x \in 1 .. KeyTop - 1 : lower <= x /\ x < upper} |->
            fold_group(resolve_merging_group(group(children, k, forward), forward, read_seq),
                       Newest({covering_seq_in(f, k, read_seq) : f \in sources}), now)]

=============================================================================
