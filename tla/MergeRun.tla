------------------------------ MODULE MergeRun ------------------------------
(***************************************************************************)
(* What one compaction writes (compaction.rs): the merged input stream,    *)
(* the versions kept, merge folding, the range fragments kept, and the     *)
(* tables they are cut into.  A job is frozen once as                      *)
(* [bottom, oldest_snapshot, now, ranges] and run over one or more spans.  *)
(* Compaction filters and foreign mounts are left out.                     *)
(***************************************************************************)
EXTENDS Tables

CONSTANTS TargetEntries,    \* target_file_size, in entries
          PartitionStart    \* the first key of the second partition

\* smallest_input over the span [lower, upper): internal order, the earlier
\* input first; a second version with the same key and sequence is dropped.
merged_inputs(inputs, lower, upper) ==
    LET inside == UNION {{[e |-> e, c |-> i] : e \in {x \in ToSet(Entries(inputs[i])) : lower <= x.k /\ x.k < upper}}
                         : i \in DOMAIN inputs}
        first == {v \in inside : ~\E o \in inside : o.e.k = v.e.k /\ o.e.s = v.e.s /\ o.c < v.c}
    IN  Sorted({v.e : v \in first}, LAMBDA a, b : Before(a.k, a.s, b.k, b.s))

-----------------------------------------------------------------------------
(* VersionRetention, PendingFold and the loop of run_span.  r is           *)
(* [last_key, emitted, live_operands, pending, out].                       *)

NoRun == [last_key |-> 0, emitted |-> FALSE, live_operands |-> FALSE, pending |-> <<>>, out |-> <<>>]

\* emit_fold: one put at the newest operand's sequence, operands oldest first.
emit_fold(r, base) ==
    [r EXCEPT !.pending = <<>>,
              !.out = Append(@, [r.pending[1] EXCEPT
                  !.kind = KindPut, !.ttl = 0,
                  !.v = full_merge(base, [i \in DOMAIN r.pending |->
                                            r.pending[Len(r.pending) + 1 - i].v])])]

emit_operands(r) == [r EXCEPT !.pending = <<>>, !.out = @ \o r.pending]

\* flush_pending: at the bottom nothing older can exist, so the operands fold.
flush_pending(r, frozen) ==
    IF r.pending = <<>> THEN r
    ELSE IF frozen.bottom THEN emit_fold(r, <<>>) ELSE emit_operands(r)

fresh_key(r, e) ==
    IF r.last_key = e.k THEN r
    ELSE [r EXCEPT !.last_key = e.k, !.emitted = FALSE, !.live_operands = FALSE]

decide_drops_tombstones(r, e, frozen) ==
    LET merge == e.kind = KindMerge
        old == e.s <= frozen.oldest_snapshot
        marked == [r EXCEPT !.emitted = @ \/ (old /\ ~merge)]
        drop == \/ old /\ r.emitted
                \/ old /\ tombstone(e) /\ ~r.live_operands
                \/ frozen.bottom /\ ~merge /\ ~tombstone(e) /\ expired(e, frozen.now)
    IN  [keep |-> ~drop, r |-> IF drop THEN marked ELSE [marked EXCEPT !.live_operands = merge]]

\* VersionRetention::decide: whether the version is kept, and the state after.
decide(r, e, frozen) ==
    LET merge == e.kind = KindMerge
        old == e.s <= frozen.oldest_snapshot
        marked == [r EXCEPT !.emitted = @ \/ (old /\ ~merge)]
        drop == \/ old /\ r.emitted
                \/ old /\ tombstone(e) /\ frozen.bottom /\ ~r.live_operands
                \/ frozen.bottom /\ ~merge /\ ~tombstone(e) /\ expired(e, frozen.now)
    IN  [keep |-> ~drop, r |-> IF drop THEN marked ELSE [marked EXCEPT !.live_operands = merge]]

\* A kept version: collected for folding, folded into, or written as it is.
keep_version(r, e, frozen) ==
    LET foldable == e.s <= frozen.oldest_snapshot
    IN  IF foldable /\ e.kind = KindMerge THEN [r EXCEPT !.pending = Append(@, e)]
        ELSE IF r.pending # <<>> /\ foldable /\ e.ttl = 0
             THEN emit_fold(r, IF tombstone(e) THEN <<>> ELSE e.v)
             ELSE [emit_operands(r) EXCEPT !.out = Append(@, e)]

retain(d, e, frozen) == IF d.keep THEN keep_version(d.r, e, frozen) ELSE d.r

run_step(r, e, covering, frozen) ==
    LET flushed == IF r.pending # <<>> /\ r.pending[1].k # e.k THEN flush_pending(r, frozen) ELSE r
    IN  IF covering_seq_in(covering, e.k, frozen.oldest_snapshot) > e.s THEN flushed
        ELSE retain(decide(fresh_key(flushed, e), e, frozen), e, frozen)

retained_versions(ents, covering, frozen) ==
    flush_pending(InTurn(LAMBDA r, e : run_step(r, e, covering, frozen), NoRun, ents), frozen).out

retained_fragments(covering, frozen) ==
    SelectSeq([i \in DOMAIN covering |->
                 [covering[i] EXCEPT !.seqs =
                    retained_fragment_seqs(@, frozen.oldest_snapshot, frozen.bottom)]],
              LAMBDA f : f.seqs # {})

-----------------------------------------------------------------------------
(* CompactionOutputBuilder.  b is [cur, n, after, outs, lower]: the current *)
(* output's entries (<<>> when none is open), whether a size cut is        *)
(* pending and after which key, the finished outputs and where the next    *)
(* one's interval starts (0: unbounded).                                   *)

partition(key) == IF key < PartitionStart THEN 1 ELSE 2

\* finish_current: the output takes the fragments from the previous cut up to
\* this one; one without entries takes their bounds as its key range.
widen_to_fragments(t) ==
    IF t.blocks = <<>> /\ has_ranges(t)
    THEN [t EXCEPT !.min_key = range_min_key(t), !.max_key = range_max_key(t)] ELSE t

finish_current(b, upper, frags, id, level) ==
    IF ~b.open THEN b
    ELSE [b EXCEPT !.open = FALSE, !.cur = <<>>, !.after = 0, !.lower = upper,
                   !.outs = Append(@, widen_to_fragments(
                       WriteTable(id + Len(b.outs), level, b.cur, clip_fragments(frags, b.lower, upper))))]

\* CompactionOutputBuilder::write: cut at a partition boundary (bottom output
\* only) or, once the size is reached, at the next different key.
add_entry(b, e) ==
    [b EXCEPT !.open = TRUE, !.cur = Append(@, e),
              !.after = IF Len(b.cur) + 1 >= TargetEntries /\ @ = 0 THEN e.k ELSE @]

write_output(b, e, frags, id, level, bottom) ==
    LET cut == /\ b.open
               /\ \/ bottom /\ partition(e.k) # partition(b.cur[Len(b.cur)].k)
                  \/ b.after # 0 /\ e.k # b.after
    IN  add_entry(IF cut THEN finish_current(b, e.k, frags, id, level) ELSE b, e)

\* finish: fragments that outlived every entry get an output of their own.
open_for_fragments(b, frags) ==
    IF ~b.open /\ b.outs = <<>> /\ frags # <<>> THEN [b EXCEPT !.open = TRUE] ELSE b

build_outputs(ents, frags, upper, id, level, bottom) ==
    LET empty == [open |-> FALSE, cur |-> <<>>, after |-> 0, outs |-> <<>>, lower |-> 0]
        written == InTurn(LAMBDA b, e : write_output(b, e, frags, id, level, bottom), empty, ents)
    IN  finish_current(open_for_fragments(written, frags), upper, frags, id, level).outs

\* run_span over the keys [lower, upper).
run_span(inputs, lower, upper, frozen, id, level) ==
    LET covering == fragment_spans(frozen.ranges, lower, upper)
    IN  build_outputs(retained_versions(merged_inputs(inputs, lower, upper), covering, frozen),
                      retained_fragments(covering, frozen), upper, id, level, frozen.bottom)

\* collect_input_ranges.
collect_input_ranges(inputs) == UNION {spans_of_fragments(inputs[i].frags) : i \in DOMAIN inputs}

\* plan_spans: where a job may be split; the target tables' first keys, or the
\* inputs' when it has none.
plan_spans(inputs, target) ==
    LET mins(ts) == {t.min_key : t \in ts}
        all == ToSet(inputs)
        cands == IF \E t \in all : t.level = target THEN mins({t \in all : t.level = target}) ELSE mins(all)
    IN  {c \in cands : /\ c > Min({span_min(t) : t \in all}) /\ c <= Max({span_max(t) : t \in all})
                       /\ \E t \in all : t.min_key < c}

\* run_spans: one span, or two split at cut (0: none), in span order.
span_after(left, inputs, cut, frozen, id, level) ==
    left \o run_span(inputs, cut, KeyTop, frozen, id + Len(left), level)

run_spans(inputs, cut, frozen, id, level) ==
    span_after(IF cut = 0 THEN <<>> ELSE run_span(inputs, 0, cut, frozen, id, level),
               inputs, cut, frozen, id, level)

=============================================================================
