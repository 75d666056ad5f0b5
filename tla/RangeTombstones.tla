-------------------------- MODULE RangeTombstones --------------------------
(***************************************************************************)
(* Range tombstones (range_tombstone.rs) as pure operators: raw spans, the *)
(* sorted disjoint fragments they are cut into, the covering-sequence      *)
(* lookups, and the clipping and retention a compaction applies.           *)
(*                                                                         *)
(* User keys are 1 .. KeyTop - 1 and an exclusive end is at most KeyTop; 0 *)
(* is the empty key, below every other.  Passing 0 or KeyTop as a bound    *)
(* stands for None.  A stack of sequences is a set; 0 is "no sequence".    *)
(***************************************************************************)
EXTENDS Integers, Sequences, FiniteSets, FiniteSetsExt, SequencesExt, Turns

CONSTANT KeyTop

Newest(seqs) == IF seqs = {} THEN 0 ELSE Max(seqs)

Clip(x, lower, upper) ==
    [x EXCEPT !.start = IF @ < lower THEN lower ELSE @, !.end = IF @ > upper THEN upper ELSE @]

\* RangeTombstoneSet::covering_seq: the newest visible span over the key.
covering_seq(spans, key, read_seq) ==
    Newest({sp.seq : sp \in {x \in spans : x.start <= key /\ key < x.end /\ x.seq <= read_seq}})

\* fragment_spans: cut at every clipped bound, stack the spans over each
\* piece, drop the bare ones and join abutting pieces with the same stack.
fragment_spans(spans, lower, upper) ==
    LET clipped == {c \in {Clip(sp, lower, upper) : sp \in spans} : c.start < c.end}
        bounds == Sorted({c.start : c \in clipped} \cup {c.end : c \in clipped}, LAMBDA a, b : a < b)
        Piece(i) == [start |-> bounds[i], end |-> bounds[i + 1],
                     seqs |-> {sp.seq : sp \in {x \in spans : x.start <= bounds[i] /\ bounds[i + 1] <= x.end}}]
        Joins(out, p) == out # <<>> /\ out[Len(out)].end = p.start /\ out[Len(out)].seqs = p.seqs
        Add(out, p) ==
            IF p.seqs = {} THEN out
            ELSE IF Joins(out, p) THEN [out EXCEPT ![Len(out)].end = p.end]
            ELSE Append(out, p)
    IN  IF clipped = {} THEN <<>> ELSE InTurn(Add, <<>>, [i \in 1 .. Len(bounds) - 1 |-> Piece(i)])

\* spans_of_fragments: one raw span per fragment and stacked sequence.
spans_of_fragments(frags) ==
    UNION {{[start |-> frags[i].start, end |-> frags[i].end, seq |-> s] : s \in frags[i].seqs}
           : i \in DOMAIN frags}

\* covering_seq_in: only the first fragment that ends past the key can cover it.
covering_seq_in(frags, key, read_seq) ==
    LET past == {i \in DOMAIN frags : frags[i].end > key}
    IN  IF past = {} \/ frags[Min(past)].start > key THEN 0
        ELSE Newest({s \in frags[Min(past)].seqs : s <= read_seq})

\* clip_fragments (compaction.rs): the part of each fragment inside the bounds.
clip_fragments(frags, lower, upper) ==
    SelectSeq([i \in DOMAIN frags |-> Clip(frags[i], lower, upper)], LAMBDA f : f.start < f.end)

\* retained_fragment_seqs: everything a live snapshot can tell apart, and the
\* newest older one unless nothing below can need it.
retained_fragment_seqs(seqs, oldest_snapshot, droppable) ==
    LET old == {s \in seqs : s <= oldest_snapshot}
    IN  (seqs \ old) \cup (IF old = {} \/ droppable THEN {} ELSE {Max(old)})

\* FragCursor / RangeMask: the fragments of one source that reach into a scan's
\* window [lower, upper), and the newest that covers the key.
window(frags, lower, upper) == SelectSeq(frags, LAMBDA f : f.end > lower /\ f.start < upper)

=============================================================================
