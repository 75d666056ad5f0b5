----------------------------- MODULE SpanIndex -----------------------------
(***************************************************************************)
(* The committed-span index of src/src/span_index.rs: recent commits, as   *)
(* points and half-open ranges, against which a range delete and the       *)
(* writers it may cover detect conflicts.  Keys are natural numbers in the *)
(* comparator's order, of one column family.                               *)
(***************************************************************************)
EXTENDS Naturals, FiniteSets

CONSTANTS
    Keys,       \* user keys
    Spans,      \* range deletes a transaction may issue: [start, end)
    Capacity    \* Options::span_index_capacity

Point(k) == [kind |-> "point", start |-> k, end |-> k]
RangeDelete(r) == [kind |-> "range", start |-> r[1], end |-> r[2]]
Writes == {Point(k) : k \in Keys} \cup {RangeDelete(r) : r \in Spans}
IsRange(w) == w.kind = "range"

(* The keys a write changes.                                                *)
Touched(w) == IF IsRange(w) THEN {k \in Keys : w.start <= k /\ k < w.end} ELSE {w.start}

ASSUME SpanIndexAssumption ==
    /\ Keys \subseteq Nat
    /\ Spans \subseteq {r \in Nat \X Nat : r[1] < r[2]}
    /\ Capacity \in Nat \ {0}

VARIABLES
    markers,     \* Inner.markers: [write, seq]
    reserved,    \* Inner.reserved
    overflow_seq \* SpanIndex.overflow_seq

spanVars == <<markers, reserved, overflow_seq>>

SpanInit ==
    /\ markers = {}
    /\ reserved = 0
    /\ overflow_seq = 0

Marker(w, seq) == [write |-> w, seq |-> seq]

(* Marker::overlaps: does the marker touch [r.start, r.end)?                *)
Overlaps(m, r) ==
    IF IsRange(m.write)
    THEN m.write.start < r.end /\ r.start < m.write.end
    ELSE r.start <= m.write.start /\ m.write.start < r.end

(* Marker::covers, of a range marker.                                       *)
Covers(m, k) == m.write.start <= k /\ k < m.write.end

(* range_conflict: anything newer than read_seq in the range, or a window   *)
(* the index could not record.                                              *)
RangeConflict(r, read_seq) ==
    \/ overflow_seq > read_seq
    \/ \E m \in markers : m.seq > read_seq /\ Overlaps(m, r)

(* point_conflict: a newer range covers the key, or may.                    *)
PointConflict(k, read_seq) ==
    \/ overflow_seq > read_seq
    \/ \E m \in markers : IsRange(m.write) /\ m.seq > read_seq /\ Covers(m, k)

(* prune(below): markers and the watermark age out together.                *)
Kept(below) == {m \in markers : m.seq > below}

KeptOverflow(below) == IF overflow_seq <= below THEN 0 ELSE overflow_seq

Prune(below) ==
    /\ markers' = Kept(below)
    /\ overflow_seq' = KeptOverflow(below)

(* Room for n more markers among ms.                                        *)
HasRoom(ms, n) == Cardinality(ms) + reserved + n <= Capacity

(* insert_point / insert_range for every write of a commit; the slots still *)
(* outstanding go back when the reservation is dropped.                     *)
Insert(ws, seq, outstanding) ==
    /\ markers' = markers \cup {Marker(w, seq) : w \in ws}
    /\ reserved' = reserved - outstanding
    /\ UNCHANGED overflow_seq

(* Drop of a SpanReservation nothing was inserted under.                    *)
DropReservation(outstanding) ==
    /\ reserved' = reserved - outstanding
    /\ UNCHANGED <<markers, overflow_seq>>

(* note_overflow(seq).                                                      *)
NoteOverflow(seq) ==
    /\ overflow_seq' = IF seq > overflow_seq THEN seq ELSE overflow_seq
    /\ UNCHANGED markers

SpanTypeOK(seqs) ==
    /\ markers \subseteq [write : Writes, seq : seqs]
    /\ reserved \in Nat
    /\ overflow_seq \in seqs
=============================================================================
