------------------------------ MODULE MCCursor ------------------------------
EXTENDS Cursor

\* Two puts, then two free writes; the first n of the four in the table and
\* those from m on in the memtable, so that m = n leaves a replayed copy.
CurPoint(k, kind) == [k |-> k, kind |-> kind, end |-> 0]
CurRange(a, b) == [k |-> a, kind |-> KindDelete, end |-> b]
CurWrites == {CurPoint(1, KindPut), CurPoint(2, KindDelete), CurPoint(2, KindMerge),
              CurPoint(3, KindMerge), CurRange(1, 3)}

StoreOf(a, b, n, m, run, lower, upper, read, tail) ==
    LET ws == <<CurPoint(1, KindPut), CurPoint(2, KindPut), a, b>>
        points(seqs) == {[k |-> ws[i].k, s |-> i, kind |-> ws[i].kind, ttl |-> 0,
                          v |-> IF ws[i].kind = KindDelete THEN <<>> ELSE <<i>>]
                         : i \in {x \in seqs : ws[x].end = 0}}
        spans(seqs) == {[start |-> ws[i].k, end |-> ws[i].end, seq |-> i] : i \in {x \in seqs : ws[x].end # 0}}
    IN  [pts |-> points(m .. 4), spans |-> spans(m .. 4),
         table |-> WriteBlocks(1, 0, Sorted(points(1 .. n), Precedes), fragment_spans(spans(1 .. n), 0, CurTop), 3),
         run |-> run, lower |-> lower, upper |-> upper, read_seq |-> read, tail |-> tail]

From0 == [k |-> 0, incl |-> TRUE]
MCStores ==
    UNION {{StoreOf(a, b, 3, m, 2, From0, CurTop, 4, FALSE) : m \in {3, 4}}
           \cup {StoreOf(a, b, 4, 5, run, From0, CurTop, 3, FALSE) : run \in {0, 2}}
           \cup {StoreOf(a, b, 3, 4, 0, [k |-> 2, incl |-> incl], 3, 4, FALSE) : incl \in BOOLEAN}
           \cup {StoreOf(a, b, 2, 3, 0, From0, CurTop, 4, TRUE)}
           : a \in CurWrites, b \in CurWrites}

=============================================================================
