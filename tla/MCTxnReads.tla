----------------------------- MODULE MCTxnReads -----------------------------
EXTENDS TxnReads

TxnPoint(cf, kind, k) == [cf |-> cf, kind |-> kind, key |-> k, end |-> 0]
Span(cf, start, end) == [cf |-> cf, kind |-> KindRange, key |-> start, end |-> end]
Bounds(writes, marks, reads, shots, resets) ==
    [writes |-> writes, marks |-> marks, reads |-> reads, shots |-> shots, resets |-> resets]
Mode(level, collide, unified, left, writes, gets, names) ==
    [level |-> level, collide |-> collide, unified |-> unified, left |-> left, writes |-> writes,
     gets |-> gets, names |-> names]

\* Everything a caller can write, in one buffer of three; savepoints and reads
\* around an index whose hashes collide; and another writer under two writes.
MCTxnModes ==
    {Mode("RepeatableRead", FALSE, TRUE, Bounds(3, 0, 0, 0, 0),
          {TxnPoint(1, kind, k) : kind \in {KindPut, KindDelete, KindMerge}, k \in TxnKeys}
            \cup {Span(1, 1, 2), Span(1, 1, 3), Span(1, 2, 3), TxnPoint(2, KindPut, 1), Span(2, 1, 2), Span(2, 1, 3)}, {}, {}),
     Mode("Serializable", TRUE, TRUE, Bounds(3, 2, 1, 0, 0),
          {TxnPoint(1, KindPut, 1), TxnPoint(1, KindMerge, 1), TxnPoint(2, KindDelete, 1)}, {[cf |-> 1, keys |-> {1}]}, {"a"}),
     Mode("Serializable", FALSE, TRUE, Bounds(2, 3, 1, 0, 0),
          {TxnPoint(1, KindMerge, 1), Span(1, 1, 3)}, {[cf |-> 1, keys |-> {1, 2}]}, {"a", "b"}),
     Mode("Serializable", FALSE, FALSE, Bounds(2, 1, 1, 1, 1),
          {TxnPoint(1, KindMerge, 1)}, {[cf |-> 1, keys |-> {1, 2}]}, {"a"}),
     Mode("ReadCommitted", FALSE, FALSE, Bounds(2, 0, 1, 1, 0),
          {TxnPoint(1, KindMerge, 1), TxnPoint(1, KindDelete, 2), TxnPoint(2, KindPut, 2), Span(1, 1, 2)},
          {[cf |-> 2, keys |-> {1, 2}]}, {})}

=============================================================================
