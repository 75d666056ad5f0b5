------------------------------ MODULE MCWal ------------------------------
EXTENDS Wal
P(kind, seq, ttl, a, b) == [kind |-> kind, seq |-> seq, ttl |-> ttl, a |-> a, b |-> b]
MCBatches == <<
    [schema |-> 0, size |-> 1, recs |-> <<P(KIND_PUT, 1, 0, <<7>>, <<8, 9>>), P(KIND_SINGLE_DELETE, 2, 5, <<7>>, <<>>)>>],
    [schema |-> 2, size |-> 2, recs |-> append_prepare(<<6>>, <<1, 2>>, <<P(KIND_MERGE, 9, 4, <<7>>, <<8>>)>>)]>>
=============================================================================
