------------------------------- MODULE MCLsm -------------------------------
EXTENDS Lsm

Point(k, kind, ttl) == [range |-> FALSE, k |-> k, kind |-> kind, ttl |-> ttl, start |-> 0, end |-> 0]
RangeDelete(a, b) == [range |-> TRUE, k |-> 0, kind |-> KindDelete, ttl |-> 0, start |-> a, end |-> b]

Scenario(actors, workers, writes, maxWrites, maxPins, maxMoves) ==
    [actors |-> actors, workers |-> workers, writes |-> writes,
     maxWrites |-> maxWrites, maxPins |-> maxPins, maxMoves |-> maxMoves]

MCScenarios ==
    {\* versions and operands of one key under a snapshot
     Scenario({"snapshots"}, {1}, {Point(1, KindPut, 0), Point(1, KindMerge, 0), Point(1, KindDelete, 0)}, 3, 1, 3),
     \* expiry
     Scenario({"snapshots"}, {1}, {Point(1, KindPut, 0), Point(1, KindPut, 1), Point(1, KindMerge, 0)}, 3, 1, 2),
     \* three levels: what a job above the bottom must keep
     Scenario({"density"}, {1}, {Point(1, KindPut, 0), Point(1, KindMerge, 0), Point(1, KindDelete, 0)}, 2, 0, 6),
     Scenario({"snapshots"}, {1}, {Point(1, KindPut, 0), Point(1, KindDelete, 0)}, 2, 1, 5),
     Scenario({}, {1}, {Point(1, KindPut, 0), Point(2, KindPut, 0), RangeDelete(1, 3)}, 3, 0, 5),
     \* range deletes, split jobs and excise
     Scenario({"spans", "excise", "density"}, {1},
              {Point(1, KindPut, 0), Point(2, KindPut, 0), RangeDelete(1, 2), RangeDelete(1, 3)}, 3, 0, 3),
     \* an excise against a compaction
     Scenario({"excise"}, {1, 2}, {Point(1, KindPut, 0), RangeDelete(1, 3)}, 2, 0, 5),
     \* two workers, manual and range sweeps
     Scenario({"manual", "range", "density"}, {1, 2}, {Point(1, KindPut, 0), Point(1, KindDelete, 0)}, 2, 0, 4),
     \* ingestion
     Scenario({"ingest"}, {1}, {Point(1, KindPut, 0), Point(1, KindDelete, 0)}, 3, 0, 3),
     \* a restart that replays a flushed log
     Scenario({"replay", "density"}, {1}, {Point(1, KindPut, 0), Point(1, KindMerge, 0), Point(1, KindDelete, 0)}, 2, 0, 4)}

=============================================================================
