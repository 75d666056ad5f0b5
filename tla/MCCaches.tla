------------------------------ MODULE MCCaches ------------------------------
(* Scenarios for Caches: what shares the caches, their bounds and budgets.  *)
EXTENDS Caches

CacheCall(file, ext, class) == [file |-> file, ext |-> ext, class |-> class]

CacheMax(open, bytes) == [open |-> open, bytes |-> bytes]

CacheBudget(opens, shuts, reads, swaps, sets, faults, restarts) ==
    [opens |-> opens, shuts |-> shuts, reads |-> reads, swaps |-> swaps, sets |-> sets, faults |-> faults,
     restarts |-> restarts]

\* Two handles on one directory, reopened after it was replaced; nothing evicts.
Reopened ==
    [dir |-> <<"a", "a">>, label |-> [a |-> "A"], name |-> [a |-> "a"], named |-> FALSE,
     remote |-> FALSE, max |-> CacheMax(2, 0), bounds |-> {}, block_cap |-> 2, max_files |-> 2,
     disk_max |-> 0, threads |-> 1, closes |-> TRUE, calls |-> {CacheCall(1, "klog", "fg")},
     budget |-> CacheBudget(3, 2, 2, 1, 0, 0, 0)]

\* Two databases with the same table ids behind tight bounds.
Crowded ==
    [dir |-> <<"a", "b">>, label |-> [a |-> "A", b |-> "B"], name |-> [a |-> "a", b |-> "b"],
     named |-> FALSE, remote |-> FALSE, max |-> CacheMax(2, 2), bounds |-> {CacheMax(1, 0)},
     block_cap |-> 1, max_files |-> 2, disk_max |-> 0, threads |-> 2, closes |-> FALSE,
     calls |-> {CacheCall(1, "klog", "fg"), CacheCall(2, "klog", "fg")}, budget |-> CacheBudget(2, 0, 3, 0, 1, 0, 0)]

\* Two databases one after the other, the first one's purge still running.
Neighbours == [Crowded EXCEPT !.threads = 1, !.max = CacheMax(2, 0), !.bounds = {},
                              !.budget = CacheBudget(3, 1, 2, 1, 0, 0, 0)]

\* Two copies of one checkpoint under a caller's name.
Copies ==
    [dir |-> <<"a", "b">>, label |-> [a |-> "C", b |-> "C"], name |-> [a |-> "n", b |-> "n"],
     named |-> TRUE, remote |-> FALSE, max |-> CacheMax(1, 0), bounds |-> {}, block_cap |-> 1,
     max_files |-> 1, disk_max |-> 0, threads |-> 2, closes |-> FALSE,
     calls |-> {CacheCall(1, "klog", "fg"), CacheCall(1, "vlog", "bg")}, budget |-> CacheBudget(3, 1, 2, 0, 0, 0, 0)]

\* A remote tier behind the disk cache: two reads race to admit and evict.
Remote ==
    [dir |-> <<"a", "a">>, label |-> [a |-> "A"], name |-> [a |-> "a"], named |-> FALSE,
     remote |-> TRUE, max |-> CacheMax(1, 0), bounds |-> {}, block_cap |-> 1, max_files |-> 1,
     disk_max |-> 2, threads |-> 2, closes |-> FALSE,
     calls |-> {CacheCall(1, "klog", "fg"), CacheCall(2, "klog", "bg")},
     budget |-> CacheBudget(1, 0, 2, 0, 0, 1, 0)]

\* The same tier read across a restart and a replaced directory.
Restarted == [Remote EXCEPT !.threads = 1, !.budget = CacheBudget(2, 1, 3, 1, 0, 0, 1)]

MCCacheModes == {Reopened, Crowded, Neighbours, Copies, Remote, Restarted}
=============================================================================
