------------------------------- MODULE Caches -------------------------------
(***************************************************************************)
(* The caches a read passes through: the bounded cache of open readers     *)
(* (src/src/table_cache.rs), the CLOCK block cache (cache/block.rs), the   *)
(* LRU of file descriptors (cache/file.rs), the on-disk cache in front of  *)
(* a remote tier (local_cache.rs), and the process-wide ReadResources that *)
(* several read-only databases lease (read_resources.rs).                  *)
(*                                                                         *)
(* Bytes are abstract: what a file holds at an extent is the tuple         *)
(* <<label of the directory, its incarnation, table id, extent>>, so       *)
(* serving another database's, another incarnation's or another file's     *)
(* bytes is visible.  One shard of the block cache is modelled (shards are *)
(* independent); every block, value and disk entry weighs one unit.        *)
(* Retiring tables (SstHandle::close and the pins it takes) belongs to     *)
(* writable databases and is not part of this module.                      *)
(***************************************************************************)
EXTENDS Integers, Sequences, FiniteSets, FiniteSetsExt

CONSTANTS CacheModes,          \* the scenarios: databases, bounds, budgets
          CacheThreads,        \* threads that call into the databases
          CacheDbs,            \* database handles
          CLOCK_SWEEP_BUDGET   \* second chances one sweep may give

VARIABLES caMode,    \* the scenario
          caGen,     \* incarnation of each directory
          caLease,   \* LeaseState
          caDb,      \* namespace id of an open database, 0 when closed
          caPurge,   \* releases whose purge is still running
          caTables,  \* TableCache: the cached readers
          caMax,     \* TableCache: the bounds in force
          caBlocks,  \* BlockCache: one shard
          caFds,     \* FileCache: least recently used first
          caDisk,    \* DiskCache: bookkeeping and the files
          caThr,     \* the threads
          caLeft,    \* remaining budgets
          caStale    \* a descriptor outlived its directory's incarnation

cacheVars == <<caMode, caGen, caLease, caDb, caPurge, caTables, caMax, caBlocks,
               caFds, caDisk, caThr, caLeft, caStale>>

SHARDS == 16

PathOf(r, ext) == <<r.dir, r.file, IF ext = "vlog" THEN "vlog" ELSE "klog">>

\* What the file of table `file` under `dir` holds at `ext` in incarnation `gen`.
BytesAt(dir, gen, file, ext) == <<caMode.label[dir], gen, file, ext>>

NoLease == [leases |-> 0, closing |-> FALSE, closed |-> FALSE, next_ns |-> 1, spaces |-> <<>>]

EmptyShard == [map |-> <<>>, ring |-> <<>>, used |-> 0]

IdleThread == [pc |-> "idle"]

Spent(what) == [caLeft EXCEPT ![what] = @ - 1]

(***************************************************************************)
(* FileCache: acquire moves a hit to the recent end, opens a miss and      *)
(* drops the least recently used descriptor over capacity.                 *)
(***************************************************************************)
FdOf(fds, path) == SelectSeq(fds, LAMBDA h : h.path = path)

OtherFds(fds, path) == SelectSeq(fds, LAMBDA h : h.path # path)

FdsAfter(fds, path) ==
    LET hit  == FdOf(fds, path)
        open == IF hit = <<>> THEN <<[path |-> path, gen |-> caGen[path[1]]]>> ELSE hit
        all  == OtherFds(fds, path) \o open
    IN  IF Len(all) > caMode.max_files THEN Tail(all) ELSE all

acquire(fds, path) ==
    LET after == FdsAfter(fds, path) IN [fds |-> after, gen |-> after[Len(after)].gen]

evict_fd(fds, r) == OtherFds(OtherFds(fds, PathOf(r, "klog")), PathOf(r, "vlog"))

(***************************************************************************)
(* BlockCache                                                              *)
(***************************************************************************)
BlockKey(ns, file, ext) == <<ns, file, ext>>

Cached(shard, k) == k \in DOMAIN shard.map

referenced_block(shard, k) == [shard EXCEPT !.map[k].referenced = TRUE]

\* The lookup of a foreground read refreshes what it hits; a background read peeks.
lookup(shard, k, class) ==
    IF Cached(shard, k) /\ class = "fg" THEN referenced_block(shard, k) ELSE shard

unlink(shard, k) ==
    IF ~Cached(shard, k) THEN shard
    ELSE [shard EXCEPT !.map = [j \in DOMAIN @ \ {k} |-> @[j]], !.used = @ - 1]

RECURSIVE evict_to_cap(_, _)
evict_to_cap(shard, spared) ==
    IF shard.used <= caMode.block_cap \/ Cardinality(DOMAIN shard.map) <= 1 \/ shard.ring = <<>>
    THEN shard
    ELSE LET k    == Head(shard.ring)
             rest == [shard EXCEPT !.ring = Tail(@)]
         IN  IF ~Cached(shard, k) THEN evict_to_cap(rest, spared)
             ELSE IF spared < CLOCK_SWEEP_BUDGET /\ shard.map[k].referenced
                  THEN evict_to_cap([rest EXCEPT !.map[k].referenced = FALSE,
                                                 !.ring = Append(@, k)], spared + 1)
                  ELSE evict_to_cap(unlink(rest, k), spared)

put_block(shard, k, data) ==
    IF Cached(shard, k) THEN referenced_block(shard, k)
    ELSE evict_to_cap([map  |-> [j \in DOMAIN shard.map \cup {k} |->
                                   IF j = k THEN [data |-> data, referenced |-> FALSE]
                                   ELSE shard.map[j]],
                       ring |-> Append(shard.ring, k),
                       used |-> shard.used + 1], 0)

RECURSIVE unlink_all(_, _)
unlink_all(shard, ks) ==
    IF ks = {} THEN shard
    ELSE LET k == CHOOSE x \in ks : TRUE IN unlink_all(unlink(shard, k), ks \ {k})

(***************************************************************************)
(* TableCache: the set of entries, over_bound, and a CLOCK visit of the    *)
(* first non-empty shard from `start`.  A shard is a hash map, so the      *)
(* visit meets its entries in any order: it clears the bits of some        *)
(* referenced readers before it meets an unreferenced one, or of all of    *)
(* them and then takes any.                                                *)
(***************************************************************************)
reader_bytes(r) == r.file

open_bytes(tables) == MapThenSumSet(LAMBDA e : reader_bytes(e.reader), tables)

shard_index(ns, file) == (file + 7 * ns) % SHARDS


over_bound(tables) ==
    \/ Cardinality(tables) > caMax.open
    \/ caMax.bytes > 0 /\ Cardinality(tables) > 1 /\ open_bytes(tables) > caMax.bytes

FirstShard(tables, start) ==
    LET occupied == {shard_index(e.ns, e.file) : e \in tables}
        off      == CHOOSE o \in 0 .. SHARDS - 1 :
                        /\ (start + o) % SHARDS \in occupied
                        /\ \A q \in 0 .. o - 1 : (start + q) % SHARDS \notin occupied
    IN  {e \in tables : shard_index(e.ns, e.file) = (start + off) % SHARDS}

\* The pairs <<victim, readers whose bit the visit cleared>> one visit may produce.
Victims(shard) ==
    LET used  == {e \in shard : e.referenced}
        fresh == shard \ used
    IN  IF fresh = {} THEN shard \X {used} ELSE fresh \X SUBSET used

Evicted(tables, victim, cleared) ==
    {IF e \in cleared THEN [e EXCEPT !.referenced = FALSE] ELSE e : e \in tables \ {victim}}

\* Arc::strong_count > 1: some thread still uses the reader (unopened ones have gen 0).
ReaderInUse(r) == \E t \in CacheThreads : caThr[t].pc # "idle" /\ caThr[t].reader = r

pin_files(fds, r) ==
    IF caMode.remote THEN fds
    ELSE acquire(acquire(fds, PathOf(r, "klog")).fds, PathOf(r, "vlog")).fds

ResidentOf(ns, file) == {e \in caTables : e.ns = ns /\ e.file = file}

Touched(found) == {IF e \in found THEN [e EXCEPT !.referenced = TRUE] ELSE e : e \in caTables}

Go(t, pc) == caThr' = [caThr EXCEPT ![t].pc = pc]

ThreadAt(t, pc) == caThr[t].pc = pc

\* Threads are alike: the first idle one of the scenario's takes the call.
CallTaker(t) == t <= caMode.threads /\ ThreadAt(t, "idle") /\ \A u \in CacheThreads : u < t => ~ThreadAt(u, "idle")

FreshReader(dir, file) == [dir |-> dir, file |-> file, gen |-> 0]

\* evict_to_bound returns to get, or to the caller of set_max_open/set_max_bytes.
Bounded(t) ==
    IF caThr[t].after = "block" THEN Go(t, "block") ELSE caThr' = [caThr EXCEPT ![t] = IdleThread]

(***************************************************************************)
(* A read: TableCache::get (open on a miss, outside the lock; insert or    *)
(* adopt; evict), then the block, read through the block cache.  A         *)
(* background read peeks and never admits.                                 *)
(***************************************************************************)
TableGet(t) ==
    /\ CallTaker(t) /\ caLeft.reads > 0
    /\ \E d \in CacheDbs, c \in caMode.calls :
        /\ caDb[d] # 0
        /\ LET found == ResidentOf(caDb[d], c.file)
               fresh == FreshReader(caMode.dir[d], c.file)
           IN  /\ caTables' = Touched(found)
               /\ caThr' = [caThr EXCEPT ![t] =
                     [pc     |-> IF found = {} THEN "fetch" ELSE "block",
                      db     |-> d, ns |-> caDb[d], file |-> c.file, ext |-> c.ext, class |-> c.class,
                      want   |-> "index", next |-> "insert", after |-> "block", val |-> <<>>, victim |-> <<>>,
                      reader |-> IF found = {} THEN fresh ELSE (CHOOSE e \in found : TRUE).reader]]
    /\ caLeft' = Spent("reads")
    /\ UNCHANGED <<caMode, caGen, caLease, caDb, caPurge, caMax, caBlocks, caFds, caDisk, caStale>>

InsertReader(t) ==
    /\ ThreadAt(t, "insert")
    /\ LET th    == caThr[t]
           found == ResidentOf(th.ns, th.file)
           opened == [th.reader EXCEPT !.gen = th.val[2]]
       IN  /\ caTables' = IF found # {} THEN Touched(found)
                          ELSE caTables \cup {[ns |-> th.ns, file |-> th.file, reader |-> opened,
                                               referenced |-> TRUE]}
           /\ caThr' = [caThr EXCEPT ![t].pc = "over",
                           ![t].reader = IF found = {} THEN opened ELSE (CHOOSE e \in found : TRUE).reader]
    /\ UNCHANGED <<caMode, caGen, caLease, caDb, caPurge, caMax, caBlocks, caFds, caDisk, caLeft, caStale>>

evict_to_bound(t) ==
    /\ ThreadAt(t, "over")
    /\ IF over_bound(caTables) THEN Go(t, "evict") ELSE Bounded(t)
    /\ UNCHANGED <<caMode, caGen, caLease, caDb, caPurge, caTables, caMax, caBlocks, caFds, caDisk, caLeft, caStale>>

evict_one_shard(t) ==
    /\ ThreadAt(t, "evict")
    /\ IF caTables = {} THEN Bounded(t) /\ UNCHANGED <<caTables, caFds>>
       ELSE \E v \in Victims(FirstShard(caTables, IF caThr[t].after = "block"
                                                  THEN shard_index(caThr[t].ns, caThr[t].file) ELSE 0)) :
              /\ caTables' = Evicted(caTables, v[1], v[2])
              /\ caFds' = IF ReaderInUse(v[1].reader) THEN pin_files(caFds, v[1].reader) ELSE caFds
              /\ Go(t, "over")
    /\ UNCHANGED <<caMode, caGen, caLease, caDb, caPurge, caMax, caBlocks, caDisk, caLeft, caStale>>

set_max(t) ==
    /\ CallTaker(t) /\ caLeft.sets > 0
    /\ \E m \in caMode.bounds : caMax' = m
    /\ caThr' = [caThr EXCEPT ![t] = [pc |-> "over", after |-> "idle", db |-> 0, reader |-> FreshReader("", 0)]]
    /\ caLeft' = Spent("sets")
    /\ UNCHANGED <<caMode, caGen, caLease, caDb, caPurge, caTables, caBlocks, caFds, caDisk, caStale>>

LookupBlock(t) ==
    /\ ThreadAt(t, "block")
    /\ LET th == caThr[t]
           k  == BlockKey(th.ns, th.file, th.ext)
       IN  IF Cached(caBlocks, k)
           THEN /\ caBlocks' = lookup(caBlocks, k, th.class)
                /\ caThr' = [caThr EXCEPT ![t].pc = "done", ![t].val = caBlocks.map[k].data]
           ELSE /\ caThr' = [caThr EXCEPT ![t].pc = "fetch", ![t].want = th.ext, ![t].next = "put"]
                /\ UNCHANGED caBlocks
    /\ UNCHANGED <<caMode, caGen, caLease, caDb, caPurge, caTables, caMax, caFds, caDisk, caLeft, caStale>>

PutBlock(t) ==
    /\ ThreadAt(t, "put")
    /\ LET th == caThr[t]
       IN  caBlocks' = IF th.class = "fg" THEN put_block(caBlocks, BlockKey(th.ns, th.file, th.ext), th.val)
                       ELSE caBlocks
    /\ Go(t, "done")
    /\ UNCHANGED <<caMode, caGen, caLease, caDb, caPurge, caTables, caMax, caFds, caDisk, caLeft, caStale>>

ReadReturns(t) ==
    /\ ThreadAt(t, "done")
    /\ caThr' = [caThr EXCEPT ![t] = IdleThread]
    /\ UNCHANGED <<caMode, caGen, caLease, caDb, caPurge, caTables, caMax, caBlocks, caFds, caDisk, caLeft, caStale>>

(***************************************************************************)
(* Reading an extent of the reader's files.  A local tier reads through    *)
(* the descriptor cache.  A remote tier goes through CachedHandle: look    *)
(* the extent up on disk, verify it, and on a miss read the object and     *)
(* admit what it held.                                                     *)
(***************************************************************************)
ReadLocal(t) ==
    /\ ThreadAt(t, "fetch") /\ ~caMode.remote
    /\ LET th  == caThr[t]
           got == acquire(caFds, PathOf(th.reader, th.want))
       IN  /\ caFds' = got.fds
           /\ caThr' = [caThr EXCEPT ![t].pc = th.next,
                           ![t].val = BytesAt(th.reader.dir, got.gen, th.file, th.want)]
    /\ UNCHANGED <<caMode, caGen, caLease, caDb, caPurge, caTables, caMax, caBlocks, caDisk, caLeft, caStale>>

\* A caller's name, or the directory with the identity of its LOCK file.
namespace_for(dir) == IF caMode.named THEN <<caMode.name[dir], 0>> ELSE <<dir, caGen[dir]>>

entry_key(th) == <<namespace_for(th.reader.dir), th.file, th.want>>

\* State::remove, insert and touch of the least-recently-used order.
Forgotten(lru, k) == SelectSeq(lru, LAMBDA j : j # k)

MostRecent(lru, k) == Append(Forgotten(lru, k), k)

OnDisk(k) == k \in DOMAIN caDisk.files

verify_entry(k) == OnDisk(k) /\ caDisk.files[k].intact

Unlinked(files, k) == [j \in DOMAIN files \ {k} |-> files[j]]

OnDiskOnly == UNCHANGED <<caMode, caGen, caLease, caDb, caPurge, caTables, caMax, caBlocks, caFds, caStale>>

DiskTouch(t) ==
    /\ ThreadAt(t, "fetch") /\ caMode.remote
    /\ LET k     == entry_key(caThr[t])
           known == \E i \in DOMAIN caDisk.lru : caDisk.lru[i] = k
       IN  /\ caDisk' = IF known THEN [caDisk EXCEPT !.lru = MostRecent(@, k)] ELSE caDisk
           /\ Go(t, IF known THEN "d_read" ELSE "backend")
    /\ OnDiskOnly /\ UNCHANGED caLeft

DiskRead(t) ==
    /\ ThreadAt(t, "d_read")
    /\ LET k == entry_key(caThr[t])
       IN  IF verify_entry(k)
           THEN /\ caThr' = [caThr EXCEPT ![t].pc = caThr[t].next, ![t].val = caDisk.files[k].data]
                /\ UNCHANGED caDisk
           ELSE /\ caDisk' = [caDisk EXCEPT !.lru = Forgotten(@, k)]
                /\ Go(t, "d_drop")
    /\ OnDiskOnly /\ UNCHANGED caLeft

drop_entry(t) ==
    /\ ThreadAt(t, "d_drop")
    /\ caDisk' = [caDisk EXCEPT !.files = Unlinked(@, entry_key(caThr[t]))]
    /\ Go(t, "backend")
    /\ OnDiskOnly /\ UNCHANGED caLeft

ReadObject(t) ==
    /\ ThreadAt(t, "backend")
    /\ LET r == caThr[t].reader
       IN  caThr' = [caThr EXCEPT ![t].pc = "admit",
                        ![t].val = BytesAt(r.dir, caGen[r.dir], r.file, caThr[t].want)]
    /\ OnDiskOnly /\ UNCHANGED <<caDisk, caLeft>>

\* The temporary file renamed into place; a failure leaves no entry.
admit(t) ==
    /\ ThreadAt(t, "admit")
    /\ LET k == entry_key(caThr[t])
       IN  \/ /\ caDisk' = [caDisk EXCEPT !.files = [j \in DOMAIN @ \cup {k} |->
                       IF j = k THEN [data |-> caThr[t].val, intact |-> TRUE] ELSE @[j]]]
              /\ Go(t, "d_insert")
              /\ UNCHANGED caLeft
           \/ /\ caLeft.faults > 0
              /\ caLeft' = Spent("faults")
              /\ Go(t, caThr[t].next)
              /\ UNCHANGED caDisk
    /\ OnDiskOnly

AdmitCounted(t) ==
    /\ ThreadAt(t, "d_insert")
    /\ caDisk' = [caDisk EXCEPT !.lru = MostRecent(@, entry_key(caThr[t]))]
    /\ Go(t, "d_bound")
    /\ OnDiskOnly /\ UNCHANGED caLeft

OverDisk(lru) == caMode.disk_max > 0 /\ Len(lru) > caMode.disk_max

DiskEvict(t) ==
    /\ ThreadAt(t, "d_bound")
    /\ IF OverDisk(caDisk.lru)
       THEN /\ caDisk' = [caDisk EXCEPT !.lru = Tail(@)]
            /\ caThr' = [caThr EXCEPT ![t].pc = "d_unlink", ![t].victim = Head(caDisk.lru)]
       ELSE Go(t, caThr[t].next) /\ UNCHANGED caDisk
    /\ OnDiskOnly /\ UNCHANGED caLeft

DiskUnlink(t) ==
    /\ ThreadAt(t, "d_unlink")
    /\ caDisk' = [caDisk EXCEPT !.files = Unlinked(@, caThr[t].victim)]
    /\ Go(t, "d_bound")
    /\ OnDiskOnly /\ UNCHANGED caLeft

(***************************************************************************)
(* Leases.  A database opens under a namespace id and closes by releasing  *)
(* it; the purge runs after the state lock is dropped, readers before      *)
(* blocks before descriptors.  Only then does close drop the directory     *)
(* lock.                                                                   *)
(***************************************************************************)
NoPurge == [stage |-> "none", all |-> FALSE, ns |-> 0]

LeaseOnly == UNCHANGED <<caMode, caGen, caTables, caMax, caBlocks, caFds, caDisk, caThr, caStale>>

\* A mutation: ids counted from the live namespaces, so a released one comes back.
LeasedNsByCount(s, name) ==
    IF name \in DOMAIN s.spaces THEN s.spaces[name].id ELSE Cardinality(DOMAIN s.spaces) + 1

LeasedNs(s, name) == IF name \in DOMAIN s.spaces THEN s.spaces[name].id ELSE s.next_ns

\* LeaseState after a lease under `name`.
lease(s, name) ==
    LET id   == LeasedNs(s, name)
        held == IF name \in DOMAIN s.spaces THEN s.spaces[name].count ELSE 0
    IN  [s EXCEPT !.leases = @ + 1,
                  !.next_ns = IF id = @ THEN @ + 1 ELSE @,
                  !.spaces = [n \in DOMAIN @ \cup {name} |->
                                 IF n = name THEN [id |-> id, count |-> held + 1] ELSE @[n]]]

DbOpens(d) ==
    /\ caDb[d] = 0 /\ caPurge[d] = NoPurge
    /\ \A e \in CacheDbs : e < d /\ caMode.dir[e] = caMode.dir[d] => caDb[e] # 0 \/ caPurge[e] # NoPurge
    /\ caLeft.opens > 0 /\ ~caLease.closing
    /\ LET name == caMode.name[caMode.dir[d]]
       IN  /\ caLease' = lease(caLease, name)
           /\ caDb' = [caDb EXCEPT ![d] = caLease'.spaces[name].id]
    /\ caLeft' = Spent("opens")
    /\ LeaseOnly /\ UNCHANGED caPurge

\* LeaseState after a release, and what is left to purge.
release(s, name, ns) ==
    LET last   == s.spaces[name].count = 1
        left   == [s EXCEPT !.leases = @ - 1,
                            !.spaces = IF last THEN [n \in DOMAIN @ \ {name} |-> @[n]]
                                       ELSE [@ EXCEPT ![name].count = @ - 1]]
        finish == s.closing /\ left.leases = 0 /\ ~s.closed
    IN  [state |-> [left EXCEPT !.closed = @ \/ finish],
         purge |-> IF finish THEN [stage |-> "readers", all |-> TRUE, ns |-> 0]
                   ELSE IF last THEN [stage |-> "readers", all |-> FALSE, ns |-> ns]
                   ELSE NoPurge]

DbCloses(d) ==
    /\ caDb[d] # 0 /\ caLeft.shuts > 0
    /\ LET r == release(caLease, caMode.name[caMode.dir[d]], caDb[d])
       IN  caLease' = r.state /\ caPurge' = [caPurge EXCEPT ![d] = r.purge]
    /\ caDb' = [caDb EXCEPT ![d] = 0]
    /\ caLeft' = Spent("shuts")
    /\ LeaseOnly

\* ReadResources::close, on behalf of purge slot 0.
CloseResources ==
    /\ caMode.closes /\ ~caLease.closing
    /\ LET finish == caLease.leases = 0 /\ ~caLease.closed
       IN  /\ caLease' = [caLease EXCEPT !.closing = TRUE, !.closed = @ \/ finish]
           /\ caPurge' = IF finish THEN [caPurge EXCEPT ![0] = [stage |-> "readers", all |-> TRUE, ns |-> 0]]
                         ELSE caPurge
    /\ LeaseOnly /\ UNCHANGED <<caDb, caLeft>>

RECURSIVE ClosedAll(_, _)
ClosedAll(fds, readers) ==
    IF readers = {} THEN fds
    ELSE LET r == CHOOSE x \in readers : TRUE IN ClosedAll(evict_fd(fds, r), readers \ {r})

purge_readers(p) ==
    /\ caPurge[p].stage = "readers"
    /\ LET doomed == {e \in caTables : caPurge[p].all \/ e.ns = caPurge[p].ns}
       IN  /\ caTables' = caTables \ doomed
           /\ caFds' = ClosedAll(caFds, {e.reader : e \in doomed})
    /\ caPurge' = [caPurge EXCEPT ![p].stage = "blocks"]
    /\ UNCHANGED <<caMode, caGen, caLease, caDb, caMax, caBlocks, caDisk, caThr, caLeft, caStale>>

purge_blocks(p) ==
    /\ caPurge[p].stage = "blocks"
    /\ IF caPurge[p].all
       THEN /\ caBlocks' = EmptyShard
            /\ caPurge' = [caPurge EXCEPT ![p].stage = "files"]
       ELSE /\ caBlocks' = unlink_all(caBlocks, {k \in DOMAIN caBlocks.map : k[1] = caPurge[p].ns})
            /\ caPurge' = [caPurge EXCEPT ![p] = NoPurge]
    /\ UNCHANGED <<caMode, caGen, caLease, caDb, caTables, caMax, caFds, caDisk, caThr, caLeft, caStale>>

clear_files(p) ==
    /\ caPurge[p].stage = "files"
    /\ caFds' = <<>>
    /\ caPurge' = [caPurge EXCEPT ![p] = NoPurge]
    /\ UNCHANGED <<caMode, caGen, caLease, caDb, caTables, caMax, caBlocks, caDisk, caThr, caLeft, caStale>>

(***************************************************************************)
(* The world outside: an unlocked directory is wiped and re-created with   *)
(* other contents under the same table ids; the process dies, and the disk *)
(* cache is adopted by the next one, any unsynced entry possibly torn.     *)
(***************************************************************************)
DirInUse(dir) ==
    \/ \E d \in CacheDbs : caMode.dir[d] = dir /\ (caDb[d] # 0 \/ caPurge[d] # NoPurge)
    \/ \E t \in CacheThreads : ~ThreadAt(t, "idle") /\ caThr[t].reader.dir = dir

DirReplaced(dir) ==
    /\ caLeft.swaps > 0 /\ ~DirInUse(dir)
    /\ caGen' = [caGen EXCEPT ![dir] = @ + 1]
    /\ caStale' = (caStale \/ \E i \in DOMAIN caFds : caFds[i].path[1] = dir)
    /\ caLeft' = Spent("swaps")
    /\ UNCHANGED <<caMode, caLease, caDb, caPurge, caTables, caMax, caBlocks, caFds, caDisk, caThr>>

Orders(S) == {q \in [1 .. Cardinality(S) -> S] : \A i, j \in DOMAIN q : q[i] = q[j] => i = j}

\* DiskCache::open: scan the directory in any order, then evict to the bound.
Adopted(files, order) ==
    LET over == IF OverDisk(order) THEN Len(order) - caMode.disk_max ELSE 0
        keep == SubSeq(order, over + 1, Len(order))
    IN  [lru |-> keep, files |-> [k \in {keep[i] : i \in DOMAIN keep} |-> files[k]]]

Dirs == DOMAIN caMode.label

ProcessRestarts ==
    /\ caLeft.restarts > 0
    /\ \E torn \in SUBSET DOMAIN caDisk.files, order \in Orders(DOMAIN caDisk.files) :
          caDisk' = Adopted([k \in DOMAIN caDisk.files |->
                               IF k \in torn THEN [caDisk.files[k] EXCEPT !.intact = FALSE]
                               ELSE caDisk.files[k]], order)
    /\ caLease' = NoLease /\ caDb' = [d \in CacheDbs |-> 0]
    /\ caPurge' = [p \in CacheDbs \cup {0} |-> NoPurge]
    /\ caTables' = {} /\ caMax' = caMode.max /\ caBlocks' = EmptyShard /\ caFds' = <<>>
    /\ caThr' = [t \in CacheThreads |-> IdleThread]
    /\ caLeft' = Spent("restarts")
    /\ UNCHANGED <<caMode, caGen, caStale>>

CacheInitIn(modes) ==
    /\ caMode \in modes
    /\ caGen = [dir \in Dirs |-> 1]
    /\ caLease = NoLease /\ caDb = [d \in CacheDbs |-> 0]
    /\ caPurge = [p \in CacheDbs \cup {0} |-> NoPurge]
    /\ caTables = {} /\ caMax = caMode.max /\ caBlocks = EmptyShard /\ caFds = <<>>
    /\ caDisk = [lru |-> <<>>, files |-> <<>>]
    /\ caThr = [t \in CacheThreads |-> IdleThread]
    /\ caLeft = caMode.budget /\ caStale = FALSE

CacheNext ==
    \/ \E t \in CacheThreads :
          \/ TableGet(t) \/ InsertReader(t) \/ evict_to_bound(t) \/ evict_one_shard(t) \/ set_max(t)
          \/ LookupBlock(t) \/ PutBlock(t) \/ ReadReturns(t) \/ ReadLocal(t)
          \/ DiskTouch(t) \/ DiskRead(t) \/ drop_entry(t) \/ ReadObject(t) \/ admit(t)
          \/ AdmitCounted(t) \/ DiskEvict(t) \/ DiskUnlink(t)
    \/ \E d \in CacheDbs : DbOpens(d) \/ DbCloses(d)
    \/ CloseResources
    \/ \E p \in CacheDbs \cup {0} : purge_readers(p) \/ purge_blocks(p) \/ clear_files(p)
    \/ \E dir \in Dirs : DirReplaced(dir)
    \/ ProcessRestarts

CacheSpec == CacheInitIn(CacheModes) /\ [][CacheNext]_cacheVars

(***************************************************************************)
(* Properties                                                              *)
(***************************************************************************)

\* Whatever databases share the caches, come and go under the same path and
\* table ids, die and find a torn disk cache: a read returns the bytes of its
\* own database's current files, through a reader of those files (the
\* namespaces of read_resources.rs and local_cache.rs, verify_entry).  The one
\* exception is a descriptor left behind by an evicted reader, which release
\* does not close: it still serves the directory's earlier incarnation.
ReadsAreOwn ==
    ~caStale =>
      \A t \in CacheThreads : ThreadAt(t, "done") =>
        LET th == caThr[t]
            dir == caMode.dir[th.db]
        IN  /\ th.val = BytesAt(dir, caGen[dir], th.file, th.ext)
            /\ <<caMode.label[th.reader.dir], th.reader.gen>> = <<caMode.label[dir], caGen[dir]>>

=============================================================================
