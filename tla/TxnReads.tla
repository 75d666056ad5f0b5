------------------------------ MODULE TxnReads ------------------------------
(***************************************************************************)
(* One transaction's buffer (txn.rs): the arena and the write entries that *)
(* point into it, the lazily built write index with its hash chains,       *)
(* savepoints, the read set, what get, multi_get and an iterator answer    *)
(* from the buffer and the store together, and the order in which a commit *)
(* gives the buffered writes their sequences.  The two-column-family store *)
(* underneath is a memtable each; Reads is its read path.  Commit models   *)
(* the validation and the races of the commit itself.                      *)
(***************************************************************************)
EXTENDS Reads

CONSTANTS TxnModes,         \* one chosen at the start: [level, collide, unified], the writes
                            \* and reads the caller makes, [cf, kind, key, end] and [cf, keys],
                            \* its savepoint names, and the bounds [writes, marks, reads,
                            \* shots, resets] on its calls
          TxnTop,           \* keys are 1 .. TxnTop - 1
          WRITE_INDEX_MIN   \* buffered writes from which a read builds the index

VARIABLES txMode,
          txStore,          \* the memtable of each family
          txFloor,          \* the newest published sequence
          txReadSeq,        \* Txn::read_seq
          txActive,         \* Txn::state is Active
          txBuf,            \* the arena: a sequence of keys and values
          txWrites,         \* WriteEntry: [cf, kind, key, value], offsets into the arena
          txRanges,         \* range_writes: positions of the range deletes
          txIndex,          \* write_index
          txSaves,          \* savepoints: [name, writes, buf, reads], lengths
          txReads,          \* read_set
          txLog,            \* read_log
          txLeft,           \* calls left
          txHist,           \* ghost: the calls that wrote, in order, [call, v]
          txSeen,           \* ghost: what was read from the store
          txMarks,          \* ghost: a copy of both at each savepoint
          txWant            \* ghost: what the last commit must leave behind, or <<>>

txnVars == <<txMode, txStore, txFloor, txReadSeq, txActive, txBuf, txWrites, txRanges, txIndex,
             txSaves, txReads, txLog, txLeft, txHist, txSeen, txMarks, txWant>>

Families == {1, 2}
TxnKeys == 1 .. TxnTop - 1
merge_op(cf) == cf = 1                          \* only the first has an operator
KindRange == "range"
TxnNow == 0
fixed == txMode.level # "ReadCommitted"
RS == IF fixed THEN txReadSeq ELSE txFloor      \* read_seq, or read_floor_seq()

StoreOver(cf, extra) == [mem |-> txStore[cf], imms |-> extra, levels |-> <<<<>>>>]
StoreGet(cf, k) == get(StoreOver(cf, <<>>), k, RS, TxnNow)

-----------------------------------------------------------------------------
(* WriteEntry and WriteIndex *)

KeyAt(w) == txBuf[w.key]
ValueAt(w) == txBuf[w.value]
is_range(w) == w.kind = KindRange
Covers(w, k) == is_range(w) /\ KeyAt(w) <= k /\ k < ValueAt(w)

NO_WRITE == 0

\* write_hash: by family and key, or one value for all when the hashes collide.
write_hash(cf, k) == IF txMode.collide THEN 0 ELSE cf * TxnTop + k
NoIndex == [built |-> FALSE, newest |-> [h \in 0 .. 3 * TxnTop |-> NO_WRITE], prev |-> <<>>]

index_push(ix, w, k) ==
    IF is_range(w) THEN [ix EXCEPT !.prev = Append(@, NO_WRITE)]
    ELSE LET h == write_hash(w.cf, k)
         IN  [ix EXCEPT !.newest[h] = Len(ix.prev) + 1, !.prev = Append(@, ix.newest[h])]

index_build == [InTurn(LAMBDA ix, w : index_push(ix, w, KeyAt(w)), NoIndex, txWrites) EXCEPT !.built = TRUE]

index_truncate_forgets(ix, len) ==
    LET gone == [i \in 1 .. Len(ix.prev) - len |-> Len(ix.prev) + 1 - i]
        Drop(x, at) == [x EXCEPT !.newest[write_hash(txWrites[at].cf, KeyAt(txWrites[at]))] = NO_WRITE]
    IN  [InTurn(Drop, ix, gone) EXCEPT !.prev = SubSeq(@, 1, len)]

\* WriteIndex::truncate: newest first, each chain's head back to its predecessor.
index_truncate(ix, len) ==
    LET gone == [i \in 1 .. Len(ix.prev) - len |-> Len(ix.prev) + 1 - i]
        Unlink(x, at) == IF is_range(txWrites[at]) THEN x
                         ELSE [x EXCEPT !.newest[write_hash(txWrites[at].cf, KeyAt(txWrites[at]))] = x.prev[at]]
    IN  [InTurn(Unlink, ix, gone) EXCEPT !.prev = SubSeq(@, 1, len)]

ensure_write_index ==
    IF ~txIndex.built /\ Len(txWrites) >= WRITE_INDEX_MIN THEN index_build ELSE txIndex

-----------------------------------------------------------------------------
(* Point reads.  ix is the index after ensure_write_index.                 *)

\* The positions a lookup visits, newest first: a hash chain, or the buffer.
Candidates(ix, cf, k) ==
    LET chain[at \in 0 .. Len(ix.prev)] == IF at = NO_WRITE THEN <<>> ELSE <<at>> \o chain[ix.prev[at]]
    IN  IF ix.built THEN chain[ix.newest[write_hash(cf, k)]]
        ELSE [i \in DOMAIN txWrites |-> Len(txWrites) + 1 - i]

OnKey(ix, cf, k) ==
    SelectSeq(Candidates(ix, cf, k),
              LAMBDA at : LET w == txWrites[at] IN ~is_range(w) /\ w.cf = cf /\ KeyAt(w) = k)

newest_point_write(ix, cf, k) == LET ws == OnKey(ix, cf, k) IN IF ws = <<>> THEN NO_WRITE ELSE ws[1]

own_range_covers(cf, k) == \E i \in DOMAIN txRanges : LET w == txWrites[txRanges[i]] IN w.cf = cf /\ Covers(w, k)

\* What a write makes of a chain: an operand extends it, a base restarts it.
NoChain == [seen |-> FALSE, based |-> FALSE, base |-> None, ops |-> <<>>]
Chained(c, kind, v) ==
    IF kind = KindMerge THEN [c EXCEPT !.seen = TRUE, !.ops = Append(@, v)]
    ELSE [seen |-> TRUE, based |-> TRUE, base |-> IF kind = KindDelete THEN None ELSE v, ops |-> <<>>]

\* buffered_chain: forward over the buffer, or indexed_chain: newest first up
\* to the first base, then turned round.
buffered_chain(ix, cf, k) ==
    LET ws == OnKey(ix, cf, k)
        bases == {i \in DOMAIN ws : txWrites[ws[i]].kind # KindMerge}
        run == IF ix.built /\ bases # {} THEN SubSeq(ws, 1, Min(bases)) ELSE ws
    IN  InTurn(LAMBDA c, at : Chained(c, txWrites[at].kind, ValueAt(txWrites[at])), NoChain, Reverse(run))

\* plan_point_read: the buffer, the transaction's own range deletes, the store.
plan_point_read(ix, cf, k) ==
    LET at == newest_point_write(ix, cf, k)
    IN  IF at # NO_WRITE
        THEN [store |-> FALSE, v |-> IF txWrites[at].kind = KindDelete THEN None ELSE ValueAt(txWrites[at])]
        ELSE [store |-> ~own_range_covers(cf, k), v |-> None]

\* Txn::get: [store, v], whether it read the store and what it returned.
folded(chain, cf, k) == full_merge(IF chain.based THEN chain.base ELSE StoreGet(cf, k), chain.ops)

read_planned(plan, chain, cf, k) ==
    IF merge_op(cf) /\ chain.seen THEN [store |-> ~chain.based, v |-> folded(chain, cf, k)]
    ELSE [plan EXCEPT !.v = IF plan.store THEN StoreGet(cf, k) ELSE @]

txn_get(ix, cf, k) == read_planned(plan_point_read(ix, cf, k), buffered_chain(ix, cf, k), cf, k)

\* Txn::multi_get: key by key over a buffered merge family, else in one batch.
txn_multi_get(ix, cf, keys) ==
    LET plans == [k \in keys |-> plan_point_read(ix, cf, k)]
        batch == multi_get(StoreOver(cf, <<>>), {k \in keys : plans[k].store}, RS, TxnNow)
    IN  IF merge_op(cf) /\ txWrites # <<>> THEN [k \in keys |-> txn_get(ix, cf, k)]
        ELSE [k \in keys |-> [plans[k] EXCEPT !.v = IF plans[k].store THEN batch[k] ELSE @]]

-----------------------------------------------------------------------------
(* Scans.  Bounds are [lower, above, upper, upto]: above excludes the lower *)
(* bound itself, upto includes the upper; 0 and TxnTop are no bound.        *)

contains(b, k) == /\ IF b.above THEN k > b.lower ELSE k >= b.lower
                  /\ IF b.upto THEN k <= b.upper ELSE k < b.upper
may_cover(b, start, end) == end > b.lower /\ IF b.upto THEN start <= b.upper ELSE start < b.upper

Reached(cf, b) ==
    {i \in DOMAIN txWrites : LET w == txWrites[i]
                             IN  w.cf = cf /\ IF is_range(w) THEN may_cover(b, KeyAt(w), ValueAt(w))
                                              ELSE contains(b, KeyAt(w))}

\* One version per key, at the read sequence: the last write of a key nobody
\* merged, and of a merged key its chain folded over the buffered base or over
\* the store's value.
OverlayEntry(cf, k, ps) ==
    LET last == txWrites[Max(ps)]
        At(kind, v) == [k |-> k, s |-> RS, ttl |-> 0, kind |-> kind, v |-> v]
        Shown(v) == At(IF v = None THEN KindDelete ELSE KindPut, v)
    IN  IF \E i \in ps : txWrites[i].kind = KindMerge
        THEN Shown(folded(buffered_chain(NoIndex, cf, k), cf, k))
        ELSE At(last.kind, ValueAt(last))

\* plain_overlay, merge_overlay.
overlay(cf, b) ==
    LET at == Reached(cf, b)
        points == {i \in at : ~is_range(txWrites[i])}
    IN  [pts |-> {OverlayEntry(cf, k, {i \in points : KeyAt(txWrites[i]) = k}) : k \in {KeyAt(txWrites[i]) : i \in points}},
         spans |-> {[start |-> KeyAt(txWrites[i]), end |-> ValueAt(txWrites[i]), seq |-> RS] : i \in at \ points}]

\* new_iterator_bounded: the overlay is the first child, and a memtable of the
\* range mask; what the whole traversal shows inside the bounds.
scan_over(own, cf, b, forward) ==
    LET upper == IF b.upto THEN TxnTop ELSE b.upper
        children == <<MemEntries(own)>> \o iterator_children(StoreOver(cf, <<>>), b.lower, upper)
        sources == iterator_range_mask(StoreOver(cf, <<own>>), b.lower, upper)
    IN  [k \in {x \in TxnKeys : contains(b, x)} |->
            fold_group(resolve_merging_group(group(children, k, forward), forward, RS),
                       Newest({covering_seq_in(f, k, RS) : f \in sources}), TxnNow)]

txn_scan(cf, b, forward) == scan_over(overlay(cf, b), cf, b, forward)

-----------------------------------------------------------------------------
(* The order of a commit: positions in the buffer, one per sequence *)

\* The slot the order already has for the key of a point write, 0 if none.
HomeSlot(order, w) ==
    LET same == {i \in DOMAIN order : LET o == txWrites[order[i]] IN ~is_range(o) /\ o.cf = w.cf /\ KeyAt(o) = KeyAt(w)}
    IN  IF same = {} THEN 0 ELSE Min(same)

\* merge_aware_write_order: a run of positions per (family, key), range deletes
\* filed under their start bound; a write that is no operand restarts its run.
merge_aware_write_order ==
    LET RunOf(runs, w) == {r \in DOMAIN runs : LET o == txWrites[runs[r][1]] IN o.cf = w.cf /\ KeyAt(o) = KeyAt(w)}
        File(runs, at) ==
            LET home == RunOf(runs, txWrites[at])
            IN  IF home = {} THEN Append(runs, <<at>>)
                ELSE [runs EXCEPT ![Min(home)] = IF txWrites[at].kind = KindMerge THEN Append(@, at) ELSE <<at>>]
    IN  InTurn(LAMBDA acc, run : acc \o run, <<>>, InTurn(File, <<>>, [i \in DOMAIN txWrites |-> i]))

CollapseWrites ==
    LET Place(order, at) ==
            LET slot == IF is_range(txWrites[at]) THEN 0 ELSE HomeSlot(order, txWrites[at])
            IN  IF slot = 0 THEN Append(order, at) ELSE [order EXCEPT ![slot] = at]
    IN  InTurn(Place, <<>>, [i \in DOMAIN txWrites |-> i])

\* deduplicated_write_order: a key at the slot of its first write with the
\* value of its last, a range delete at a slot of its own; runs when anything
\* was merged.
deduplicated_write_order ==
    IF \E i \in DOMAIN txWrites : txWrites[i].kind = KindMerge THEN merge_aware_write_order ELSE CollapseWrites

\* apply_prepared: each write of the order at its own sequence.
apply_prepared(order) ==
    LET Apply(st, slot) ==
            LET w == txWrites[order[slot]]
                seq == txFloor + slot
            IN  [st EXCEPT ![w.cf] =
                    IF is_range(w) THEN add_range(@, [start |-> KeyAt(w), end |-> ValueAt(w), seq |-> seq])
                    ELSE put(@, [k |-> KeyAt(w), s |-> seq, kind |-> w.kind, ttl |-> 0,
                                 v |-> IF w.kind = KindDelete THEN <<>> ELSE ValueAt(w)])]
    IN  InTurn(Apply, txStore, [i \in DOMAIN order |-> i])

check_own_range_overlap ==
    \E i, j \in DOMAIN txWrites : /\ ~is_range(txWrites[i]) /\ txWrites[i].cf = txWrites[j].cf
                                  /\ Covers(txWrites[j], KeyAt(txWrites[i]))

-----------------------------------------------------------------------------
(* The reference: the writes of the transaction one after the other *)

Stored(cf, k, seq) ==
    Visible({[range |-> FALSE, entry |-> e] : e \in txStore[cf].pts}
              \cup {[range |-> TRUE, span |-> sp] : sp \in txStore[cf].spans}, k, seq, TxnNow)

Replayed(cf, k, seq) ==
    LET Step(v, w) == IF w.call.cf # cf THEN v
                      ELSE IF is_range(w.call) THEN IF w.call.key <= k /\ k < w.call.end THEN None ELSE v
                      ELSE IF w.call.key # k THEN v
                      ELSE IF w.call.kind = KindMerge THEN v \o w.v ELSE w.v
    IN  InTurn(Step, Stored(cf, k, seq), txHist)

-----------------------------------------------------------------------------
Entry(k, s, kind) == [k |-> k, s |-> s, kind |-> kind, ttl |-> 0, v |-> IF kind = KindDelete THEN <<>> ELSE <<s>>]

\* begin_inner on a store in which the last commit wrote key 1 of family 2.
TxnInitIn(modes) ==
    /\ txMode \in modes
    /\ txStore = <<[pts |-> {Entry(1, 1, KindPut), Entry(2, 2, KindPut)}, spans |-> {}],
                   [pts |-> {Entry(2, 3, KindPut), Entry(1, 4, KindPut)}, spans |-> {}]>>
    /\ txFloor = 4 /\ txReadSeq = 4 /\ txActive = TRUE
    /\ txBuf = <<>> /\ txWrites = <<>> /\ txRanges = <<>> /\ txIndex = NoIndex
    /\ txSaves = <<>> /\ txReads = {} /\ txLog = <<>>
    /\ txLeft = txMode.left
    /\ txHist = <<>> /\ txSeen = {} /\ txMarks = <<>> /\ txWant = <<>>

\* buffer and push_write, and delete_range's own copy of them: the key and the
\* value, or the two bounds, into the arena, then the entry.
push_write(call, a, b) ==
    LET w == [cf |-> call.cf, kind |-> call.kind, key |-> Len(txBuf) + 1, value |-> Len(txBuf) + 2]
    IN  /\ txActive /\ txLeft.writes > 0
        /\ txBuf' = txBuf \o <<a, b>>
        /\ txRanges' = IF is_range(call) THEN Append(txRanges, Len(txWrites) + 1) ELSE txRanges
        /\ txIndex' = IF txIndex.built THEN index_push(txIndex, w, a) ELSE txIndex
        /\ txWrites' = Append(txWrites, w)
        /\ txHist' = Append(txHist, [call |-> call, v |-> b])
        /\ txLeft' = [txLeft EXCEPT !.writes = @ - 1]
        /\ UNCHANGED <<txMode, txStore, txFloor, txReadSeq, txActive, txSaves, txReads, txLog,
                       txSeen, txMarks, txWant>>

NextValue == <<10 + txLeft.writes>>

TxnPut(call) == call.kind = KindPut /\ push_write(call, call.key, NextValue)

\* delete and single_delete, which is an ordinary tombstone.
TxnDelete(call) == call.kind = KindDelete /\ push_write(call, call.key, <<>>)

TxnMerge(call) == call.kind = KindMerge /\ merge_op(call.cf) /\ push_write(call, call.key, NextValue)

\* validate_range_bounds, then the two bounds in the slots of key and value.
TxnDeleteRange(call) == is_range(call) /\ call.key < call.end /\ push_write(call, call.key, call.end)

\* note_store_read and its copies in plan_point_read and multi_get: the reads
\* that went to the store, recorded once each at Serializable.
note_store_reads(cf, keys) ==
    LET new == IF txMode.level = "Serializable" THEN {<<cf, k>> : k \in keys} ELSE {}
    IN  /\ txLeft.reads > 0
        /\ txLeft' = [txLeft EXCEPT !.reads = @ - 1]
        /\ txIndex' = ensure_write_index
        /\ txReads' = txReads \cup new
        /\ txLog' = txLog \o Sorted(new \ txReads, LAMBDA x, y : x[2] < y[2])
        /\ txSeen' = txSeen \cup new
        /\ UNCHANGED <<txMode, txStore, txFloor, txReadSeq, txActive, txBuf, txWrites, txRanges, txSaves,
                       txHist, txMarks, txWant>>

\* get, get_into, get_for_update once it holds the lock.  A read works on a
\* finished transaction too; what it returns is in OwnReadsExact.
TxnGet(cf, k) ==
    note_store_reads(cf, {x \in {k} : txn_get(ensure_write_index, cf, x).store})

FromStore(got) == {k \in DOMAIN got : got[k].store}
TxnMultiGet(cf, keys) == note_store_reads(cf, FromStore(txn_multi_get(ensure_write_index, cf, keys)))

set_savepoint(name) ==
    /\ txActive /\ txLeft.marks > 0
    /\ txSaves' = Append(txSaves, [name |-> name, writes |-> Len(txWrites), buf |-> Len(txBuf), reads |-> Len(txLog)])
    /\ txMarks' = Append(txMarks, [name |-> name, hist |-> txHist, seen |-> txSeen])
    /\ txLeft' = [txLeft EXCEPT !.marks = @ - 1]
    /\ UNCHANGED <<txMode, txStore, txFloor, txReadSeq, txActive, txBuf, txWrites, txRanges, txIndex,
                   txReads, txLog, txHist, txSeen, txWant>>

Named(saves, name) == {i \in DOMAIN saves : saves[i].name = name}

\* What a transaction is left with after a rollback to its savepoint sp.
Unwound(sp) ==
    /\ txIndex' = IF txIndex.built THEN index_truncate(txIndex, sp.writes) ELSE txIndex
    /\ txRanges' = SelectSeq(txRanges, LAMBDA at : at <= sp.writes)
    /\ txWrites' = SubSeq(txWrites, 1, sp.writes)
    /\ txBuf' = SubSeq(txBuf, 1, sp.buf)
    /\ txReads' = txReads \ {txLog[i] : i \in sp.reads + 1 .. Len(txLog)}
    /\ txLog' = SubSeq(txLog, 1, sp.reads)

rollback_to_savepoint(name) ==
    /\ txLeft.marks > 0 /\ Named(txSaves, name) # {}
    /\ LET pos == Max(Named(txSaves, name))
           mark == txMarks[Max(Named(txMarks, name))]
       IN  /\ Unwound(txSaves[pos])
           /\ txSaves' = SubSeq(txSaves, 1, pos)
           /\ txHist' = mark.hist /\ txSeen' = mark.seen
           /\ txMarks' = SubSeq(txMarks, 1, Max(Named(txMarks, name)))
    /\ txLeft' = [txLeft EXCEPT !.marks = @ - 1]
    /\ UNCHANGED <<txMode, txStore, txFloor, txReadSeq, txActive, txWant>>

release_savepoint(name) ==
    /\ txLeft.marks > 0 /\ Named(txSaves, name) # {}
    /\ txSaves' = SubSeq(txSaves, 1, Max(Named(txSaves, name)) - 1)
    /\ txMarks' = SubSeq(txMarks, 1, Max(Named(txMarks, name)) - 1)
    /\ txLeft' = [txLeft EXCEPT !.marks = @ - 1]
    /\ UNCHANGED <<txMode, txStore, txFloor, txReadSeq, txActive, txBuf, txWrites, txRanges, txIndex,
                   txReads, txLog, txHist, txSeen, txWant>>

\* validate_commit at Serializable: somebody wrote what this transaction read
\* or writes since its snapshot.
Conflicting ==
    /\ txMode.level = "Serializable"
    /\ \E cf \in Families, k \in TxnKeys :
          /\ \/ <<cf, k>> \in txReads
             \/ \E i \in DOMAIN txWrites : txWrites[i].cf = cf /\ (KeyAt(txWrites[i]) = k \/ Covers(txWrites[i], k))
          /\ \E e \in txStore[cf].pts : e.k = k /\ e.s > txReadSeq

Refused ==
    \/ ~txMode.unified /\ \E i, j \in DOMAIN txWrites : txWrites[i].cf # txWrites[j].cf
    \/ check_own_range_overlap
    \/ Conflicting

clear_writes == /\ txWrites' = <<>> /\ txIndex' = NoIndex /\ txRanges' = <<>>
                /\ txBuf' = <<>> /\ txReads' = {} /\ txLog' = <<>> /\ txSaves' = <<>>
                /\ txHist' = <<>> /\ txSeen' = {} /\ txMarks' = <<>>

\* A range delete that shares its start bound with another replaces it in a
\* transaction that also merges.
RangesCollapse ==
    /\ \E i \in DOMAIN txWrites : txWrites[i].kind = KindMerge
    /\ \E i, j \in DOMAIN txWrites : /\ i # j /\ is_range(txWrites[i]) /\ is_range(txWrites[j])
                                     /\ txWrites[i].cf = txWrites[j].cf /\ KeyAt(txWrites[i]) = KeyAt(txWrites[j])

\* Txn::commit of a transaction with writes.
TxnCommit ==
    /\ txActive /\ txWrites # <<>> /\ ~Refused
    /\ LET order == deduplicated_write_order
       IN  /\ txStore' = apply_prepared(order)
           /\ txFloor' = txFloor + Len(order)
    /\ txWant' = IF RangesCollapse THEN <<>>
                 ELSE [cf \in Families |-> [k \in TxnKeys |-> Replayed(cf, k, txFloor)]]
    /\ txActive' = FALSE
    /\ clear_writes
    /\ UNCHANGED <<txMode, txReadSeq, txLeft>>

\* A refused commit finishes the transaction and keeps its buffer.
TxnCommitRefused ==
    /\ txActive /\ txWrites # <<>> /\ Refused
    /\ txActive' = FALSE
    /\ UNCHANGED <<txMode, txStore, txFloor, txReadSeq, txBuf, txWrites, txRanges, txIndex, txSaves,
                   txReads, txLog, txLeft, txHist, txSeen, txMarks, txWant>>

\* Txn::reset, rolling back first when active: a new transaction in the handle.
TxnReset ==
    /\ txLeft.resets > 0
    /\ txLeft' = [txLeft EXCEPT !.resets = @ - 1]
    /\ txActive' = TRUE /\ txReadSeq' = txFloor /\ txWant' = <<>>
    /\ clear_writes
    /\ UNCHANGED <<txMode, txStore, txFloor>>

\* DB::put, DB::delete, DB::merge, DB::delete_range: another transaction of one
\* write, committed.
OneShot(cf, k, kind) ==
    /\ txLeft.shots > 0
    /\ kind = KindMerge => merge_op(cf)
    /\ txStore' = [txStore EXCEPT ![cf] =
                     IF kind = KindRange THEN add_range(@, [start |-> k, end |-> k + 1, seq |-> txFloor + 1])
                     ELSE put(@, Entry(k, txFloor + 1, kind))]
    /\ txFloor' = txFloor + 1
    /\ txLeft' = [txLeft EXCEPT !.shots = @ - 1]
    /\ txWant' = <<>>
    /\ UNCHANGED <<txMode, txReadSeq, txActive, txBuf, txWrites, txRanges, txIndex, txSaves,
                   txReads, txLog, txHist, txSeen, txMarks>>

TxnNext ==
    \/ \E call \in txMode.writes : TxnPut(call) \/ TxnDelete(call) \/ TxnMerge(call) \/ TxnDeleteRange(call)
    \/ \E r \in txMode.gets : TxnMultiGet(r.cf, r.keys) \/ \E k \in r.keys : TxnGet(r.cf, k)
    \/ \E name \in txMode.names : set_savepoint(name) \/ rollback_to_savepoint(name) \/ release_savepoint(name)
    \/ TxnCommit \/ TxnCommitRefused \/ TxnReset
    \/ \E kind \in {KindPut, KindDelete, KindMerge, KindRange} : OneShot(1, 1, kind)

TxnReadsSpec == TxnInitIn(TxnModes) /\ [][TxnNext]_txnVars

-----------------------------------------------------------------------------
(* Properties *)

\* The transaction holds a point write and a range delete over the key: its
\* commit will refuse the pair, and until then the point write is read.
OwnOverlap(cf, k) ==
    LET calls == {txHist[i].call : i \in DOMAIN txHist}
    IN  /\ \E c \in calls : c.cf = cf /\ ~is_range(c) /\ c.key = k
        /\ \E c \in calls : c.cf = cf /\ is_range(c) /\ c.key <= k /\ k < c.end

\* The store's newest visible version of the key carries the read sequence
\* itself, which the overlay's span does not exceed.
TiedBelow(cf, k) == \E e \in txStore[cf].pts : e.k = k /\ e.s = RS

\* No bound, and each kind of bound between the keys 1 and 2.
ScanBounds ==
    LET all == [lower |-> 0, above |-> FALSE, upper |-> TxnTop, upto |-> FALSE]
    IN  {all, [all EXCEPT !.lower = 2], [all EXCEPT !.lower = 1, !.above = TRUE],
         [all EXCEPT !.upper = 2], [all EXCEPT !.upper = 1, !.upto = TRUE]}

\* Scans of a family the buffer says nothing about are the store's own.
ScansShow(cf, keys, want) ==
    (\E i \in DOMAIN txWrites : txWrites[i].cf = cf) =>
        \A b \in ScanBounds, forward \in BOOLEAN :
            \E shown \in {txn_scan(cf, b, forward)} :
                \A k \in keys \cap DOMAIN shown : shown[k] = want[k]

\* Whatever was buffered, rolled back to a savepoint or released, with the
\* index built or not and its hashes colliding or not, get, multi_get and every
\* scan in either direction answer what replaying the transaction's writes over
\* its snapshot gives; the read set is what was read and not rolled back
\* (txn.rs get, multi_get, new_iterator_bounded, rollback_to_savepoint).  A
\* scan is not compared where an own range delete covers a version at the read
\* sequence itself.
OwnReadsExact ==
    txLeft # txMode.left =>
      /\ txReads = txSeen
      /\ \A cf \in Families :
            \E ix \in {ensure_write_index}, want \in {[k \in TxnKeys |-> Replayed(cf, k, RS)]} :
              \E many \in {txn_multi_get(ix, cf, TxnKeys)}, plain \in {{k \in TxnKeys : ~OwnOverlap(cf, k)}} :
                  /\ \A k \in plain : txn_get(ix, cf, k).v = want[k] /\ many[k].v = want[k]
                  /\ ScansShow(cf, {k \in plain : ~(own_range_covers(cf, k) /\ TiedBelow(cf, k))}, want)

\* A committed transaction leaves the store as its writes one after the other
\* would have: the slots deduplicated_write_order and merge_aware_write_order
\* hand out lose no operand and put nothing above a later write.
CommitOrderExact ==
    txWant # <<>> => \A cf \in Families, k \in TxnKeys : Stored(cf, k, txFloor) = txWant[cf][k]

\* A scan shows what the transaction's own range deletes leave, as the comment
\* in plain_overlay says: "so the overlay's spans mask what the transaction can
\* already see plus its own writes".
OwnScansMask ==
    \A cf \in Families :
        ScansShow(cf, {k \in TxnKeys : own_range_covers(cf, k) /\ ~OwnOverlap(cf, k)}, [k \in TxnKeys |-> None])

=============================================================================
