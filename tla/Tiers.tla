------------------------------- MODULE Tiers -------------------------------
(***************************************************************************)
(* Where a family's table files live, and who may delete them: part moves  *)
(* between storage tiers, detach, attach, mount, freeze and export         *)
(* (parts.rs), compaction's retirement of its inputs, the deletion pause   *)
(* and the paced deletion worker (db.rs), checkpoint, backup and clone     *)
(* (maintenance.rs), object-store checkpoints and their restore            *)
(* (checkpoint.rs), and a crash or a close followed by a read-write open   *)
(* with its orphan sweep, or by a read-only one.                           *)
(*                                                                         *)
(* A table's klog and vlog are one file; its bytes are the set of writes   *)
(* it holds, {} while it is only partly written.  A catalog edit is one    *)
(* step: Catalog.tla is about what happens inside it.                      *)
(***************************************************************************)
EXTENDS Integers, Sequences, FiniteSets, FiniteSetsExt

CONSTANTS TierCallers,   \* threads
          TierScenarios, \* what a behaviour may do, one chosen at the start:
                         \* [calls, faults, opens, puts, paced, tier]
          MaxTableId     \* bound: table ids

VARIABLES paced,
          disk,       \* the inodes: [names: set of <<place, object>>, data]
          catalog,    \* the durable catalog: table id -> meta
          limbo,      \* what the catalog would be had a failed edit reached the disk
          idNext,     \* next_file_id
          idFloor,    \* next_file_id of the last MANIFEST snapshot
          mode,       \* "rw", "ro" or "down"
          tierPoison,
          wals,       \* writes of the WAL that no table holds
          call,       \* the operation of each thread
          pending,    \* PausedDeletions::pending
          deleteQueue,\* the deletion worker's channel
          manifest,   \* what a finished artifact says it holds: place -> (id -> bytes)
          parent,     \* the tables of the last object-store checkpoint
          tierBudget, \* what is left: [calls: op -> number, faults, opens, puts]
          everUsed,   \* history: ids the catalog has named
          taint       \* history: what has happened that the code does not survive

session == <<mode, wals, idNext>>
catalogued == <<catalog, limbo, idFloor, tierPoison, everUsed>>
removals == <<pending, deleteQueue>>
artifacts == <<manifest, parent>>
tierVars == <<paced, disk, catalogued, session, call, removals, artifacts, tierBudget, taint>>

TornFile == {}
Ssd == "ssd"                                       \* DEFAULT_TIER_NAME
tier_is_local(t) == t \in {Ssd, "cold"}
tier_is_shared(t) == t = "hub"
Foreign == 0                                       \* an object another database published
NoTables == [id \in {} |-> {}]
Artifacts == {"checkpoint", "backup", "freeze", "export", "store", "restored", "detached"}

KeyOf(w) == IF w = 2 THEN 2 ELSE 1
KeysOf(bytes) == {KeyOf(w) : w \in bytes}

Meta(cf, t, obj, level, bytes) ==
    [cf |-> cf, tier |-> t, obj |-> obj, level |-> level, bytes |-> bytes]

is_foreign_mount(m) == m.obj = Foreign

-----------------------------------------------------------------------------
(* Files *)

klog_path_for(m) == <<m.tier, m.obj>>

Named(d, p) == {f \in d : p \in f.names}
Exists(p) == Named(disk, p) # {}
BytesAt(p) == (CHOOSE f \in disk : p \in f.names).data

Unlinked(d, ps) ==
    {f \in {[g EXCEPT !.names = @ \ ps] : g \in d} : f.names # {}}

\* LocalStorage::create truncates the file a name already has, and so every
\* other name of it.
Written(d, p, bytes) ==
    IF Named(d, p) = {} THEN d \cup {[names |-> {p}, data |-> bytes]}
    ELSE {IF p \in f.names THEN [f EXCEPT !.data = bytes] ELSE f : f \in d}

HardLinked(d, from, to) ==
    {IF from \in f.names THEN [f EXCEPT !.names = @ \cup {to}] ELSE f : f \in Unlinked(d, {to})}

move_file(from, to) ==
    {IF from \in f.names THEN [f EXCEPT !.names = (@ \ {from}) \cup {to}] ELSE f
       : f \in Unlinked(disk, {to})}

\* What a write to p shows before StorageWriter::finish: an object store has
\* nothing until the PUT.
copy_begun(d, p) == IF tier_is_local(p[1]) THEN Written(d, p, TornFile) ELSE d

-----------------------------------------------------------------------------
(* The deletion pause and the paced worker *)

IdleCall == [op |-> "idle", pc |-> "", to |-> "", keys |-> {}, todo |-> {}, old |-> NoTables,
             new |-> NoTables, cur |-> 0, drain |-> <<>>, how |-> ""]

Pausing == {"freeze", "export", "checkpoint", "backup", "store", "clone"}
Paused == \E c \in TierCallers : call[c].op \in Pausing /\ call[c].pc # "drain"

\* Every name some thread, the pause or the worker is still to unlink.
Doomed == {pending[i] : i \in DOMAIN pending} \cup {deleteQueue[i] : i \in DOMAIN deleteQueue}
          \cup UNION {{call[c].drain[i] : i \in DOMAIN call[c].drain} : c \in TierCallers}

\* retire_file, called for one table of todo after its catalog edit: the pause
\* is looked at under its lock, the unlink happens after the lock is dropped.
Retire(c) ==
    LET k == call[c] id == Min(k.todo) p == klog_path_for(k.old[id]) rest == k.todo \ {id} IN
    /\ k.pc = "retire"
    /\ \/ /\ tier_is_shared(k.old[id].tier) \/ Paused
          /\ pending' = IF tier_is_shared(k.old[id].tier) THEN pending ELSE Append(pending, p)
          /\ call' = [call EXCEPT ![c] = IF rest = {} THEN IdleCall ELSE [k EXCEPT !.todo = rest]]
       \/ /\ ~tier_is_shared(k.old[id].tier) /\ ~Paused
          /\ pending' = pending
          /\ call' = [call EXCEPT ![c] = [k EXCEPT !.todo = rest, !.pc = "drain", !.drain = <<p>>]]
    /\ UNCHANGED <<paced, disk, catalogued, session, deleteQueue, artifacts, tierBudget, taint>>

\* FileDeletionState::dispatch.
Dispatch(c) ==
    LET k == call[c] rest == Tail(k.drain) IN
    /\ k.pc = "drain"
    /\ deleteQueue' = IF paced THEN Append(deleteQueue, Head(k.drain)) ELSE deleteQueue
    /\ disk' = IF paced THEN disk ELSE Unlinked(disk, {Head(k.drain)})
    /\ call' = [call EXCEPT ![c] = IF rest # <<>> THEN [k EXCEPT !.drain = rest]
                                   ELSE IF k.todo # {} THEN [k EXCEPT !.drain = <<>>, !.pc = "retire"]
                                   ELSE IdleCall]
    /\ UNCHANGED <<paced, catalogued, session, pending, artifacts, tierBudget, taint>>

deletion_worker ==
    /\ deleteQueue # <<>>
    /\ disk' = Unlinked(disk, {Head(deleteQueue)})
    /\ deleteQueue' = Tail(deleteQueue)
    /\ UNCHANGED <<paced, catalogued, session, call, pending, artifacts, tierBudget, taint>>

\* The end of a call that held a DeletionPause: the last one to resume takes
\* the deferred files and retires them one by one.
Resume(c) ==
    LET last == ~\E o \in TierCallers \ {c} : call[o].op \in Pausing /\ call[o].pc # "drain" IN
    IF last /\ pending # <<>>
    THEN /\ call' = [call EXCEPT ![c] = [IdleCall EXCEPT !.op = call[c].op, !.pc = "drain",
                                                         !.drain = pending]]
         /\ pending' = <<>>
    ELSE call' = [call EXCEPT ![c] = IdleCall] /\ UNCHANGED pending

-----------------------------------------------------------------------------
(* The catalog, the allocator and the range lock *)

LeftOf(f, ids) == [id \in DOMAIN f \ ids |-> f[id]]
With(f, g) == [id \in DOMAIN f \cup DOMAIN g |-> IF id \in DOMAIN g THEN g[id] ELSE f[id]]
One(id, x) == [i \in {id} |-> x]

\* catalog_txn that succeeds.  The allocator is not part of an edit; it is of
\* the snapshot an edit may force.
Edited(gone, added, next) ==
    /\ catalog' = With(LeftOf(catalog, gone), added)
    /\ idFloor' \in {idFloor, next}
    /\ everUsed' = everUsed \cup DOMAIN added
    /\ UNCHANGED <<limbo, tierPoison>>

\* An edit whose append or fsync fails: the caller gets the error and the
\* database is poisoned, but the record may be on the disk.
EditFailed(gone, added) ==
    /\ tierBudget.faults > 0
    /\ tierBudget' = [tierBudget EXCEPT !.faults = @ - 1]
    /\ tierPoison' = TRUE
    /\ limbo' = {With(LeftOf(catalog, gone), added)}
    /\ UNCHANGED <<catalog, idFloor, everUsed>>

\* Ids that named a table before.
Reuse(added) == IF DOMAIN added \cap everUsed = {} THEN {} ELSE {"id"}

bottom_partition_handles ==
    {id \in DOMAIN catalog : catalog[id].cf = "a" /\ catalog[id].level = "bottom"}

\* RangeLocks: acquire_blocking waits for it, try_acquire gives up.
try_acquire(keys) == \A c \in TierCallers : call[c].keys \cap keys = {}

SpanOf(ids) == UNION {KeysOf(catalog[id].bytes) : id \in ids}
AllKeys == {1, 2}

bottom_overlaps(bytes, staged) ==
    \/ \E id \in bottom_partition_handles : KeysOf(catalog[id].bytes) \cap KeysOf(bytes) # {}
    \/ \E id \in DOMAIN staged : /\ staged[id].level = "bottom"
                                 /\ KeysOf(staged[id].bytes) \cap KeysOf(bytes) # {}

LevelFor(bytes, staged) == IF bottom_overlaps(bytes, staged) THEN "L0" ELSE "bottom"

\* The threads are interchangeable: the first idle one takes the call.
FirstIdle(c) == call[c] = IdleCall /\ \A o \in TierCallers : o < c => call[o] # IdleCall

\* A call begins: read_only and the poison have been looked at.
MayCall(c, op, modes) ==
    /\ FirstIdle(c) /\ op \in DOMAIN tierBudget.calls /\ tierBudget.calls[op] > 0
    /\ mode \in modes /\ ~tierPoison

CanCall(c, op) == MayCall(c, op, {"rw"})

Spend(op) == tierBudget' = [tierBudget EXCEPT !.calls[op] = @ - 1]

CallAs(c, op, pc, rec) ==
    call' = [call EXCEPT ![c] = [rec EXCEPT !.op = op, !.pc = pc]]

Over(c) == call' = [call EXCEPT ![c] = IdleCall]

-----------------------------------------------------------------------------
(* relocate_part *)

MoveStart(c) ==
    \E t \in {Ssd, "cold", "s3", "hub"} :
       LET hs == {id \in bottom_partition_handles :
                    catalog[id].tier # t /\ ~tier_is_shared(catalog[id].tier)}
           keys == SpanOf(bottom_partition_handles) IN
       /\ CanCall(c, "move") /\ hs # {} /\ try_acquire(keys)
       /\ CallAs(c, "move", "copy", [IdleCall EXCEPT !.to = t, !.keys = keys, !.todo = hs,
                                       !.old = [id \in hs |-> catalog[id]]])
       /\ Spend("move")
       /\ UNCHANGED <<paced, disk, catalogued, session, removals, artifacts, taint>>

\* copy_to_storage opens the source, then creates the destination.
MoveCopy(c) ==
    LET k == call[c] id == Min(k.todo) to == <<k.to, id>> IN
    /\ k.op = "move" /\ k.pc = "copy" /\ Exists(klog_path_for(k.old[id]))
    /\ disk' = copy_begun(disk, to)
    /\ taint' = taint \cup (IF to \in Doomed THEN {"path"} ELSE {})
    /\ CallAs(c, "move", "finish", k)
    /\ UNCHANGED <<paced, catalogued, session, removals, artifacts, tierBudget>>

\* Mutant: the move goes on to the flip before the destination is finished.
MoveFinishUnsynced(c) ==
    LET k == call[c] id == Min(k.todo) rest == k.todo \ {id} IN
    /\ k.op = "move" /\ k.pc = "finish"
    /\ call' = [call EXCEPT ![c] =
                  [k EXCEPT !.todo = rest, !.pc = IF rest = {} THEN "flip" ELSE "copy",
                            !.new = With(@, One(id, [k.old[id] EXCEPT !.tier = k.to, !.obj = id]))]]
    /\ UNCHANGED <<paced, disk, catalogued, session, removals, artifacts, tierBudget, taint>>

MoveFinish(c) ==
    LET k == call[c] id == Min(k.todo) rest == k.todo \ {id} IN
    /\ k.op = "move" /\ k.pc = "finish"
    /\ disk' = Written(disk, <<k.to, id>>, k.old[id].bytes)
    /\ call' = [call EXCEPT ![c] =
                  [k EXCEPT !.todo = rest, !.pc = IF rest = {} THEN "flip" ELSE "copy",
                            !.new = With(@, One(id, [k.old[id] EXCEPT !.tier = k.to, !.obj = id]))]]
    /\ UNCHANGED <<paced, catalogued, session, removals, artifacts, tierBudget, taint>>

\* The flip is the commit point; the sources are retired after it.
MoveFlip(c) ==
    LET k == call[c] IN
    /\ k.op = "move" /\ k.pc = "flip"
    /\ \/ /\ Edited({}, k.new, idNext)
          /\ CallAs(c, "move", "retire", [k EXCEPT !.todo = DOMAIN k.old])
          /\ UNCHANGED tierBudget
       \/ EditFailed({}, k.new) /\ Over(c)
    /\ UNCHANGED <<paced, disk, session, removals, artifacts, taint>>

-----------------------------------------------------------------------------
(* detach_part, attach_part, attach_part_by_ref *)

DetachStart(c) ==
    LET hs == bottom_partition_handles keys == SpanOf(hs) IN
    /\ CanCall(c, "detach") /\ hs # {} /\ try_acquire(keys)
    /\ \A id \in hs : ~tier_is_shared(catalog[id].tier)
    /\ CallAs(c, "detach", "flip", [IdleCall EXCEPT !.keys = keys, !.todo = hs,
                                      !.old = [id \in hs |-> catalog[id]]])
    /\ Spend("detach")
    /\ UNCHANGED <<paced, disk, catalogued, session, removals, artifacts, taint>>

\* The edit removes the part, then its files are moved aside.
DetachFlip(c) ==
    LET k == call[c] IN
    /\ k.op = "detach" /\ k.pc = "flip"
    /\ \/ /\ Edited(DOMAIN k.old, NoTables, idNext)
          /\ CallAs(c, "detach", "aside", k)
          /\ UNCHANGED tierBudget
       \/ EditFailed(DOMAIN k.old, NoTables) /\ Over(c)
    /\ UNCHANGED <<paced, disk, session, removals, artifacts, taint>>

DetachMove(c) ==
    LET k == call[c] id == Min(k.todo) from == klog_path_for(k.old[id]) rest == k.todo \ {id} IN
    /\ k.op = "detach" /\ k.pc = "aside"
    /\ tier_is_local(k.old[id].tier) /\ Exists(from)
    /\ disk' = move_file(from, <<"detached", id>>)
    /\ IF rest # {} THEN CallAs(c, "detach", "aside", [k EXCEPT !.todo = rest]) /\ UNCHANGED manifest
       ELSE /\ Over(c)
            /\ manifest' = [manifest EXCEPT !["detached"] =
                              {With(t, [i \in DOMAIN k.old |-> k.old[i].bytes]) :
                                 t \in (IF @ = {} THEN {NoTables} ELSE @)}]
    /\ UNCHANGED <<paced, catalogued, session, removals, parent, tierBudget, taint>>

AttachStart(c) ==
    \E d \in {"detached", "freeze"} :
       LET ids == {id \in 1..MaxTableId : Exists(<<d, id>>)} IN
       /\ CanCall(c, "attach") /\ ids # {} /\ try_acquire(AllKeys)
       /\ idNext + Cardinality(ids) <= MaxTableId + 1
       /\ CallAs(c, "attach", "copy", [IdleCall EXCEPT !.to = d, !.keys = AllKeys, !.todo = ids])
       /\ Spend("attach")
       /\ UNCHANGED <<paced, disk, catalogued, session, removals, artifacts, taint>>

\* The copy and the open that validates it.
AttachCopy(c) ==
    LET k == call[c] id == Min(k.todo) from == <<k.to, id>> n == idNext rest == k.todo \ {id} IN
    /\ k.op = "attach"
    /\ \/ /\ k.pc = "copy"
          /\ disk' = copy_begun(disk, <<Ssd, n>>) /\ idNext' = n + 1
          /\ CallAs(c, "attach", "finish", [k EXCEPT !.cur = n])
       \/ /\ k.pc = "finish" /\ Exists(from) /\ BytesAt(from) # TornFile
          /\ disk' = Written(disk, <<Ssd, k.cur>>, BytesAt(from))
          /\ CallAs(c, "attach", IF rest = {} THEN "flip" ELSE "copy",
                [k EXCEPT !.todo = rest,
                          !.new = With(@, One(k.cur, Meta("a", Ssd, k.cur,
                                                 LevelFor(BytesAt(from), @), BytesAt(from))))])
          /\ idNext' = idNext
    /\ UNCHANGED <<paced, catalogued, mode, wals, removals, artifacts, tierBudget, taint>>

\* The files a failed call takes back.
OwnFiles(k) == IF k.op = "mount" THEN {} ELSE {<<Ssd, n>> : n \in DOMAIN k.new \cup {k.cur}}

AttachFlip(c) ==
    LET k == call[c] IN
    /\ k.op \in {"attach", "mount", "clone"} /\ k.pc = "flip"
    /\ \/ /\ Edited({}, k.new, idNext) /\ taint' = taint \cup Reuse(k.new)
          /\ (IF k.op = "clone" THEN Resume(c) ELSE Over(c) /\ UNCHANGED pending)
          /\ UNCHANGED <<disk, tierBudget>>
       \/ /\ EditFailed({}, k.new)
          /\ taint' = taint \cup (IF k.op = "mount" THEN {} ELSE {"edit"})
          /\ disk' = Unlinked(disk, OwnFiles(k))
          /\ (IF k.op = "clone" THEN Resume(c) ELSE Over(c) /\ UNCHANGED pending)
    /\ UNCHANGED <<paced, session, deleteQueue, artifacts>>

\* A part another database published, by reference: nothing is copied.
Mount(c) ==
    LET n == idNext bytes == BytesAt(<<"hub", Foreign>>)
        new == One(n, Meta("a", "hub", Foreign, LevelFor(bytes, NoTables), bytes)) IN
    /\ CanCall(c, "mount") /\ try_acquire(AllKeys) /\ Exists(<<"hub", Foreign>>) /\ n <= MaxTableId
    /\ idNext' = n + 1 /\ Spend("mount")
    /\ CallAs(c, "mount", "flip", [IdleCall EXCEPT !.keys = AllKeys, !.new = new])
    /\ UNCHANGED <<paced, disk, catalogued, mode, wals, removals, artifacts, taint>>

-----------------------------------------------------------------------------
(* Compaction of the family, as far as files go *)

\* The tables of L0 with the bottom tables they overlap, or one bottom table.
Inputs ==
    LET own == {id \in DOMAIN catalog : catalog[id].cf = "a" /\ ~is_foreign_mount(catalog[id])}
        l0 == {id \in own : catalog[id].level = "L0"} IN
    {ids \in {l0 \cup {id \in own : SpanOf({id}) \cap SpanOf(l0) # {}}} \cup {{id} : id \in own \ l0} :
       ids # {}}

CompactStart(c) ==
    \E ids \in Inputs :
       /\ CanCall(c, "compact") /\ try_acquire(SpanOf(ids)) /\ idNext <= MaxTableId
       /\ CallAs(c, "compact", "write",
             [IdleCall EXCEPT !.keys = SpanOf(ids), !.old = [id \in ids |-> catalog[id]],
                              !.cur = idNext])
       /\ idNext' = idNext + 1 /\ disk' = copy_begun(disk, <<Ssd, idNext>>)
       /\ Spend("compact")
       /\ UNCHANGED <<paced, catalogued, mode, wals, removals, artifacts, taint>>

CompactInstall(c) ==
    LET k == call[c] ins == DOMAIN k.old bytes == UNION {k.old[id].bytes : id \in ins}
        new == One(k.cur, Meta("a", Ssd, k.cur, "bottom", bytes)) IN
    /\ k.op = "compact"
    /\ \/ /\ k.pc = "write" /\ \A id \in ins : Exists(klog_path_for(k.old[id]))
          /\ disk' = Written(disk, <<Ssd, k.cur>>, bytes)
          /\ CallAs(c, "compact", "flip", k)
          /\ UNCHANGED <<catalogued, tierBudget, taint>>
       \/ /\ k.pc = "flip" /\ Edited(ins, new, idNext) /\ taint' = taint \cup Reuse(new)
          /\ CallAs(c, "compact", "retire", [k EXCEPT !.todo = ins])
          /\ UNCHANGED <<disk, tierBudget>>
       \/ /\ k.pc = "flip" /\ EditFailed(ins, new) /\ taint' = taint \cup {"edit"}
          /\ disk' = Unlinked(disk, OwnFiles(k)) /\ Over(c)
    /\ UNCHANGED <<paced, session, removals, artifacts>>

-----------------------------------------------------------------------------
(* Snapshots: freeze_part, export_part, checkpoint, backup, clone, and the *)
(* object store's                                                          *)

\* A part's freeze or export lists its tables; the others flush first.
PinStart(c) ==
    \E op \in Pausing \ {"clone"} :
       LET hs == [id \in bottom_partition_handles |-> catalog[id]] IN
       /\ MayCall(c, op, IF op \in {"checkpoint", "backup", "store"} THEN {"rw", "ro"} ELSE {"rw"})
       /\ op = "store" \/ manifest[op] = {}
       /\ IF op \in {"freeze", "export"}
          THEN /\ DOMAIN hs # {}
               /\ op = "freeze" => \A id \in DOMAIN hs : ~tier_is_shared(hs[id].tier)
               /\ CallAs(c, op, "place", [IdleCall EXCEPT !.old = hs, !.todo = DOMAIN hs])
          ELSE \E h \in (IF op = "store" THEN {"plain", "receipts"} \cup
                                              (IF parent = {} THEN {} ELSE {"incremental"})
                         ELSE {""}) :
                  CallAs(c, op, "plan", [IdleCall EXCEPT !.how = h])
       /\ Spend(op)
       /\ UNCHANGED <<paced, disk, catalogued, session, removals, artifacts, taint>>

CloneStart(c) ==
    /\ CanCall(c, "clone") /\ CallAs(c, "clone", "plan", IdleCall) /\ Spend("clone")
    /\ UNCHANGED <<paced, disk, catalogued, session, removals, artifacts, taint>>

\* The memtables become a table of L0 and leave the WAL.
FlushedTable == One(idNext, Meta("a", Ssd, idNext, "L0", wals))

\* What an incremental object-store checkpoint leaves to its parent.
Skipped(k) == IF k.how = "incremental" THEN UNION {DOMAIN t : t \in parent} ELSE {}

\* plan_snapshot: flush, persist the catalog, and list what it names.
Plan(c) ==
    LET k == call[c] flush == mode = "rw" /\ wals # {}
        cat == IF flush THEN With(catalog, FlushedTable) ELSE catalog
        ids == IF k.op = "clone" THEN {id \in DOMAIN cat : cat[id].cf = "a"} ELSE DOMAIN cat IN
    /\ k.pc = "plan" /\ (flush => idNext <= MaxTableId)
    /\ IF ~flush THEN UNCHANGED <<disk, catalog, wals, idNext, everUsed, taint>>
       ELSE /\ disk' = Written(disk, <<Ssd, idNext>>, wals)
            /\ catalog' = cat /\ wals' = {} /\ idNext' = idNext + 1
            /\ everUsed' = everUsed \cup {idNext} /\ taint' = taint \cup Reuse(FlushedTable)
    /\ idFloor' = IF mode = "rw" THEN idNext' ELSE idFloor
    /\ CallAs(c, k.op, "place", [k EXCEPT !.old = [id \in ids |-> cat[id]], !.todo = ids \ Skipped(k)])
    /\ UNCHANGED <<paced, limbo, tierPoison, mode, removals, artifacts, tierBudget>>

\* An object another attempt left under the key, in receipts mode.
Clashes(p, bytes) == Exists(p) /\ BytesAt(p) # bytes

\* A checkpoint and a freeze link a local file, the others copy (an export
\* records the file's hash).
place_storage_file(k, from, to) ==
    IF k.op \in {"checkpoint", "freeze"} /\ tier_is_local(from[1])
    THEN HardLinked(disk, from, to) ELSE Written(disk, to, BytesAt(from))

\* One table of the snapshot; upload_all's threads take them in any order.
Place(c) ==
    LET k == call[c] IN
    /\ k.pc = "place" /\ k.op \in Pausing \ {"clone"}
    /\ \E id \in (IF k.op = "store" THEN k.todo ELSE {i \in k.todo : i = Min(k.todo)}) :
          LET from == klog_path_for(k.old[id]) to == <<k.op, id>> IN
          /\ Exists(from)
          /\ k.op = "freeze" => tier_is_local(k.old[id].tier)
          /\ k.how = "receipts" => ~Clashes(to, BytesAt(from))
          /\ disk' = place_storage_file(k, from, to)
          /\ call' = [call EXCEPT ![c].todo = @ \ {id}]
    /\ UNCHANGED <<paced, catalogued, session, removals, artifacts, tierBudget, taint>>

\* Mutant: the MANIFEST is written while tables are still to be copied.
AnyPlaced(k) == TRUE

AllPlaced(k) == k.todo = {}

\* A read-only handle writes what it replayed from the WAL into the destination,
\* under ids of its own counter.
write_sealed_memtables(k) == mode = "ro" /\ wals # {} /\ k.op \notin {"freeze", "export"}

\* The MANIFEST goes last.
PlaceManifest(c) ==
    LET k == call[c] sealed == write_sealed_memtables(k)
        names == With([id \in DOMAIN k.old |-> k.old[id].bytes],
                      IF sealed THEN One(idNext, wals) ELSE NoTables)
        key == <<k.op, idNext>> IN
    /\ k.pc = "place" /\ k.op \in Pausing \ {"clone"} /\ AllPlaced(k)
    /\ sealed => /\ idNext <= MaxTableId
                 /\ k.how = "receipts" => ~Clashes(key, wals)
    /\ k.how = "receipts" => manifest["store"] \in {{}, {names}}
    /\ disk' = IF sealed THEN Written(disk, key, wals) ELSE disk
    /\ idNext' = IF sealed THEN idNext + 1 ELSE idNext
    /\ taint' = taint \cup (IF sealed /\ k.op = "store" THEN {"readonly"} ELSE {})
    /\ manifest' = [manifest EXCEPT ![k.op] = {names}]
    /\ parent' = IF k.op = "store" THEN {names} ELSE parent
    /\ Resume(c)
    /\ UNCHANGED <<paced, catalogued, mode, wals, deleteQueue, tierBudget>>

\* clone_column_family links each table under a fresh id.
CloneLink(c) ==
    LET k == call[c] id == Min(k.todo) from == klog_path_for(k.old[id]) to == <<Ssd, idNext>> IN
    /\ k.op = "clone" /\ k.pc = "place"
    /\ IF k.todo = {} THEN CallAs(c, "clone", "flip", k) /\ UNCHANGED <<disk, idNext>>
       ELSE /\ Exists(from) /\ idNext <= MaxTableId
            /\ disk' = IF tier_is_local(from[1]) THEN HardLinked(disk, from, to)
                       ELSE Written(disk, to, BytesAt(from))
            /\ idNext' = idNext + 1
            /\ CallAs(c, "clone", "place",
                  [k EXCEPT !.todo = @ \ {id},
                            !.new = With(@, One(idNext, [k.old[id] EXCEPT
                                              !.cf = "b", !.tier = Ssd, !.obj = idNext]))])
    /\ UNCHANGED <<paced, catalogued, mode, wals, removals, artifacts, tierBudget, taint>>

-----------------------------------------------------------------------------
(* restore_from_object_store *)

\* The MANIFEST is read first and written last.
RestoreStart(c) ==
    \E t \in manifest["store"] :
       /\ MayCall(c, "restore", {"rw", "ro"}) /\ manifest["restored"] = {}
       /\ CallAs(c, "restore", "fetch", [IdleCall EXCEPT !.old = t, !.todo = DOMAIN t])
       /\ Spend("restore")
       /\ UNCHANGED <<paced, disk, catalogued, session, removals, artifacts, taint>>

\* Each object's size is compared with the MANIFEST's.
RestoreFetch(c) ==
    LET k == call[c] id == Min(k.todo) from == <<"store", id>> IN
    /\ k.op = "restore"
    /\ IF k.todo = {}
       THEN /\ manifest' = [manifest EXCEPT !["restored"] = {k.old}] /\ Over(c) /\ UNCHANGED disk
       ELSE /\ Exists(from) /\ Cardinality(BytesAt(from)) = Cardinality(k.old[id])
            /\ disk' = Written(disk, <<"restored", id>>, BytesAt(from))
            /\ call' = [call EXCEPT ![c].todo = @ \ {id}] /\ UNCHANGED manifest
    /\ UNCHANGED <<paced, catalogued, session, removals, parent, tierBudget, taint>>

-----------------------------------------------------------------------------
(* Calls that fail *)

\* What the call would read is not there, or is not what it must be.
Blocked(k) ==
    LET id == Min(k.todo) src == klog_path_for(k.old[id]) IN
    CASE k.op = "attach" -> k.pc = "finish" /\ (~Exists(<<k.to, id>>) \/ BytesAt(<<k.to, id>>) = TornFile)
      [] k.op = "compact" -> \E i \in DOMAIN k.old : ~Exists(klog_path_for(k.old[i]))
      [] k.op = "restore" -> /\ k.todo # {}
                             /\ \/ ~Exists(<<"store", id>>)
                                \/ Cardinality(BytesAt(<<"store", id>>)) # Cardinality(k.old[id])
      [] k.op = "store" -> \/ \E i \in k.todo : \/ ~Exists(klog_path_for(k.old[i]))
                                                \/ /\ k.how = "receipts"
                                                   /\ Clashes(<<"store", i>>, k.old[i].bytes)
                           \/ k.how = "receipts" /\ manifest["store"] # {}
      [] OTHER -> k.todo # {} /\ (~Exists(src) \/ (k.op \in {"detach", "freeze"} /\ ~tier_is_local(src[1])))

\* An error before the commit point: an attach, a compaction and a clone take
\* their files back, the others leave what they copied.
CallFails(c) ==
    LET k == call[c] IN
    /\ k.pc \in {"copy", "finish", "write", "place", "aside", "fetch"}
    /\ \/ Blocked(k) /\ UNCHANGED tierBudget
       \/ /\ tierBudget.faults > 0
          /\ tierBudget' = [tierBudget EXCEPT !.faults = @ - 1]
    /\ disk' = IF k.op \in {"attach", "compact", "clone"} THEN Unlinked(disk, OwnFiles(k)) ELSE disk
    /\ IF k.op \in Pausing THEN Resume(c) ELSE Over(c) /\ UNCHANGED pending
    /\ UNCHANGED <<paced, catalogued, session, deleteQueue, artifacts, taint>>

-----------------------------------------------------------------------------
(* Sessions *)

Quiet == \A c \in TierCallers : call[c] = IdleCall

TierPut ==
    /\ mode = "rw" /\ ~tierPoison /\ tierBudget.puts > 0
    /\ wals' = wals \cup {5 - tierBudget.puts}
    /\ tierBudget' = [tierBudget EXCEPT !.puts = @ - 1]
    /\ UNCHANGED <<paced, disk, catalogued, mode, idNext, call, removals, artifacts, taint>>

Down ==
    /\ mode' = "down" /\ call' = [c \in TierCallers |-> IdleCall]
    /\ pending' = <<>> /\ deleteQueue' = <<>>

\* The WAL, the catalog and whatever is in a file survive.
TierCrash ==
    /\ mode # "down" /\ tierBudget.opens > 0 /\ Down
    /\ UNCHANGED <<paced, disk, catalogued, wals, idNext, artifacts, tierBudget, taint>>

\* close: flush, persist, and drain the deletion worker.
TierClose ==
    LET flush == mode = "rw" /\ wals # {} IN
    /\ mode # "down" /\ tierBudget.opens > 0 /\ Quiet /\ ~tierPoison
    /\ flush => idNext <= MaxTableId
    /\ Down
    /\ disk' = Unlinked(IF flush THEN Written(disk, <<Ssd, idNext>>, wals) ELSE disk, Doomed)
    /\ IF flush THEN /\ catalog' = With(catalog, FlushedTable) /\ wals' = {}
                     /\ everUsed' = everUsed \cup {idNext} /\ taint' = taint \cup Reuse(FlushedTable)
       ELSE UNCHANGED <<catalog, wals, everUsed, taint>>
    /\ idFloor' = IF mode = "ro" THEN idFloor ELSE IF flush THEN idNext + 1 ELSE idNext
    /\ UNCHANGED <<paced, limbo, tierPoison, idNext, artifacts, tierBudget>>

\* sst_is_misplaced: a known table's file on another tier than the catalog's, or
\* an unknown one on the default tier.
sst_is_misplaced(cat, loc, id) ==
    IF id \in DOMAIN cat THEN cat[id].tier # loc ELSE loc = Ssd

\* sweep_move_orphans; a location that cannot be listed waits for another open.
Orphans(cat, locs) ==
    {p \in locs \X (1..MaxTableId) : sst_is_misplaced(cat, p[1], p[2])}

\* The allocator restarts above what the catalog names, not above what it named.
reconciled_next_id(cat) == Max({idFloor} \cup {id + 1 : id \in DOMAIN cat})

TierOpen ==
    \E ro \in BOOLEAN, cat \in {catalog} \cup limbo, dark \in {{}, {"s3"}} :
       /\ mode = "down" /\ tierBudget.opens > 0
       /\ ro => limbo = {} /\ dark = {}
       /\ dark # {} => tierBudget.faults > 0
       /\ tierBudget' = [tierBudget EXCEPT !.opens = @ - 1, !.faults = @ - Cardinality(dark)]
       /\ mode' = IF ro THEN "ro" ELSE "rw"
       /\ catalog' = cat /\ limbo' = {} /\ tierPoison' = FALSE
       /\ everUsed' = everUsed \cup DOMAIN cat
       /\ idNext' = reconciled_next_id(cat)
       /\ disk' = IF ro THEN disk ELSE Unlinked(disk, Orphans(cat, {Ssd, "cold", "s3"} \ dark))
       /\ UNCHANGED <<paced, idFloor, wals, call, removals, artifacts, taint>>

-----------------------------------------------------------------------------

TierInit ==
    /\ \E sc \in TierScenarios :
          /\ paced = sc.paced
          /\ tierBudget = [calls |-> sc.calls, faults |-> sc.faults, opens |-> sc.opens, puts |-> sc.puts]
          /\ catalog = [id \in 1..2 |-> Meta("a", sc.tier, id, "bottom", {id})]
          /\ disk = {[names |-> {<<sc.tier, id>>}, data |-> {id}] : id \in 1..2}
                    \cup {[names |-> {<<"hub", Foreign>>}, data |-> {9}]}
    /\ limbo = {} /\ tierPoison = FALSE /\ everUsed = {1, 2}
    /\ idNext = 3 /\ idFloor = 3 /\ mode = "rw" /\ wals = {}
    /\ call = [c \in TierCallers |-> IdleCall]
    /\ pending = <<>> /\ deleteQueue = <<>>
    /\ manifest = [a \in Artifacts |-> {}] /\ parent = {}
    /\ taint = {}

CallStep(c) ==
    \/ MoveStart(c) \/ MoveCopy(c) \/ MoveFinish(c) \/ MoveFlip(c) \/ DetachStart(c)
    \/ DetachFlip(c) \/ DetachMove(c)
    \/ AttachStart(c) \/ AttachCopy(c) \/ AttachFlip(c) \/ Mount(c) \/ CompactStart(c)
    \/ CompactInstall(c) \/ PinStart(c) \/ CloneStart(c) \/ Plan(c) \/ Place(c) \/ PlaceManifest(c)
    \/ CloneLink(c) \/ RestoreStart(c) \/ RestoreFetch(c) \/ CallFails(c) \/ Retire(c) \/ Dispatch(c)

TierNext ==
    \/ \E c \in TierCallers : CallStep(c)
    \/ deletion_worker \/ TierPut \/ TierCrash \/ TierClose \/ TierOpen

TierSpec == TierInit /\ [][TierNext]_tierVars

-----------------------------------------------------------------------------
(* Properties *)

\* "a crash mid-operation leaves at worst orphan files, never a reader routed to
\* a missing file" (docs/parts-and-tiers.md): every table the durable catalog
\* names has its file, whole, where the catalog says.
TablesInPlace ==
    \A id \in DOMAIN catalog :
       LET p == klog_path_for(catalog[id]) IN Exists(p) /\ BytesAt(p) = catalog[id].bytes

\* TablesInPlace whatever moves, parts, checkpoints, compactions, deletions,
\* crashes and opens interleave, unless a move re-created a path whose unlink
\* was still queued (relocate_part), or a failed edit that took its files back
\* turns out to be durable.
TablesHold == taint \cap {"path", "edit"} = {} => TablesInPlace

\* What a finished checkpoint, backup, frozen, exported, detached or restored
\* part says it holds it goes on holding, whatever the database does next: the
\* MANIFEST goes last (snapshot_to, checkpoint_to_object_store,
\* restore_from_object_store), and what it names is whole.
ArtifactsHold ==
    taint = {} => \A a \in Artifacts : \A t \in manifest[a] : \A id \in DOMAIN t :
                     Exists(<<a, id>>) /\ BytesAt(<<a, id>>) = t[id]

=============================================================================
