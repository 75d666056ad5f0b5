---------------------------- MODULE UnifiedStore ----------------------------
(***************************************************************************)
(* The unified layout: one memtable and one WAL for every column family    *)
(* (src/src/unified.rs), its rotation and flush (flush_unified of          *)
(* src/src/db.rs), durable prepared transactions (src/src/prepared.rs,     *)
(* Txn::prepare, commit_prepared, abort_prepared) and recovery.            *)
(*                                                                         *)
(* The writeset of a commit is one item.  Ordinary commits run with        *)
(* SyncMode::Full, so an append is durable when it returns; control frames *)
(* are appended and then synced, as in the code.  An append that fails     *)
(* whole leaves no frame and poisons nothing: it is no step here.  A call  *)
(* checks the poison once, before it waits for commit_mu, so no step under *)
(* the mutex is guarded by it: fail-stop does not stop a call already in.  *)
(***************************************************************************)
EXTENDS WalGens

CONSTANTS
    Data,            \* writesets of ordinary commits
    MaxPrepares,     \* bound: prepares issued, of one id or of several
    MaxCrashes,      \* bound: crashes
    StallThreshold,  \* Options.unified_memtable_stall_threshold
    Flusher          \* the flush worker, as a sweeper

ASSUME UnifiedAssumption ==
    /\ IsFiniteSet(Data)
    /\ MaxPrepares \in Nat \ {0}
    /\ MaxCrashes \in Nat
    /\ StallThreshold \in Nat \ {0}
    /\ Flusher \notin Ids
    /\ Data \cap (Ids \X (1..MaxPrepares)) = {}

VARIABLES
    (* on disk *)
    files,      \* WAL generations whose files exist
    log,        \* the frames of each generation
    unsynced,   \* <<gen, frame>> appended and not yet fsynced
    tables,     \* items in published tables
    wal_floor,  \* the replay floor of the catalog
    (* in memory *)
    up,         \* the database is open
    poisoned,   \* it has fail-stopped
    mem,        \* the active memtable
    wal_gen,    \* generation of the active WAL
    pending,    \* pending_wals: generations the active memtable covers
    imm,        \* sealed memtables, oldest first
    rot,        \* what the rotating thread is doing
    registry,   \* by_id: the registered prepare of each id, 0 if none ...
    entry_gen,  \* ... and the generation of its frame
    retiring,   \* resolved ids whose generations are not yet unlinked
    op,         \* the operation holding commit_mu
    sweeps,     \* per sweeper: what its sweep has still to do
    (* history *)
    prepares,   \* prepares issued; each takes its number from here
    outcome,    \* what the coordinator knows of each prepare
    acked,      \* acknowledged ordinary commits
    gone,       \* items compaction has dropped
    exposed,    \* ids whose frames the pins came too late for
    abandoned,  \* items of a failed flush that an older flush overlooks
    crashes

diskVars == <<files, log, unsynced, tables, wal_floor>>
storeVars == <<mem, wal_gen, pending, imm, rot>>
regVars == <<registry, entry_gen, retiring>>
history == <<prepares, outcome, acked, gone, exposed, abandoned, crashes>>
vars == <<genVars, diskVars, up, poisoned, storeVars, regVars, op, sweeps, history>>

Prepares == 1..MaxPrepares
Sweepers == Ids \cup {Flusher}
Items == Data \cup (Ids \X Prepares)
Frames == ({"prepare", "commit", "abort"} \X Ids \X Prepares) \cup ({"data"} \X Data)

Idle == [kind |-> "idle"]
NoSweep == [due |-> FALSE, gens |-> <<>>, ids |-> {}]

OnDisk(f) == {g \in files : f \in log[g]}
PreparesOf(i) == {p \in files \X Prepares : <<"prepare", i, p[2]>> \in log[p[1]]}
DecisionsOf(i) == {d \in files \X {"commit", "abort"} :
                     \E n \in Prepares : <<d[2], i, n>> \in log[d[1]]}

(* The handle of generation g still takes frames: rotation closes the old   *)
(* WAL after the swap, outside every lock a prepare holds.                  *)
WalOpen(g) == g = wal_gen \/ (rot = "closing" /\ g = wal_gen - 1)

(* The operation under commit_mu has a control frame in one of these        *)
(* generations and has not recorded it with the pins yet.                   *)
Unrecorded(gs) ==
    IF op.kind \in {"prepare", "commit", "abort"} /\ op.step # "captured" /\ op.gen \in gs
    THEN {op.id} ELSE {}

Init ==
    /\ GensInit
    /\ files = {0}
    /\ log = [g \in Gens |-> {}]
    /\ unsynced = {}
    /\ tables = {}
    /\ wal_floor = 0
    /\ up = TRUE
    /\ poisoned = FALSE
    /\ mem = {}
    /\ wal_gen = 0
    /\ pending = {0}
    /\ imm = <<>>
    /\ rot = "idle"
    /\ registry = [i \in Ids |-> 0]
    /\ entry_gen = [i \in Ids |-> 0]
    /\ retiring = {}
    /\ op = Idle
    /\ sweeps = [s \in Sweepers |-> NoSweep]
    /\ prepares = 0
    /\ outcome = [i \in Ids |-> [n \in Prepares |-> "none"]]
    /\ acked = {}
    /\ gone = {}
    /\ exposed = {}
    /\ abandoned = {}
    /\ crashes = 0

----------------------------------------------------------------------------
(* Ordinary commits, under commit_mu and one writer slot.                   *)

(* enter_writer does not stall.                                             *)
SlotFree == Len(imm) < StallThreshold

(* apply_with_ranges: the batch reaches the WAL ...                         *)
WriteAppend(d) ==
    /\ up /\ op = Idle /\ SlotFree
    /\ d \notin acked \cup tables \cup gone /\ OnDisk(<<"data", d>>) = {}
    /\ log' = [log EXCEPT ![wal_gen] = @ \cup {<<"data", d>>}]
    /\ op' = [kind |-> "write", item |-> d]
    /\ UNCHANGED <<genVars, files, unsynced, tables, wal_floor, up, poisoned, storeVars,
                   regVars, sweeps, history>>

(* ... and then the memtable; the commit returns.                           *)
WriteInsert ==
    /\ op.kind = "write"
    /\ mem' = mem \cup {op.item}
    /\ acked' = acked \cup {op.item}
    /\ op' = Idle
    /\ UNCHANGED <<genVars, diskVars, up, poisoned, wal_gen, pending, imm, rot, regVars,
                   sweeps, prepares, outcome, gone, exposed, abandoned, crashes>>

(* The group-commit fsync of the batch fails: fail-stop, no acknowledgement *)
(* and no insert; the frame may or may not survive.                         *)
WriteFails ==
    /\ op.kind = "write"
    /\ poisoned' = TRUE
    /\ unsynced' = unsynced \cup {<<wal_gen, <<"data", op.item>>>>}
    /\ op' = Idle
    /\ UNCHANGED <<genVars, files, log, tables, wal_floor, up, storeVars, regVars, sweeps, history>>

----------------------------------------------------------------------------
(* Txn::prepare, under commit_mu and without a writer slot.                 *)

Knows(i) == registry[i] # 0 \/ i \in retiring

(* The registry checks pass and wal_handle names the handle to write to.    *)
(* After a reopen the registry has forgotten the ids whose frames are still *)
(* on disk, resolved; a prepare that failed never entered it.               *)
PrepareStart(i) ==
    /\ up /\ op = Idle
    /\ ~Knows(i)
    /\ prepares < MaxPrepares
    /\ prepares' = prepares + 1
    /\ op' = [kind |-> "prepare", step |-> "captured", id |-> i, n |-> prepares + 1, gen |-> wal_gen]
    /\ exposed' = IF PreparesOf(i) = {} /\ DecisionsOf(i) = {} THEN exposed ELSE exposed \cup {i}
    /\ UNCHANGED <<genVars, diskVars, up, poisoned, storeVars, regVars, sweeps,
                   outcome, acked, gone, abandoned, crashes>>

(* append_prepare or append_decision(None), on the captured handle.         *)
ControlAppend ==
    /\ op.kind \in {"prepare", "abort"} /\ op.step = "captured"
    /\ WalOpen(op.gen)
    /\ log' = [log EXCEPT ![op.gen] = @ \cup {<<op.kind, op.id, op.n>>}]
    /\ unsynced' = unsynced \cup {<<op.gen, <<op.kind, op.id, op.n>>>>}
    /\ op' = [op EXCEPT !.step = "appended"]
    /\ UNCHANGED <<genVars, files, tables, wal_floor, up, poisoned, storeVars, regVars,
                   sweeps, history>>

(* sync() of the same handle.                                               *)
ControlSync ==
    /\ op.kind \in {"prepare", "abort"} /\ op.step = "appended"
    /\ WalOpen(op.gen)
    /\ unsynced' = {u \in unsynced : u[1] # op.gen}
    /\ op' = [op EXCEPT !.step = "synced"]
    /\ UNCHANGED <<genVars, files, log, tables, wal_floor, up, poisoned, storeVars, regVars,
                   sweeps, history>>

(* "wal closed": a rotation overtook the append or the sync, and the call   *)
(* returns the error.  A frame already appended stays.                      *)
ControlFails ==
    /\ op.kind \in {"prepare", "abort"} /\ op.step \in {"captured", "appended"}
    /\ ~WalOpen(op.gen)
    /\ op' = Idle
    /\ UNCHANGED <<genVars, diskVars, up, poisoned, storeVars, regVars, sweeps, history>>

(* register and then pin the generation; commit_mu is released.             *)
PrepareFinish ==
    /\ op.kind = "prepare" /\ op.step = "synced"
    /\ registry' = [registry EXCEPT ![op.id] = op.n]
    /\ entry_gen' = [entry_gen EXCEPT ![op.id] = op.gen]
    /\ Pin(op.gen)
    /\ outcome' = [outcome EXCEPT ![op.id][op.n] = "prepared"]
    /\ op' = Idle
    /\ UNCHANGED <<tombs, flushed, diskVars, up, poisoned, storeVars, retiring, sweeps,
                   prepares, acked, gone, exposed, abandoned, crashes>>

----------------------------------------------------------------------------
(* commit_prepared and abort_prepared.  An id the registry does not hold    *)
(* changes nothing (Ok when it is retiring, NotFound otherwise).            *)

(* A coordinator has one decision call per id in flight: the next one comes *)
(* after an error, and is turned away once that error was a fail-stop.      *)
MayDecide(i) == registry[i] # 0 /\ (poisoned => DecisionsOf(i) = {})

(* commit_decision takes a writer slot and appends the decision.            *)
DecideAppend(i) ==
    /\ up /\ op = Idle /\ SlotFree
    /\ MayDecide(i)
    /\ log' = [log EXCEPT ![wal_gen] = @ \cup {<<"commit", i, registry[i]>>}]
    /\ unsynced' = unsynced \cup {<<wal_gen, <<"commit", i, registry[i]>>>>}
    /\ op' = [kind |-> "commit", step |-> "appended", id |-> i, n |-> registry[i], gen |-> wal_gen]
    /\ outcome' = [outcome EXCEPT ![i][registry[i]] = "deciding"]
    /\ UNCHANGED <<genVars, files, tables, wal_floor, up, poisoned, storeVars, regVars, sweeps,
                   prepares, acked, gone, exposed, abandoned, crashes>>

(* It syncs, inserts the records and gives the slot back.                   *)
DecideInsert ==
    /\ op.kind = "commit" /\ op.step = "appended"
    /\ unsynced' = {u \in unsynced : u[1] # op.gen}
    /\ mem' = mem \cup {<<op.id, op.n>>}
    /\ op' = [op EXCEPT !.step = "synced"]
    /\ UNCHANGED <<genVars, files, log, tables, wal_floor, up, poisoned, wal_gen, pending, imm,
                   rot, regVars, sweeps, history>>

(* The fsync of a control frame fails: the WAL poisons the database, the    *)
(* call returns the error and a reservation it was to resolve stays.        *)
SyncFails ==
    /\ op.kind \in {"prepare", "commit", "abort"} /\ op.step = "appended"
    /\ WalOpen(op.gen)
    /\ poisoned' = TRUE
    /\ op' = Idle
    /\ UNCHANGED <<genVars, diskVars, up, storeVars, regVars, sweeps, history>>

(* abort_prepared captures the handle; no writer slot, no sequence.         *)
AbortStart(i) ==
    /\ up /\ op = Idle
    /\ MayDecide(i)
    /\ op' = [kind |-> "abort", step |-> "captured", id |-> i, n |-> registry[i], gen |-> wal_gen]
    /\ outcome' = [outcome EXCEPT ![i][registry[i]] = "deciding"]
    /\ UNCHANGED <<genVars, diskVars, up, poisoned, storeVars, regVars, sweeps,
                   prepares, acked, gone, exposed, abandoned, crashes>>

(* resolve the entry, then resolved() the pins; commit_mu is released and   *)
(* the call has a sweep to run.                                             *)
Resolve ==
    /\ op.kind \in {"commit", "abort"} /\ op.step = "synced"
    /\ ~sweeps[op.id].due /\ sweeps[op.id].gens = <<>>
    /\ registry' = [registry EXCEPT ![op.id] = 0]
    /\ entry_gen' = [entry_gen EXCEPT ![op.id] = 0]
    /\ retiring' = retiring \cup {op.id}
    /\ ResolvePair(op.id, entry_gen[op.id], op.gen)
    /\ outcome' = [outcome EXCEPT ![op.id][op.n] = IF op.kind = "commit" THEN "committed" ELSE "aborted"]
    /\ sweeps' = [sweeps EXCEPT ![op.id].due = TRUE]
    /\ op' = Idle
    /\ UNCHANGED <<flushed, diskVars, up, poisoned, storeVars, prepares, acked, gone, exposed,
                   abandoned, crashes>>

----------------------------------------------------------------------------
(* sweep_wal_gens after a resolve: the sweep runs under the wal_gens lock,  *)
(* the unlinks outside it.                                                  *)
SweepAfterResolve(i) ==
    /\ sweeps[i].due
    /\ Sweep(flushed)
    /\ LET r == SweepResult(flushed)
       IN /\ sweeps' = [sweeps EXCEPT ![i] = [due |-> FALSE, gens |-> r.unlink, ids |-> r.retired]]
          /\ exposed' = exposed \cup Unrecorded(Range(r.unlink))
    /\ UNCHANGED <<live, diskVars, up, poisoned, storeVars, regVars, op, prepares, outcome, acked, gone,
                   abandoned, crashes>>

(* remove_wal_files of the next generation; the ids of completed pairs are  *)
(* forgotten after the last.  Two sweeps may unlink at once, and the later  *)
(* one may overtake the earlier.                                            *)
Unlink(s) ==
    /\ sweeps[s].gens # <<>>
    /\ LET g == Head(sweeps[s].gens)
           rest == Tail(sweeps[s].gens)
           overtaken == {i \in Ids : /\ \E d \in DecisionsOf(i) : d[1] = g
                                     /\ \E p \in PreparesOf(i), o \in Sweepers \ {s} :
                                            p[1] \in Range(sweeps[o].gens)}
       IN /\ files' = files \ {g}
          /\ log' = [log EXCEPT ![g] = {}]
          /\ sweeps' = [sweeps EXCEPT ![s] = IF rest = <<>> THEN NoSweep ELSE [@ EXCEPT !.gens = rest]]
          /\ retiring' = IF rest = <<>> THEN retiring \ sweeps[s].ids ELSE retiring
          /\ exposed' = exposed \cup overtaken
    /\ UNCHANGED <<genVars, unsynced, tables, wal_floor, up, poisoned, storeVars, registry, entry_gen,
                   op, prepares, outcome, acked, gone, abandoned, crashes>>

----------------------------------------------------------------------------
(* rotate, by flush_memtable or by a commit that filled the memtable.       *)

(* The next WAL is opened before commits are gated.                         *)
RotateOpen ==
    /\ up /\ rot = "idle" /\ mem # {}
    /\ wal_gen < MaxGen
    /\ files' = files \cup {wal_gen + 1}
    /\ rot' = "preparing"
    /\ UNCHANGED <<genVars, log, unsynced, tables, wal_floor, up, poisoned, mem, wal_gen, pending,
                   imm, regVars, op, sweeps, history>>

(* A writer slot is held.                                                   *)
ActiveWriter == op.kind = "write" \/ (op.kind = "commit" /\ op.step = "appended")

(* Mutant of RotateSwap: the swap does not drain the writer slots.          *)
RotateSwapUndrained ==
    /\ rot = "preparing"
    /\ imm' = Append(imm, [items |-> mem, gens |-> pending, stage |-> "sealed"])
    /\ mem' = {}
    /\ wal_gen' = wal_gen + 1
    /\ pending' = {wal_gen + 1}
    /\ rot' = "closing"
    /\ UNCHANGED <<genVars, diskVars, up, poisoned, regVars, op, sweeps, history>>

(* With the slots drained, memtable, WAL and generation change together.    *)
RotateSwap ==
    /\ rot = "preparing" /\ ~ActiveWriter
    /\ imm' = Append(imm, [items |-> mem, gens |-> pending, stage |-> "sealed"])
    /\ mem' = {}
    /\ wal_gen' = wal_gen + 1
    /\ pending' = {wal_gen + 1}
    /\ rot' = "closing"
    /\ UNCHANGED <<genVars, diskVars, up, poisoned, regVars, op, sweeps, history>>

(* The old WAL is flushed, fsynced and closed, and the flush job is sent.   *)
RotateClose ==
    /\ rot = "closing"
    /\ unsynced' = {u \in unsynced : u[1] # wal_gen - 1}
    /\ rot' = "idle"
    /\ UNCHANGED <<genVars, files, log, tables, wal_floor, up, poisoned, mem, wal_gen, pending, imm,
                   regVars, op, sweeps, history>>

----------------------------------------------------------------------------
(* flush_unified.                                                           *)

JobSent(k) == rot = "closing" => k < Len(imm)

LowestOf(gs) == CHOOSE g \in gs : \A h \in gs : g <= h

(* lowest_unflushed_gen of what is left when the oldest is published.       *)
LowestUnflushed ==
    LowestOf(pending \cup UNION {imm[k].gens : k \in 2..Len(imm)})

(* Mutant of NextFloor: the active generation, past other sealed memtables. *)
NextFloorActive == wal_gen

(* next_wal_floor: it never falls.                                          *)
NextFloor == IF LowestUnflushed > wal_floor THEN LowestUnflushed ELSE wal_floor

(* The slices are written, it is this memtable's turn and the poison check  *)
(* that opens the catalog transaction passes.                               *)
FlushTurn ==
    /\ up /\ ~poisoned
    /\ imm # <<>> /\ imm[1].stage = "sealed" /\ JobSent(1)
    /\ imm' = [imm EXCEPT ![1].stage = "turn"]
    /\ UNCHANGED <<genVars, diskVars, up, poisoned, mem, wal_gen, pending, rot, regVars,
                   op, sweeps, history>>

(* Under manifest_mu, one catalog edit adds its tables and raises the floor *)
(* past what is left in the queue.                                          *)
FlushPublish ==
    /\ imm # <<>> /\ imm[1].stage = "turn"
    /\ tables' = tables \cup imm[1].items
    /\ wal_floor' = NextFloor
    /\ imm' = [imm EXCEPT ![1].stage = "published"]
    /\ UNCHANGED <<genVars, files, log, unsynced, up, poisoned, mem, wal_gen, pending, rot, regVars,
                   op, sweeps, history>>

(* retire_wal_paths: every generation of the memtable is handed to the      *)
(* pins, and the sweep runs.                                                *)
FlushRetire ==
    /\ imm # <<>> /\ imm[1].stage = "published"
    /\ Sweep(flushed \cup imm[1].gens)
    /\ LET r == SweepResult(flushed \cup imm[1].gens)
       IN /\ sweeps' = [sweeps EXCEPT ![Flusher] = [due |-> FALSE, gens |-> r.unlink, ids |-> r.retired]]
          /\ exposed' = exposed \cup Unrecorded(Range(r.unlink))
    /\ imm' = [imm EXCEPT ![1].stage = "retired"]
    /\ UNCHANGED <<live, diskVars, up, poisoned, mem, wal_gen, pending, rot, regVars, op, prepares, outcome,
                   acked, gone, abandoned, crashes>>

(* remove_imm, after the unlinks.                                           *)
FlushDone ==
    /\ imm # <<>> /\ imm[1].stage = "retired" /\ sweeps[Flusher].gens = <<>>
    /\ imm' = Tail(imm)
    /\ UNCHANGED <<genVars, diskVars, up, poisoned, mem, wal_gen, pending, rot, regVars, op, sweeps,
                   history>>

(* The queue without its k-th entry.                                        *)
Without(q, k) == SubSeq(q, 1, k - 1) \o SubSeq(q, k + 1, Len(q))

(* A slice or the catalog edit fails, or a poisoned database declines to    *)
(* publish: fail-stop, the WAL stays, and the memtable leaves the queue     *)
(* unflushed.  An older flush past its poison check no longer counts it.    *)
FlushFails(k) ==
    /\ up /\ imm[k].stage \in {"sealed", "turn"} /\ JobSent(k)
    /\ poisoned' = TRUE
    /\ abandoned' = IF k > 1 /\ imm[1].stage = "turn" THEN abandoned \cup imm[k].items ELSE abandoned
    /\ imm' = Without(imm, k)
    /\ UNCHANGED <<genVars, diskVars, up, mem, wal_gen, pending, rot, regVars, op, sweeps,
                   prepares, outcome, acked, gone, exposed, crashes>>

(* Compaction drops an item that is shadowed or deleted.                    *)
Compact(x) ==
    /\ up /\ x \in tables
    /\ tables' = tables \ {x}
    /\ gone' = gone \cup {x}
    /\ UNCHANGED <<genVars, files, log, unsynced, wal_floor, up, poisoned, storeVars, regVars, op,
                   sweeps, prepares, outcome, acked, exposed, abandoned, crashes>>

----------------------------------------------------------------------------
(* Recovery, as a function of the disk.                                     *)

(* UnifiedStore::open: the data frames at or above the floor.               *)
ReplayedData == {d \in Data : \E g \in OnDisk(<<"data", d>>) : g >= wal_floor}

(* decision_for: the newest by generation; <<>> if there is none.           *)
DecisionFor(i) ==
    IF DecisionsOf(i) = {} THEN <<>>
    ELSE CHOOSE d \in DecisionsOf(i) : \A e \in DecisionsOf(i) : e[1] <= d[1]

(* Mutant of ReplayedPrepares: the floor is ignored.                        *)
ReplayedPreparesWhole ==
    {x \in Ids \X Prepares :
        /\ OnDisk(<<"prepare", x[1], x[2]>>) # {}
        /\ DecisionFor(x[1]) # <<>> /\ DecisionFor(x[1])[2] = "commit"}

(* resolve_recovered_prepares: a commit decision at or above the floor      *)
(* installs its prepare's records.                                          *)
ReplayedPrepares ==
    {x \in Ids \X Prepares :
        /\ OnDisk(<<"prepare", x[1], x[2]>>) # {}
        /\ DecisionFor(x[1]) # <<>> /\ DecisionFor(x[1])[2] = "commit"
        /\ DecisionFor(x[1])[1] >= wal_floor}

(* A prepare with no decision is registered again.                          *)
Reregistered(i, n) == OnDisk(<<"prepare", i, n>>) # {} /\ DecisionFor(i) = <<>>

(* add_prepare refuses a second frame with the same id.                     *)
OpenAccepted == \A i \in Ids : Cardinality(PreparesOf(i)) <= 1

(* Never below the floor.                                                   *)
NextGen ==
    LET next == IF files = {} THEN 0 ELSE 1 + CHOOSE g \in files : \A h \in files : h <= g
    IN IF next > wal_floor THEN next ELSE wal_floor

(* The process dies; a frame never synced may be lost.                      *)
Crash ==
    /\ up /\ crashes < MaxCrashes
    /\ \E lost \in SUBSET unsynced :
          log' = [g \in Gens |-> {f \in log[g] : <<g, f>> \notin lost}]
    /\ unsynced' = {}
    /\ up' = FALSE
    /\ crashes' = crashes + 1
    /\ poisoned' = FALSE
    /\ mem' = {} /\ imm' = <<>> /\ rot' = "idle" /\ pending' = {} /\ wal_gen' = 0
    /\ registry' = [i \in Ids |-> 0] /\ entry_gen' = [i \in Ids |-> 0] /\ retiring' = {}
    /\ live' = [g \in Gens |-> 0] /\ tombs' = {} /\ flushed' = {}
    /\ op' = Idle
    /\ sweeps' = [s \in Sweepers |-> NoSweep]
    /\ UNCHANGED <<files, tables, wal_floor, prepares, outcome, acked, gone, exposed, abandoned>>

(* DB::open.  A resolved pair is recorded for the sweep but its id is not   *)
(* put back among the retiring ones.                                        *)
Open ==
    /\ ~up /\ OpenAccepted
    /\ NextGen <= MaxGen
    /\ up' = TRUE
    /\ mem' = ReplayedData \cup ReplayedPrepares
    /\ wal_gen' = NextGen
    /\ files' = files \cup {NextGen}
    /\ pending' = files \cup {NextGen}
    /\ registry' = [i \in Ids |-> IF \E n \in Prepares : Reregistered(i, n)
                                  THEN CHOOSE n \in Prepares : Reregistered(i, n) ELSE 0]
    /\ entry_gen' = [i \in Ids |-> IF registry'[i] = 0 THEN 0
                                   ELSE CHOOSE g \in files : <<"prepare", i, registry'[i]>> \in log[g]]
    /\ live' = [g \in Gens |-> Cardinality({i \in Ids : registry'[i] # 0 /\ entry_gen'[i] = g})]
    /\ tombs' = UNION {{Tombstone(i, p[1], DecisionFor(i)[1]) : p \in PreparesOf(i)} :
                        i \in {j \in Ids : DecisionFor(j) # <<>>}}
    /\ UNCHANGED <<flushed, log, unsynced, tables, wal_floor, poisoned, imm, rot, retiring, op, sweeps,
                   history>>

Next ==
    \/ \E d \in Data : WriteAppend(d)
    \/ WriteInsert \/ WriteFails
    \/ \E i \in Ids : PrepareStart(i) \/ DecideAppend(i) \/ AbortStart(i) \/ SweepAfterResolve(i)
    \/ ControlAppend \/ ControlSync \/ ControlFails \/ SyncFails
    \/ PrepareFinish \/ DecideInsert \/ Resolve
    \/ \E s \in Sweepers : Unlink(s)
    \/ RotateOpen \/ RotateSwap \/ RotateClose
    \/ FlushTurn \/ FlushPublish \/ FlushRetire \/ FlushDone
    \/ \E k \in DOMAIN imm : FlushFails(k)
    \/ \E x \in Items : Compact(x)
    \/ Crash \/ Open

Spec == Init /\ [][Next]_vars

----------------------------------------------------------------------------
(* Types of the memtables, WAL generations, registry and control state.     *)
TypeOK ==
    /\ GensTypeOK
    /\ files \subseteq Gens
    /\ log \in [Gens -> SUBSET Frames]
    /\ unsynced \subseteq Gens \X Frames
    /\ tables \subseteq Items /\ mem \subseteq Items
    /\ wal_floor \in Gens /\ wal_gen \in Gens /\ pending \subseteq Gens
    /\ up \in BOOLEAN /\ poisoned \in BOOLEAN
    /\ imm \in Seq([items : SUBSET Items, gens : SUBSET Gens,
                    stage : {"sealed", "turn", "published", "retired"}])
    /\ rot \in {"idle", "preparing", "closing"}
    /\ registry \in [Ids -> 0..MaxPrepares] /\ entry_gen \in [Ids -> Gens] /\ retiring \subseteq Ids
    /\ op.kind \in {"idle", "write", "prepare", "commit", "abort"}
    /\ sweeps \in [Sweepers -> [due : BOOLEAN, gens : Seq(Gens), ids : SUBSET Ids]]

(* An acknowledged ordinary commit is in a table or would be replayed from  *)
(* its WAL if the process died now, whatever rotation, flush, fail-stop,    *)
(* sweep or earlier crash is under way; and while the database is healthy   *)
(* it can be read.  Not promised for the memtable of a failed flush that an *)
(* older flush overlooks (FloorMeansTabled).                                *)
AckedKept ==
    \A d \in acked \ (gone \cup abandoned) :
        /\ d \in tables \cup ReplayedData
        /\ (up /\ ~poisoned) =>
             d \in tables \cup mem \cup UNION {imm[k].items : k \in DOMAIN imm}

(* A transaction commit_prepared acknowledged is in a table, or a reopen    *)
(* rebuilds it from its prepare and decision frames, in two generations or  *)
(* one; an aborted one is nowhere and no reopen installs it.  Not promised  *)
(* for an id in exposed: a sweep ran between the frame reaching the log and *)
(* its pin or pair being recorded (commit_mu does not stop a flush from     *)
(* sweeping), a later sweep overtook the unlinks of an earlier one, or the  *)
(* id was used twice.  Nor for what a failed flush abandoned                *)
(* (FloorMeansTabled).                                                      *)
DecisionsKept ==
    \A i \in Ids \ exposed, n \in Prepares :
        /\ outcome[i][n] = "committed" /\ <<i, n>> \notin gone \cup abandoned =>
              <<i, n>> \in tables \cup ReplayedPrepares
        /\ outcome[i][n] = "aborted" =>
              <<i, n>> \notin tables \cup mem \cup ReplayedPrepares
                             \cup UNION {imm[k].items : k \in DOMAIN imm}

(* A prepare that returned Ok and was not yet resolved is registered again  *)
(* by any reopen: once pinned, its frame's generation outlives every flush  *)
(* of it.  Not promised for an id in exposed; PrepareOnDisk is the same     *)
(* without the exception.                                                   *)
PreparesKept ==
    \A i \in Ids \ exposed, n \in Prepares : outcome[i][n] = "prepared" => Reregistered(i, n)

(* A resolved prepare is never registered again: its frame is not on disk   *)
(* without its decision.  Not promised for an id in exposed: when a sweep   *)
(* runs between the decision frame and resolved(), or two callers unlink    *)
(* what two sweeps returned, the decision's file may go first.              *)
NoPhantomPrepare ==
    \A i \in Ids \ exposed, n \in Prepares :
        outcome[i][n] \in {"committed", "aborted"} => ~Reregistered(i, n)

(* What compaction dropped does not come back from a WAL generation a pin   *)
(* kept on disk; a prepared transaction whose id is in exposed excepted.    *)
NothingResurrected ==
    gone \cap (ReplayedData \cup {x \in ReplayedPrepares : x[1] \notin exposed}) = {}

(* With no prepare registered, no decision waiting for a flush and no call, *)
(* flush or sweep under way, the files are those the active memtable needs: *)
(* the pins and the ordering rule never withhold a generation for good.     *)
(* Only while no id is in exposed: a generation swept before its prepare    *)
(* pinned it leaves a pair whose first half is never swept again.           *)
NothingWithheld ==
    (/\ up /\ ~poisoned /\ op = Idle /\ imm = <<>> /\ exposed = {} /\ rot = "idle"
     /\ \A i \in Ids : registry[i] = 0
     /\ \A t \in tombs : t.decision_gen \notin pending
     /\ \A s \in Sweepers : sweeps[s] = NoSweep)
        => files = pending

(* What Txn::prepare says of Ok: the writeset is on disk, until a decision. *)
PrepareOnDisk ==
    \A i \in Ids, n \in Prepares :
        outcome[i][n] = "prepared" => OnDisk(<<"prepare", i, n>>) # {}

(* Every data record below the replay floor is in a table, or was in one    *)
(* before compaction removed it.                                            *)
FloorMeansTabled ==
    \A d \in Data, g \in files :
        <<"data", d>> \in log[g] /\ g < wal_floor => d \in tables \cup gone

(* An id that was prepared and resolved is not accepted again while a frame *)
(* of it is on disk, so no log holds the frames of two prepares of one id   *)
(* that both returned Ok, and the log opens.  (A prepare that failed after  *)
(* its append left a frame too; a retry of it is not what this is about.)   *)
PrepareIdsUnique ==
    \A i \in Ids : Cardinality({p \in PreparesOf(i) : outcome[i][p[2]] # "none"}) <= 1
==============================================================================
