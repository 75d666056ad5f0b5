----------------------------- MODULE Catalog -----------------------------
(***************************************************************************)
(* The catalog: MANIFEST (manifest.rs), its edit log MANIFEST-EDITS        *)
(* (manifest_edit.rs) and the transaction that changes it (db.rs           *)
(* catalog_txn_built, write_snapshot, enable_capability), with the table   *)
(* files its callers write before and unlink after.  Jobs prepare in       *)
(* parallel and take manifest_mu; the database may crash at any step.      *)
(*                                                                         *)
(* A table is its id, level and tier; a family its tables in catalog order *)
(* and its unified id.  Bytes, checksums, key ranges and configs are left *)
(* out.  A crash is a machine crash: of an unsynced log tail nothing, a    *)
(* torn prefix, or everything survives.                                    *)
(***************************************************************************)
EXTENDS Integers, Sequences, FiniteSets, SequencesExt, Turns

CONSTANTS
    CatJobs,                    \* threads that change the catalog
    CatKinds,                   \* what they may do
    MAX_EDITS_BEFORE_SNAPSHOT,
    MaxCatJobs, MaxCatCrashes, MaxCatFaults, MaxCatIds      \* bounds

VARIABLES
    manifestFile,   \* MANIFEST on disk
    editLog,        \* MANIFEST-EDITS on disk: [base, recs, synced, torn], or NoLog;
                    \* torn is the place of a partial record, 0 if none
    catFiles,       \* table files on disk
    levels,         \* the in-memory catalog: family -> [tabs, uid, inst]
    marks,          \* in-memory nonce, layout and replay floor
    caps,           \* the active capability word
    caps_durable,   \* the staged one
    edit_log,       \* EditLogState: [log, count, generation, applied, next]
    next_file_id,
    catJob,         \* job -> what it is doing
    manifest_mu,    \* the job holding the mutex, or 0
    catPoison,
    catDoubt,       \* a change given up in memory may be on disk (ghost)
    catBudget       \* jobs, crashes and faults used

catalogVars == <<manifestFile, editLog, catFiles, levels, marks, caps, caps_durable,
                 edit_log, next_file_id, catJob, manifest_mu, catPoison, catDoubt, catBudget>>

TheFamily == "cf"               \* one family name is enough: edits name one
CfId == 1                       \* the id unified::cf_id derives from its name
NoLog == [base |-> -1, recs |-> <<>>, synced |-> 0, torn |-> 0]
NoMarks == [nonce |-> 0, unified |-> FALSE, floor |-> 0]
Corrupt == [corrupt |-> TRUE]
NoCatJob == [at |-> "idle"]

-----------------------------------------------------------------------------
(* Edits: a sequence of ops, one record [op, cf, id, level, ids, v] each,  *)
(* and their encoding as a run of fields whose number depends on the op.   *)
(* An UpdateTable carries its field mask in v and the new tier in level.   *)

OP_ADD_TABLE == 1
OP_REMOVE_TABLE == 2
OP_UPDATE_TABLE == 3
OP_CREATE_CF == 4
OP_DROP_CF == 5
OP_SET_WAL_LAYOUT == 9
OP_SET_NONCE == 10
OP_REMOVE_TABLES == 12
OP_SET_CF_UNIFIED_ID == 13
OP_SET_WAL_FLOOR == 14
MASK_TIER == 2

AnOp == [op |-> 0, cf |-> TheFamily, id |-> 0, level |-> 0, ids |-> <<>>, v |-> 0]
AddTable(id, level) == [AnOp EXCEPT !.op = OP_ADD_TABLE, !.id = id, !.level = level]
Relocate(id, tier) == [AnOp EXCEPT !.op = OP_UPDATE_TABLE, !.id = id, !.level = tier, !.v = MASK_TIER]
RemoveTables(ids) == [AnOp EXCEPT !.op = OP_REMOVE_TABLES, !.ids = ids]
OpOf(code, v) == [AnOp EXCEPT !.op = code, !.v = v]

encode_op(o) ==
    <<o.op>> \o
    CASE o.op = OP_ADD_TABLE -> <<o.cf, o.id, o.level>>
      [] o.op = OP_REMOVE_TABLE -> <<o.cf, o.id, o.level>>
      [] o.op = OP_UPDATE_TABLE -> <<o.cf, o.id, o.v, o.level>>
      [] o.op = OP_REMOVE_TABLES -> <<o.cf, Len(o.ids)>> \o o.ids
      [] o.op = OP_SET_CF_UNIFIED_ID -> <<o.cf, o.v>>
      [] o.op \in {OP_CREATE_CF, OP_DROP_CF} -> <<o.cf>>
      [] OTHER -> <<o.v>>

encode_record(id, ops) == <<id, Len(ops)>> \o FlattenSeq([i \in DOMAIN ops |-> encode_op(ops[i])])

\* One op read at offset at: the op and the offset after it.
decode_op(p, at) ==
    LET code == p[at]
        read(o, n) == [o |-> o, at |-> at + 1 + n]
    IN  CASE code \in {OP_ADD_TABLE, OP_REMOVE_TABLE} ->
               read([AnOp EXCEPT !.op = code, !.cf = p[at+1], !.id = p[at+2], !.level = p[at+3]], 3)
          [] code = OP_UPDATE_TABLE ->
               read([AnOp EXCEPT !.op = code, !.cf = p[at+1], !.id = p[at+2], !.v = p[at+3],
                                 !.level = p[at+4]], 4)
          [] code = OP_REMOVE_TABLES ->
               read([AnOp EXCEPT !.op = code, !.cf = p[at+1],
                                 !.ids = SubSeq(p, at + 3, at + 2 + p[at+2])], 2 + p[at+2])
          [] code = OP_SET_CF_UNIFIED_ID -> read([AnOp EXCEPT !.op = code, !.cf = p[at+1], !.v = p[at+2]], 2)
          [] code \in {OP_CREATE_CF, OP_DROP_CF} -> read([AnOp EXCEPT !.op = code, !.cf = p[at+1]], 1)
          [] OTHER -> read([AnOp EXCEPT !.op = code, !.v = p[at+1]], 1)

\* A record's id and its ops; the payload must be consumed exactly.
decode_payload(p) ==
    LET step(acc, i) == LET r == decode_op(p, acc.at)
                        IN  [ops |-> Append(acc.ops, r.o), at |-> r.at]
        all == InTurn(step, [ops |-> <<>>, at |-> 3], [i \in 1 .. p[2] |-> i])
    IN  [id |-> p[1], ops |-> all.ops, ok |-> all.at = Len(p) + 1]

-----------------------------------------------------------------------------
(* Replay: validate_op and mutate, on a manifest [cfs, caps, marks, ...].  *)

IdsOf(tabs) == {tabs[i].id : i \in DOMAIN tabs}
LevelOf(tabs, id) == tabs[CHOOSE i \in DOMAIN tabs : tabs[i].id = id].level
Without1(tabs, ids) == SelectSeq(tabs, LAMBDA t : t.id \notin ids)
WithCf(cfs, n, f) == [m \in DOMAIN cfs \cup {n} |-> IF m = n THEN f ELSE cfs[m]]
WithoutCf(cfs, n) == [m \in DOMAIN cfs \ {n} |-> cfs[m]]

validate_op(m, o) ==
    LET exists == o.cf \in DOMAIN m.cfs
        tabs == IF exists THEN m.cfs[o.cf].tabs ELSE <<>>
    IN  CASE o.op = OP_ADD_TABLE -> exists /\ o.id \notin IdsOf(tabs)
          [] o.op = OP_REMOVE_TABLE -> o.id \in IdsOf(tabs) /\ LevelOf(tabs, o.id) = o.level
          [] o.op = OP_UPDATE_TABLE -> o.v # 0 /\ o.id \in IdsOf(tabs)
          [] o.op = OP_REMOVE_TABLES -> ToSet(o.ids) \subseteq IdsOf(tabs) /\ IsInjective(o.ids)
          [] o.op = OP_CREATE_CF -> ~exists
          [] o.op = OP_DROP_CF -> exists /\ tabs = <<>>
          [] o.op = OP_SET_CF_UNIFIED_ID -> exists
          [] o.op = OP_SET_WAL_LAYOUT -> ~m.marks.unified
          [] o.op = OP_SET_NONCE -> m.marks.nonce = 0
          [] o.op = OP_SET_WAL_FLOOR -> m.marks.unified /\ o.v > m.marks.floor

\* Where a replayed table lands: L0 is newest first.
PlaceAtEnd(tabs, t) == Append(tabs, t)
PlaceAddTable(tabs, t) == IF t.level = 0 THEN <<t>> \o tabs ELSE Append(tabs, t)

mutate(m, o) ==
    LET fam == m.cfs[o.cf]
        put(tabs) == [m EXCEPT !.cfs = WithCf(@, o.cf, [fam EXCEPT !.tabs = tabs])]
    IN  CASE o.op = OP_ADD_TABLE -> put(PlaceAddTable(fam.tabs, [id |-> o.id, level |-> o.level, tier |-> 0]))
          [] o.op = OP_REMOVE_TABLE -> put(Without1(fam.tabs, {o.id}))
          [] o.op = OP_UPDATE_TABLE -> put([i \in DOMAIN fam.tabs |->
                IF fam.tabs[i].id = o.id THEN [fam.tabs[i] EXCEPT !.tier = o.level] ELSE fam.tabs[i]])
          [] o.op = OP_REMOVE_TABLES -> put(Without1(fam.tabs, ToSet(o.ids)))
          [] o.op = OP_CREATE_CF -> [m EXCEPT !.cfs = WithCf(@, o.cf, [tabs |-> <<>>, uid |-> 0])]
          [] o.op = OP_DROP_CF -> [m EXCEPT !.cfs = WithoutCf(@, o.cf)]
          [] o.op = OP_SET_CF_UNIFIED_ID -> [m EXCEPT !.cfs = WithCf(@, o.cf,
                [fam EXCEPT !.uid = IF o.v = CfId THEN 0 ELSE o.v])]
          [] o.op = OP_SET_WAL_LAYOUT -> [m EXCEPT !.marks.unified = TRUE]
          [] o.op = OP_SET_NONCE -> [m EXCEPT !.marks.nonce = o.v]
          [] o.op = OP_SET_WAL_FLOOR -> [m EXCEPT !.marks.floor = o.v]

\* All or nothing: a failed precondition anywhere is corruption.
apply_edit(m, ops) ==
    InTurn(LAMBDA acc, o : IF acc = Corrupt THEN acc
                             ELSE IF validate_op(acc, o) THEN mutate(acc, o) ELSE Corrupt, m, ops)

-----------------------------------------------------------------------------
(* The files.  Manifest::encode leaves out a unified id that equals the    *)
(* derived one; decoding reads its absence back as the derived one.        *)

encode_manifest(m) ==
    [m EXCEPT !.cfs = [n \in DOMAIN m.cfs |->
        [tabs |-> m.cfs[n].tabs, uid |-> IF m.cfs[n].uid = CfId THEN 0 ELSE m.cfs[n].uid]]]

\* decode_records stops at a torn record; a CRC-valid one that does not parse is corruption.
decode_records(recs) == [i \in DOMAIN recs |-> decode_payload(recs[i])]

TableIds(cfs) == UNION {IdsOf(cfs[n].tabs) : n \in DOMAIN cfs}
MaxOf(S) == CHOOSE x \in S \cup {0} : \A y \in S : y <= x
reconciled(m) == [m EXCEPT !.next_file_id = MaxOf({@, MaxOf(TableIds(m.cfs)) + 1})]

\* Rules r1-r7: the snapshot, then every record above its applied_through, which
\* are contiguous from the log's base.
replayed(m, recs) ==
    LET step(acc, rec) ==
            IF acc = Corrupt \/ rec.id <= m.applied THEN acc
            ELSE CHOOSE r \in {IF n = Corrupt THEN n ELSE [n EXCEPT !.applied = rec.id, !.next = rec.id + 1] :
                                n \in {apply_edit(acc, rec.ops)}} : TRUE
    IN  InTurn(step, m, recs)

recover_catalog(m, recs, base) ==
    LET legal == /\ "edits" \in m.caps
                 /\ base <= m.applied
                 /\ \A i \in DOMAIN recs : recs[i].ok /\ recs[i].id = base + i
        reconcile(c) == IF c = Corrupt THEN c ELSE reconciled(c)
    IN  IF base = NoLog.base THEN reconciled(m)
        ELSE IF ~legal THEN Corrupt
        ELSE CHOOSE r \in {reconcile(c) : c \in {replayed(m, recs)}} : TRUE

Recovered(n) ==
    IF editLog.torn \in 1 .. n THEN Corrupt         \* bytes after a torn record fail its CRC
    ELSE CHOOSE m \in {recover_catalog(manifestFile, recs, editLog.base) :
                        recs \in {decode_records(SubSeq(editLog.recs, 1, n))}} : TRUE

-----------------------------------------------------------------------------
(* Jobs.  A job holds its request, the edit it will append, the files it   *)
(* wrote, the ones it will unlink, and the level set to roll back to.      *)

FilesOf(fam) == {<<fam.tabs[i].id, fam.tabs[i].tier>> : i \in DOMAIN fam.tabs}
NamedFiles(cfs) == UNION {FilesOf(cfs[n]) : n \in DOMAIN cfs}

Alive == TheFamily \in DOMAIN levels
Fam == levels[TheFamily]
Running(kinds) == {j \in CatJobs : catJob[j].at # "idle" /\ catJob[j].kind \in kinds}
Claimed == UNION {catJob[j].ids : j \in Running({"compact", "move"})}

Begin(j, kind, ids, new, ops, mine) ==
    /\ catJob' = [catJob EXCEPT ![j] =
            [at |-> "ready", kind |-> kind, ids |-> ids, new |-> new, ops |-> ops,
             mine |-> mine, drop |-> {}, was |-> levels,
             inst |-> IF Alive THEN Fam.inst ELSE 0]]
    /\ catFiles' = catFiles \cup mine
    /\ UNCHANGED <<manifestFile, editLog, levels, marks, caps, edit_log, manifest_mu, catPoison, catDoubt>>

\* A flush writes its table before it takes the mutex.
FlushJob(j) ==
    /\ Alive
    /\ Begin(j, "flush", {}, next_file_id, <<AddTable(next_file_id, 0)>>, {<<next_file_id, 0>>})
    /\ next_file_id' = next_file_id + 1 /\ UNCHANGED caps_durable

\* A compaction holds a range lock over its inputs until it has retired them.
CompactJob(j) ==
    /\ Alive /\ Fam.tabs # <<>> /\ Claimed \cap IdsOf(Fam.tabs) = {}
    /\ LET ids == IdsOf(Fam.tabs)
       IN  Begin(j, "compact", ids, next_file_id,
                 <<RemoveTables([i \in DOMAIN Fam.tabs |-> Fam.tabs[i].id]), AddTable(next_file_id, 1)>>,
                 {<<next_file_id, 0>>})
    /\ next_file_id' = next_file_id + 1 /\ UNCHANGED caps_durable

\* A part move copies bottom-level tables to the other tier before the flip.
MoveJob(j) ==
    /\ Alive
    /\ \E i \in DOMAIN Fam.tabs :
         LET t == Fam.tabs[i]
         IN  /\ t.level = 1 /\ t.tier = 0 /\ t.id \notin Claimed
             /\ Begin(j, "move", {t.id}, 0, <<Relocate(t.id, 1)>>, {<<t.id, 1>>})
    /\ UNCHANGED <<next_file_id, caps_durable>>

\* Create, drop and clear hold ddl_mu; the last two build their edit under manifest_mu.
DdlJob(j, kind, uid) ==
    /\ Running({"create", "drop", "clear"}) = {}
    /\ (kind = "create") # Alive
    /\ Begin(j, kind, {}, uid, <<>>, {})
    /\ UNCHANGED <<next_file_id, caps_durable>>

\* Nonce and layout are settled at open, before anything else runs.
OpenJob(j) ==
    /\ Running(CatKinds) = {} /\ ~marks.unified
    /\ Begin(j, "mark", {}, 0,
             <<IF marks.nonce = 0 THEN OpOf(OP_SET_NONCE, 7) ELSE OpOf(OP_SET_WAL_LAYOUT, 1)>>, {})
    /\ UNCHANGED <<next_file_id, caps_durable>>

\* enable_capability stages the bit before the manifest write.
EnableJob(j) ==
    /\ "edits" \notin caps /\ Running({"enable"}) = {}
    /\ Begin(j, "enable", {}, 0, <<>>, {})
    /\ caps_durable' = caps_durable \cup {"edits"} /\ UNCHANGED next_file_id

StartJob(j) ==
    /\ catJob[j] = NoCatJob /\ ~catPoison /\ catBudget.jobs < MaxCatJobs
    /\ next_file_id <= MaxCatIds /\ Running({"mark"}) = {}
    /\ catBudget' = [catBudget EXCEPT !.jobs = @ + 1]
    /\ \/ "flush" \in CatKinds /\ FlushJob(j)
       \/ "compact" \in CatKinds /\ CompactJob(j)
       \/ "move" \in CatKinds /\ MoveJob(j)
       \/ \E kind \in CatKinds \cap {"create", "drop", "clear"}, uid \in {CfId, CfId + 1} :
            DdlJob(j, kind, uid)
       \/ "mark" \in CatKinds /\ OpenJob(j)
       \/ "enable" \in CatKinds /\ EnableJob(j)

-----------------------------------------------------------------------------
(* The transaction: catalog_txn_built and write_snapshot.                  *)

SetJob(j, r) == catJob' = [catJob EXCEPT ![j] = r]
At(j, at) == catJob[j].at = at
To(j, at) == SetJob(j, [catJob[j] EXCEPT !.at = at])
CatFault == catBudget.faults < MaxCatFaults /\ catBudget' = [catBudget EXCEPT !.faults = @ + 1]
Leave == manifest_mu' = 0

drop_cf_ops == (IF Fam.tabs = <<>> THEN <<>> ELSE <<RemoveTables([i \in DOMAIN Fam.tabs |-> Fam.tabs[i].id])>>)
               \o <<OpOf(OP_DROP_CF, 0)>>
create_ops(uid) == <<OpOf(OP_CREATE_CF, 0)>>
                   \o (IF uid = CfId THEN <<>> ELSE <<OpOf(OP_SET_CF_UNIFIED_ID, uid)>>)

\* The edit as built under the mutex; a unified flush also moves the floor.
BuiltEdit(job) ==
    CASE job.kind = "create" -> create_ops(job.new)
      [] job.kind = "drop" -> drop_cf_ops
      [] job.kind = "clear" -> drop_cf_ops \o create_ops(job.new)
      [] job.kind = "flush" /\ marks.unified -> job.ops \o <<OpOf(OP_SET_WAL_FLOOR, marks.floor + 1)>>
      [] OTHER -> job.ops

\* What each operation unlinks once its edit is durable.
Obsolete(job) ==
    CASE job.kind = "compact" -> {f \in NamedFiles(levels) : f[1] \in job.ids}
      [] job.kind = "move" -> {<<i, 0>> : i \in job.ids}
      [] job.kind \in {"drop", "clear"} -> NamedFiles(levels)
      [] OTHER -> {}

\* A compaction that gets an error removes its own outputs; nothing else does.
Abandoned(job) == IF job.kind = "compact" THEN job.mine ELSE {}

Fenced(job) ==
    job.kind \in {"flush", "compact", "move"} => Alive /\ Fam.inst = job.inst

GiveUp(j) ==
    /\ SetJob(j, NoCatJob)
    /\ catFiles' = catFiles \ Abandoned(catJob[j])
    /\ caps_durable' = IF catJob[j].kind = "enable" THEN caps ELSE caps_durable

\* The fail-stop check comes before the mutex and is not repeated under it.
CheckPoison(j) ==
    /\ At(j, "ready")
    /\ IF catPoison THEN GiveUp(j) ELSE To(j, "waiting") /\ UNCHANGED <<catFiles, caps_durable>>
    /\ UNCHANGED <<manifestFile, editLog, levels, marks, caps, edit_log, next_file_id,
                   manifest_mu, catPoison, catDoubt, catBudget>>

EnterTxn(j) ==
    /\ At(j, "waiting") /\ manifest_mu = 0
    /\ IF ~Fenced(catJob[j])
       THEN GiveUp(j) /\ UNCHANGED manifest_mu
       ELSE /\ manifest_mu' = j
            /\ SetJob(j, [catJob[j] EXCEPT
                   !.ops = BuiltEdit(catJob[j]), !.drop = Obsolete(catJob[j]), !.was = levels,
                   !.at = IF catJob[j].kind = "enable" THEN "save"
                          ELSE IF edit_log.log THEN "append" ELSE "show"])
            /\ UNCHANGED <<catFiles, caps_durable>>
    /\ UNCHANGED <<manifestFile, editLog, levels, marks, caps, edit_log, next_file_id,
                   catPoison, catDoubt, catBudget>>

\* EditLog::append: one write, then the fsync that commits the edit.
AppendRecord(j) ==
    /\ At(j, "append") /\ To(j, "fsync")
    /\ editLog' = [editLog EXCEPT !.recs = Append(@, encode_record(edit_log.next, catJob[j].ops))]
    /\ catDoubt' = (catDoubt \/ catPoison)
    /\ UNCHANGED <<manifestFile, catFiles, levels, marks, caps, caps_durable, edit_log,
                   next_file_id, manifest_mu, catPoison, catBudget>>

SyncRecord(j) ==
    /\ At(j, "fsync") /\ To(j, "publish")
    /\ editLog' = [editLog EXCEPT !.synced = Len(editLog.recs)]
    /\ edit_log' = [edit_log EXCEPT !.next = @ + 1, !.count = @ + 1]
    /\ UNCHANGED <<manifestFile, catFiles, levels, marks, caps, caps_durable, next_file_id,
                   manifest_mu, catPoison, catDoubt, catBudget>>

\* A failed append fail-stops; its record may still be in the file.
AppendFails(j) ==
    /\ catJob[j].at \in {"append", "fsync"} /\ CatFault
    /\ catPoison' = TRUE /\ Leave /\ To(j, "failed")
    /\ catFiles' = catFiles \ Abandoned(catJob[j])
    /\ catDoubt' = (catDoubt \/ (At(j, "fsync") /\ catJob[j].kind = "compact"))
    /\ editLog' \in IF At(j, "append") THEN {editLog, [editLog EXCEPT !.torn = Len(editLog.recs) + 1]}
                   ELSE {editLog}
    /\ UNCHANGED <<manifestFile, levels, marks, caps, caps_durable, edit_log, next_file_id>>

\* The publish closures: the same change, made to the in-memory level sets.
Installed(job) ==
    LET fam == levels[TheFamily]
        with(tabs) == WithCf(levels, TheFamily, [fam EXCEPT !.tabs = tabs])
        fresh == [tabs |-> <<>>, uid |-> job.new, inst |-> catBudget.jobs]
    IN  CASE job.kind = "flush" -> with(<<[id |-> job.new, level |-> 0, tier |-> 0]>> \o fam.tabs)
          [] job.kind = "compact" -> with(Without1(fam.tabs, job.ids)
                                          \o <<[id |-> job.new, level |-> 1, tier |-> 0]>>)
          [] job.kind = "move" -> with([i \in DOMAIN fam.tabs |->
                IF fam.tabs[i].id \in job.ids THEN [fam.tabs[i] EXCEPT !.tier = 1] ELSE fam.tabs[i]])
          [] job.kind = "drop" -> WithoutCf(levels, TheFamily)
          [] job.kind \in {"create", "clear"} -> WithCf(levels, TheFamily, fresh)
          [] OTHER -> levels

Marked(job) ==
    LET o == job.ops[Len(job.ops)]
    IN  IF o.op = OP_SET_NONCE THEN [marks EXCEPT !.nonce = o.v]
        ELSE IF o.op = OP_SET_WAL_LAYOUT THEN [marks EXCEPT !.unified = TRUE]
        ELSE IF o.op = OP_SET_WAL_FLOOR THEN [marks EXCEPT !.floor = o.v]
        ELSE marks

snapshot_due == edit_log.count > MAX_EDITS_BEFORE_SNAPSHOT

PublishEdit(j) ==
    /\ catJob[j].at \in {"publish", "show"}
    /\ levels' = Installed(catJob[j]) /\ marks' = Marked(catJob[j])
    /\ IF At(j, "show") \/ snapshot_due
       THEN To(j, "save") /\ UNCHANGED manifest_mu
       ELSE To(j, "retire") /\ Leave
    /\ UNCHANGED <<manifestFile, editLog, catFiles, caps, caps_durable, edit_log, next_file_id,
                   catPoison, catDoubt, catBudget>>

SnapshotOf ==
    LET edits == "edits" \in caps_durable
    IN  encode_manifest([cfs |-> levels, caps |-> caps_durable, marks |-> marks,
            next_file_id |-> next_file_id,
            generation |-> IF edits THEN edit_log.generation + 1 ELSE edit_log.generation,
            applied |-> IF edits THEN edit_log.next - 1 ELSE edit_log.applied,
            next |-> edit_log.next])

\* Manifest::save: MANIFEST.tmp, fsync, rename, directory fsync.
SaveManifest(j) ==
    /\ At(j, "save") /\ manifestFile' = SnapshotOf
    /\ IF "edits" \in caps_durable
       THEN To(j, "newlog") /\ UNCHANGED <<manifest_mu, caps>>
       ELSE To(j, "retire") /\ Leave /\ UNCHANGED caps
    /\ UNCHANGED <<editLog, catFiles, levels, marks, caps_durable, edit_log, next_file_id,
                   catPoison, catDoubt, catBudget>>

\* EditLog::create: a fresh log replaces the old one by rename.
CreateLog(j) ==
    /\ At(j, "newlog") /\ To(j, "retire") /\ Leave
    /\ editLog' = [NoLog EXCEPT !.base = manifestFile.applied]
    /\ edit_log' = [log |-> TRUE, count |-> 0, generation |-> manifestFile.generation,
                    applied |-> manifestFile.applied, next |-> manifestFile.applied + 1]
    /\ caps' = IF catJob[j].kind = "enable" THEN caps_durable ELSE caps
    /\ UNCHANGED <<manifestFile, catFiles, levels, marks, caps_durable, next_file_id,
                   catPoison, catDoubt, catBudget>>

\* With a log the edit has committed and the error is dropped; without one the
\* caller gets it: a compaction rolls its level set back and unlinks its outputs,
\* an enable takes its staged bit back.
SnapshotFailurePropagates(j) == TRUE
SnapshotFailureReturned(j) == ~edit_log.log \/ catJob[j].kind = "enable"
SnapshotFails(j) ==
    /\ catJob[j].at \in {"save", "newlog"} /\ CatFault
    /\ catPoison' = TRUE
    /\ IF SnapshotFailureReturned(j) /\ catJob[j].kind = "compact" THEN UNCHANGED manifest_mu ELSE Leave
    /\ manifestFile' \in IF At(j, "save") THEN {manifestFile, SnapshotOf} ELSE {manifestFile}
    /\ IF SnapshotFailureReturned(j)
       THEN /\ To(j, IF catJob[j].kind = "compact" THEN "undo" ELSE "failed")
            /\ caps_durable' = IF catJob[j].kind = "enable" THEN caps ELSE caps_durable
       ELSE To(j, "retire") /\ UNCHANGED caps_durable
    /\ UNCHANGED <<editLog, catFiles, levels, marks, caps, edit_log, next_file_id, catDoubt>>

RollBack(j) ==
    /\ At(j, "undo") /\ To(j, "failed") /\ Leave
    /\ levels' = WithCf(levels, TheFamily, [Fam EXCEPT !.tabs =
            Without1(@, {catJob[j].new})
            \o SelectSeq(catJob[j].was[TheFamily].tabs, LAMBDA t : t.id \in catJob[j].ids)])
    /\ catFiles' = catFiles \ Abandoned(catJob[j])
    /\ catDoubt' = (catDoubt \/ Abandoned(catJob[j]) \cap NamedFiles(manifestFile.cfs) # {})
    /\ UNCHANGED <<manifestFile, editLog, marks, caps, caps_durable, edit_log, next_file_id,
                   catPoison, catBudget>>

\* Files go only once the edit that stops naming them is durable.
RetireFiles(j) ==
    /\ At(j, "retire") /\ SetJob(j, NoCatJob)
    /\ catFiles' = catFiles \ catJob[j].drop
    /\ UNCHANGED <<manifestFile, editLog, levels, marks, caps, caps_durable, edit_log,
                   next_file_id, manifest_mu, catPoison, catDoubt, catBudget>>

-----------------------------------------------------------------------------
(* Crash and open.                                                         *)

\* sweep_move_orphans visits only catalogued families.
Misplaced(cfs, f) ==
    /\ TheFamily \in DOMAIN cfs
    /\ f \notin FilesOf(cfs[TheFamily])
    /\ f[2] = 0 \/ f[1] \in IdsOf(cfs[TheFamily].tabs)

\* The open: temp files go, the catalog is recovered from the first n records,
\* a torn tail is truncated and orphans are swept.
CrashAndOpen(n) ==
    \E m \in {Recovered(n)} :
        /\ catBudget.crashes < MaxCatCrashes /\ m # Corrupt
        /\ catBudget' = [catBudget EXCEPT !.crashes = @ + 1]
        /\ levels' = [c \in DOMAIN m.cfs |-> [tabs |-> m.cfs[c].tabs, inst |-> 0,
                          uid |-> IF m.cfs[c].uid = 0 THEN CfId ELSE m.cfs[c].uid]]
        /\ marks' = m.marks /\ caps' = m.caps /\ caps_durable' = m.caps
        /\ editLog' = [editLog EXCEPT !.recs = SubSeq(@, 1, n), !.synced = n, !.torn = 0]
        /\ edit_log' = [log |-> editLog # NoLog, count |-> n, generation |-> m.generation,
                        applied |-> m.applied, next |-> m.next]
        /\ next_file_id' = m.next_file_id
        /\ catFiles' = {f \in catFiles : ~Misplaced(m.cfs, f)}
        /\ catJob' = [j \in CatJobs |-> NoCatJob] /\ manifest_mu' = 0
        /\ catPoison' = FALSE
        /\ UNCHANGED <<manifestFile, catDoubt>>

\* A database just created, or one that has had the edit log enabled.
CatalogStart(start) ==
    /\ manifestFile = [cfs |-> [c \in {TheFamily} |-> [tabs |-> <<>>, uid |-> 0]], caps |-> start,
                       marks |-> NoMarks, next_file_id |-> 1, applied |-> 0, next |-> 1,
                       generation |-> IF start = {} THEN 0 ELSE 1]
    /\ editLog = [NoLog EXCEPT !.base = IF start = {} THEN @ ELSE 0]
    /\ caps = start /\ caps_durable = start
    /\ edit_log = [log |-> start # {}, count |-> 0, generation |-> manifestFile.generation,
                   applied |-> 0, next |-> 1]
    /\ levels = [c \in {TheFamily} |-> [tabs |-> <<>>, uid |-> CfId, inst |-> 0]]
    /\ marks = NoMarks /\ catFiles = {} /\ next_file_id = 1
    /\ catJob = [j \in CatJobs |-> NoCatJob] /\ manifest_mu = 0
    /\ catPoison = FALSE /\ catDoubt = FALSE
    /\ catBudget = [jobs |-> 0, crashes |-> 0, faults |-> 0]

CatalogInit == \E start \in {{}, {"edits"}} : CatalogStart(start)

CatalogNext ==
    \/ \E j \in CatJobs :
         \/ StartJob(j) \/ CheckPoison(j) \/ EnterTxn(j)
         \/ AppendRecord(j) \/ SyncRecord(j) \/ AppendFails(j)
         \/ PublishEdit(j) \/ SaveManifest(j) \/ CreateLog(j) \/ SnapshotFails(j)
         \/ RollBack(j) \/ RetireFiles(j)
    \/ \E n \in editLog.synced .. Len(editLog.recs) : CrashAndOpen(n)

CatalogSpec == CatalogInit /\ [][CatalogNext]_catalogVars

-----------------------------------------------------------------------------
(* Properties.                                                             *)

FamilyView(fam) ==
    LET ids(Test(_)) == {fam.tabs[i].id : i \in {k \in DOMAIN fam.tabs : Test(fam.tabs[k])}}
        l0 == SelectSeq(fam.tabs, LAMBDA t : t.level = 0)
    IN  [l0 |-> [i \in DOMAIN l0 |-> l0[i].id], deep |-> ids(LAMBDA t : t.level > 0),
         cold |-> ids(LAMBDA t : t.tier = 1), uid |-> IF fam.uid = 0 THEN CfId ELSE fam.uid]
ViewOf(cfs) == [c \in DOMAIN cfs |-> FamilyView(cfs[c])]
RecoveredView ==
    CHOOSE v \in {IF m = Corrupt THEN <<>> ELSE ViewOf(m.cfs) : m \in {Recovered(editLog.synced)}} : TRUE

RequestOf(j) ==
    IF catJob[j].at = "idle" THEN [kind |-> "none"]
    ELSE [kind |-> catJob[j].kind, cf |-> TheFamily, ids |-> catJob[j].ids, new |-> catJob[j].new]

Promise == INSTANCE CatalogAbstract WITH
    durable <- RecoveredView,
    shown <- ViewOf(levels),
    asked <- [j \in CatJobs |-> RequestOf(j)],
    logged <- edit_log.log

\* Every step of the files, the mutex and the jobs is a step of the catalog's
\* promise: an edit reaches disk whole and once, is seen by readers only when it
\* is durable, and a reopen after a crash shows what was durable with at most the
\* one edit in flight - in the level order readers had.  After a job appended
\* behind a fail-stop (it had passed the poison check) nothing is claimed.
CatalogImplements ==
    Promise!AbstractInit
    /\ [][catalogVars' # catalogVars => Promise!AbstractNext \/ catDoubt']_catalogVars

\* Whatever a crash leaves of the log, the open recovers a catalog (recover_catalog
\* finds no corruption), every table it names has its file on the tier it names,
\* and the allocator is past every id it names.
EveryCrashOpens ==
    (~catDoubt /\ catBudget.jobs > 0) =>
      \A n \in editLog.synced .. Len(editLog.recs) :
        \E m \in {Recovered(n)} :
            /\ m # Corrupt
            /\ NamedFiles(m.cfs) \subseteq catFiles
            /\ \A id \in TableIds(m.cfs) : id < m.next_file_id

\* A failed append leaves a log the next open accepts: the record is written in
\* one write_all, so what a failure or crash leaves is a torn tail (EditLog::append).
FailedEditReopens ==
    \A n \in editLog.synced .. Len(editLog.recs) : Recovered(n) # Corrupt
=============================================================================
