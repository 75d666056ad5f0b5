-------------------------------- MODULE Lsm --------------------------------
(***************************************************************************)
(* One column family as its readers see it: writes, rotation and flush,    *)
(* snapshots, background, manual and range compactions under the range     *)
(* locks (compaction.rs, range_lock.rs), excise (excise.rs) and bulk       *)
(* ingestion (ingest.rs), against what was written (lsmWritten).           *)
(*                                                                         *)
(* A compaction worker picks its inputs, then takes the lock and merges,   *)
(* then installs: three steps others run between.  Which job is due is     *)
(* left open, since every threshold is configuration.  The catalog edit    *)
(* and the publication of a flush are modules Catalog and Family.          *)
(*                                                                         *)
(* lsmTaint names the events after which the code no longer keeps the      *)
(* reads exact; the exploration stops there.                               *)
(***************************************************************************)
EXTENDS Reads, MergeRun

CONSTANTS
    Compactors,         \* compaction worker threads
    LsmScenarios,       \* what runs together, one chosen at the start (below)
    l1_file_count_trigger

(* A scenario is [actors, workers, writes, maxWrites, maxPins, maxMoves]:  *)
(* the optional actors, the workers that run, what may be written          *)
(* ([range, k, kind, ttl, start, end]) and how much: writes, snapshots     *)
(* held at once, and flushes, jobs and ingestions together.                *)

VARIABLES
    lsmMode,            \* the scenario
    lsmSeq,             \* the visible sequence
    lsmNow,             \* the clock: a TTL of 1 expires when it reads 1
    lsmMem, lsmImms,    \* active and sealed memtables
    lsmLevels,          \* lsmLevels[1] is level 0, newest first
    lsmPins,            \* sequences of the live snapshots
    lsmId,              \* next file id
    lsmFiles,           \* ids of the table files on disk
    lsmWork,            \* worker -> its job
    lsmIngest,          \* the ingestion in progress
    lsmWritten, lsmTaint, lsmMoves      \* ghosts and the budget

lsmVars == <<lsmMode, lsmSeq, lsmNow, lsmMem, lsmImms, lsmLevels, lsmPins, lsmId, lsmFiles, lsmWork,
             lsmIngest, lsmWritten, lsmTaint, lsmMoves>>

IdleJob == [stage |-> "idle"]
NoIngest == [seq |-> 0]
UserKeys == 1 .. KeyTop - 1

LsmInitIn(scenarios) ==
    /\ lsmMode \in scenarios
    /\ lsmSeq = 0 /\ lsmNow = 0
    /\ lsmMem = NewMemtable /\ lsmImms = <<>>
    /\ lsmLevels = <<<<>>>>
    /\ lsmPins = {} /\ lsmId = 1 /\ lsmFiles = {}
    /\ lsmWork = [c \in Compactors |-> IdleJob]
    /\ lsmIngest = NoIngest
    /\ lsmWritten = {} /\ lsmTaint = {} /\ lsmMoves = 0

LsmState == [mem |-> lsmMem, imms |-> lsmImms, levels |-> lsmLevels]
TablesOf(levels_) == UNION {ToSet(levels_[l]) : l \in DOMAIN levels_}
LiveTables == TablesOf(lsmLevels)
EntriesOf(ts) == UNION {ToSet(Entries(t)) : t \in ts}

\* DbInner::oldest_snapshot.
oldest_snapshot == Min(lsmPins \cup {lsmSeq})

Spend == lsmMoves < lsmMode.maxMoves /\ lsmMoves' = lsmMoves + 1

-----------------------------------------------------------------------------
(* Writers, snapshots, time *)

EntryOf(w, s) == [k |-> w.k, s |-> s, kind |-> w.kind, ttl |-> w.ttl,
                  v |-> IF w.kind = KindDelete THEN <<>> ELSE <<s>>]
SpanOf(w, s) == [start |-> w.start, end |-> w.end, seq |-> s]

\* apply_committed_ops for one operation: the entry or the span, at its sequence.
LsmWrite(w) ==
    /\ lsmSeq < lsmMode.maxWrites
    /\ lsmSeq' = lsmSeq + 1
    /\ lsmMem' = IF w.range THEN add_range(lsmMem, SpanOf(w, lsmSeq')) ELSE put(lsmMem, EntryOf(w, lsmSeq'))
    /\ lsmWritten' = lsmWritten \cup
         {IF w.range THEN [range |-> TRUE, span |-> SpanOf(w, lsmSeq')]
          ELSE [range |-> FALSE, entry |-> EntryOf(w, lsmSeq')]}
    /\ UNCHANGED <<lsmNow, lsmImms, lsmLevels, lsmPins, lsmId, lsmFiles, lsmWork, lsmIngest, lsmTaint, lsmMoves>>

AcquireSnapshot ==
    /\ "snapshots" \in lsmMode.actors
    /\ Cardinality(lsmPins) < lsmMode.maxPins /\ lsmSeq > 0 /\ lsmSeq \notin lsmPins
    /\ lsmPins' = lsmPins \cup {lsmSeq}
    /\ UNCHANGED <<lsmSeq, lsmNow, lsmMem, lsmImms, lsmLevels, lsmId, lsmFiles, lsmWork, lsmIngest, lsmWritten, lsmTaint, lsmMoves>>

ReleaseSnapshot(s) ==
    /\ lsmPins' = lsmPins \ {s}
    /\ UNCHANGED <<lsmSeq, lsmNow, lsmMem, lsmImms, lsmLevels, lsmId, lsmFiles, lsmWork, lsmIngest, lsmWritten, lsmTaint, lsmMoves>>

LsmTick ==
    /\ lsmNow = 0 /\ \E w \in lsmWritten : ~w.range /\ w.entry.ttl # 0
    /\ lsmNow' = 1
    /\ UNCHANGED <<lsmSeq, lsmMem, lsmImms, lsmLevels, lsmPins, lsmId, lsmFiles, lsmWork, lsmIngest, lsmWritten, lsmTaint, lsmMoves>>

-----------------------------------------------------------------------------
(* Rotation, flush, and a restart that replays what was flushed *)

SealMem ==
    /\ lsmMem # NewMemtable /\ lsmImms = <<>>
    /\ lsmImms' = <<lsmMem>> /\ lsmMem' = NewMemtable
    /\ UNCHANGED <<lsmSeq, lsmNow, lsmLevels, lsmPins, lsmId, lsmFiles, lsmWork, lsmIngest, lsmWritten, lsmTaint, lsmMoves>>

\* build_l0_table: every entry, and the spans as fragments.
build_l0_table(mem, id) == WriteTable(id, 0, MemEntries(mem), fragment_spans(mem.spans, 0, KeyTop))

\* install_handles_l0: at the front.
install_handles_l0(t) == lsmLevels' = [lsmLevels EXCEPT ![1] = <<t>> \o @]

FlushImm ==
    /\ lsmImms # <<>> /\ Spend
    /\ install_handles_l0(build_l0_table(lsmImms[1], lsmId))
    /\ lsmImms' = <<>>
    /\ lsmId' = lsmId + 1 /\ lsmFiles' = lsmFiles \cup {lsmId}
    /\ UNCHANGED <<lsmSeq, lsmNow, lsmMem, lsmPins, lsmWork, lsmIngest, lsmWritten, lsmTaint>>

\* The process dies after the flush's edit is durable and before its WAL is
\* unlinked: the next open replays that log into the memtable, beside the table.
FlushThenRestart ==
    /\ "replay" \in lsmMode.actors
    /\ lsmImms # <<>> /\ lsmMem = NewMemtable /\ Spend
    /\ install_handles_l0(build_l0_table(lsmImms[1], lsmId))
    /\ lsmImms' = <<>> /\ lsmMem' = lsmImms[1]
    /\ lsmPins' = {} /\ lsmIngest' = NoIngest
    /\ lsmWork' = [c \in Compactors |-> IdleJob]
    /\ lsmId' = lsmId + 1 /\ lsmFiles' = lsmFiles \cup {lsmId}
    /\ UNCHANGED <<lsmSeq, lsmNow, lsmWritten, lsmTaint>>

-----------------------------------------------------------------------------
(* Picking the inputs of a compaction *)

key_span(ts) == [lo |-> Min({span_min(ts[i]) : i \in DOMAIN ts}), hi |-> Max({span_max(ts[i]) : i \in DOMAIN ts})]

ranges_overlap(lo1, hi1, lo2, hi2) == lo1 <= hi2 /\ lo2 <= hi1

LevelAt(l) == IF l + 1 <= Len(lsmLevels) THEN lsmLevels[l + 1] ELSE <<>>

\* gather_target: the target tables whose span meets the inputs' span.
gather_target(target, inputs) ==
    LET s == key_span(inputs)
    IN  inputs \o SelectSeq(LevelAt(target), LAMBDA t : ranges_overlap(span_min(t), span_max(t), s.lo, s.hi))

\* target_is_bottom.
is_bottom_target(target) == target + 1 >= Len(lsmLevels)

Picked(level, target, inputs) == [stage |-> "picked", level |-> level, target |-> target, inputs |-> inputs]

LastOf(s, n) == [i \in 1 .. n |-> s[Len(s) + 1 - i]]

\* build_job at level 0: the oldest l1_file_count_trigger tables.
build_l0_job ==
    IF Len(lsmLevels[1]) < l1_file_count_trigger THEN {}
    ELSE {Picked(0, 1, gather_target(1, LastOf(lsmLevels[1], l1_file_count_trigger)))}

\* build_job below level 0: one table and what it meets below.
build_job(level) ==
    {Picked(level, level + 1, gather_target(level + 1, <<LevelAt(level)[i]>>)) : i \in DOMAIN LevelAt(level)}

\* build_table_job (tombstone density, age): at the bottom a table is rewritten
\* in place, all of level 0 when that is the only level.
build_table_job(level) ==
    IF LevelAt(level) = <<>> THEN {}
    ELSE IF ~is_bottom_target(level) THEN IF level = 0 THEN build_l0_job ELSE build_job(level)
    ELSE IF level = 0 THEN {Picked(0, 0, lsmLevels[1])}
    ELSE {Picked(level, level, <<LevelAt(level)[i]>>) : i \in DOMAIN LevelAt(level)}

\* pick_compaction_with: any job some threshold could ask for; the tombstone
\* density and age triggers are options.
pick_compaction ==
    build_l0_job \cup UNION {build_job(l) : l \in 1 .. Len(lsmLevels) - 1}
                 \cup (IF "density" \in lsmMode.actors
                       THEN UNION {build_table_job(l) : l \in 0 .. Len(lsmLevels) - 1} ELSE {})

MaxLevels == 3
PickJob(c) ==
    /\ lsmWork[c] = IdleJob /\ Spend
    /\ \E j \in pick_compaction : j.target < MaxLevels /\ lsmWork' = [lsmWork EXCEPT ![c] = j]
    /\ UNCHANGED <<lsmSeq, lsmNow, lsmMem, lsmImms, lsmLevels, lsmPins, lsmId, lsmFiles, lsmIngest, lsmWritten, lsmTaint>>

-----------------------------------------------------------------------------
(* Range locks, the merge and the installation *)

AllKeys == [lo |-> 0, hi |-> KeyTop]

\* RangeLocks::try_acquire.
overlaps(r1, r2) == ~(r1.hi < r2.lo \/ r2.hi < r1.lo)
Held == {lsmWork[c].lock : c \in {x \in Compactors : lsmWork[x].stage \in {"merged", "sweep"}}}
free_always(range) == TRUE
free(range) == \A h \in Held : ~overlaps(h, range)

\* lock_job: the union of the inputs' POINT bounds.
lock_range(inputs) ==
    [lo |-> Min({inputs[i].min_key : i \in DOMAIN inputs}), hi |-> Max({inputs[i].max_key : i \in DOMAIN inputs})]

\* FrozenJob::new.
freeze(target, inputs) ==
    [bottom |-> is_bottom_target(target), oldest_snapshot |-> oldest_snapshot, now |-> lsmNow,
     ranges |-> collect_input_ranges(inputs)]

InputsOf(j) == ToSet(j.inputs)
InputsReadable(j) == \A t \in InputsOf(j) : t.id \in lsmFiles

\* An expired version newer than the oldest snapshot was dropped above an
\* older version that stays.
DropsUnderSnapshot(j, frozen, outs) ==
    /\ frozen.bottom
    /\ \E e \in EntriesOf(InputsOf(j)) :
          /\ e.kind = KindPut /\ expired(e, frozen.now) /\ e.s > frozen.oldest_snapshot
          /\ \E o \in EntriesOf(ToSet(outs)) : o.k = e.k /\ o.s < e.s

TaintOfMerge(j, frozen, outs) ==
    (IF InputsOf(j) \subseteq LiveTables THEN {} ELSE {"stale inputs"})
      \cup (IF DropsUnderSnapshot(j, frozen, outs) THEN {"expired under a snapshot"} ELSE {})

Merged(j, lock, sweep, frozen, outs) ==
    [stage |-> "merged", level |-> j.level, target |-> j.target, inputs |-> j.inputs,
     lock |-> lock, sweep |-> sweep, outs |-> outs, taint |-> TaintOfMerge(j, frozen, outs)]

StartMerge(c, j, lock, sweep, cuts) ==
    \E cut \in cuts, frozen \in {freeze(j.target, j.inputs)} :
        \E outs \in {run_spans(j.inputs, cut, frozen, lsmId, j.target)} :
            /\ lsmWork' = [lsmWork EXCEPT ![c] = Merged(j, lock, sweep, frozen, outs)]
            /\ lsmId' = lsmId + Len(outs)
            /\ lsmFiles' = lsmFiles \cup {outs[i].id : i \in DOMAIN outs}

\* lock_job, then compact_inputs_spanned up to the installation.  A busy range
\* or an input that is already gone ends the job.
LockAndMerge(c) ==
    LET j == lsmWork[c]
        range == lock_range(j.inputs)
    IN  /\ j.stage = "picked"
        /\ IF free(range) /\ InputsReadable(j)
           THEN StartMerge(c, j, range, [on |-> FALSE],
                           {0} \cup (IF "spans" \in lsmMode.actors THEN plan_spans(j.inputs, j.target) ELSE {}))
           ELSE /\ lsmWork' = [lsmWork EXCEPT ![c] = IdleJob]
                /\ UNCHANGED <<lsmId, lsmFiles>>
        /\ UNCHANGED <<lsmSeq, lsmNow, lsmMem, lsmImms, lsmLevels, lsmPins, lsmIngest, lsmWritten, lsmTaint, lsmMoves>>

\* run_manual (no bounds) and run_range: the whole key range is locked, then
\* each level is pushed into the next and the last one rewritten.
StartSweep(c, bounds) ==
    /\ lsmWork[c] = IdleJob /\ free(AllKeys) /\ Spend
    /\ lsmWork' = [lsmWork EXCEPT ![c] =
         [stage |-> "sweep", lock |-> AllKeys,
          sweep |-> [on |-> TRUE, level |-> 0, bounds |-> bounds, floor |-> lsmId]]]
    /\ UNCHANGED <<lsmSeq, lsmNow, lsmMem, lsmImms, lsmLevels, lsmPins, lsmId, lsmFiles, lsmIngest, lsmWritten, lsmTaint>>

\* compact_into: all of the level, and the target tables whose POINT bounds meet it.
compact_into(level, target) ==
    LET inputs == LevelAt(level)
        s == key_span(inputs)
    IN  IF inputs = <<>> THEN <<>>
        ELSE inputs \o (IF target = level THEN <<>>
                        ELSE SelectSeq(LevelAt(target),
                                       LAMBDA t : ranges_overlap(t.min_key, t.max_key, s.lo, s.hi)))

\* range_inputs: in level 0 everything at least as old as the newest table in
\* the bounds.
range_inputs(level, b) ==
    LET ts == LevelAt(level)
        inside == {i \in DOMAIN ts : span_in_bounds(ts[i], b.lo, b.hi)}
    IN  IF inside = {} THEN <<>>
        ELSE IF level = 0 THEN SubSeq(ts, Min(inside), Len(ts))
        ELSE SelectSeq(ts, LAMBDA t : span_in_bounds(t, b.lo, b.hi))

SweepInputs(sweep, target) ==
    LET last == Len(lsmLevels) - 1
        b == sweep.bounds
    IN  IF ~b.range THEN compact_into(sweep.level, target)
        ELSE IF target = sweep.level
             THEN IF last = 0 THEN <<>>
                  ELSE SelectSeq(LevelAt(last), LAMBDA t : t.id < sweep.floor /\ span_in_bounds(t, b.lo, b.hi))
        ELSE LET inputs == range_inputs(sweep.level, b)
             IN  IF inputs = <<>> THEN <<>> ELSE gather_target(target, inputs)

\* The last level is swept in place; a range sweep pushes level 0 down even
\* when it is the only level.
SweepTarget(sweep) ==
    IF sweep.level + 1 < Len(lsmLevels) \/ (sweep.bounds.range /\ sweep.level = 0)
    THEN sweep.level + 1 ELSE sweep.level

SweepOn(sweep, target) ==
    IF target = sweep.level THEN IdleJob
    ELSE [stage |-> "sweep", lock |-> AllKeys, sweep |-> [sweep EXCEPT !.level = @ + 1]]

SweepLevel(c) ==
    /\ lsmWork[c].stage = "sweep"
    /\ LET sweep == lsmWork[c].sweep
           target == SweepTarget(sweep)
           inputs == SweepInputs(sweep, target)
       IN  IF inputs = <<>>
           THEN /\ lsmWork' = [lsmWork EXCEPT ![c] = SweepOn(sweep, target)]
                /\ UNCHANGED <<lsmId, lsmFiles>>
           ELSE StartMerge(c, Picked(sweep.level, target, inputs), AllKeys, sweep, {0})
    /\ UNCHANGED <<lsmSeq, lsmNow, lsmMem, lsmImms, lsmLevels, lsmPins, lsmIngest, lsmWritten, lsmTaint, lsmMoves>>

\* install_compaction_outputs: the inputs leave every level, the outputs join
\* the target level, which is sorted by first key.
install_compaction_outputs(j) ==
    LET ids == {t.id : t \in InputsOf(j)}
        Kept(l) == SelectSeq(LevelAt(l), LAMBDA t : t.id \notin ids)
        joined == Kept(j.target) \o j.outs
        order == Sorted(DOMAIN joined, LAMBDA a, b : \/ joined[a].min_key < joined[b].min_key
                                                     \/ joined[a].min_key = joined[b].min_key /\ a < b)
        size == IF j.target + 1 > Len(lsmLevels) THEN j.target + 1 ELSE Len(lsmLevels)
    IN  [l \in 1 .. size |->
           IF l = j.target + 1 THEN [i \in DOMAIN order |-> joined[order[i]]] ELSE Kept(l - 1)]

\* Sorting level 0 by key moved a table flushed meanwhile behind older ones.
DisordersLevel0(j, after) ==
    /\ j.target = 0
    /\ \E i, n \in DOMAIN after[1] : i < n /\ after[1][i] \in ToSet(j.outs)
                                           /\ after[1][n] \notin ToSet(j.outs)

\* A merge operand was folded into its base while another source holds a
\* second copy of it.
RefoldsReplayed(j) ==
    LET others == lsmMem.pts \cup UNION {lsmImms[i].pts : i \in DOMAIN lsmImms}
                    \cup EntriesOf(LiveTables \ InputsOf(j))
    IN  \E e \in EntriesOf(ToSet(j.outs)) : \E o \in others :
            o.k = e.k /\ o.s = e.s /\ o.kind = KindMerge /\ e.kind = KindPut

\* The catalog transaction, retire_tables and the end of the job.  Whether the
\* deleter has unlinked the inputs yet is open: it may be paused or paced.
InstallMerge(c) ==
    /\ lsmWork[c].stage = "merged"
    /\ LET j == lsmWork[c]
       IN  /\ lsmLevels' = install_compaction_outputs(j)
           /\ lsmFiles' \in {lsmFiles, lsmFiles \ {t.id : t \in InputsOf(j)}}
           /\ lsmWork' = [lsmWork EXCEPT ![c] = IF j.sweep.on THEN SweepOn(j.sweep, j.target) ELSE IdleJob]
           /\ lsmTaint' = j.taint
                             \cup (IF DisordersLevel0(j, lsmLevels') THEN {"level 0 disordered"} ELSE {})
                             \cup (IF RefoldsReplayed(j) THEN {"replayed operand folded"} ELSE {})
    /\ UNCHANGED <<lsmSeq, lsmNow, lsmMem, lsmImms, lsmPins, lsmId, lsmIngest, lsmWritten, lsmMoves>>

-----------------------------------------------------------------------------
(* Excise: tables wholly under range tombstones no snapshot can look past *)

\* covers: per fragment the newest sequence at or below the oldest snapshot.
covers(oldest) ==
    UNION {{[start |-> t.frags[i].start, end |-> t.frags[i].end,
             seq |-> Newest({s \in t.frags[i].seqs : s <= oldest}), owner |-> t.id]
            : i \in {x \in DOMAIN t.frags : \E s \in t.frags[x].seqs : s <= oldest}}
           : t \in LiveTables}

\* covering_owners: the newer covers, by start, reach from the first key past
\* the last without a gap; the owners are those that advanced the reach.
covering_owners(cs, t) ==
    LET useful == {c \in cs : c.seq > t.max_seq /\ c.end > t.min_key}
        order == Sorted(useful, LAMBDA a, b : \/ a.start < b.start
                                              \/ a.start = b.start /\ a.owner < b.owner
                                              \/ a.start = b.start /\ a.owner = b.owner /\ a.end < b.end)
        Reach(r, c) ==
            IF r.done \/ r.gap THEN r
            ELSE IF c.start > (IF r.to = 0 THEN t.min_key ELSE r.to) THEN [r EXCEPT !.gap = TRUE]
            ELSE LET n == IF c.end > r.to THEN [r EXCEPT !.to = c.end, !.owners = @ \cup {c.owner}] ELSE r
                 IN  [n EXCEPT !.done = t.max_key < n.to]
        end == InTurn(Reach, [to |-> 0, owners |-> {}, gap |-> FALSE, done |-> FALSE], order)
    IN  IF end.done THEN end.owners ELSE {}

\* plan: covered tables without fragments of their own.  (The code then drops
\* candidates that own a cover; with no fragments none does.)
excise_plan ==
    {t \in LiveTables : ~has_ranges(t) /\ covering_owners(covers(oldest_snapshot), t) # {}}

PlanExcise(c) ==
    /\ "excise" \in lsmMode.actors
    /\ lsmWork[c] = IdleJob /\ excise_plan # {} /\ Spend
    /\ lsmWork' = [lsmWork EXCEPT ![c] = [stage |-> "excise", doomed |-> excise_plan]]
    /\ UNCHANGED <<lsmSeq, lsmNow, lsmMem, lsmImms, lsmLevels, lsmPins, lsmId, lsmFiles, lsmIngest, lsmWritten, lsmTaint>>

\* excise_covered from the lock on: plan again, drop what both plans name.
ExciseCovered(c) ==
    /\ lsmWork[c].stage = "excise"
    /\ LET planned == lsmWork[c].doomed
           range == [lo |-> Min({span_min(t) : t \in planned}), hi |-> Max({span_max(t) : t \in planned})]
           doomed == IF free(range) THEN planned \cap excise_plan ELSE {}
       IN  /\ lsmLevels' = [l \in DOMAIN lsmLevels |-> SelectSeq(lsmLevels[l], LAMBDA t : t \notin doomed)]
           /\ lsmFiles' = lsmFiles \ {t.id : t \in doomed}
    /\ lsmWork' = [lsmWork EXCEPT ![c] = IdleJob]
    /\ UNCHANGED <<lsmSeq, lsmNow, lsmMem, lsmImms, lsmPins, lsmId, lsmIngest, lsmWritten, lsmTaint, lsmMoves>>

-----------------------------------------------------------------------------
(* Bulk ingestion *)

\* start_ingestion: one sequence, reserved and published at once.
StartIngestion ==
    /\ "ingest" \in lsmMode.actors
    /\ lsmIngest = NoIngest /\ lsmSeq < lsmMode.maxWrites
    /\ lsmSeq' = lsmSeq + 1
    /\ lsmIngest' = [seq |-> lsmSeq + 1]
    /\ UNCHANGED <<lsmNow, lsmMem, lsmImms, lsmLevels, lsmPins, lsmId, lsmFiles, lsmWork, lsmWritten, lsmTaint, lsmMoves>>

\* Ingestion::finish: the table joins level 0 in front.  A write after the
\* sequence was taken makes the table older than what may lie behind it.
FinishIngestion(keys) ==
    LET order == Sorted(keys, LAMBDA a, b : a < b)
        ents == [i \in DOMAIN order |-> [k |-> order[i], s |-> lsmIngest.seq, kind |-> KindPut,
                                         ttl |-> 0, v |-> <<lsmIngest.seq>>]]
    IN  /\ lsmIngest # NoIngest /\ Spend
        /\ install_handles_l0(WriteTable(lsmId, 0, ents, <<>>))
        /\ lsmId' = lsmId + 1 /\ lsmFiles' = lsmFiles \cup {lsmId}
        /\ lsmWritten' = lsmWritten \cup {[range |-> FALSE, entry |-> ents[i]] : i \in DOMAIN ents}
        /\ lsmIngest' = NoIngest
        /\ lsmTaint' = IF lsmSeq > lsmIngest.seq THEN {"late ingestion"} ELSE {}
        /\ UNCHANGED <<lsmSeq, lsmNow, lsmMem, lsmImms, lsmPins, lsmWork>>

\* Dropping an unfinished ingestion removes its files.
AbandonIngestion ==
    /\ lsmIngest # NoIngest
    /\ lsmIngest' = NoIngest
    /\ UNCHANGED <<lsmSeq, lsmNow, lsmMem, lsmImms, lsmLevels, lsmPins, lsmId, lsmFiles, lsmWork, lsmWritten, lsmTaint, lsmMoves>>

-----------------------------------------------------------------------------

SweepBounds ==
    (IF "manual" \in lsmMode.actors THEN {[range |-> FALSE, lo |-> 0, hi |-> KeyTop]} ELSE {})
      \cup (IF "range" \in lsmMode.actors THEN {[range |-> TRUE, lo |-> 1, hi |-> 2]} ELSE {})

LsmNext ==
    /\ lsmTaint = {} /\ UNCHANGED lsmMode
    /\ \/ \E w \in lsmMode.writes : LsmWrite(w)
       \/ AcquireSnapshot
       \/ \E s \in lsmPins : ReleaseSnapshot(s)
       \/ LsmTick
       \/ SealMem
       \/ FlushImm
       \/ FlushThenRestart
       \/ \E c \in lsmMode.workers :
             \/ PickJob(c)
             \/ LockAndMerge(c)
             \/ \E b \in SweepBounds : StartSweep(c, b)
             \/ SweepLevel(c)
             \/ InstallMerge(c)
             \/ PlanExcise(c)
             \/ ExciseCovered(c)
       \/ StartIngestion
       \/ \E keys \in SUBSET UserKeys \ {{}} : FinishIngestion(keys)
       \/ AbandonIngestion

LsmSpec == LsmInitIn(LsmScenarios) /\ [][LsmNext]_lsmVars

-----------------------------------------------------------------------------
(* Properties *)

ReadSeqs == lsmPins \cup {lsmSeq}
WantedAt(s) == [k \in UserKeys |-> Visible(lsmWritten, k, s, lsmNow)]

\* At the latest sequence and at every live snapshot a scan, in either
\* direction and with or without a lower bound, shows every key with exactly the value
\* the writes up to that sequence give it.  The code keeps this up to the event
\* lsmTaint names (iterator.rs, compaction.rs VersionRetention).
ScansExact ==
    \A s \in ReadSeqs : \E want \in {WantedAt(s)} : \A forward \in BOOLEAN, lower \in {0, KeyTop - 1} :
        \E shown \in {scan(LsmState, lower, KeyTop, forward, s, lsmNow)} :
            \A k \in DOMAIN shown : shown[k] = want[k]

\* ScansExact holds whatever flushes, compactions, excises and ingestions ran in
\* between, until one of the events of lsmTaint (iterator.rs, compaction.rs run_span).
ScansAgree == (lsmTaint = {} /\ lsmWritten # {}) => ScansExact

\* Every fragment below level 0 lies between its table's first key and the next
\* table's: what gap_owner assumes.
FragmentsOwned ==
    \A l \in 2 .. Len(lsmLevels) : \A i \in DOMAIN lsmLevels[l] :
        LET t == lsmLevels[l][i]
        IN  /\ has_ranges(t) => t.min_key <= range_min_key(t)
            /\ i < Len(lsmLevels[l]) => /\ t.max_key < lsmLevels[l][i + 1].min_key
                                        /\ has_ranges(t) => range_max_key(t) <= lsmLevels[l][i + 1].min_key

\* A point read and a batched read of every key return the value the writes up to
\* the read's sequence give it (column_family.rs get_impl, multi_get, gap_owner).
GetsExact ==
    \A s \in ReadSeqs : \E want \in {WantedAt(s)} :
        /\ \A k \in UserKeys : get(LsmState, k, s, lsmNow) = want[k]
        /\ multi_get(LsmState, UserKeys, s, lsmNow) = want

\* A point read and a batched read agree with the writes at every live
\* snapshot as long as the fragments lie where the gap-owner probe looks for
\* them (column_family.rs gap_owner).
GetsAgree == (lsmTaint = {} /\ lsmWritten # {} /\ FragmentsOwned) => GetsExact

\* The tables a running merge reads stay in the levels until the job installs:
\* neither another compaction nor an excise replaces them under it, unless they
\* were already replaced between the pick and the lock (compaction.rs lock_job,
\* excise.rs excise_covered, range_lock.rs).
InputsStay ==
    \A c \in Compactors :
        (lsmWork[c].stage = "merged" /\ "stale inputs" \notin lsmWork[c].taint)
            => InputsOf(lsmWork[c]) \subseteq LiveTables

=============================================================================
