------------------------------- MODULE Family -------------------------------
(***************************************************************************)
(* One column-family name of a database in the per-family layout: commits, *)
(* memtable rotation, background flushes, drop, clear and re-create of the *)
(* name, fail-stop, close, and a crash followed by a reopen                *)
(* (column_family.rs and db.rs).                                           *)
(*                                                                         *)
(* Every drop, clear and re-create makes a new incarnation: a new          *)
(* ColumnFamily object over the SAME directory, since a family's directory *)
(* is named after the family.  A caller may keep the handle of an old      *)
(* incarnation.  Records are the commit sequence numbers 1, 2, 3, ...; a   *)
(* memtable, a WAL file and a table are sets of records.                   *)
(*                                                                         *)
(* Commits are serialised by commit_mu (Txn::commit holds it across the    *)
(* apply, the write stall included), so there is one committer; a forced   *)
(* rotation comes from flush_memtable callers and from close.  The WAL     *)
(* runs in SyncMode::Full: an appended frame is durable (Wal.tla).         *)
(***************************************************************************)
EXTENDS Integers, Sequences, FiniteSets, SequencesExt

CONSTANTS Workers,       \* the flush worker threads (num_flush_threads)
          Flushers,      \* threads that call DB::flush_memtable
          Threshold,     \* l0_queue_stall_threshold
          BufSize,       \* records that fill a memtable (write_buffer_size)
          MaxCommits,    \* bound: commits of a behaviour
          MaxInc,        \* bound: incarnations of the family
          MaxMishaps     \* bound: failed flushes, failed edit appends and crashes

VARIABLES fam,       \* the ColumnFamily objects, by incarnation
          cfs,       \* the registered incarnation, 0 when there is none
          walDir,     \* WAL files of the directory: generation -> file
          hasDir,    \* whether the directory exists
          famCatalog,   \* the durable catalog: the incarnation and its L0 tables
          flushQueue,     \* the flush queue (flush_tx)
          thread,    \* the committer, the forced rotators and close
          worker,    \* the flush workers
          ddl,       \* the drop, clear or create that holds cf_lifecycle_mu
          famPoison, closing, mishaps,
          lastInc,   \* the incarnations made so far
          written,   \* history: the records appended for each incarnation
          strayUnlink, \* history: an abandoned rotation unlinked a WAL in use
          halfWiped  \* history: a crash fell between a drop's edit and its wipe

\* What a step of a commit, a rotation or a flush never touches.
lifecycleVars == <<cfs, hasDir, ddl, closing, lastInc, halfWiped>>
familyVars == <<fam, cfs, walDir, hasDir, famCatalog, flushQueue, thread, worker, ddl,
                famPoison, closing, mishaps, lastInc, written, strayUnlink,
                halfWiped>>

Incs == 1..MaxInc
Committer == "committer"
Closer == "closer"
Rotators == {Committer, Closer} \cup Flushers
NoWal == -1

RecsOf(seq) == UNION {seq[i].recs : i \in DOMAIN seq}

-----------------------------------------------------------------------------
(* The objects. *)

\* CfState and RotState: the memtable, the WAL handle and its generation, the
\* generations the memtable's records may be in, the sealed memtables (oldest
\* first), L0 (newest first), the rotation gate, and the debt flag.
NewFamily(gen, mem, pending, l0) ==
  [mem |-> mem, wal |-> gen, walGen |-> gen, pending |-> pending,
   imm |-> <<>>, l0 |-> l0, writers |-> 0, rotating |-> FALSE,
   preparing |-> FALSE, retiring |-> FALSE, flushes |-> 0, overHard |-> FALSE]

NoFamily == NewFamily(NoWal, {}, {}, <<>>)

IdleThread == [pc |-> "idle", h |-> 0, force |-> FALSE, gen |-> 0, imm |-> {}]

\* ColumnFamily::create: the directory and WAL generation 0, which is opened
\* for append, so what an earlier file of that name holds stays in it.
WithWal(fs, gen, h) ==
  [g \in DOMAIN fs \cup {gen} |->
     IF g # gen THEN fs[g]
     ELSE [owner |-> h, recs |-> IF gen \in DOMAIN fs THEN fs[gen].recs ELSE {}]]

\* remove_wal_files.
Without(fs, gens) == [g \in DOMAIN fs \ gens |-> fs[g]]

FamilyInit ==
  /\ fam = [h \in Incs |-> IF h = 1 THEN NewFamily(0, {}, {0}, <<>>) ELSE NoFamily]
  /\ cfs = 1
  /\ walDir = WithWal(<<>>, 0, 1)
  /\ hasDir = TRUE
  /\ famCatalog = [inc |-> 1, l0 |-> <<>>]
  /\ flushQueue = <<>>
  /\ thread = [p \in Rotators |-> IdleThread]
  /\ worker = [k \in Workers |-> [pc |-> "idle", h |-> 0, imm |-> {}]]
  /\ ddl = [pc |-> "idle", op |-> "none", h |-> 0]
  /\ famPoison = FALSE /\ closing = FALSE /\ mishaps = 0
  /\ lastInc = 1
  /\ written = [h \in Incs |-> {}]
  /\ strayUnlink = FALSE
  /\ halfWiped = FALSE

\* cond.notify_all on the condition variable of family h: the parked threads
\* re-evaluate what they wait for.
Notified(th, h) ==
  [p \in Rotators |->
     IF th[p].h # h THEN th[p]
     ELSE CASE th[p].pc = "stalled" -> [th[p] EXCEPT !.pc = "admit"]
            [] th[p].pc = "gated" -> [th[p] EXCEPT !.pc = "rotate"]
            [] OTHER -> th[p]]

FamHandles == {h \in Incs : fam[h] # NoFamily}

\* The step of one thread that ends a call.
CallOver(th, p) == [th EXCEPT ![p] = IdleThread]

-----------------------------------------------------------------------------
(* The commit: ColumnFamily::apply_commit_with_ranges under commit_mu. *)

\* Mutant: a retiring family's writers go on waiting for its queue to shrink.
StalledThoughRetiring(f) ==
  f.rotating \/ ((Len(f.imm) >= Threshold \/ f.overHard) /\ ~closing)

\* The write stall: a rotation is swapping the memtable, or the flush queue or
\* the compaction debt is at its limit and the family is neither closing nor
\* retiring.
Stalled(f) ==
  \/ f.rotating
  \/ (Len(f.imm) >= Threshold \/ f.overHard) /\ ~closing /\ ~f.retiring

\* The gate: a commit that is not held up is counted among the active writers.
Admission(h) ==
  /\ IF Stalled(fam[h])
       THEN /\ thread' = [thread EXCEPT ![Committer] =
                            [IdleThread EXCEPT !.pc = "stalled", !.h = h]]
            /\ UNCHANGED fam
       ELSE /\ thread' = [thread EXCEPT ![Committer] =
                            [IdleThread EXCEPT !.pc = "append", !.h = h]]
            /\ fam' = [fam EXCEPT ![h].writers = @ + 1]
  /\ UNCHANGED <<walDir, famCatalog, flushQueue, worker, famPoison, mishaps, written,
                 strayUnlink, lifecycleVars>>

\* The fail-stop flag is read once, before the gate.
CommitBegin(h) ==
  /\ thread[Committer] = IdleThread /\ ~famPoison /\ ~closing
  /\ Cardinality(UNION {written[i] : i \in Incs}) < MaxCommits
  /\ Admission(h)

\* A commit that was parked looks again.
Admit == thread[Committer].pc = "admit" /\ Admission(thread[Committer].h)

\* Append one frame, insert into the memtable, leave the gate, and rotate a
\* memtable that is full.  A handle whose file has been unlinked appends to
\* nothing a reopen will find; a family without a WAL fails the commit.
AppendFrame ==
  LET h == thread[Committer].h
      f == fam[h]
      rec == 1 + Cardinality(UNION {written[i] : i \in Incs})
      ok == f.wal # NoWal
      linked == ok /\ f.wal \in DOMAIN walDir /\ walDir[f.wal].owner = h
      mem == IF ok THEN f.mem \cup {rec} ELSE f.mem
  IN
  /\ thread[Committer].pc = "append"
  /\ fam' = [fam EXCEPT ![h].mem = mem, ![h].writers = @ - 1]
  /\ walDir' = IF linked THEN [walDir EXCEPT ![f.wal].recs = @ \cup {rec}] ELSE walDir
  /\ written' = IF ok THEN [written EXCEPT ![h] = @ \cup {rec}] ELSE written
  /\ thread' = Notified([thread EXCEPT ![Committer] =
                 IF ok /\ Cardinality(mem) >= BufSize
                   THEN [@ EXCEPT !.pc = "rotate"] ELSE IdleThread], h)
  /\ UNCHANGED <<famCatalog, flushQueue, worker, famPoison, mishaps, strayUnlink, lifecycleVars>>

-----------------------------------------------------------------------------
(* Rotation: ColumnFamily::rotate_memtable. *)

\* A call that is over: flush_memtable and close go on to wait for the queue.
Rotated(th, p) ==
  [th EXCEPT ![p] = IF p = Committer THEN IdleThread
                    ELSE [IdleThread EXCEPT !.pc = "drain", !.h = th[p].h]]

RotateEnter(p) ==
  LET h == thread[p].h
      f == fam[h]
      busy == f.rotating \/ f.preparing
      small == ~thread[p].force /\ Cardinality(f.mem) < BufSize
  IN
  /\ thread[p].pc = "rotate"
  /\ \/ /\ busy /\ thread[p].force
        /\ thread' = [thread EXCEPT ![p].pc = "gated"]
        /\ UNCHANGED fam
     \/ /\ IF busy THEN ~thread[p].force ELSE f.retiring \/ f.mem = {} \/ small
        /\ thread' = Rotated(thread, p)
        /\ UNCHANGED fam
     \/ /\ ~busy /\ ~f.retiring /\ f.mem # {} /\ ~small
        /\ thread' = [thread EXCEPT ![p].pc = "open", ![p].gen = f.walGen + 1]
        /\ fam' = [fam EXCEPT ![h].preparing = TRUE]
  /\ UNCHANGED <<walDir, famCatalog, flushQueue, worker, famPoison, mishaps, written,
                 strayUnlink, lifecycleVars>>

\* The next WAL is created with no lock held (a family whose WAL cannot be
\* created goes on without one).  Back under rot, a family that is retiring
\* abandons the rotation; otherwise commits are gated while the writers in
\* flight leave.
RotateOpen(p) ==
  LET h == thread[p].h IN
  /\ thread[p].pc = "open"
  /\ walDir' = IF hasDir THEN WithWal(walDir, thread[p].gen, h) ELSE walDir
  /\ IF fam[h].retiring
       THEN /\ fam' = [fam EXCEPT ![h].preparing = FALSE]
            /\ thread' = Notified([thread EXCEPT ![p].pc = "abandon"], h)
       ELSE /\ fam' = [fam EXCEPT ![h].preparing = FALSE, ![h].rotating = TRUE]
            /\ thread' = [thread EXCEPT ![p].pc = "seal"]
  /\ UNCHANGED <<famCatalog, flushQueue, worker, famPoison, mishaps, written,
                 strayUnlink, lifecycleVars>>

\* The generations family h holds records in, or is about to, as seen by p.
WalsInUse(h, p) ==
  fam[h].pending \cup UNION {fam[h].imm[i].gens : i \in DOMAIN fam[h].imm}
  \cup {thread[q].gen : q \in {q \in Rotators \ {p} :
                                 thread[q].h = h /\ thread[q].pc = "seal"}}

\* The abandoned segment is closed and its path removed, after rot was left.
RotateAbandon(p) ==
  LET gen == thread[p].gen IN
  /\ thread[p].pc = "abandon"
  /\ walDir' = Without(walDir, {gen})
  /\ strayUnlink' = (strayUnlink \/ (gen \in DOMAIN walDir
                       /\ gen \in WalsInUse(walDir[gen].owner, p)))
  /\ thread' = Rotated(thread, p)
  /\ UNCHANGED <<fam, famCatalog, flushQueue, worker, famPoison, mishaps, written, lifecycleVars>>

RotateSeal(p) ==
  LET h == thread[p].h
      f == fam[h]
      gen == thread[p].gen
  IN
  /\ thread[p].pc = "seal" /\ f.writers = 0
  /\ fam' = [fam EXCEPT ![h].mem = {}, ![h].rotating = FALSE,
                        ![h].imm = Append(@, [recs |-> f.mem, gens |-> f.pending]),
                        ![h].walGen = gen, ![h].pending = {gen},
                        ![h].wal = IF hasDir THEN gen ELSE NoWal]
  /\ thread' = Notified([thread EXCEPT ![p].pc = "send", ![p].imm = f.pending], h)
  /\ UNCHANGED <<walDir, famCatalog, flushQueue, worker, famPoison, mishaps, written,
                 strayUnlink, lifecycleVars>>

DbClosed == thread[Closer].pc = "closed"

\* The job is sent after rot was left; the workers of a closed database are
\* gone and the send fails.
RotateSend(p) ==
  /\ thread[p].pc = "send"
  /\ flushQueue' = IF DbClosed THEN flushQueue
                   ELSE Append(flushQueue, [h |-> thread[p].h, imm |-> thread[p].imm])
  /\ thread' = Rotated(thread, p)
  /\ UNCHANGED <<fam, walDir, famCatalog, worker, famPoison, mishaps, written,
                 strayUnlink, lifecycleVars>>

-----------------------------------------------------------------------------
(* The callers that force a rotation: DB::flush_memtable and DB::close. *)

FlushMemtable(p, h) ==
  /\ p \in Flushers /\ thread[p] = IdleThread /\ ~closing
  /\ ~fam[h].retiring
  /\ thread' = [thread EXCEPT ![p] = [IdleThread EXCEPT !.pc = "rotate", !.h = h,
                                                  !.force = TRUE]]
  /\ UNCHANGED <<fam, walDir, famCatalog, flushQueue, worker, famPoison, mishaps, written,
                 strayUnlink, lifecycleVars>>

CloseBegin ==
  /\ thread[Closer] = IdleThread /\ ~closing
  /\ closing' = TRUE
  /\ thread' = [thread EXCEPT ![Closer] =
       [IdleThread EXCEPT !.pc = IF cfs = 0 THEN "drain" ELSE "rotate", !.h = cfs,
                    !.force = TRUE]]
  /\ UNCHANGED <<fam, cfs, walDir, hasDir, famCatalog, flushQueue, worker, ddl, famPoison,
                 mishaps, lastInc, written, strayUnlink, halfWiped>>

\* pending_flushes of one family, and pending_flush of the database: jobs sent
\* and not yet processed.
Pending(H) ==
  \/ \E i \in DOMAIN flushQueue : flushQueue[i].h \in H
  \/ \E k \in Workers : worker[k].pc # "idle" /\ worker[k].h \in H

\* ColumnFamily::close_resources: the WAL handle goes.
CloseResources(F, h) == [F EXCEPT ![h].wal = NoWal]

\* flush_memtable polls its family's pending flushes, close the database's;
\* then close stops the workers and closes every registered family.
FlushesDrained(p) ==
  LET h == thread[p].h IN
  /\ thread[p].pc = "drain"
  /\ ~Pending(IF p = Closer THEN Incs ELSE {h})
  /\ IF p = Closer
       THEN /\ thread' = [thread EXCEPT ![p].pc = "closed"]
            /\ fam' = IF h = 0 THEN fam ELSE CloseResources(fam, h)
       ELSE /\ thread' = CallOver(thread, p)
            /\ UNCHANGED fam
  /\ UNCHANGED <<walDir, famCatalog, flushQueue, worker, famPoison, mishaps, written,
                 strayUnlink, lifecycleVars>>

-----------------------------------------------------------------------------
(* The flush workers: db.rs flush_worker, flush_per_cf_claimed. *)

Resting == [pc |-> "idle", h |-> 0, imm |-> {}]

\* end_flush on every way out.
EndFlush(k, F, th) ==
  LET h == worker[k].h IN
  /\ worker' = [worker EXCEPT ![k] = Resting]
  /\ fam' = [F EXCEPT ![h].flushes = @ - 1]
  /\ thread' = Notified(th, h)

\* begin_flush claims the family (a retiring one loses the job), flush_imm
\* writes and syncs the table; nothing is published.
TakeJob(k) ==
  LET job == Head(flushQueue) IN
  /\ worker[k].pc = "idle" /\ flushQueue # <<>> /\ ~DbClosed
  /\ IF fam[job.h].retiring
       THEN UNCHANGED <<worker, fam, thread>>
       ELSE /\ worker' = [worker EXCEPT ![k] = [pc |-> "turn", h |-> job.h,
                                                imm |-> job.imm]]
            /\ fam' = [fam EXCEPT ![job.h].flushes = @ + 1]
            /\ thread' = Notified(thread, job.h)
  /\ flushQueue' = Tail(flushQueue)
  /\ UNCHANGED <<walDir, famCatalog, famPoison, mishaps, written,
                 strayUnlink, lifecycleVars>>

\* The write of the table fails, which fail-stops the database when the family
\* is still the registered instance.
FlushFails(k) ==
  /\ worker[k].pc = "turn" /\ mishaps < MaxMishaps
  /\ mishaps' = mishaps + 1
  /\ famPoison' = (famPoison \/ cfs = worker[k].h)
  /\ EndFlush(k, fam, thread)
  /\ UNCHANGED <<walDir, famCatalog, flushQueue, written, strayUnlink, lifecycleVars>>

\* The position of a sealed memtable in the queue of its family.
ImmAt(f, gens) == {i \in DOMAIN f.imm : f.imm[i].gens = gens}

\* Mutant: publish as soon as the table is written.
MyTurnAlways(f, gens) == TRUE

\* await_flush_turn returns true: nothing older is left.
MyTurn(f, gens) == ImmAt(f, gens) \subseteq {1}

AwaitTurn(k) ==
  LET f == fam[worker[k].h] IN
  /\ worker[k].pc = "turn"
  /\ \/ /\ f.retiring \/ famPoison
        /\ EndFlush(k, fam, thread)
     \/ /\ ~f.retiring /\ ~famPoison /\ MyTurn(f, worker[k].imm)
        /\ worker' = [worker EXCEPT ![k].pc = "edit"]
        /\ UNCHANGED <<fam, thread>>
  /\ UNCHANGED <<walDir, famCatalog, flushQueue, famPoison, mishaps, written,
                 strayUnlink, lifecycleVars>>

\* clear_column_family wipes and re-creates inside its publish step, so it
\* holds manifest_mu from its edit to the registration.
ManifestFree == ~(ddl.op = "clear" /\ ddl.pc \in {"wipe", "recreate"})

\* publish_flush: the table enters L0 at the front and the memtable leaves.
PublishFlush(f, gens) ==
  LET at == ImmAt(f, gens)
      recs == UNION {f.imm[i].recs : i \in at}
  IN [f EXCEPT !.l0 = <<recs>> \o @,
               !.imm = SelectSeq(@, LAMBDA m : m.gens # gens)]

\* catalog_txn_for: refused when poisoned or when the handle is not the
\* registered instance; otherwise the edit is durable, then published.
FlushEdit(k) ==
  LET h == worker[k].h
      f == PublishFlush(fam[h], worker[k].imm)
  IN
  /\ worker[k].pc = "edit" /\ ManifestFree
  /\ \/ /\ famPoison \/ cfs # h
        /\ EndFlush(k, fam, thread)
        /\ UNCHANGED <<famCatalog, famPoison, mishaps>>
     \/ /\ ~famPoison /\ cfs = h /\ mishaps < MaxMishaps
        /\ mishaps' = mishaps + 1 /\ famPoison' = TRUE
        /\ EndFlush(k, fam, thread)
        /\ UNCHANGED famCatalog
     \/ /\ ~famPoison /\ cfs = h
        /\ famCatalog' = [famCatalog EXCEPT !.l0 = f.l0]
        /\ fam' = [fam EXCEPT ![h] = f]
        /\ worker' = [worker EXCEPT ![k].pc = "reclaim"]
        /\ thread' = Notified(thread, h)
        /\ UNCHANGED <<famPoison, mishaps>>
  /\ UNCHANGED <<walDir, flushQueue, written, strayUnlink, lifecycleVars>>

\* The memtable's WAL files go, the debt gauge is recomputed, and the claim is
\* released.
Reclaim(k) ==
  /\ worker[k].pc = "reclaim"
  /\ walDir' = Without(walDir, worker[k].imm)
  /\ \E debt \in BOOLEAN :
       EndFlush(k, [fam EXCEPT ![worker[k].h].overHard = debt], thread)
  /\ UNCHANGED <<famCatalog, flushQueue, famPoison, mishaps, written,
                 strayUnlink, lifecycleVars>>

\* A compaction brings the debt down and refresh_compaction_debt wakes the
\* writers parked on it.
DebtFalls(h) ==
  /\ fam[h].overHard /\ ~famPoison
  /\ fam' = [fam EXCEPT ![h].overHard = FALSE]
  /\ thread' = Notified(thread, h)
  /\ UNCHANGED <<walDir, famCatalog, flushQueue, worker, famPoison, mishaps, written,
                 strayUnlink, lifecycleVars>>

-----------------------------------------------------------------------------
(* Drop, clear and create, serialised by cf_lifecycle_mu. *)

NoDdl == [pc |-> "idle", op |-> "none", h |-> 0]

flushVars == <<walDir, flushQueue, worker, closing, written, strayUnlink, halfWiped>>

\* begin_retire marks the family and wakes the writers its queue stalls.
BeginRetire(op) ==
  /\ ddl = NoDdl /\ cfs # 0 /\ ~closing
  /\ op = "clear" => lastInc < MaxInc
  /\ ddl' = [pc |-> "retire", op |-> op, h |-> cfs]
  /\ fam' = [fam EXCEPT ![cfs].retiring = TRUE]
  /\ thread' = Notified(thread, cfs)
  /\ UNCHANGED <<cfs, hasDir, famCatalog, famPoison, mishaps, lastInc, flushVars>>

\* Mutant: the drop does not wait for flush claims.
RetireReadyAnyFlush(f) == ~f.rotating /\ ~f.preparing

\* ... and waits until no rotation and no flush of the family is in flight.
RetireReady(f) == ~f.rotating /\ ~f.preparing /\ f.flushes = 0

\* The one durable edit of a drop (every table and the family) or of a clear
\* (the same, and the name again, empty), and its publication.  A failed edit
\* takes the mark back.
RetireEdit ==
  LET h == ddl.h
      inc == IF ddl.op = "clear" THEN lastInc + 1 ELSE 0
      abort == /\ ddl' = NoDdl
               /\ fam' = [fam EXCEPT ![h].retiring = FALSE]
               /\ thread' = Notified(thread, h)
               /\ UNCHANGED <<cfs, famCatalog, lastInc>>
  IN
  /\ ddl.pc = "retire" /\ RetireReady(fam[h])
  /\ \/ famPoison /\ abort /\ UNCHANGED <<famPoison, mishaps>>
     \/ /\ ~famPoison /\ mishaps < MaxMishaps
        /\ abort /\ famPoison' = TRUE /\ mishaps' = mishaps + 1
     \/ /\ ~famPoison
        /\ famCatalog' = [inc |-> inc, l0 |-> <<>>]
        /\ cfs' = 0
        /\ lastInc' = IF ddl.op = "clear" THEN inc ELSE lastInc
        /\ ddl' = [ddl EXCEPT !.pc = "wipe"]
        /\ UNCHANGED <<fam, thread, famPoison, mishaps>>
  /\ UNCHANGED <<hasDir, flushVars>>

\* Mutant: only the tables of the directory are removed.
WipeKeepsWals ==
  /\ ddl.pc = "wipe"
  /\ fam' = CloseResources(fam, ddl.h)
  /\ ddl' = IF ddl.op = "clear" THEN [ddl EXCEPT !.pc = "recreate"] ELSE NoDdl
  /\ UNCHANGED <<cfs, walDir, hasDir, famCatalog, flushQueue, thread, worker,
                 famPoison, closing, mishaps, lastInc, written, strayUnlink, halfWiped>>

\* close_resources, then remove_dir_all.
Wipe ==
  /\ ddl.pc = "wipe"
  /\ fam' = CloseResources(fam, ddl.h)
  /\ walDir' = <<>>
  /\ hasDir' = FALSE
  /\ ddl' = IF ddl.op = "clear" THEN [ddl EXCEPT !.pc = "recreate"] ELSE NoDdl
  /\ UNCHANGED <<cfs, famCatalog, flushQueue, thread, worker, famPoison, closing,
                 mishaps, lastInc, written, strayUnlink, halfWiped>>

\* ColumnFamily::create and register_cf, inside the clear's publish step.
Recreate ==
  /\ ddl.pc = "recreate"
  /\ hasDir' = TRUE
  /\ walDir' = WithWal(walDir, 0, lastInc)
  /\ fam' = [fam EXCEPT ![lastInc] = NewFamily(0, {}, {0}, <<>>)]
  /\ cfs' = lastInc
  /\ ddl' = NoDdl
  /\ UNCHANGED <<famCatalog, flushQueue, thread, worker, famPoison, closing,
                 mishaps, lastInc, written, strayUnlink, halfWiped>>

\* create_column_family: the files first ...
CreateFiles ==
  /\ ddl = NoDdl /\ cfs = 0 /\ lastInc < MaxInc /\ ~closing
  /\ hasDir' = TRUE
  /\ walDir' = WithWal(walDir, 0, lastInc + 1)
  /\ ddl' = [pc |-> "create", op |-> "create", h |-> lastInc + 1]
  /\ UNCHANGED <<fam, cfs, famCatalog, flushQueue, thread, worker, famPoison, closing,
                 mishaps, lastInc, written, strayUnlink, halfWiped>>

\* ... then the edit, and the registration as its publication.
CreateEdit ==
  /\ ddl.pc = "create"
  /\ ddl' = NoDdl
  /\ \/ /\ famPoison
        /\ UNCHANGED <<fam, cfs, famCatalog, lastInc, famPoison, mishaps>>
     \/ /\ ~famPoison /\ mishaps < MaxMishaps
        /\ famPoison' = TRUE /\ mishaps' = mishaps + 1
        /\ UNCHANGED <<fam, cfs, famCatalog, lastInc>>
     \/ /\ ~famPoison
        /\ famCatalog' = [inc |-> ddl.h, l0 |-> <<>>]
        /\ lastInc' = ddl.h
        /\ cfs' = ddl.h
        /\ fam' = [fam EXCEPT ![ddl.h] = NewFamily(0, {}, {0}, <<>>)]
        /\ UNCHANGED <<famPoison, mishaps>>
  /\ UNCHANGED <<hasDir, thread, flushVars>>

-----------------------------------------------------------------------------
(* A crash and the next open: recover_column_families, ColumnFamily::load. *)

\* Every WAL file of the directory is replayed into one memtable, the catalog's
\* tables are L0, and the next generation is opened.  A registered family
\* without its directory fails the open.
FamilyCrash ==
  LET gens == DOMAIN walDir
      next == IF gens = {} THEN 0 ELSE 1 + CHOOSE g \in gens : \A x \in gens : x <= g
      opens == famCatalog.inc = 0 \/ hasDir
      loaded == NewFamily(next, UNION {walDir[g].recs : g \in gens},
                          gens \cup {next}, famCatalog.l0)
  IN
  /\ mishaps < MaxMishaps
  /\ mishaps' = mishaps + 1
  /\ cfs' = IF opens THEN famCatalog.inc ELSE 0
  /\ fam' = [h \in Incs |-> IF h = famCatalog.inc /\ opens THEN loaded ELSE NoFamily]
  /\ walDir' = IF famCatalog.inc # 0 /\ opens
                THEN WithWal([g \in gens |-> [walDir[g] EXCEPT !.owner = famCatalog.inc]],
                             next, famCatalog.inc)
                ELSE walDir
  /\ flushQueue' = <<>>
  /\ thread' = [p \in Rotators |-> IdleThread]
  /\ worker' = [k \in Workers |-> Resting]
  /\ ddl' = NoDdl
  /\ famPoison' = FALSE
  /\ closing' = ~opens
  /\ halfWiped' = (halfWiped \/ ddl.pc \in {"wipe", "recreate"})
  /\ UNCHANGED <<hasDir, famCatalog, lastInc, written, strayUnlink>>

-----------------------------------------------------------------------------
RotateStep(p) == RotateEnter(p) \/ RotateOpen(p)
                 \/ RotateAbandon(p) \/ RotateSeal(p) \/ RotateSend(p) \/ FlushesDrained(p)

FlushStep(k) == TakeJob(k) \/ AwaitTurn(k) \/ FlushEdit(k)
                \/ Reclaim(k)

DdlStep == RetireEdit \/ Wipe \/ Recreate \/ CreateEdit

FamilyNext ==
  \/ \E h \in FamHandles : CommitBegin(h)
  \/ Admit
  \/ AppendFrame
  \/ \E p \in Rotators : RotateStep(p)
  \/ \E p \in Flushers, h \in FamHandles : FlushMemtable(p, h)
  \/ CloseBegin
  \/ \E k \in Workers : FlushStep(k)
  \/ \E k \in Workers : FlushFails(k)
  \/ \E h \in FamHandles : DebtFalls(h)
  \/ \E op \in {"drop", "clear"} : BeginRetire(op)
  \/ DdlStep
  \/ CreateFiles
  \/ FamilyCrash

\* A step of a thread that is inside a call: nothing but the other threads can
\* keep it from happening.
FamilyProgress ==
  \/ Admit \/ AppendFrame \/ DdlStep
  \/ \E p \in Rotators : RotateStep(p)
  \/ \E k \in Workers : FlushStep(k)
  \/ \E h \in FamHandles : DebtFalls(h)

FamilySpec == FamilyInit /\ [][FamilyNext]_familyVars

-----------------------------------------------------------------------------
\* What a reopen would find on disk.
Recoverable == UNION {walDir[g].recs : g \in DOMAIN walDir}
               \cup UNION ToSet(famCatalog.l0)

\* A record whose frame was appended to the catalogued incarnation is in a
\* table of the catalog or in a WAL file a reopen replays, at every instant: no
\* flush reclaims a WAL before its table is in the catalog, and no drop, clear,
\* rotation or flush of an EARLIER incarnation unlinks a file of this one
\* (paths are shared) until an abandoned rotation does what AbandonIsHarmless
\* says it cannot.
AppendsSurvive ==
  (famCatalog.inc # 0 /\ hasDir /\ ~strayUnlink) =>
    written[famCatalog.inc] \subseteq Recoverable

\* A rotation that finds its family retiring removes a segment nobody uses: the
\* drop or clear is still waiting for it, so no family has been re-created in
\* the directory.
AbandonIsHarmless == ~strayUnlink

AllBelow(A, B) == \A a \in A, b \in B : a < b

\* Oldest to newest: the tables of L0, the sealed memtables, the memtable.
AgeChain(f) == Reverse(f.l0) \o [i \in DOMAIN f.imm |-> f.imm[i].recs] \o <<f.mem>>

\* What element i of a chain holds that nothing older does: a replayed WAL may
\* bring back records that are already in a table.
Fresh(chain, i) == chain[i] \ UNION {chain[j] : j \in 1..(i - 1)}

\* Tables enter L0 in the order their memtables were sealed, whatever order the
\* workers finish writing them in: every record of an older table precedes
\* every record of a newer one, and those the records still in memory
\* (await_flush_turn).
SealOrder ==
  cfs # 0 =>
    LET chain == AgeChain(fam[cfs]) IN
    \A i, j \in DOMAIN chain : i < j => AllBelow(Fresh(chain, i), Fresh(chain, j))

\* The family registered under the name holds only records written to it: a
\* drop or clear lets nothing of an earlier incarnation through, neither by a
\* late flush, a late rotation nor a stale handle.  (A crash between a clear's
\* durable edit and its wipe is what ClearedStaysEmpty is about.)
OwnRecordsOnly ==
  (cfs # 0 /\ ~halfWiped) =>
    LET f == fam[cfs] IN
    f.mem \cup RecsOf(f.imm) \cup UNION ToSet(f.l0) \cup Recoverable \subseteq written[cfs]

\* Once the edit of a drop or clear is durable, no record of the old family is
\* ever part of what is registered under the name.
ClearedStaysEmpty ==
  cfs # 0 =>
    fam[cfs].mem \cup RecsOf(fam[cfs].imm) \cup UNION ToSet(fam[cfs].l0) \subseteq written[cfs]

\* Every worker waits for a memtable whose job is behind it in the queue:
\* rotations send their jobs after leaving rot, so two of them may do it in the
\* opposite order.
Overtaken ==
  \A k \in Workers :
    worker[k].pc = "turn" /\ \E i \in DOMAIN flushQueue : flushQueue[i].h = worker[k].h

\* No call waits for ever: while a commit, a forced rotation or its wait for the
\* flush queue, a close, a drop or a clear is in progress, some thread inside a
\* call can take a step, and every such step brings its call nearer to its
\* return.  After a fail-stop a stalled commit may stay parked: fail_stop does
\* not signal the family's condition variable; neither does close, which may
\* finish before the job of a rotation it races is counted.  Overtaken is what
\* FlushesGoOn refutes.
CallsProceed ==
  (~famPoison /\ ~DbClosed
   /\ (ddl # NoDdl \/ \E p \in Rotators : thread[p].pc \notin {"idle", "closed"}))
    => ENABLED FamilyProgress \/ Overtaken

\* A flush waiting for its turn never waits for a job no worker will take: the
\* queue is FIFO, so the older memtable's job was taken before it.
FlushesGoOn == Overtaken => ENABLED FamilyProgress
====
