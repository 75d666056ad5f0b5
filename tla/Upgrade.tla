------------------------------ MODULE Upgrade ------------------------------
(***************************************************************************)
(* The upgrade of a 0.9 directory to format epoch 1 (upgrade.rs): the      *)
(* rebuild in a sibling directory, the swap by two renames under a         *)
(* journal, what an open does with a swap that was interrupted, and the    *)
(* clean-up of the backup.  Several processes open the database at the     *)
(* same time, any of them may die, and a power failure loses the changes   *)
(* of the parent directory that no fsync covered.                          *)
(*                                                                         *)
(* A directory is the set of what it holds: the tables, the replayed       *)
(* memtables (or the WAL they come from), entries the engine does not own, *)
(* the MANIFEST, the marker, and writes made once it was opened.           *)
(***************************************************************************)
EXTENDS Integers, Sequences, FiniteSets, FiniteSetsExt

CONSTANTS UpOpeners,    \* processes
          UpBudgets,    \* bounds, one chosen at the start: [kinds, opens, faults, deaths, blackouts, keep]
          MaxRebuilds   \* bound: upgrade directories

VARIABLES upParent,     \* the states of the parent directory since its last fsync, oldest first:
                        \* [entry: name -> directory or None, journal]
          upTmp,        \* the journal's temp file
          upDirs,       \* what each directory holds
          upHolder,     \* who holds the LOCK of each directory: [writer, readers]
          upProc,       \* the call of each process
          upBudget,
          upAcked,      \* history: has a write to the upgraded database been acknowledged?
          upTaint       \* history: what happened that the protocol does not survive

upVars == <<upParent, upTmp, upDirs, upHolder, upProc, upBudget, upAcked, upTaint>>

Gone == -1
Source == 0                              \* the 0.9 directory
Rebuilds == 1..MaxRebuilds
Blank == MaxRebuilds + 1                 \* a directory an open created
UpIds == 0..Blank
Db == <<"db", 0>>
Up(n) == <<"upgrade", n>>
Backup(n) == <<"backup", n>>
NoJournal == [state |-> "none", n |-> 0]

Data == {"tables", "memtables"}

Now == upParent[Len(upParent)]
entry == Now.entry
Dir(name) == upDirs[entry[name]]
There(name) == entry[name] # Gone

\* A process that is not in a call.
NoCall == [pc |-> "idle", kind |-> "", j |-> NoJournal, n |-> 0, at |-> Db, fd |-> Gone,
           held |-> {}, then |-> "", report |-> FALSE, own |-> FALSE, legacy |-> FALSE]

\* is_onda09_dir, by path.
is_onda09_dir(name) == There(name) /\ "WVMF" \in Dir(name)

\* catalog_complete: a MANIFEST of epoch 1 and every table file it names.
catalog_complete(name) == There(name) /\ Data \cup {"MANIFEST"} \subseteq Dir(name)

-----------------------------------------------------------------------------
(* Steps shared by the calls *)

Goto(p, k, pc) == upProc' = [upProc EXCEPT ![p] = [k EXCEPT !.pc = pc]]

Freed(p, h) == [d \in UpIds |-> [writer |-> h[d].writer \ {p}, readers |-> h[d].readers \ {p}]]

\* The call ends; the descriptors it held the locks through are closed.
Ends(p) == upProc' = [upProc EXCEPT ![p] = NoCall] /\ upHolder' = Freed(p, upHolder)

\* The locks go, the call continues.
Unlocks(p, k, pc) == Goto(p, [k EXCEPT !.held = {}], pc) /\ upHolder' = Freed(p, upHolder)

\* A change of the parent directory, not yet durable.
Changes(e, j) == upParent' = Append(upParent, [entry |-> e, journal |-> j])

\* Mutant: the directory's fsync is left out.
sync_dir_skipped(p) ==
    LET k == upProc[p] IN
    /\ k.pc = "sync"
    /\ Goto(p, k, k.then)
    /\ UNCHANGED <<upParent, upTmp, upDirs, upHolder, upBudget, upAcked, upTaint>>

\* sync_dir of the parent, after which the call goes on at k.then.
sync_dir(p) ==
    LET k == upProc[p] IN
    /\ k.pc = "sync"
    /\ upParent' = <<Now>>
    /\ Goto(p, k, k.then)
    /\ UNCHANGED <<upTmp, upDirs, upHolder, upBudget, upAcked, upTaint>>

\* rename of a directory; onto a directory that holds anything it fails.
Renamable(from, to) == There(from) /\ (There(to) => Dir(to) = {})
Renamed(from, to) == [entry EXCEPT ![to] = entry[from], ![from] = Gone]

\* rename_durably.
rename_durably(p, from, to, then) ==
    /\ Renamable(from, to)
    /\ Changes(Renamed(from, to), Now.journal)
    /\ Goto(p, [upProc[p] EXCEPT !.then = then], "sync")
    /\ UNCHANGED <<upTmp, upDirs, upHolder, upBudget, upAcked, upTaint>>

\* remove_dir_durably: entry by entry, in whatever order the directory lists
\* them, then the directory itself.
remove_dir_durably(p) ==
    LET k == upProc[p] IN
    /\ k.pc = "rmdir"
    /\ IF ~There(k.at) THEN Goto(p, k, k.then) /\ UNCHANGED <<upParent, upDirs>>
       ELSE IF Dir(k.at) = {}
       THEN Changes([entry EXCEPT ![k.at] = Gone], Now.journal) /\ Goto(p, k, "sync") /\ UNCHANGED upDirs
       ELSE /\ \E x \in Dir(k.at) : upDirs' = [upDirs EXCEPT ![entry[k.at]] = @ \ {x}]
            /\ UNCHANGED <<upParent, upProc>>
    /\ UNCHANGED <<upTmp, upHolder, upBudget, upAcked, upTaint>>

Removes(p, k, name, then) == upProc' = [upProc EXCEPT ![p] = [k EXCEPT !.pc = "rmdir", !.at = name, !.then = then]]

\* write_journal: the temp file, then its rename.
write_journal(p) ==
    LET k == upProc[p] state == IF k.pc = "swapping" THEN "swapping" ELSE "done" IN
    \/ /\ k.pc \in {"swapping", "done"}
       /\ upTmp' = [state |-> state, n |-> k.n]
       /\ Goto(p, k, IF state = "swapping" THEN "swapping2" ELSE "done2")
       /\ UNCHANGED <<upParent, upDirs, upHolder, upBudget, upAcked, upTaint>>
    \/ /\ k.pc \in {"swapping2", "done2"} /\ upTmp # NoJournal
       /\ Changes(entry, upTmp) /\ upTmp' = NoJournal
       /\ Goto(p, [k EXCEPT !.then = IF k.pc = "swapping2" THEN "swap1" ELSE "unmark"], "sync")
       /\ UNCHANGED <<upDirs, upHolder, upBudget, upAcked, upTaint>>

\* remove_journal.
remove_journal(p) ==
    LET k == upProc[p] IN
    /\ k.pc = "unjournal"
    /\ upTmp' = NoJournal
    /\ IF Now.journal = NoJournal THEN Goto(p, k, k.then) /\ UNCHANGED upParent
       ELSE Changes(entry, NoJournal) /\ Goto(p, k, "sync")
    /\ UNCHANGED <<upDirs, upHolder, upBudget, upAcked, upTaint>>

\* acquire_dir_lock: the file is opened by path, then locked.
OpenLock(p) ==
    LET k == upProc[p] IN
    /\ k.pc = "openlock"
    /\ IF There(k.at) THEN Goto(p, [k EXCEPT !.fd = entry[k.at]], "flock") /\ UNCHANGED upHolder
       ELSE Ends(p)
    /\ UNCHANGED <<upParent, upTmp, upDirs, upBudget, upAcked, upTaint>>

acquire_dir_lock(p) ==
    LET k == upProc[p] h == upHolder[k.fd] shared == k.kind = "ro"
        free == h.writer = {} /\ (shared \/ h.readers = {}) IN
    /\ k.pc = "flock"
    /\ IF ~free THEN Ends(p)
       ELSE /\ upHolder' = [upHolder EXCEPT ![k.fd] =
                              IF shared THEN [@ EXCEPT !.readers = @ \cup {p}]
                              ELSE [@ EXCEPT !.writer = @ \cup {p}]]
            /\ Goto(p, [k EXCEPT !.held = @ \cup {k.fd}], k.then)
    /\ UNCHANGED <<upParent, upTmp, upDirs, upBudget, upAcked, upTaint>>

Locks(p, k, name, then) == upProc' = [upProc EXCEPT ![p] = [k EXCEPT !.pc = "openlock", !.at = name, !.then = then]]

-----------------------------------------------------------------------------
(* resolve_interrupted and recover_locked *)

\* The processes are interchangeable: the first idle one makes the call.
FirstFree(p) == upProc[p] = NoCall /\ \A q \in UpOpeners : q < p => upProc[q] # NoCall

\* open_observed, read-write (rw) or read-only (ro), or the upgrade tool.
BeginUpgrade(p) ==
    \E kind \in upBudget.kinds :
       /\ FirstFree(p) /\ upBudget.opens > 0
       /\ upBudget' = [upBudget EXCEPT !.opens = @ - 1]
       /\ Goto(p, [NoCall EXCEPT !.kind = kind], "resolve")
       /\ UNCHANGED <<upParent, upTmp, upDirs, upHolder, upAcked, upTaint>>

resolve_interrupted(p) ==
    LET k == upProc[p] j == Now.journal IN
    /\ k.pc = "resolve"
    /\ CASE j = NoJournal -> Goto(p, k, "sniff") /\ UNCHANGED upHolder
         [] j # NoJournal /\ k.kind = "ro" ->
              IF j.state = "done" THEN Goto(p, k, "sniff") /\ UNCHANGED upHolder ELSE Ends(p)
         [] OTHER -> Goto(p, [k EXCEPT !.j = j], "pick") /\ UNCHANGED upHolder
    /\ UNCHANGED <<upParent, upTmp, upDirs, upBudget, upAcked, upTaint>>

\* The lock that excludes a live upgrader: the first of the three that exists.
PickLock(p) ==
    LET k == upProc[p] n == k.j.n IN
    /\ k.pc = "pick"
    /\ CASE There(Backup(n)) -> Locks(p, k, Backup(n), "reread")
         [] ~There(Backup(n)) /\ There(Db) -> Locks(p, k, Db, "reread")
         [] ~There(Backup(n)) /\ ~There(Db) /\ There(Up(n)) -> Locks(p, k, Up(n), "reread")
         [] OTHER -> Goto(p, k, "reread")
    /\ UNCHANGED <<upParent, upTmp, upDirs, upHolder, upBudget, upAcked, upTaint>>

Reread(p) ==
    LET k == upProc[p] j == Now.journal IN
    /\ k.pc = "reread"
    /\ IF j = NoJournal THEN Unlocks(p, k, "sniff")
       ELSE Goto(p, [k EXCEPT !.j = j, !.n = j.n], "recover") /\ UNCHANGED upHolder
    /\ UNCHANGED <<upParent, upTmp, upDirs, upBudget, upAcked, upTaint>>

\* What recover_locked does with the three directories it finds; whole says
\* which of them pass catalog_complete.
decide(e, j, whole) ==
    LET P == e[Db] # Gone U == e[Up(j.n)] # Gone B == e[Backup(j.n)] # Gone IN
    CASE j.state = "done" -> "completed"
      [] j.state # "done" /\ U /\ whole[Up(j.n)] -> IF P /\ B THEN "corrupt" ELSE IF P THEN "swap1" ELSE "swap2"
      [] j.state # "done" /\ ~U /\ P /\ B -> IF whole[Db] THEN "mark" ELSE "corrupt"
      [] OTHER -> IF ~P /\ B THEN "undo" ELSE "drop"

WholeNow == [name \in DOMAIN entry |-> catalog_complete(name)]
NoneWhole == [name \in DOMAIN entry |-> FALSE]

\* A catalog that cannot be read counts as incomplete.
recover_locked(p) ==
    LET k == upProc[p] IN
    /\ k.pc = "recover"
    /\ \E spurious \in {FALSE} \cup (IF upBudget.faults > 0 THEN {TRUE} ELSE {}) :
          LET what == decide(entry, k.j, IF spurious THEN NoneWhole ELSE WholeNow) IN
          /\ upBudget' = IF spurious THEN [upBudget EXCEPT !.faults = @ - 1] ELSE upBudget
          /\ upTaint' = upTaint \cup (IF spurious /\ There(Up(k.j.n)) THEN {"rollback"} ELSE {})
          /\ CASE what = "completed" -> Goto(p, k, "unmark") /\ UNCHANGED upHolder
               [] what = "corrupt" -> Ends(p)
               [] what = "mark" -> Goto(p, k, "done") /\ UNCHANGED upHolder
               [] what \in {"swap1", "swap2", "undo"} -> Goto(p, k, what) /\ UNCHANGED upHolder
               [] what = "drop" -> Removes(p, k, Up(k.n), "forget") /\ UNCHANGED upHolder
    /\ UNCHANGED <<upParent, upTmp, upDirs, upAcked>>

\* The renames of the swap, whether run_upgrade or a recovery makes them.
Swap(p) ==
    LET k == upProc[p] IN
    \/ k.pc = "swap1" /\ rename_durably(p, Db, Backup(k.n), "swap2")
    \/ k.pc = "swap2" /\ rename_durably(p, Up(k.n), Db, "done")
    \/ k.pc = "undo" /\ rename_durably(p, Backup(k.n), Db, "drop")

\* Rolled back: the rebuild goes, then the journal.
DropRebuild(p) ==
    LET k == upProc[p] IN
    /\ \/ k.pc = "drop" /\ Removes(p, k, Up(k.n), "forget") /\ UNCHANGED upHolder
       \/ k.pc = "forget" /\ Goto(p, [k EXCEPT !.then = "rolledback"], "unjournal") /\ UNCHANGED upHolder
       \/ /\ k.pc = "rolledback"
          /\ IF k.own THEN Ends(p) ELSE Unlocks(p, k, "sniff")
    /\ UNCHANGED <<upParent, upTmp, upDirs, upBudget, upAcked, upTaint>>

\* remove_marker, the last step of mark_done; the locks are dropped.
remove_marker(p) ==
    LET k == upProc[p] IN
    /\ k.pc = "unmark"
    /\ IF There(Db) THEN upDirs' = [upDirs EXCEPT ![entry[Db]] = @ \ {"marker"}] ELSE UNCHANGED upDirs
    /\ IF k.own THEN Ends(p)
       ELSE Unlocks(p, [k EXCEPT !.report = TRUE], IF k.kind = "tool" THEN "finalize" ELSE "sniff")
    /\ UNCHANGED <<upParent, upTmp, upBudget, upAcked, upTaint>>

-----------------------------------------------------------------------------
(* Opening *)

\* is_onda09_dir decides between the legacy path and epoch 1.
Sniff(p) ==
    LET k == upProc[p] IN
    /\ k.pc = "sniff"
    /\ CASE is_onda09_dir(Db) /\ k.kind # "ro" -> Locks(p, k, Db, "checks")
         [] ~is_onda09_dir(Db) /\ k.kind = "tool" -> upProc' = [upProc EXCEPT ![p] = NoCall]
         [] OTHER -> Goto(p, [k EXCEPT !.legacy = is_onda09_dir(Db)], "create")
    /\ UNCHANGED <<upParent, upTmp, upDirs, upHolder, upBudget, upAcked, upTaint>>

\* open_with_format: create_dir_all, then the lock.
CreateDir(p) ==
    LET k == upProc[p] IN
    /\ k.pc = "create"
    /\ IF There(Db) THEN UNCHANGED <<upParent, upTaint>>
       ELSE /\ Changes([entry EXCEPT ![Db] = Blank], Now.journal)
            /\ upTaint' = upTaint \cup {"window"}
    /\ Locks(p, k, Db, "load")
    /\ UNCHANGED <<upTmp, upDirs, upHolder, upBudget, upAcked>>

\* The catalog is read by path.  An empty directory is a new database for a
\* read-write or a read-only open of epoch 1; the other format does not decode.
Load(p) ==
    LET k == upProc[p] IN
    /\ k.pc = "load"
    /\ IF There(Db) /\ (is_onda09_dir(Db) <=> k.legacy)
       THEN /\ upDirs' = IF Dir(Db) = {} THEN [upDirs EXCEPT ![entry[Db]] = {"LOCK"}] ELSE upDirs
            /\ Goto(p, k, IF k.report THEN "finalize" ELSE "serving") /\ UNCHANGED upHolder
       ELSE Ends(p) /\ UNCHANGED upDirs
    /\ UNCHANGED <<upParent, upTmp, upBudget, upAcked, upTaint>>

\* The backup goes if it is not to be kept, then the journal; the tool ends here.
finalize(p) ==
    LET k == upProc[p] IN
    /\ k.pc = "finalize"
    /\ IF upBudget.keep \/ ~There(Backup(k.n))
       THEN Goto(p, [k EXCEPT !.then = "serving"], "unjournal")
       ELSE Removes(p, k, Backup(k.n), "finalize")
    /\ UNCHANGED <<upParent, upTmp, upDirs, upHolder, upBudget, upAcked, upTaint>>

\* A write to the opened database.
Serve(p) ==
    LET k == upProc[p] IN
    /\ k.pc = "serving" /\ k.kind = "rw" /\ ~upAcked
    /\ There(Db) /\ upDirs' = [upDirs EXCEPT ![entry[Db]] = @ \cup {"write"}]
    /\ upAcked' = TRUE
    /\ UNCHANGED <<upParent, upTmp, upHolder, upProc, upBudget, upTaint>>

UpClose(p) ==
    /\ upProc[p].pc = "serving" /\ Ends(p)
    /\ UNCHANGED <<upParent, upTmp, upDirs, upBudget, upAcked, upTaint>>

-----------------------------------------------------------------------------
(* run_upgrade *)

\* With the source's lock held: no swap is under way, the directory is still a
\* 0.9 one, and what an upgrader left behind is swept.
Checks(p) ==
    LET k == upProc[p] IN
    /\ k.pc = "checks"
    /\ CASE Now.journal # NoJournal -> Ends(p)
         [] Now.journal = NoJournal /\ ~is_onda09_dir(Db) ->
              IF k.kind = "tool" THEN Ends(p) ELSE Unlocks(p, k, "create")
         [] OTHER -> Goto(p, k, "sweep") /\ UNCHANGED upHolder
    /\ UNCHANGED <<upParent, upTmp, upDirs, upBudget, upAcked, upTaint>>

\* sweep_stale_upgrade_dirs: only what carries the marker.
sweep_stale_upgrade_dirs(p) ==
    LET k == upProc[p] stale == {n \in Rebuilds : There(Up(n)) /\ "marker" \in Dir(Up(n))}
        fresh == {n \in Rebuilds : ~There(Up(n)) /\ upDirs[n] = {}} IN
    /\ k.pc = "sweep"
    /\ IF stale # {} THEN Removes(p, k, Up(Min(stale)), "sweep") /\ UNCHANGED upTmp
       ELSE /\ fresh # {} /\ upTmp' = NoJournal
            /\ Goto(p, [k EXCEPT !.n = Min(fresh)], "preflight")
    /\ UNCHANGED <<upParent, upDirs, upHolder, upBudget, upAcked, upTaint>>

\* preflight_catalog, list_prepared and the room on the disk: the source may be
\* one the upgrade refuses.
Preflight(p) ==
    LET k == upProc[p] IN
    /\ k.pc = "preflight"
    /\ Ends(p) \/ (Goto(p, k, "mkdir") /\ UNCHANGED upHolder)
    /\ UNCHANGED <<upParent, upTmp, upDirs, upBudget, upAcked, upTaint>>

\* The upgrade directory, its marker and its lock, made durable.
MakeDir(p) ==
    LET k == upProc[p] IN
    \/ /\ k.pc = "mkdir"
       /\ Changes([entry EXCEPT ![Up(k.n)] = k.n], Now.journal)
       /\ Goto(p, k, "mark")
       /\ UNCHANGED <<upTmp, upDirs, upHolder, upBudget, upAcked, upTaint>>
    \/ /\ k.pc = "mark"
       /\ upDirs' = [upDirs EXCEPT ![k.n] = {"marker"}]
       /\ upHolder' = [upHolder EXCEPT ![k.n].writer = @ \cup {p}]
       /\ upParent' = <<Now>>
       /\ Goto(p, [k EXCEPT !.held = @ \cup {k.n}], "build")
       /\ UNCHANGED <<upTmp, upBudget, upAcked, upTaint>>

\* What of a 0.9 directory becomes what of the rebuild: its tables, the
\* memtables its WAL replays into, and what the engine does not own.
transcode(src) == src \cap {"tables"}
write_memtables(src) == IF "wal" \in src THEN {"memtables"} ELSE {}
is_engine_entry(x) == x \in {"tables", "wal", "WVMF", "marker", "MANIFEST"}
carry_foreign_entries(src) == {x \in src : ~is_engine_entry(x)}

\* build: one part after the other, and the MANIFEST last.
Missing(src, have) ==
    LET parts == <<transcode(src), write_memtables(src), carry_foreign_entries(src), {"MANIFEST"}>>
        todo == {i \in DOMAIN parts : ~(parts[i] \subseteq have)} IN
    IF todo = {} THEN {} ELSE parts[Min(todo)]

build(p) ==
    LET k == upProc[p] x == Missing(Dir(Db), upDirs[k.n]) IN
    /\ k.pc = "build" /\ There(Db)
    /\ IF x = {} THEN Goto(p, k, "verify") /\ UNCHANGED upDirs
       ELSE upDirs' = [upDirs EXCEPT ![k.n] = @ \cup x] /\ UNCHANGED upProc
    /\ UNCHANGED <<upParent, upTmp, upHolder, upBudget, upAcked, upTaint>>

\* verify compares the rebuilt tables with what the source's hold.
Same(src, new) == transcode(src) \cup write_memtables(src) = new \cap Data

verify(p) ==
    LET k == upProc[p] IN
    /\ k.pc = "verify" /\ There(Db) /\ Same(Dir(Db), upDirs[k.n])
    /\ Goto(p, k, "swapping")
    /\ UNCHANGED <<upParent, upTmp, upDirs, upHolder, upBudget, upAcked, upTaint>>

-----------------------------------------------------------------------------
(* Faults *)

\* A call that fails.  Before the journal exists the rebuild is removed; in the
\* swap the upgrader resolves its own journal and still reports the error; a
\* best-effort finalize only leaves the journal; any other call ends.
FailsTo(p, k) ==
    CASE k.pc = "giveup" -> Ends(p)
      [] k.pc # "giveup" /\ p \in UNION {upHolder[d].writer : d \in Rebuilds} /\ ~k.own
           /\ k.pc \in {"build", "verify", "swapping", "swapping2", "swap1", "swap2", "done", "done2", "unmark", "sync"}
           /\ Source \in k.held ->
              /\ UNCHANGED upHolder
              /\ IF Now.journal = NoJournal THEN Removes(p, [k EXCEPT !.own = TRUE], Up(k.n), "giveup")
                 ELSE Goto(p, [k EXCEPT !.own = TRUE, !.j = Now.journal], "recover")
      [] OTHER -> IF k.then = "serving" \/ k.pc = "finalize" \/ k.then = "finalize"
                  THEN IF k.kind = "tool" THEN Ends(p) ELSE Goto(p, k, "serving") /\ UNCHANGED upHolder
                  ELSE Ends(p)

\* Steps that touch the disk.
Io == {"sync", "rmdir", "swapping", "swapping2", "done", "done2", "unjournal", "swap1", "swap2",
       "undo", "unmark", "build", "verify", "openlock", "load", "checks", "sweep", "giveup"}

\* What a step cannot do in the state it finds.
Impossible(k) ==
    \/ k.pc \in {"swapping2", "done2"} /\ upTmp = NoJournal
    \/ k.pc = "swap1" /\ ~Renamable(Db, Backup(k.n))
    \/ k.pc = "swap2" /\ ~Renamable(Up(k.n), Db)
    \/ k.pc = "undo" /\ ~Renamable(Backup(k.n), Db)
    \/ k.pc \in {"build", "verify"} /\ ~There(Db)
    \/ k.pc = "verify" /\ There(Db) /\ ~Same(Dir(Db), upDirs[k.n])
    \/ k.pc = "giveup"

UpFails(p) ==
    LET k == upProc[p] IN
    /\ k.pc \in Io
    /\ \/ Impossible(k) /\ UNCHANGED upBudget
       \/ /\ upBudget.faults > 0
          /\ upBudget' = [upBudget EXCEPT !.faults = @ - 1]
    /\ FailsTo(p, k)
    /\ UNCHANGED <<upParent, upTmp, upDirs, upAcked, upTaint>>

\* A process is killed: its locks go, the disk keeps everything.
Die(p) ==
    /\ upProc[p] # NoCall /\ upBudget.deaths > 0
    /\ upBudget' = [upBudget EXCEPT !.deaths = @ - 1]
    /\ Ends(p)
    /\ UNCHANGED <<upParent, upTmp, upDirs, upAcked, upTaint>>

\* The machine stops: the parent directory is as of some change since its last fsync.
Blackout ==
    \E i \in DOMAIN upParent :
       /\ upBudget.blackouts > 0
       /\ upBudget' = [upBudget EXCEPT !.blackouts = @ - 1]
       /\ upParent' = <<upParent[i]>>
       /\ upTmp' \in {NoJournal, upTmp}
       /\ upProc' = [p \in UpOpeners |-> NoCall]
       /\ upHolder' = [d \in UpIds |-> [writer |-> {}, readers |-> {}]]
       /\ UNCHANGED <<upDirs, upAcked, upTaint>>

-----------------------------------------------------------------------------

UpNames == {Db} \cup {Up(n) : n \in Rebuilds} \cup {Backup(n) : n \in Rebuilds}

UpInit ==
    /\ upBudget \in UpBudgets
    /\ upParent = <<[entry |-> [name \in UpNames |-> IF name = Db THEN Source ELSE Gone],
                     journal |-> NoJournal]>>
    /\ upTmp = NoJournal
    /\ upDirs = [d \in UpIds |-> IF d = Source THEN {"tables", "wal", "foreign", "WVMF"} ELSE {}]
    /\ upHolder = [d \in UpIds |-> [writer |-> {}, readers |-> {}]]
    /\ upProc = [p \in UpOpeners |-> NoCall]
    /\ upAcked = FALSE
    /\ upTaint = {}

UpStep(p) ==
    \/ BeginUpgrade(p) \/ resolve_interrupted(p) \/ PickLock(p) \/ Reread(p) \/ recover_locked(p)
    \/ Swap(p) \/ DropRebuild(p) \/ remove_marker(p) \/ write_journal(p) \/ remove_journal(p)
    \/ sync_dir(p) \/ remove_dir_durably(p) \/ OpenLock(p) \/ acquire_dir_lock(p)
    \/ Sniff(p) \/ CreateDir(p) \/ Load(p) \/ finalize(p) \/ Serve(p) \/ UpClose(p)
    \/ Checks(p) \/ sweep_stale_upgrade_dirs(p) \/ Preflight(p) \/ MakeDir(p)
    \/ build(p) \/ verify(p) \/ UpFails(p) \/ Die(p)

UpNext == (\E p \in UpOpeners : UpStep(p)) \/ Blackout

UpSpec == UpInit /\ [][UpNext]_upVars

-----------------------------------------------------------------------------
(* Properties *)

\* The database a path leads to: everything the 0.9 directory held, and what
\* was written since.
Intact(d) ==
    /\ {"tables", "foreign"} \subseteq upDirs[d] /\ upDirs[d] \cap {"wal", "memtables"} # {}
    /\ upAcked => "write" \in upDirs[d]

\* Where the next open of a parent directory in this state ends up.
Outcome(s) ==
    LET whole == [name \in UpNames |-> s.entry[name] # Gone
                                       /\ Data \cup {"MANIFEST"} \subseteq upDirs[s.entry[name]]]
        what == IF s.journal = NoJournal THEN "drop" ELSE decide(s.entry, s.journal, whole) IN
    CASE what \in {"swap1", "swap2"} -> s.entry[Up(s.journal.n)]
      [] what = "undo" -> s.entry[Backup(s.journal.n)]
      [] what = "corrupt" -> Gone
      [] OTHER -> s.entry[Db]

\* "A crash anywhere in it is resolved by the next open" (upgrade.rs): whatever
\* processes open, upgrade, fail or die together, a machine that stops now comes
\* back with a directory the next open resolves, without help, to a database
\* that holds everything, and every open database is such a one.  Two things the
\* protocol does not survive are set apart: an open that saw no journal and
\* creates the path while the swap has it renamed away, and a rollback, begun
\* because the catalog could not be read, that a later open turns round.
UpgradeKeepsData ==
    upTaint = {} =>
       /\ \A i \in DOMAIN upParent : LET d == Outcome(upParent[i]) IN d # Gone /\ Intact(d)
       /\ \A p \in UpOpeners : upProc[p].pc = "serving" /\ upProc[p].kind # "tool" => There(Db) /\ Intact(entry[Db])

=============================================================================
