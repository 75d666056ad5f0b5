---------------------------- MODULE Publication ----------------------------
(***************************************************************************)
(* Sequence numbers of ondaDB: how a commit reserves them, how they become *)
(* visible without gaps, how a reader pins the watermark, and how a        *)
(* compaction picks the floor below which it may forget old versions.      *)
(* Source: src/src/db.rs (DbInner), src/src/snapshot.rs; the floor is used *)
(* as in src/src/compaction.rs.  The store is seen through one key that   *)
(* holds plain values.  An ingestion is not a commit of this module: it    *)
(* publishes its sequence when it starts and installs its tables later.    *)
(***************************************************************************)
EXTENDS Naturals, FiniteSets

CONSTANTS
    Threads,    \* threads that commit
    Pins,       \* snapshot owners: fixed transactions, handles, iterator builds
    MaxBatch,   \* bound: records of one commit
    MaxSeq,     \* bound: sequences ever reserved are 1..MaxSeq
    NoPin       \* a slot of Pins that holds nothing

ASSUME PublicationAssumption ==
    /\ MaxBatch \in Nat \ {0}
    /\ MaxSeq \in Nat
    /\ IsFiniteSet(Pins)
    /\ NoPin \notin Nat

VARIABLES
    next_seq,   \* DbInner.next_seq
    cursor,     \* Publish.cursor: everything below it is published
    completed,  \* Publish.completed: published batches beyond a gap
    visible,    \* DbInner.visible
    batch,      \* per thread: the commit it is inside of
    floor,      \* THREAD_COMMIT_FLOOR
    snapshots,  \* DbInner.snapshots: reference count per pinned sequence
    held,       \* per pin slot: the pinned sequence, or NoPin
    reads,      \* per pin slot: [at |-> read sequence, saw |-> version read]
    versions,   \* sequences at which the tracked key has a version
    gc_floor    \* oldest_snapshot() frozen by the running compaction

pubVars == <<next_seq, cursor, completed, visible, batch, floor>>
pinVars == <<snapshots, held, reads>>
vars == <<pubVars, pinVars, versions, gc_floor>>

Seqs == 0..MaxSeq
SeqRange(a, b) == [start |-> a, end |-> b]
Ranges == {r \in [start : 1..(MaxSeq + 1), end : 1..(MaxSeq + 1)] : r.start < r.end}
NoRange == SeqRange(0, 0)
Stages == {"idle", "reserved", "applied", "failed", "published"}

(* v is the version of the tracked key a reader at sequence s returns: the  *)
(* newest one at or below s, or 0 when there is none.                       *)
Newest(vs, s, v) ==
    /\ v \in vs \cup {0}
    /\ v <= s
    /\ \A w \in vs : w <= s => w <= v

(* s is oldest_snapshot(): the oldest pin, or the watermark when nothing is *)
(* pinned.                                                                  *)
OldestSnapshot(s) ==
    \/ snapshots[s] > 0 /\ \A t \in Seqs : snapshots[t] > 0 => s <= t
    \/ s = visible /\ \A t \in Seqs : snapshots[t] = 0

Init ==
    /\ next_seq = 1
    /\ cursor = 1
    /\ completed = {}
    /\ visible = 0
    /\ batch = [t \in Threads |-> [stage |-> "idle", range |-> NoRange]]
    /\ floor = [t \in Threads |-> 0]
    /\ snapshots = [s \in Seqs |-> 0]
    /\ held = [p \in Pins |-> NoPin]
    /\ reads = [p \in Pins |-> [at |-> 0, saw |-> 0]]
    /\ versions = {}
    /\ gc_floor = 0

----------------------------------------------------------------------------
(* reserve_seq(n): the one fetch_add that hands out a commit's sequences.   *)
ReserveSeq(t, n) ==
    /\ batch[t].stage = "idle"
    /\ next_seq + n <= MaxSeq + 1
    /\ batch' = [batch EXCEPT ![t] =
                    [stage |-> "reserved", range |-> SeqRange(next_seq, next_seq + n)]]
    /\ next_seq' = next_seq + n
    /\ UNCHANGED <<cursor, completed, visible, floor, pinVars, versions, gc_floor>>

(* apply_prepared: the batch reaches the memtable, with or without a        *)
(* version of the tracked key, or the write-ahead log refuses it.  A refusal*)
(* leaves nothing behind: either layout applies one group, since a commit   *)
(* of several families needs the unified store.  The call may wait first,   *)
(* for as long as the queue of memtables to flush is full.                  *)
Apply(t) ==
    /\ batch[t].stage = "reserved"
    /\ \/ /\ \/ versions' = versions
             \/ \E s \in Seqs :
                   /\ batch[t].range.start <= s /\ s < batch[t].range.end
                   /\ versions' = versions \cup {s}
          /\ batch' = [batch EXCEPT ![t].stage = "applied"]
       \/ /\ batch' = [batch EXCEPT ![t].stage = "failed"]
          /\ UNCHANGED versions
    /\ UNCHANGED <<next_seq, cursor, completed, visible, floor, pinVars, gc_floor>>

(* The loop of publish_range: starting at the cursor, follow completed      *)
(* batches that begin exactly where the previous one ended.                 *)
ChainEnd(done, from, c) ==
    /\ from <= c
    /\ \A i \in from..(c - 1) : \E r \in done :
          from <= r.start /\ r.start <= i /\ i < r.end /\ r.end <= c
    /\ \A r \in done : r.start # c

(* Mutant of PublishRange: the watermark is the end of the batch that just  *)
(* finished, without waiting for the ones before it.                        *)
PublishOwnEnd(t) ==
    /\ batch[t].stage \in {"applied", "failed"}
    /\ cursor' = batch[t].range.end
    /\ visible' = batch[t].range.end - 1
    /\ batch' = [batch EXCEPT ![t].stage = IF @ = "applied" THEN "published" ELSE "idle"]
    /\ UNCHANGED <<next_seq, completed, floor, pinVars, versions, gc_floor>>

(* Mutant of PublishRange: a failed apply returns without publishing.       *)
PublishAppliedOnly(t) ==
    /\ batch[t].stage \in {"applied", "failed"}
    /\ \/ /\ batch[t].stage = "applied"
          /\ \E c \in cursor..next_seq :
                /\ ChainEnd(completed \cup {batch[t].range}, cursor, c)
                /\ cursor' = c
                /\ completed' = {r \in completed \cup {batch[t].range} :
                                    ~ (cursor <= r.start /\ r.end <= c)}
                /\ visible' = c - 1
       \/ batch[t].stage = "failed" /\ UNCHANGED <<cursor, completed, visible>>
    /\ batch' = [batch EXCEPT ![t].stage = IF @ = "applied" THEN "published" ELSE "idle"]
    /\ UNCHANGED <<next_seq, floor, pinVars, versions, gc_floor>>

(* publish_range(start, end), one critical section of the publish mutex.    *)
(* It runs for a failed apply too.                                          *)
PublishRange(t) ==
    /\ batch[t].stage \in {"applied", "failed"}
    /\ LET done == completed \cup {batch[t].range}
       IN \E c \in cursor..next_seq :
             /\ ChainEnd(done, cursor, c)
             /\ cursor' = c
             /\ completed' = {r \in done : ~ (cursor <= r.start /\ r.end <= c)}
             /\ visible' = c - 1
    /\ batch' = [batch EXCEPT ![t] =
                    IF batch[t].stage = "applied"
                    THEN [stage |-> "published", range |-> batch[t].range]
                    ELSE [stage |-> "idle", range |-> NoRange]]
    /\ UNCHANGED <<next_seq, floor, pinVars, versions, gc_floor>>

(* note_thread_commit: a successful commit raises its thread's own floor.   *)
NoteThreadCommit(t) ==
    /\ batch[t].stage = "published"
    /\ LET seq == batch[t].range.end - 1
       IN floor' = [floor EXCEPT ![t] = IF seq > @ THEN seq ELSE @]
    /\ batch' = [batch EXCEPT ![t] = [stage |-> "idle", range |-> NoRange]]
    /\ UNCHANGED <<next_seq, cursor, completed, visible, pinVars, versions, gc_floor>>

----------------------------------------------------------------------------
(* acquire_visible_snapshot(): read the watermark and count the pin, both   *)
(* under the snapshots mutex; the owner then reads at sequence `at`.        *)
AcquireVisible(p, at) ==
    /\ held[p] = NoPin
    /\ snapshots' = [snapshots EXCEPT ![visible] = @ + 1]
    /\ held' = [held EXCEPT ![p] = visible]
    /\ \E v \in Seqs :
          /\ Newest(versions, at, v)
          /\ reads' = [reads EXCEPT ![p] = [at |-> at, saw |-> v]]
    /\ UNCHANGED <<pubVars, versions, gc_floor>>

(* acquire_fixed_snapshot() on thread t, after wait_visible_at_own_floor    *)
(* saw the watermark reach the thread's own last commit.                    *)
AcquireFixed(p, t) ==
    /\ visible >= floor[t]
    /\ AcquireVisible(p, visible)

(* The same call when the one-second wait expired first.                    *)
AcquireExpired(p, t) ==
    /\ visible < floor[t]
    /\ AcquireVisible(p, visible)

(* pin_read_floor() on thread t: pinned at the watermark, reading at the    *)
(* thread's own floor when that is higher.                                  *)
PinReadFloor(p, t) ==
    AcquireVisible(p, IF floor[t] > visible THEN floor[t] ELSE visible)

(* release_snapshot(seq).                                                   *)
ReleaseSnapshot(p) ==
    /\ held[p] # NoPin
    /\ snapshots' = [snapshots EXCEPT ![held[p]] = @ - 1]
    /\ held' = [held EXCEPT ![p] = NoPin]
    /\ reads' = [reads EXCEPT ![p] = [at |-> 0, saw |-> 0]]
    /\ UNCHANGED <<pubVars, versions, gc_floor>>

----------------------------------------------------------------------------
(* Mutant of FreezeGcFloor: the floor is the watermark, pins are ignored.   *)
FreezeAtWatermark ==
    /\ gc_floor' = visible
    /\ UNCHANGED <<pubVars, pinVars, versions>>

(* A compaction freezes its floor when the job starts ...                   *)
FreezeGcFloor ==
    /\ \E s \in Seqs : OldestSnapshot(s) /\ gc_floor' = s
    /\ UNCHANGED <<pubVars, pinVars, versions>>

(* Mutant of Retained: only the newest version of the inputs is kept.       *)
RetainedNewest(inputs, below) == {v \in inputs : \A w \in inputs : w <= v}

(* ... and, over whatever tables it merges, keeps of the versions at or     *)
(* below the floor only the newest (VersionRetention::decide).              *)
Retained(inputs, below) ==
    {v \in inputs : ~ \E w \in inputs : v < w /\ w <= below}

Compact ==
    /\ \E inputs \in SUBSET versions :
          versions' = (versions \ inputs) \cup Retained(inputs, gc_floor)
    /\ UNCHANGED <<pubVars, pinVars, gc_floor>>

(* observe_seq(seq) called by attach_part_by_ref while the database runs:   *)
(* the attached part's newest sequence becomes the watermark at once.       *)
ObserveSeq(seq) ==
    /\ next_seq' = IF seq + 1 > next_seq THEN seq + 1 ELSE next_seq
    /\ IF seq + 1 > cursor
       THEN cursor' = seq + 1 /\ visible' = seq
       ELSE UNCHANGED <<cursor, visible>>
    /\ UNCHANGED <<completed, batch, floor, pinVars, versions, gc_floor>>

----------------------------------------------------------------------------
Commit(t) ==
    \/ \E n \in 1..MaxBatch : ReserveSeq(t, n)
    \/ Apply(t)
    \/ PublishRange(t)
    \/ NoteThreadCommit(t)

Read(p) ==
    \/ \E t \in Threads : AcquireFixed(p, t) \/ AcquireExpired(p, t) \/ PinReadFloor(p, t)
    \/ ReleaseSnapshot(p)

Next ==
    \/ \E t \in Threads : Commit(t)
    \/ \E p \in Pins : Read(p)
    \/ FreezeGcFloor
    \/ Compact

(* Once its apply has returned, with or without an error, a commit runs to  *)
(* its end: nothing on that path waits.  Apply itself gets no fairness: it  *)
(* stalls while too many memtables wait for a flush, and a flush may fail.  *)
Fairness == \A t \in Threads : WF_vars(PublishRange(t) \/ NoteThreadCommit(t))

Spec == Init /\ [][Next]_vars /\ Fairness

(* The same system with parts being attached at run time.                   *)
NextWithAttach == Next \/ \E seq \in 1..MaxSeq : ObserveSeq(seq)

SpecWithAttach == Init /\ [][NextWithAttach]_vars /\ Fairness

----------------------------------------------------------------------------
(* Types of the sequence counters, batches, pins and the tracked key.       *)
TypeOK ==
    /\ next_seq \in 1..(MaxSeq + 1)
    /\ cursor \in 1..(MaxSeq + 1)
    /\ completed \subseteq Ranges
    /\ visible \in Seqs
    /\ batch \in [Threads -> [stage : Stages, range : Ranges \cup {NoRange}]]
    /\ floor \in [Threads -> Seqs]
    /\ snapshots \in [Seqs -> Nat]
    /\ held \in [Pins -> Seqs \cup {NoPin}]
    /\ reads \in [Pins -> [at : Seqs, saw : Seqs]]
    /\ versions \subseteq Seqs
    /\ gc_floor \in Seqs

Unpublished(t) == batch[t].stage \in {"reserved", "applied", "failed"}

(* Gap-free publication (publish_range): the watermark never reaches a      *)
(* sequence whose commit has reserved it and not yet published it, whatever *)
(* order commits finish in.                                                 *)
InFlightInvisible ==
    \A t \in Threads : Unpublished(t) => visible < batch[t].range.start

(* A snapshot pinned at the watermark (acquire_fixed_snapshot) returns the  *)
(* same version for as long as it is held, whatever commits, publications,  *)
(* other readers' releases and compactions happen meanwhile.  The exception *)
(* is a snapshot taken while an ingestion runs, which sees the ingested     *)
(* tables once they are installed (src/src/ingest.rs:14-17).                *)
SnapshotStable ==
    \A p \in Pins :
        held[p] # NoPin /\ reads[p].at = held[p]
            => Newest(versions, held[p], reads[p].saw)

(* pin_read_floor pins the watermark, below the floor it reads at; that     *)
(* still keeps a compaction from collecting the version the reader saw, as  *)
(* long as no ingestion installs tables below the pin meanwhile.            *)
ReadFloorKept ==
    \A p \in Pins : held[p] # NoPin => reads[p].saw \in versions \cup {0}

(* The watermark never moves backwards (publish_range stores cursor - 1).   *)
VisibleMonotone == [][visible' >= visible]_vars

(* Every apply that stalls is let go in the end: no thread stays between    *)
(* reserve_seq and the return of its apply for ever.  Flushes keep it true; *)
(* the code does not guarantee them, a failed flush leaves its memtable     *)
(* queued.                                                                  *)
StallsEnd == \A t \in Threads : []<>(batch[t].stage # "reserved")

(* wait_visible_at_own_floor ends without its timeout, provided that stalled*)
(* applies are let go: a commit a thread has finished becomes visible,      *)
(* because every batch below it is published then, failed applies included. *)
OwnCommitBecomesVisible ==
    StallsEnd => \A t \in Threads : \A s \in 1..MaxSeq : (floor[t] = s) ~> (visible >= s)
=============================================================================
