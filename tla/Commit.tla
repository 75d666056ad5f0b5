------------------------------- MODULE Commit -------------------------------
(***************************************************************************)
(* The commit pipeline of src/src/txn.rs: a transaction reads at its       *)
(* snapshot, buffers point writes and range deletes, reserves room in the  *)
(* span index, validates under commit_mu, applies, publishes and records   *)
(* its markers.  prepare runs the same validation and leaves a reservation *)
(* that commit_prepared or abort_prepared resolves.                        *)
(*                                                                         *)
(* The records of one commit share one sequence here: no watermark ever    *)
(* separates them.  A commit that returns an error before it takes a       *)
(* sequence does what Rollback does.                                       *)
(***************************************************************************)
EXTENDS SpanIndex

CONSTANTS
    Unpinned,     \* transactions at ReadUncommitted or ReadCommitted
    Snapshot,     \* at Snapshot
    Serializable, \* at Serializable
    Pessimistic,  \* those that refresh their snapshot on a lock grant
    MaxWrites,    \* bound: writes of one transaction
    Retrying,     \* bound: those whose decision may fail, and how often in all
    NoTxn         \* nobody

Txns == Unpinned \cup Snapshot \cup Serializable
Checked == Snapshot \cup Serializable

ASSUME CommitAssumption ==
    /\ IsFiniteSet(Txns)
    /\ Unpinned \cap Checked = {}
    /\ Snapshot \cap Serializable = {}
    /\ Pessimistic \subseteq Checked
    /\ MaxWrites \in Nat \ {0}
    /\ Retrying \subseteq Txns
    /\ NoTxn \notin Txns

VARIABLES
    caps,        \* CAP_RANGE_DELETES is enabled
    visible,     \* DbInner.visible
    commit_mu,   \* holder of DbInner.commit_mu
    stage,       \* per transaction: where it is
    read_seq,    \* Txn.read_seq
    candidate,   \* the snapshot refresh_snapshot pinned; 0 outside it
    writes,      \* the buffered writes, fixed when commit starts
    read_set,    \* keys read by point lookup at Serializable ...
    read_at,     \* ... and the sequence each was first read at
    tracking,    \* what the commit holds of the span index
    commit_seq,  \* the sequence its records carry, 0 before they exist
    frozen_at    \* the watermark when its outcome was validated

txnVars == <<stage, read_seq, candidate, writes, read_set, read_at, tracking,
             commit_seq, frozen_at>>
vars == <<spanVars, caps, visible, commit_mu, txnVars>>

MaxSeq == Cardinality(Txns) + Cardinality(Retrying)
Seqs == 0..MaxSeq
Stages == {"new", "active", "refreshing", "reserved", "validated", "applied",
           "failed", "published", "committed", "prepared", "deciding", "done"}
WriteSets == {ws \in SUBSET Writes : ws # {} /\ IsFiniteSet(ws) /\ Cardinality(ws) <= MaxWrites}

HasRange(t) == \E w \in writes[t] : IsRange(w)
Outstanding(t) ==
    IF tracking[t] = "markers" /\ stage[t] \in {"reserved", "validated", "applied", "failed", "published"}
    THEN Cardinality(writes[t]) ELSE 0

(* DbInner.snapshots: pinned from begin to release, the candidate too.      *)
Pinned == {read_seq[t] : t \in {u \in Checked : stage[u] \notin {"new", "prepared", "deciding", "done"}}}
          \cup {candidate[t] : t \in {u \in Pessimistic : stage[u] = "refreshing"}}

(* oldest_snapshot().                                                       *)
OldestSnapshot == IF Pinned = {} THEN visible ELSE CHOOSE s \in Pinned : \A p \in Pinned : s <= p

(* peek_seq(k): the newest record of a key, published or not; range deletes *)
(* leave none.                                                              *)
PeekSeq(k, seq) == \E u \in Txns : commit_seq[u] > seq /\ Point(k) \in writes[u]

Init ==
    /\ SpanInit
    /\ caps = FALSE
    /\ visible = 0
    /\ commit_mu = NoTxn
    /\ stage = [t \in Txns |-> "new"]
    /\ read_seq = [t \in Txns |-> 0]
    /\ candidate = [t \in Txns |-> 0]
    /\ writes = [t \in Txns |-> {}]
    /\ read_set = [t \in Txns |-> {}]
    /\ read_at = [t \in Txns |-> [k \in Keys |-> 0]]
    /\ tracking = [t \in Txns |-> "off"]
    /\ commit_seq = [t \in Txns |-> 0]
    /\ frozen_at = [t \in Txns |-> 0]

----------------------------------------------------------------------------
(* begin: the pinned levels take a snapshot at the watermark.               *)
Begin(t) ==
    /\ stage[t] = "new"
    /\ stage' = [stage EXCEPT ![t] = "active"]
    /\ read_seq' = [read_seq EXCEPT ![t] = visible]
    /\ UNCHANGED <<spanVars, caps, visible, commit_mu, candidate, writes, read_set, read_at,
                   tracking, commit_seq, frozen_at>>

(* get, of a key this transaction has not written (note_store_read).        *)
Get(t, k) ==
    /\ stage[t] = "active"
    /\ t \in Serializable
    /\ k \notin read_set[t]
    /\ read_set' = [read_set EXCEPT ![t] = @ \cup {k}]
    /\ read_at' = [read_at EXCEPT ![t][k] = read_seq[t]]
    /\ UNCHANGED <<spanVars, caps, visible, commit_mu, stage, read_seq, candidate, writes,
                   tracking, commit_seq, frozen_at>>

(* Mutant of ReadConflict: the read set is only looked up in the store.     *)
ReadConflictPeekOnly(t) == \E k \in read_set[t] : PeekSeq(k, read_seq[t])

(* validate_read_conflicts: a key read has a newer record, or a newer range *)
(* delete covers it.                                                        *)
ReadConflict(t) ==
    \E k \in read_set[t] : PeekSeq(k, read_seq[t]) \/ (caps /\ PointConflict(k, read_seq[t]))

(* refresh_snapshot, first half: pin the watermark while the old snapshot   *)
(* is still held.                                                           *)
RefreshPin(t) ==
    /\ stage[t] = "active"
    /\ t \in Pessimistic
    /\ stage' = [stage EXCEPT ![t] = "refreshing"]
    /\ candidate' = [candidate EXCEPT ![t] = visible]
    /\ UNCHANGED <<spanVars, caps, visible, commit_mu, read_seq, writes, read_set, read_at,
                   tracking, commit_seq, frozen_at>>

(* Second half, without commit_mu: validate the read set against the old    *)
(* snapshot, adopt the new one or drop it.                                  *)
RefreshAdopt(t) ==
    /\ stage[t] = "refreshing"
    /\ stage' = [stage EXCEPT ![t] = "active"]
    /\ candidate' = [candidate EXCEPT ![t] = 0]
    /\ read_seq' = [read_seq EXCEPT ![t] =
                       IF candidate[t] > @ /\ ~ (t \in Serializable /\ ReadConflict(t))
                       THEN candidate[t] ELSE @]
    /\ UNCHANGED <<spanVars, caps, visible, commit_mu, writes, read_set, read_at,
                   tracking, commit_seq, frozen_at>>

(* What is left of a transaction that committed nothing.                    *)
Forget(t) ==
    /\ stage' = [stage EXCEPT ![t] = "done"]
    /\ read_seq' = [read_seq EXCEPT ![t] = 0]
    /\ writes' = [writes EXCEPT ![t] = {}]
    /\ read_set' = [read_set EXCEPT ![t] = {}]
    /\ read_at' = [read_at EXCEPT ![t] = [k \in Keys |-> 0]]
    /\ tracking' = [tracking EXCEPT ![t] = "off"]
    /\ frozen_at' = [frozen_at EXCEPT ![t] = 0]
    /\ UNCHANGED <<candidate, commit_seq>>

(* rollback, Drop, and every commit that fails before it takes a sequence.  *)
Rollback(t) ==
    /\ stage[t] = "active"
    /\ Forget(t)
    /\ UNCHANGED <<spanVars, caps, visible, commit_mu>>

----------------------------------------------------------------------------
(* check_own_range_overlap: a point write inside an own range delete.       *)
OwnRangeOverlap(ws) ==
    \E r \in ws, w \in ws : IsRange(r) /\ ~ IsRange(w) /\ w.start \in Touched(r)

StartCommit(t, ws, how) ==
    /\ stage' = [stage EXCEPT ![t] = "reserved"]
    /\ writes' = [writes EXCEPT ![t] = ws]
    /\ tracking' = [tracking EXCEPT ![t] = how]

(* reserve_span_markers of a commit with a range delete: prune, take the    *)
(* slots, or give up when waiting is futile or its deadline has passed.     *)
ReserveRange(t, ws) ==
    /\ stage[t] = "active"
    /\ caps
    /\ \E w \in ws : IsRange(w)
    /\ ~ OwnRangeOverlap(ws) /\ Cardinality(ws) <= Capacity
    /\ Prune(OldestSnapshot)
    /\ \/ /\ HasRoom(markers', Cardinality(ws))
          /\ StartCommit(t, ws, "markers")
          /\ reserved' = reserved + Cardinality(ws)
       \/ /\ ~ HasRoom(markers', Cardinality(ws))
          /\ StartCommit(t, ws, "overflow")
          /\ UNCHANGED reserved
    /\ UNCHANGED <<caps, visible, commit_mu, read_seq, candidate, read_set, read_at,
                   commit_seq, frozen_at>>

(* Mutant of ReservePoints: the slots promised to others are not counted.   *)
ReservePointsUncounted(t, ws) ==
    /\ stage[t] = "active"
    /\ ~ \E w \in ws : IsRange(w)
    /\ caps
    /\ IF Cardinality(markers) + Cardinality(ws) <= Capacity
       THEN StartCommit(t, ws, "markers") /\ reserved' = reserved + Cardinality(ws)
       ELSE StartCommit(t, ws, "overflow") /\ UNCHANGED reserved
    /\ UNCHANGED <<markers, overflow_seq, caps, visible, commit_mu, read_seq, candidate,
                   read_set, read_at, commit_seq, frozen_at>>

(* ... and of a commit of points only, which never waits; nothing at all    *)
(* before the capability is enabled.                                        *)
ReservePoints(t, ws) ==
    /\ stage[t] = "active"
    /\ ~ \E w \in ws : IsRange(w)
    /\ \/ /\ ~ caps
          /\ StartCommit(t, ws, "off")
          /\ UNCHANGED reserved
       \/ /\ caps /\ HasRoom(markers, Cardinality(ws))
          /\ StartCommit(t, ws, "markers")
          /\ reserved' = reserved + Cardinality(ws)
       \/ /\ caps /\ ~ HasRoom(markers, Cardinality(ws))
          /\ StartCommit(t, ws, "overflow")
          /\ UNCHANGED reserved
    /\ UNCHANGED <<markers, overflow_seq, caps, visible, commit_mu, read_seq, candidate,
                   read_set, read_at, commit_seq, frozen_at>>

----------------------------------------------------------------------------
Prepared(u) == stage[u] \in {"prepared", "deciding"}

(* Mutant of Reserved: a range delete is probed at its start bound only.    *)
ReservedAtStart(t, ws) ==
    \E u \in Txns : Prepared(u) /\ \E w \in ws : Point(w.start) \in writes[u]

(* check_reservations: owner_of a point, owner_in_range of a range delete.  *)
Reserved(t, ws) ==
    \E u \in Txns : Prepared(u) /\ \E w \in ws : \E k \in Touched(w) : Point(k) \in writes[u]

(* validate_write_conflicts: the first key of every write.                  *)
WriteConflict(t, ws) == \E w \in ws : PeekSeq(w.start, read_seq[t])

(* Mutant of SpanConflict: only range deletes ask the index.                *)
SpanConflictRangesOnly(t, ws) ==
    caps /\ \E w \in ws : IsRange(w) /\ RangeConflict(w, read_seq[t])

(* validate_span_conflicts.                                                 *)
SpanConflict(t, ws) ==
    caps /\ \E w \in ws : IF IsRange(w) THEN RangeConflict(w, read_seq[t])
                          ELSE PointConflict(w.start, read_seq[t])

(* validate_commit and validate_span_conflicts, at the levels that do.      *)
LosesConflict(t, ws) ==
    \/ t \in Checked /\ (WriteConflict(t, ws) \/ SpanConflict(t, ws))
    \/ t \in Serializable /\ ReadConflict(t)

(* Under commit_mu: refused and released ...                                *)
Refuse(t) ==
    /\ stage[t] = "reserved"
    /\ commit_mu = NoTxn
    /\ Reserved(t, writes[t]) \/ LosesConflict(t, writes[t])
    /\ DropReservation(Outstanding(t))
    /\ Forget(t)
    /\ UNCHANGED <<caps, visible, commit_mu>>

(* ... or validated, with the mutex kept.                                   *)
Validate(t) ==
    /\ stage[t] = "reserved"
    /\ commit_mu = NoTxn
    /\ ~ Reserved(t, writes[t]) /\ ~ LosesConflict(t, writes[t])
    /\ stage' = [stage EXCEPT ![t] = "validated"]
    /\ commit_mu' = t
    /\ frozen_at' = [frozen_at EXCEPT ![t] = visible]
    /\ UNCHANGED <<spanVars, caps, visible, read_seq, candidate, writes, read_set, read_at,
                   tracking, commit_seq>>

(* reserve_seq and apply_prepared; the log may refuse.                      *)
Apply(t) ==
    /\ stage[t] = "validated"
    /\ \/ /\ stage' = [stage EXCEPT ![t] = "applied"]
          /\ commit_seq' = [commit_seq EXCEPT ![t] = visible + 1]
       \/ /\ stage' = [stage EXCEPT ![t] = "failed"]
          /\ UNCHANGED commit_seq
    /\ UNCHANGED <<spanVars, caps, visible, commit_mu, read_seq, candidate, writes, read_set,
                   read_at, tracking, frozen_at>>

(* publish_range, of a failed apply too; that one ends here.                *)
Publish(t) ==
    /\ stage[t] \in {"applied", "failed"}
    /\ visible' = visible + 1
    /\ \/ /\ stage[t] = "applied"
          /\ stage' = [stage EXCEPT ![t] = "published"]
          /\ UNCHANGED <<spanVars, commit_mu, read_seq, candidate, writes, read_set, read_at,
                         tracking, commit_seq, frozen_at>>
       \/ /\ stage[t] = "failed"
          /\ commit_mu' = NoTxn
          /\ DropReservation(Outstanding(t))
          /\ Forget(t)
    /\ UNCHANGED caps

(* insert_span_markers, or note_overflow without a reservation; then the    *)
(* mutex and the reservation are dropped.                                   *)
InsertMarkers(t) ==
    /\ stage[t] = "published"
    /\ \/ tracking[t] = "markers" /\ Insert(writes[t], commit_seq[t], Outstanding(t))
       \/ tracking[t] = "overflow" /\ NoteOverflow(commit_seq[t]) /\ UNCHANGED reserved
       \/ tracking[t] = "off" /\ UNCHANGED spanVars
    /\ stage' = [stage EXCEPT ![t] = "committed"]
    /\ commit_mu' = NoTxn
    /\ UNCHANGED <<caps, visible, read_seq, candidate, writes, read_set, read_at, tracking,
                   commit_seq, frozen_at>>

(* prune_span_markers, the commit hooks, and release of the snapshot.       *)
Finish(t) ==
    /\ stage[t] = "committed"
    /\ IF tracking[t] = "off" THEN UNCHANGED <<markers, overflow_seq>> ELSE Prune(OldestSnapshot)
    /\ stage' = [stage EXCEPT ![t] = "done"]
    /\ UNCHANGED <<reserved, caps, visible, commit_mu, read_seq, candidate, writes, read_set,
                   read_at, tracking, commit_seq, frozen_at>>

----------------------------------------------------------------------------
(* prepare, one commit_mu acquisition: validate, refuse a key another       *)
(* prepare reserved, make the record durable, register.  Points only.       *)
Prepare(t, ws) ==
    /\ stage[t] = "active"
    /\ commit_mu = NoTxn
    /\ ~ \E w \in ws : IsRange(w)
    /\ ~ LosesConflict(t, ws) /\ ~ Reserved(t, ws)
    /\ stage' = [stage EXCEPT ![t] = "prepared"]
    /\ writes' = [writes EXCEPT ![t] = ws]
    /\ frozen_at' = [frozen_at EXCEPT ![t] = visible]
    /\ UNCHANGED <<spanVars, caps, visible, commit_mu, read_seq, candidate, read_set, read_at,
                   tracking, commit_seq>>

(* commit_prepared: the decision and the memtable apply ...                 *)
CommitPrepared(t) ==
    /\ stage[t] = "prepared"
    /\ commit_mu = NoTxn
    /\ commit_mu' = t
    /\ stage' = [stage EXCEPT ![t] = "deciding"]
    /\ commit_seq' = [commit_seq EXCEPT ![t] = visible + 1]
    /\ UNCHANGED <<spanVars, caps, visible, read_seq, candidate, writes, read_set, read_at,
                   tracking, frozen_at>>

(* ... or a decision that cannot be logged: its sequence is published with  *)
(* no record, and the reservation stays for a retry.  The last conjunct is  *)
(* the bound: every other transaction keeps a sequence.                     *)
DecisionFails(t) ==
    /\ t \in Retrying
    /\ stage[t] = "prepared"
    /\ commit_mu = NoTxn
    /\ visible + Cardinality({u \in Txns : commit_seq[u] = 0 /\ stage[u] # "done"}) < MaxSeq
    /\ visible' = visible + 1
    /\ UNCHANGED <<spanVars, caps, commit_mu, txnVars>>

(* Mutant of ResolvePrepared: prepared commits are not reported to the      *)
(* index, which holds no marker of them.                                    *)
ResolvePreparedUnnoted(t) ==
    /\ stage[t] = "deciding"
    /\ visible' = visible + 1
    /\ stage' = [stage EXCEPT ![t] = "done"]
    /\ commit_mu' = NoTxn
    /\ tracking' = [tracking EXCEPT ![t] = IF caps THEN "overflow" ELSE "off"]
    /\ UNCHANGED <<spanVars, caps, read_seq, candidate, writes, read_set, read_at,
                   commit_seq, frozen_at>>

(* ... then publication, note_overflow and the end of the reservation.      *)
ResolvePrepared(t) ==
    /\ stage[t] = "deciding"
    /\ visible' = visible + 1
    /\ IF caps THEN NoteOverflow(commit_seq[t]) ELSE UNCHANGED <<markers, overflow_seq>>
    /\ stage' = [stage EXCEPT ![t] = "done"]
    /\ commit_mu' = NoTxn
    /\ tracking' = [tracking EXCEPT ![t] = IF caps THEN "overflow" ELSE "off"]
    /\ UNCHANGED <<reserved, caps, read_seq, candidate, writes, read_set, read_at,
                   commit_seq, frozen_at>>

(* abort_prepared.                                                          *)
AbortPrepared(t) ==
    /\ stage[t] = "prepared"
    /\ commit_mu = NoTxn
    /\ Forget(t)
    /\ UNCHANGED <<spanVars, caps, visible, commit_mu>>

(* enable_format_capabilities(CAP_RANGE_DELETES) on an open database.       *)
EnableRangeDeletes ==
    /\ ~ caps
    /\ caps' = TRUE
    /\ UNCHANGED <<spanVars, visible, commit_mu, txnVars>>

----------------------------------------------------------------------------
StartsCommit(t) == \E ws \in WriteSets : ReserveRange(t, ws) \/ ReservePoints(t, ws)

Step(t) ==
    \/ RefreshAdopt(t)
    \/ Refuse(t)
    \/ Validate(t)
    \/ Apply(t)
    \/ Publish(t)
    \/ InsertMarkers(t)
    \/ Finish(t)
    \/ CommitPrepared(t)
    \/ DecisionFails(t)
    \/ ResolvePrepared(t)

Next ==
    \/ \E t \in Txns :
          \/ Begin(t)
          \/ \E k \in Keys : Get(t, k)
          \/ RefreshPin(t)
          \/ Rollback(t)
          \/ StartsCommit(t)
          \/ \E ws \in WriteSets : Prepare(t, ws)
          \/ AbortPrepared(t)
          \/ Step(t)
    \/ EnableRangeDeletes

Spec == Init /\ [][Next]_vars

----------------------------------------------------------------------------
(* Types of the span index, the watermark and each transaction's state.     *)
TypeOK ==
    /\ SpanTypeOK(Seqs)
    /\ caps \in BOOLEAN
    /\ visible \in Seqs
    /\ commit_mu \in Txns \cup {NoTxn}
    /\ stage \in [Txns -> Stages]
    /\ read_seq \in [Txns -> Seqs]
    /\ candidate \in [Txns -> Seqs]
    /\ writes \in [Txns -> SUBSET Writes]
    /\ read_set \in [Txns -> SUBSET Keys]
    /\ read_at \in [Txns -> [Keys -> Seqs]]
    /\ tracking \in [Txns -> {"off", "markers", "overflow"}]
    /\ commit_seq \in [Txns -> Seqs]
    /\ frozen_at \in [Txns -> Seqs]

TouchedBy(t) == UNION {Touched(w) : w \in writes[t]}

(* u changed key k in a commit after sequence lo and no later than hi.      *)
Changed(u, k, lo, hi) == lo < commit_seq[u] /\ commit_seq[u] <= hi /\ k \in TouchedBy(u)

(* First committer wins: no key a Snapshot or Serializable transaction      *)
(* wrote, or deleted in a range, was changed by anybody else between its    *)
(* snapshot and its own commit; prepared transactions included, although    *)
(* they commit long after they were validated.  Only a range delete can     *)
(* miss a write, and only one committed before range deletes were enabled.  *)
FirstCommitterWins ==
    \A t \in Checked : \A u \in Txns \ {t} : \A k \in TouchedBy(t) :
        commit_seq[t] > 0 /\ Changed(u, k, read_seq[t], commit_seq[t])
            => HasRange(t) /\ tracking[u] = "off"

(* The same without the exception: a range commit that is not safe is never *)
(* admitted.                                                                *)
RangeCommitsSafe ==
    \A t \in Checked : \A u \in Txns \ {t} : \A k \in TouchedBy(t) :
        commit_seq[t] > 0 => ~ Changed(u, k, read_seq[t], commit_seq[t])

(* Serializable: when a transaction is validated, by commit or by prepare,  *)
(* no key it read by point lookup has changed since it was read.  A range   *)
(* delete is missed only if the snapshot was refreshed after the read.      *)
SerializableReads ==
    \A t \in Serializable : \A u \in Txns \ {t} : \A k \in read_set[t] :
        Changed(u, k, read_at[t][k], frozen_at[t])
            => read_seq[t] > read_at[t][k] /\ \A w \in writes[u] : k \in Touched(w) => IsRange(w)

(* The same without the exception: every write at or below the adopted      *)
(* snapshot was seen by the refresh's validation.                           *)
RefreshValidates ==
    \A t \in Serializable : \A u \in Txns \ {t} : \A k \in read_set[t] :
        ~ Changed(u, k, read_at[t][k], frozen_at[t])

(* A prepare cannot lose a conflict later: from its registration to its     *)
(* resolution nobody else changes a key it writes, at any isolation level.  *)
PreparedKeysFrozen ==
    \A t \in Txns : Prepared(t) =>
        \A u \in Txns \ {t} : \A k \in TouchedBy(t) :
            ~ Changed(u, k, frozen_at[t], MaxSeq)

(* Whatever was pruned, dropped for lack of room or never had a marker: a   *)
(* tracked commit newer than the oldest snapshot is in the index or below   *)
(* the overflow watermark.                                                  *)
IndexComplete ==
    \A u \in Txns :
        commit_seq[u] > OldestSnapshot /\ stage[u] \in {"committed", "done"} /\ tracking[u] # "off" =>
            \/ \A w \in writes[u] : Marker(w, commit_seq[u]) \in markers
            \/ overflow_seq >= commit_seq[u]

(* Markers and promised slots never exceed the capacity, and no commit      *)
(* outcome (conflict, failed apply, success) leaks a slot.                  *)
SlotsBounded ==
    /\ Cardinality(markers) + reserved <= Capacity
    /\ (\A t \in Txns : Outstanding(t) = 0) => reserved = 0
=============================================================================
