------------------------------ MODULE TxnLock ------------------------------
(***************************************************************************)
(* The point locks of pessimistic transactions: the wait-die lock table of *)
(* src/src/txn_lock.rs, and how src/src/txn.rs uses it to lock a key,      *)
(* refresh its snapshot on a grant, and release everything through one     *)
(* funnel.  A transaction id is its age: a smaller id is older.            *)
(*                                                                         *)
(* An acquisition that wait-die kills on arrival and one refused by a      *)
(* shut-down table return without changing anything; they are the cases in *)
(* which no acquisition is enabled.                                        *)
(***************************************************************************)
EXTENDS Naturals, FiniteSets

CONSTANTS
    Txns,        \* transaction ids
    Keys,        \* lock keys: (durable column-family id, user key)
    Refreshing,  \* transactions at Snapshot or Serializable
    Serializable,\* those of them that revalidate their read set
    Preparing,   \* transactions that may end in a prepare
    NoKey,       \* what a transaction that is not acquiring wants
    SweepAt,     \* SWEEP_AT
    MaxSeq       \* bound: commit sequences ever used

ASSUME TxnLockAssumption ==
    /\ Txns \subseteq Nat \ {0}
    /\ Serializable \subseteq Refreshing /\ Refreshing \subseteq Txns
    /\ Preparing \subseteq Txns
    /\ IsFiniteSet(Keys)
    /\ NoKey \notin Keys
    /\ SweepAt \in Nat
    /\ MaxSeq \in Nat

VARIABLES
    entries,         \* Table.entries: keys that have an entry
    owner,           \* LockEntry.owner
    last_commit_seq, \* LockEntry.last_commit_seq
    waiters,         \* LockEntry.waiters, as a set ...
    ahead,           \* ... and, per waiter, those queued before it
    held,            \* Table.held
    free_stamped,    \* Table.free_stamped
    shutdown,        \* Table.shutdown is set
    tripped,         \* the fail-stop flag has been set
    stage,           \* per transaction: where its thread is
    wants,           \* per transaction: the key it is acquiring
    stamp,           \* per transaction: the stamp its grant carried
    locked,          \* per transaction: keys whose lock_key returned Ok
    expired,         \* per transaction: a refresh gave up waiting
    doomed,          \* transactions whose read set a refresh found changed
    read_seq,        \* Txn.read_seq
    committed_at,    \* Txn.committed_at, 0 for None
    seen,            \* the watermark release_txn_locks read
    visible,         \* DbInner.visible
    last_seq,        \* newest commit sequence
    last_write,      \* per key: newest sequence it was committed at
    prepared,        \* per transaction: the keys its prepare reserves
    bare             \* keys whose newest write left no stamp in the table

table == <<entries, owner, last_commit_seq, waiters, ahead, held, free_stamped>>
snap == <<stamp, locked, expired, doomed, read_seq>>
txn == <<snap, committed_at, seen>>
store == <<last_seq, last_write, prepared, bare>>
vars == <<table, shutdown, tripped, stage, wants, txn, visible, store>>

NO_OWNER == 0
Seqs == 0..MaxSeq
Stages == {"new", "running", "queued", "granted", "denied", "refresh",
           "finishing", "releasing", "done"}
Mine(t) == {k \in held[t] \cap entries : owner[k] = t}
Queued == UNION {waiters[k] : k \in Keys}

Init ==
    /\ entries = {}
    /\ owner = [k \in Keys |-> NO_OWNER]
    /\ last_commit_seq = [k \in Keys |-> 0]
    /\ waiters = [k \in Keys |-> {}]
    /\ ahead = [t \in Txns |-> {}]
    /\ held = [t \in Txns |-> {}]
    /\ free_stamped = 0
    /\ shutdown = FALSE
    /\ tripped = FALSE
    /\ stage = [t \in Txns |-> "new"]
    /\ wants = [t \in Txns |-> NoKey]
    /\ stamp = [t \in Txns |-> 0]
    /\ locked = [t \in Txns |-> {}]
    /\ expired = [t \in Txns |-> FALSE]
    /\ doomed = {}
    /\ read_seq = [t \in Txns |-> 0]
    /\ committed_at = [t \in Txns |-> 0]
    /\ seen = [t \in Txns |-> 0]
    /\ visible = 0
    /\ last_seq = 0
    /\ last_write = [k \in Keys |-> 0]
    /\ prepared = [t \in Txns |-> {}]
    /\ bare = {}

----------------------------------------------------------------------------
(* begin_pessimistic / reset: the next id, a snapshot at the watermark.     *)
Begin(t) ==
    /\ stage[t] = "new"
    /\ \A u \in Txns : u < t => stage[u] # "new"
    /\ stage' = [stage EXCEPT ![t] = "running"]
    /\ read_seq' = [read_seq EXCEPT ![t] = visible]
    /\ UNCHANGED <<table, shutdown, tripped, wants, stamp, locked, expired, doomed,
                   committed_at, seen, visible, store>>

(* acquire returned Some(seq) to lock_key: refresh, at the levels that do.  *)
GrantReturned(t, k, seq) ==
    IF t \in Refreshing
    THEN /\ stage' = [stage EXCEPT ![t] = "refresh"]
         /\ wants' = [wants EXCEPT ![t] = k]
         /\ stamp' = [stamp EXCEPT ![t] = seq]
         /\ UNCHANGED locked
    ELSE /\ stage' = [stage EXCEPT ![t] = "running"]
         /\ wants' = [wants EXCEPT ![t] = NoKey]
         /\ locked' = [locked EXCEPT ![t] = @ \cup {k}]
         /\ UNCHANGED stamp

(* Mutant of Acquire: the shutdown check is missing.                        *)
AcquireAnyway(t) ==
    /\ stage[t] = "running"
    /\ UNCHANGED <<shutdown, tripped, expired, doomed, read_seq, committed_at, seen,
                   visible, store>>

(* What every branch of acquire starts from and leaves alone.               *)
Acquire(t) ==
    /\ stage[t] = "running"
    /\ ~ shutdown
    /\ UNCHANGED <<shutdown, tripped, expired, doomed, read_seq, committed_at, seen,
                   visible, store>>

(* Decision::Fresh.                                                         *)
AcquireFresh(t, k) ==
    /\ Acquire(t)
    /\ k \notin entries
    /\ entries' = entries \cup {k}
    /\ owner' = [owner EXCEPT ![k] = t]
    /\ held' = [held EXCEPT ![t] = @ \cup {k}]
    /\ GrantReturned(t, k, 0)
    /\ UNCHANGED <<last_commit_seq, waiters, ahead, free_stamped>>

(* Decision::Held: lock_key returns Ok and refreshes nothing, also when the *)
(* call that took the lock failed in its refresh.                           *)
Reacquire(t, k) ==
    /\ Acquire(t)
    /\ k \in entries /\ owner[k] = t
    /\ locked' = [locked EXCEPT ![t] = @ \cup {k}]
    /\ UNCHANGED <<table, stage, wants, stamp>>

(* Mutant of AcquireTakeover: a younger owner is displaced, not waited for. *)
AcquireDisplacing(t, k) ==
    /\ Acquire(t)
    /\ k \in entries /\ (owner[k] = NO_OWNER \/ t < owner[k])
    /\ owner' = [owner EXCEPT ![k] = t]
    /\ held' = [held EXCEPT ![t] = @ \cup {k}]
    /\ GrantReturned(t, k, last_commit_seq[k])
    /\ UNCHANGED <<entries, last_commit_seq, waiters, ahead, free_stamped>>

(* Mutant of AcquireTakeover: free_stamped is not decremented.              *)
AcquireTakeoverUncounted(t, k) ==
    /\ Acquire(t)
    /\ k \in entries /\ owner[k] = NO_OWNER
    /\ owner' = [owner EXCEPT ![k] = t]
    /\ held' = [held EXCEPT ![t] = @ \cup {k}]
    /\ GrantReturned(t, k, last_commit_seq[k])
    /\ UNCHANGED <<entries, last_commit_seq, waiters, ahead, free_stamped>>

(* Decision::Takeover: an entry kept only for its stamp.                    *)
AcquireTakeover(t, k) ==
    /\ Acquire(t)
    /\ k \in entries /\ owner[k] = NO_OWNER
    /\ owner' = [owner EXCEPT ![k] = t]
    /\ held' = [held EXCEPT ![t] = @ \cup {k}]
    /\ free_stamped' = free_stamped - 1
    /\ GrantReturned(t, k, last_commit_seq[k])
    /\ UNCHANGED <<entries, last_commit_seq, waiters, ahead>>

(* Mutant of AcquireQueue: everybody waits, whatever its age.               *)
AcquireQueueAnyAge(t, k) ==
    /\ Acquire(t)
    /\ k \in entries /\ owner[k] # NO_OWNER /\ t # owner[k]
    /\ waiters' = [waiters EXCEPT ![k] = @ \cup {t}]
    /\ ahead' = [ahead EXCEPT ![t] = waiters[k]]
    /\ stage' = [stage EXCEPT ![t] = "queued"]
    /\ wants' = [wants EXCEPT ![t] = k]
    /\ UNCHANGED <<entries, owner, last_commit_seq, held, free_stamped, stamp, locked>>

(* Decision::Queue: only a transaction older than the owner waits.          *)
AcquireQueue(t, k) ==
    /\ Acquire(t)
    /\ k \in entries /\ owner[k] # NO_OWNER /\ t < owner[k]
    /\ waiters' = [waiters EXCEPT ![k] = @ \cup {t}]
    /\ ahead' = [ahead EXCEPT ![t] = waiters[k]]
    /\ stage' = [stage EXCEPT ![t] = "queued"]
    /\ wants' = [wants EXCEPT ![t] = k]
    /\ UNCHANGED <<entries, owner, last_commit_seq, held, free_stamped, stamp, locked>>

(* The waiting thread finds its waiter cell granted or denied.              *)
Wake(t) ==
    /\ \/ /\ stage[t] = "granted"
          /\ GrantReturned(t, wants[t], last_commit_seq[wants[t]])
       \/ /\ stage[t] = "denied"
          /\ stage' = [stage EXCEPT ![t] = "running"]
          /\ wants' = [wants EXCEPT ![t] = NoKey]
          /\ UNCHANGED <<stamp, locked>>
    /\ UNCHANGED <<table, shutdown, tripped, expired, doomed, read_seq, committed_at,
                   seen, visible, store>>

----------------------------------------------------------------------------
(* refresh_snapshot: pin the watermark and adopt it if it moved forward;    *)
(* late is set when the one-second wait for the stamp expired.              *)
AdoptSnapshot(t, late) ==
    /\ stage[t] = "refresh"
    /\ t \notin doomed
    /\ late = (visible < stamp[t])
    /\ read_seq' = [read_seq EXCEPT ![t] = IF visible > @ THEN visible ELSE @]
    /\ expired' = [expired EXCEPT ![t] = @ \/ late]
    /\ locked' = [locked EXCEPT ![t] = @ \cup {wants[t]}]
    /\ stage' = [stage EXCEPT ![t] = "running"]
    /\ stamp' = [stamp EXCEPT ![t] = 0]
    /\ wants' = [wants EXCEPT ![t] = NoKey]
    /\ UNCHANGED <<table, shutdown, tripped, doomed, committed_at, seen, visible, store>>

Refresh(t) == AdoptSnapshot(t, FALSE)

RefreshExpired(t) == AdoptSnapshot(t, TRUE)

(* A changed read-set key: lock_key fails, the transaction keeps the lock   *)
(* and its snapshot.  The change stays above that snapshot, so every later  *)
(* validation finds it again.                                               *)
RefreshConflict(t) ==
    /\ stage[t] = "refresh"
    /\ t \in Serializable
    /\ doomed' = doomed \cup {t}
    /\ stage' = [stage EXCEPT ![t] = "running"]
    /\ stamp' = [stamp EXCEPT ![t] = 0]
    /\ wants' = [wants EXCEPT ![t] = NoKey]
    /\ UNCHANGED <<table, shutdown, tripped, locked, expired, read_seq,
                   committed_at, seen, visible, store>>

(* The locked keys a commit or prepare of t may write: no prepare reserves  *)
(* them and, where writes are validated, none changed above its snapshot.   *)
Writable(t) ==
    {k \in held[t] : /\ \A u \in Txns : k \notin prepared[u]
                     /\ t \in Refreshing => last_write[k] <= read_seq[t]}

(* commit took its sequence and applied.                                    *)
Commit(t) ==
    /\ stage[t] = "running"
    /\ t \notin doomed
    /\ last_seq < MaxSeq
    /\ last_seq' = last_seq + 1
    /\ committed_at' = [committed_at EXCEPT ![t] = last_seq + 1]
    /\ last_write' = [k \in Keys |-> IF k \in Writable(t) THEN last_seq + 1 ELSE last_write[k]]
    /\ bare' = bare \ held[t]
    /\ stage' = [stage EXCEPT ![t] = "finishing"]
    /\ UNCHANGED <<table, shutdown, tripped, wants, snap, seen, visible, prepared>>

(* release_txn_locks reads the watermark before it locks the table.         *)
ReadWatermark(t) ==
    /\ seen' = [seen EXCEPT ![t] = visible]
    /\ stage' = [stage EXCEPT ![t] = "releasing"]
    /\ UNCHANGED <<table, shutdown, tripped, wants, snap, committed_at, visible,
                   store>>

(* release() of a transaction that committed ...                            *)
Release(t) == stage[t] = "finishing" /\ ReadWatermark(t)

(* ... and of one that published nothing: rollback, an empty or refused     *)
(* commit, reset, or Drop.                                                  *)
Rollback(t) == stage[t] = "running" /\ ReadWatermark(t)

(* The waiters in gone leave their queues; the rest move up.                *)
Dequeue(gone) ==
    ahead' = [u \in Txns |-> IF u \in gone THEN {} ELSE ahead[u] \ gone]

(* The Txn is gone.                                                         *)
Forget(t) ==
    /\ stamp' = [stamp EXCEPT ![t] = 0]
    /\ locked' = [locked EXCEPT ![t] = {}]
    /\ expired' = [expired EXCEPT ![t] = FALSE]
    /\ doomed' = doomed \ {t}
    /\ read_seq' = [read_seq EXCEPT ![t] = 0]
    /\ committed_at' = [committed_at EXCEPT ![t] = 0]
    /\ seen' = [seen EXCEPT ![t] = 0]

(* The front of each queue of t's keys, NO_OWNER where nobody waits.        *)
Fronts(t, next) ==
    \A k \in Mine(t) :
        IF waiters[k] = {} THEN next[k] = NO_OWNER
        ELSE next[k] \in waiters[k] /\ ahead[next[k]] = {}

(* Mutant of Gone: the new owner leaves the queue, younger waiters stay.    *)
GoneFrontOnly(t, next) == {next[k] : k \in Mine(t)} \ {NO_OWNER}

(* Who leaves a queue when t's keys are handed to next: the new owner, and  *)
(* every waiter younger than it, which is denied.                           *)
Gone(t, next) == {u \in Txns : \E k \in Mine(t) : u \in waiters[k] /\ ~ u < next[k]}

(* last_commit_seq.max(seq) of the entries t owns.                          *)
Stamped(t) ==
    [k \in Keys |-> IF k \in Mine(t) /\ committed_at[t] > last_commit_seq[k]
                    THEN committed_at[t] ELSE last_commit_seq[k]]

(* Mutant of StampNeeded: an entry nobody waits for is always removed.      *)
StampDropped(t, k) == FALSE

(* A stamp is worth an unowned entry until it is published.                 *)
StampNeeded(t, k) == Stamped(t)[k] > seen[t]

(* release_all: per key held, stamp, hand off to the front of the queue and *)
(* deny every waiter younger than the new owner, or park or drop the entry; *)
(* then sweep.  One critical section.                                       *)
ReleaseAll(t) ==
    /\ stage[t] = "releasing"
    /\ \E next \in [Mine(t) -> Txns \cup {NO_OWNER}] :
          /\ Fronts(t, next)
          /\ owner' = [k \in Keys |-> IF k \in Mine(t) THEN next[k] ELSE owner[k]]
          /\ LET Live(ks) == {k \in ks : owner'[k] # NO_OWNER \/ StampNeeded(t, k)}
                 Unowned(ks) == {k \in ks : owner'[k] = NO_OWNER}
                 kept == (entries \ Mine(t)) \cup Live(Mine(t))
                 free == free_stamped + Cardinality(Unowned(Live(Mine(t))))
             IN IF free < SweepAt
                THEN entries' = kept /\ free_stamped' = free
                ELSE entries' = Live(kept) /\ free_stamped' = Cardinality(Unowned(Live(kept)))
          /\ last_commit_seq' = [k \in Keys |-> IF k \in entries' THEN Stamped(t)[k] ELSE 0]
          /\ waiters' = [k \in Keys |-> waiters[k] \ Gone(t, next)]
          /\ Dequeue(Gone(t, next))
          /\ held' = [u \in Txns |->
                         IF u = t THEN {} ELSE held[u] \cup {k \in Mine(t) : next[k] = u}]
          /\ LET granted == {u \in Gone(t, next) : \E k \in Mine(t) : next[k] = u}
             IN stage' = [u \in Txns |->
                             CASE u = t -> "done"
                               [] u # t /\ u \in granted -> "granted"
                               [] u # t /\ u \in Gone(t, next) \ granted -> "denied"
                               [] u # t /\ u \notin Gone(t, next) -> stage[u]]
    /\ Forget(t)
    /\ UNCHANGED <<shutdown, tripped, wants, visible, store>>

(* prepare reserves what it writes; deny_all then drops the entries with    *)
(* their stamps, published or not, and denies every waiter.                 *)
Prepare(t) ==
    /\ t \in Preparing
    /\ stage[t] = "running"
    /\ t \notin doomed
    /\ LET gone == UNION {waiters[k] : k \in Mine(t)}
       IN /\ entries' = entries \ Mine(t)
          /\ owner' = [k \in Keys |-> IF k \in Mine(t) THEN NO_OWNER ELSE owner[k]]
          /\ last_commit_seq' = [k \in Keys |-> IF k \in Mine(t) THEN 0 ELSE last_commit_seq[k]]
          /\ waiters' = [k \in Keys |-> IF k \in Mine(t) THEN {} ELSE waiters[k]]
          /\ Dequeue(gone)
          /\ stage' = [u \in Txns |-> CASE u = t -> "done"
                                        [] u \in gone -> "denied"
                                        [] OTHER -> stage[u]]
    /\ bare' = bare \cup {k \in Mine(t) : last_write[k] > visible}
    /\ prepared' = [prepared EXCEPT ![t] = Writable(t)]
    /\ held' = [held EXCEPT ![t] = {}]
    /\ Forget(t)
    /\ UNCHANGED <<free_stamped, shutdown, tripped, wants, visible, last_seq, last_write>>

(* commit_prepared takes a sequence and writes the reserved keys without    *)
(* touching the lock table; when its decision cannot be logged, the         *)
(* sequence is spent and the reservation stays.                             *)
CommitPrepared(t) ==
    /\ prepared[t] # {}
    /\ last_seq < MaxSeq
    /\ last_seq' = last_seq + 1
    /\ \/ /\ last_write' = [k \in Keys |-> IF k \in prepared[t] THEN last_seq + 1
                                           ELSE last_write[k]]
          /\ bare' = bare \cup prepared[t]
          /\ prepared' = [prepared EXCEPT ![t] = {}]
       \/ UNCHANGED <<last_write, bare, prepared>>
    /\ UNCHANGED <<table, shutdown, tripped, stage, wants, txn, visible>>

(* abort_prepared.                                                          *)
AbortPrepared(t) ==
    /\ prepared[t] # {}
    /\ prepared' = [prepared EXCEPT ![t] = {}]
    /\ UNCHANGED <<table, shutdown, tripped, stage, wants, txn, visible, last_seq,
                   last_write, bare>>

(* wake_every_waiter.                                                       *)
WakeEveryWaiter ==
    /\ waiters' = [k \in Keys |-> {}]
    /\ Dequeue(Queued)
    /\ stage' = [u \in Txns |-> IF u \in Queued THEN "denied" ELSE stage[u]]
    /\ UNCHANGED <<entries, owner, last_commit_seq, held, free_stamped, wants, txn,
                   visible, store>>

(* fail_stop: wake_all_with_error leaves the table usable.  The calls that  *)
(* check the flag do so on entry, and one already past the check goes on.   *)
FailStop ==
    /\ ~ tripped
    /\ tripped' = TRUE
    /\ WakeEveryWaiter
    /\ UNCHANGED shutdown

(* close: shut_down also refuses every later acquisition.                   *)
ShutDown ==
    /\ ~ shutdown
    /\ shutdown' = TRUE
    /\ WakeEveryWaiter
    /\ UNCHANGED tripped

(* The watermark catches up with some commits (module Publication).         *)
Publish ==
    /\ \E s \in (visible + 1)..last_seq : visible' = s
    /\ UNCHANGED <<table, shutdown, tripped, stage, wants, txn, store>>

----------------------------------------------------------------------------
Step(t) ==
    \/ Wake(t)
    \/ Refresh(t)
    \/ RefreshExpired(t)
    \/ RefreshConflict(t)
    \/ Release(t)
    \/ ReleaseAll(t)

Finish(t) == Commit(t) \/ Rollback(t) \/ Prepare(t)

Next ==
    \/ \E t \in Txns :
          \/ Begin(t)
          \/ \E k \in Keys : \/ AcquireFresh(t, k) \/ AcquireTakeover(t, k)
                              \/ AcquireQueue(t, k) \/ Reacquire(t, k)
          \/ Step(t)
          \/ Finish(t)
          \/ CommitPrepared(t) \/ AbortPrepared(t)
    \/ FailStop
    \/ ShutDown
    \/ Publish

(* Inside the engine nothing stops a thread that has something to do.  The  *)
(* second conjunct is the caller's: a transaction that is not waiting ends. *)
Fairness == \A t \in Txns : WF_vars(Step(t)) /\ WF_vars(Finish(t))

Spec == Init /\ [][Next]_vars /\ Fairness

----------------------------------------------------------------------------
(* Types of the lock table and of what each transaction keeps beside it.    *)
TypeOK ==
    /\ entries \subseteq Keys
    /\ owner \in [Keys -> Txns \cup {NO_OWNER}]
    /\ last_commit_seq \in [Keys -> Seqs]
    /\ waiters \in [Keys -> SUBSET Txns]
    /\ ahead \in [Txns -> SUBSET Txns]
    /\ held \in [Txns -> SUBSET Keys]
    /\ free_stamped \in Nat
    /\ shutdown \in BOOLEAN
    /\ tripped \in BOOLEAN
    /\ stage \in [Txns -> Stages]
    /\ wants \in [Txns -> Keys \cup {NoKey}]
    /\ stamp \in [Txns -> Seqs]
    /\ locked \in [Txns -> SUBSET Keys]
    /\ expired \in [Txns -> BOOLEAN]
    /\ doomed \subseteq Txns
    /\ read_seq \in [Txns -> Seqs]
    /\ committed_at \in [Txns -> Seqs]
    /\ seen \in [Txns -> Seqs]
    /\ visible \in Seqs
    /\ last_seq \in Seqs
    /\ last_write \in [Keys -> Seqs]
    /\ prepared \in [Txns -> SUBSET Keys]
    /\ bare \subseteq Keys

(* Mutual exclusion: a key whose lock_key returned Ok to a transaction is   *)
(* owned by that transaction until it finishes, through every hand-off,     *)
(* takeover, denial and shutdown of the table.                              *)
GrantedMeansOwned == \A t \in Txns : \A k \in locked[t] : k \in entries /\ owner[k] = t

(* Wait-die: every waiter is older than the owner it waits for, after every *)
(* hand-off too.  Waits then cannot form a cycle over any number of keys.   *)
WaitersOlder == \A k \in Keys : \A t \in waiters[k] : owner[k] # NO_OWNER /\ t < owner[k]

(* free_stamped, which decides when a release sweeps, is exactly the number *)
(* of unowned entries, through takeovers, parked releases and sweeps.       *)
FreeStampedExact == free_stamped = Cardinality({k \in entries : owner[k] = NO_OWNER})

(* After close no thread is parked on a lock, and none parks later.         *)
ShutdownParksNobody == shutdown => \A t \in Txns : stage[t] # "queued"

(* The commit a grant of each key has to see: the newest one, unless the    *)
(* lock table keeps no stamp for it.                                        *)
owed == [k \in Keys |-> IF k \in bare THEN 0 ELSE last_write[k]]

(* What the lock buys: a transaction granted a key reads at a snapshot that *)
(* includes the newest commit of it, even when that commit was not yet      *)
(* published at the hand-off, so it cannot abort on the very write it       *)
(* waited for.  Three exceptions: its bounded wait expired; its refresh     *)
(* failed and it locked the key again, which returns Ok at the old snapshot *)
(* and leaves it unable to commit; the newest commit left no stamp, because *)
(* commit_prepared made it or because a prepare dropped the stamp before    *)
(* the commit was published.                                                *)
GrantSeesPredecessor ==
    \A t \in Refreshing : ~ expired[t] /\ t \notin doomed /\ stage[t] = "running" =>
        \A k \in locked[t] : owed[k] <= read_seq[t]

(* No deadlock and no lost wake-up: if transactions that are not waiting    *)
(* end, every waiter is granted or denied.                                  *)
WaiterReturns == \A t \in Txns : stage[t] = "queued" ~> stage[t] # "queued"
=============================================================================
