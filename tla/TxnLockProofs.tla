--------------------------- MODULE TxnLockProofs ---------------------------
(***************************************************************************)
(* Proofs about TxnLock for any set of transactions and keys: the lock     *)
(* table excludes, waits only point from older to younger transactions,    *)
(* and a grant's snapshot covers the stamped commits of earlier owners.    *)
(***************************************************************************)
EXTENDS TxnLock, FiniteSetTheorems, TLAPS

(* The table and the transactions agree: entries.owner and held are each    *)
(* other's inverse, a queue holds exactly the threads parked on its key,    *)
(* and a granted thread owns what it wants even before it wakes up.         *)
OwnInv ==
    /\ \A k \in Keys : owner[k] # NO_OWNER => k \in entries /\ k \in held[owner[k]]
    /\ \A t \in Txns : \A k \in held[t] : k \in entries /\ owner[k] = t
    /\ \A k \in Keys : k \notin entries => last_commit_seq[k] = 0
    /\ WaitersOlder
    /\ \A k \in Keys : \A t \in waiters[k] : stage[t] = "queued" /\ wants[t] = k
    /\ \A t \in Txns : stage[t] = "queued" => wants[t] \in Keys /\ t \in waiters[wants[t]]
    /\ \A t \in Txns : stage[t] \in {"granted", "refresh"} => wants[t] \in held[t]
    /\ \A t \in Txns : locked[t] \subseteq held[t]

Alive == {"running", "queued", "granted", "denied", "refresh"}

(* Where the commit a grant owes its key is remembered until it is visible: *)
(* in the owner's committed_at, then in the entry's stamp.                  *)
Remembered(k) ==
    \/ owed[k] <= visible
    \/ owed[k] <= last_commit_seq[k]
    \/ /\ owner[k] # NO_OWNER
       /\ stage[owner[k]] \in {"finishing", "releasing"}
       /\ owed[k] <= committed_at[owner[k]]

(* The stamp a grant carried covers what the refresh has to wait for.       *)
StampCovers(t) ==
    stage[t] = "refresh" => owed[wants[t]] <= visible \/ owed[wants[t]] <= stamp[t]

(* GrantSeesPredecessor, for as long as the transaction lives.              *)
ReadsCover(t) ==
    ~ expired[t] /\ t \notin doomed /\ stage[t] \in Alive =>
        \A k \in locked[t] : owed[k] <= read_seq[t]

SeqInv ==
    /\ visible <= last_seq
    /\ \A t \in Txns : seen[t] <= visible
    /\ \A k \in Keys : last_write[k] <= last_seq
    /\ \A t \in Txns : stage[t] = "new" => locked[t] = {}
    /\ \A k \in Keys : Remembered(k)
    /\ \A t \in Refreshing : StampCovers(t)
    /\ \A t \in Refreshing : ReadsCover(t)

(* lock_key returned Ok for every key a transaction holds, except the one   *)
(* it is being granted, unless a refresh of it failed: locking a held key   *)
(* again gives a transaction nothing new.                                   *)
Quiet == {"new", "running", "queued", "denied"}

LockInv ==
    \A t \in Txns : t \notin doomed =>
        /\ stage[t] \in Quiet => held[t] \subseteq locked[t]
        /\ stage[t] \in {"granted", "refresh"} => held[t] \subseteq locked[t] \cup {wants[t]}

(* A closed table has no waiters.                                           *)
ShutInv == shutdown => \A k \in Keys : waiters[k] = {}

IndInv == TypeOK /\ OwnInv /\ FreeStampedExact /\ ShutInv /\ LockInv /\ SeqInv

(* What most steps need of the constants: no transaction is called          *)
(* NO_OWNER.                                                                *)
LEMMA Constants ==
    /\ NO_OWNER \notin Txns
    /\ Serializable \subseteq Refreshing /\ Refreshing \subseteq Txns
    /\ IsFiniteSet(Keys)
    /\ NoKey \notin Keys
    /\ SweepAt \in Nat
    /\ MaxSeq \in Nat
BY TxnLockAssumption DEF NO_OWNER

(* The order on sequence numbers.                                           *)
LEMMA Order ==
    /\ \A n \in Nat : 0 <= n /\ n <= n
    /\ \A a, b, c \in Nat : a <= b /\ b <= c => a <= c
OBVIOUS

(* The stamp release_all leaves is at least the old one and, on the keys    *)
(* released, at least the commit's sequence.                                *)
LEMMA StampIsMax ==
    ASSUME TypeOK, NEW t \in Txns, NEW k \in Keys
    PROVE  /\ Stamped(t)[k] \in Nat
           /\ last_commit_seq[k] <= Stamped(t)[k]
           /\ k \in Mine(t) => committed_at[t] <= Stamped(t)[k]
<1>1. last_commit_seq[k] \in Nat /\ committed_at[t] \in Nat
    BY DEF TypeOK, Seqs
<1>2. QED
    BY <1>1 DEF Stamped

(* The empty table satisfies the inductive invariant.                       *)
LEMMA InitInv == Init => IndInv
<1> SUFFICES ASSUME Init PROVE IndInv
    OBVIOUS
<1> USE Constants
<1>1. TypeOK
  <2>1. 0 \in Seqs
      BY DEF Seqs
  <2>2. QED
      BY Zenon, <2>1 DEF Init, TypeOK, Stages, NO_OWNER
<1>2. OwnInv
    BY DEF Init, OwnInv, WaitersOlder, NO_OWNER
<1>3. FreeStampedExact
  <2>1. {k \in entries : owner[k] = NO_OWNER} = {}
      BY DEF Init
  <2>2. QED
      BY <2>1, FS_EmptySet DEF FreeStampedExact, Init
<1>4. SeqInv
    BY DEF Init, SeqInv, Remembered, StampCovers, ReadsCover, owed
<1>5. ShutInv
    BY DEF Init, ShutInv
<1>6. LockInv
    BY Zenon DEF Init, LockInv
<1>7. QED
    BY <1>1, <1>2, <1>3, <1>4, <1>5, <1>6 DEF IndInv

(* A set of keys is finite, and so its size is a natural number.            *)
LEMMA KeySets ==
    ASSUME NEW S, S \subseteq Keys
    PROVE  IsFiniteSet(S) /\ Cardinality(S) \in Nat
BY TxnLockAssumption, FS_Subset, FS_CardinalityType

(* free_stamped counts the unowned entries after every step too.            *)
LEMMA FreeStep == TypeOK /\ OwnInv /\ FreeStampedExact /\ [Next]_vars => FreeStampedExact'
<1> SUFFICES ASSUME TypeOK, OwnInv, FreeStampedExact, [Next]_vars PROVE FreeStampedExact'
    OBVIOUS
<1> USE Constants
<1> DEFINE Free == {k \in entries : owner[k] = NO_OWNER}
<1>0. Free \subseteq Keys /\ IsFiniteSet(Free) /\ Cardinality(Free) \in Nat
      /\ free_stamped = Cardinality(Free)
  <2>1. Free \subseteq Keys
      BY DEF TypeOK
  <2>2. QED
      BY <2>1, KeySets DEF FreeStampedExact
<1>1. ASSUME NEW t \in Txns, NEW k \in Keys, AcquireFresh(t, k) PROVE FreeStampedExact'
  <2>1. Free' = Free /\ free_stamped' = free_stamped
      BY <1>1 DEF AcquireFresh, TypeOK, NO_OWNER
  <2>2. QED
      BY <2>1, <1>0 DEF FreeStampedExact
<1>2. ASSUME NEW t \in Txns, NEW k \in Keys, AcquireTakeover(t, k) PROVE FreeStampedExact'
  <2>1. k \in Free /\ Free' = Free \ {k} /\ free_stamped' = free_stamped - 1
      BY <1>2 DEF AcquireTakeover, TypeOK, NO_OWNER
  <2>2. Cardinality(Free \ {k}) = Cardinality(Free) - 1
    <3> HIDE DEF Free
    <3> QED
        BY Zenon, <2>1, <1>0, FS_RemoveElement
  <2>3. QED
      BY Zenon, <2>1, <2>2, <1>0 DEF FreeStampedExact
<1>3. ASSUME NEW t \in Txns, ReleaseAll(t) PROVE FreeStampedExact'
  <2> DEFINE Live(ks) == {k \in ks : owner'[k] # NO_OWNER \/ StampNeeded(t, k)}
             Unowned(ks) == {k \in ks : owner'[k] = NO_OWNER}
             parked == Unowned(Live(Mine(t)))
             kept == (entries \ Mine(t)) \cup Live(Mine(t))
  <2>1. \/ entries' = kept /\ free_stamped' = free_stamped + Cardinality(parked)
        \/ entries' = Live(kept) /\ free_stamped' = Cardinality(Unowned(Live(kept)))
      BY Zenon, <1>3 DEF ReleaseAll
  <2>2. CASE entries' = Live(kept) /\ free_stamped' = Cardinality(Unowned(Live(kept)))
      BY <2>2 DEF FreeStampedExact
  <2>3. CASE entries' = kept /\ free_stamped' = free_stamped + Cardinality(parked)
    <3>1. \A k \in entries \ Mine(t) : owner'[k] = owner[k]
        BY <1>3 DEF ReleaseAll, TypeOK
    <3>2. Mine(t) \cap Free = {}
        BY DEF Mine, NO_OWNER
    <3>3. Free' = Free \cup parked /\ Free \cap parked = {}
        BY <2>3, <3>1, <3>2
    <3>4. IsFiniteSet(parked) /\ Cardinality(parked) \in Nat
      <4>1. parked \subseteq Keys
          BY DEF Mine, TypeOK
      <4>2. QED
          BY <4>1, KeySets
    <3>5. Cardinality(Free \cup parked) = Cardinality(Free) + Cardinality(parked)
      <4>1. Cardinality(Free \cap parked) = 0
          BY <3>3, FS_EmptySet
      <4>2. Cardinality(Free) \in Nat /\ Cardinality(parked) \in Nat
          BY <3>4, <1>0, FS_CardinalityType
      <4>3. Cardinality(Free \cup parked)
              = Cardinality(Free) + Cardinality(parked) - Cardinality(Free \cap parked)
          BY <3>4, <1>0, FS_Union
      <4>4. QED
          BY <4>1, <4>2, <4>3
    <3>6. QED
        BY <2>3, <3>3, <3>5, <1>0 DEF FreeStampedExact
  <2>4. QED
      BY <2>1, <2>2, <2>3
<1>4. ASSUME NEW t \in Txns, Prepare(t) PROVE FreeStampedExact'
  <2>1. Free' = Free /\ free_stamped' = free_stamped
      BY <1>4 DEF Prepare, TypeOK, Mine, NO_OWNER
  <2>2. QED
      BY <2>1, <1>0 DEF FreeStampedExact
<1>5. CASE UNCHANGED <<entries, owner, free_stamped>>
    BY <1>5 DEF FreeStampedExact
<1>6. QED
    BY <1>1, <1>2, <1>3, <1>4, <1>5 DEF Next, vars, table, Begin, AcquireQueue, Step, Finish,
       Wake, Refresh, RefreshExpired, AdoptSnapshot, RefreshConflict, Release, Rollback,
       ReadWatermark, Commit, FailStop, ShutDown, WakeEveryWaiter, Publish, Reacquire,
       CommitPrepared, AbortPrepared

(* Types are preserved by every step.                                       *)
LEMMA TypeStep == TypeOK /\ OwnInv /\ FreeStampedExact' /\ [Next]_vars => TypeOK'
<1> SUFFICES ASSUME TypeOK, OwnInv, FreeStampedExact', [Next]_vars PROVE TypeOK'
    OBVIOUS
<1> USE Constants
<1>0. 0 \in Seqs
    BY DEF Seqs
<1>a. ASSUME entries' \subseteq Keys PROVE free_stamped' \in Nat
  <2>1. {k \in entries : owner[k] = NO_OWNER}' \subseteq Keys
      BY <1>a
  <2>2. QED
      BY <2>1, KeySets DEF FreeStampedExact
<1>b. ASSUME NEW t \in Txns, NEW k \in Keys, NEW seq \in Seqs, GrantReturned(t, k, seq)
      PROVE /\ stage' \in [Txns -> Stages]
            /\ wants' \in [Txns -> Keys \cup {NoKey}]
            /\ stamp' \in [Txns -> Seqs]
            /\ locked' \in [Txns -> SUBSET Keys]
  <2>1. stage' \in [Txns -> Stages]
      BY <1>b DEF GrantReturned, TypeOK, Stages
  <2>2. wants' \in [Txns -> Keys \cup {NoKey}]
    <3>1. wants \in [Txns -> Keys \cup {NoKey}]
        BY Zenon DEF TypeOK
    <3>2. wants' = [wants EXCEPT ![t] = k] \/ wants' = [wants EXCEPT ![t] = NoKey]
        BY Zenon, <1>b DEF GrantReturned
    <3>3. QED
        BY <3>1, <3>2
  <2>3. stamp' \in [Txns -> Seqs]
      BY <1>b DEF GrantReturned, TypeOK
  <2>4. locked' \in [Txns -> SUBSET Keys]
    <3>1. locked \in [Txns -> SUBSET Keys]
        BY Zenon DEF TypeOK
    <3>2. locked' = locked \/ locked' = [locked EXCEPT ![t] = @ \cup {k}]
        BY Zenon, <1>b DEF GrantReturned
    <3>3. QED
        BY <3>1, <3>2
  <2>5. QED
      BY Zenon, <2>1, <2>2, <2>3, <2>4
<1>1. ASSUME NEW t \in Txns, Begin(t) PROVE TypeOK'
    BY <1>1 DEF Begin, TypeOK, table, store, Stages
<1>2. ASSUME NEW t \in Txns, NEW k \in Keys, AcquireFresh(t, k) PROVE TypeOK'
  <2>1. entries' \subseteq Keys
      BY <1>2 DEF AcquireFresh, TypeOK
  <2>2. QED
      BY <1>2, <2>1, <1>0, <1>a, <1>b DEF AcquireFresh, Acquire, TypeOK, store
<1>3. ASSUME NEW t \in Txns, NEW k \in Keys, AcquireTakeover(t, k) PROVE TypeOK'
  <2>1. entries' \subseteq Keys /\ last_commit_seq[k] \in Seqs
      BY <1>3 DEF AcquireTakeover, TypeOK
  <2>2. QED
      BY <1>3, <2>1, <1>a, <1>b DEF AcquireTakeover, Acquire, TypeOK, store
<1>4. ASSUME NEW t \in Txns, NEW k \in Keys, AcquireQueue(t, k) PROVE TypeOK'
    BY <1>4 DEF AcquireQueue, Acquire, TypeOK, store, Stages
<1>5. ASSUME NEW t \in Txns, Wake(t) PROVE TypeOK'
  <2>1. CASE stage[t] = "granted" /\ GrantReturned(t, wants[t], last_commit_seq[wants[t]])
    <3>1. wants[t] \in Keys /\ last_commit_seq[wants[t]] \in Seqs
        BY <2>1 DEF OwnInv, TypeOK
    <3>2. QED
        BY <1>5, <2>1, <3>1, <1>b DEF Wake, TypeOK, table, store
  <2>2. CASE stage[t] = "denied"
    <3>1. stage' \in [Txns -> Stages] /\ wants' \in [Txns -> Keys \cup {NoKey}]
        BY <1>5, <2>2 DEF Wake, TypeOK, Stages
    <3>2. UNCHANGED <<stamp, locked>>
        BY Zenon, <1>5, <2>2 DEF Wake
    <3>3. QED
        BY Zenon, <1>5, <3>1, <3>2 DEF Wake, TypeOK, table, store
  <2>3. QED
      BY <1>5, <2>1, <2>2 DEF Wake
<1>6. ASSUME NEW t \in Txns, NEW late \in BOOLEAN, AdoptSnapshot(t, late) PROVE TypeOK'
  <2>1. wants[t] \in Keys
      BY <1>6 DEF AdoptSnapshot, OwnInv, TypeOK
  <2>2. expired' \in [Txns -> BOOLEAN]
      BY <1>6, Zenon DEF AdoptSnapshot, TypeOK
  <2>3. read_seq' \in [Txns -> Seqs]
      BY <1>6 DEF AdoptSnapshot, TypeOK
  <2>4. QED
      BY <1>6, <2>1, <2>2, <2>3, <1>0 DEF AdoptSnapshot, TypeOK, table, store, Stages
<1>7. ASSUME NEW t \in Txns, RefreshConflict(t) PROVE TypeOK'
    BY <1>7, <1>0 DEF RefreshConflict, TypeOK, table, store, Stages
<1>8. ASSUME NEW t \in Txns, Commit(t) PROVE TypeOK'
  <2>1. last_seq + 1 \in Seqs
      BY <1>8 DEF Commit, TypeOK, Seqs
  <2>2. last_write' \in [Keys -> Seqs] /\ bare' \subseteq Keys
      BY <1>8, <2>1 DEF Commit, TypeOK
  <2>3. QED
      BY <1>8, <2>1, <2>2 DEF Commit, TypeOK, table, snap, Stages
<1>9. ASSUME NEW t \in Txns, ReadWatermark(t) PROVE TypeOK'
    BY <1>9 DEF ReadWatermark, TypeOK, table, snap, store, Stages
<1>c. ASSUME NEW t \in Txns, Forget(t)
      PROVE /\ stamp' \in [Txns -> Seqs]
            /\ locked' \in [Txns -> SUBSET Keys]
            /\ expired' \in [Txns -> BOOLEAN]
            /\ doomed' \subseteq Txns
            /\ read_seq' \in [Txns -> Seqs]
            /\ committed_at' \in [Txns -> Seqs]
            /\ seen' \in [Txns -> Seqs]
    BY <1>c, <1>0 DEF Forget, TypeOK
<1>d. ASSUME NEW gone, Dequeue(gone) PROVE ahead' \in [Txns -> SUBSET Txns]
    BY <1>d DEF Dequeue, TypeOK
<1>10. ASSUME NEW t \in Txns, ReleaseAll(t) PROVE TypeOK'
  <2>1. PICK next \in [Mine(t) -> Txns \cup {NO_OWNER}] :
          /\ owner' = [k \in Keys |-> IF k \in Mine(t) THEN next[k] ELSE owner[k]]
          /\ last_commit_seq' = [k \in Keys |-> IF k \in entries' THEN Stamped(t)[k] ELSE 0]
          /\ waiters' = [k \in Keys |-> waiters[k] \ Gone(t, next)]
          /\ Dequeue(Gone(t, next))
          /\ held' = [u \in Txns |->
                        IF u = t THEN {} ELSE held[u] \cup {k \in Mine(t) : next[k] = u}]
          /\ \A u \in Txns : stage'[u] \in {"done", "granted", "denied", stage[u]}
          /\ DOMAIN stage' = Txns
          /\ stage' = [u \in Txns |-> stage'[u]]
      BY Zenon, <1>10 DEF ReleaseAll
  <2>2. entries' \subseteq Keys
      BY ZenonT(60), <1>10 DEF ReleaseAll, Mine, TypeOK
  <2>3. Stamped(t) \in [Keys -> Seqs]
      BY DEF Stamped, TypeOK
  <2>4. last_commit_seq' \in [Keys -> Seqs]
      BY <2>1, <2>3, <1>0
  <2>5. owner' \in [Keys -> Txns \cup {NO_OWNER}]
      BY <2>1 DEF TypeOK
  <2>6. waiters' \in [Keys -> SUBSET Txns] /\ ahead' \in [Txns -> SUBSET Txns]
      BY <2>1, <1>d DEF TypeOK
  <2>7. held' \in [Txns -> SUBSET Keys]
      BY <2>1 DEF TypeOK, Mine
  <2>8. stage' \in [Txns -> Stages]
      BY <2>1 DEF TypeOK, Stages
  <2>9. QED
      BY Zenon, <1>10, <1>a, <1>c, <2>2, <2>4, <2>5, <2>6, <2>7, <2>8 DEF ReleaseAll, TypeOK, store
<1>11. ASSUME NEW t \in Txns, Prepare(t) PROVE TypeOK'
  <2>1. entries' \subseteq Keys
      BY <1>11 DEF Prepare, TypeOK
  <2>2. /\ owner' \in [Keys -> Txns \cup {NO_OWNER}]
        /\ last_commit_seq' \in [Keys -> Seqs]
        /\ waiters' \in [Keys -> SUBSET Txns]
        /\ held' \in [Txns -> SUBSET Keys]
      BY <1>11, <1>0 DEF Prepare, TypeOK
  <2>3. stage' \in [Txns -> Stages]
      BY <1>11 DEF Prepare, TypeOK, Stages
  <2>4. ahead' \in [Txns -> SUBSET Txns]
      BY <1>11, <1>d DEF Prepare
  <2>5. prepared' \in [Txns -> SUBSET Keys] /\ bare' \subseteq Keys
      BY <1>11 DEF Prepare, Writable, Mine, TypeOK
  <2>6. QED
      BY Zenon, <1>11, <1>a, <1>c, <2>1, <2>2, <2>3, <2>4, <2>5 DEF Prepare, TypeOK
<1>12. ASSUME WakeEveryWaiter, shutdown' \in BOOLEAN, tripped' \in BOOLEAN PROVE TypeOK'
  <2>1. ahead' \in [Txns -> SUBSET Txns]
      BY <1>12, <1>d DEF WakeEveryWaiter
  <2>2. stage' \in [Txns -> Stages]
      BY <1>12 DEF WakeEveryWaiter, TypeOK, Stages
  <2>3. QED
      BY <1>12, <2>1, <2>2 DEF WakeEveryWaiter, TypeOK, txn, snap, store
<1>13. CASE Publish
    BY <1>13 DEF Publish, TypeOK, Seqs, table, txn, snap, store
<1>14. CASE UNCHANGED vars
    BY <1>14 DEF vars, table, txn, snap, store, TypeOK
<1>15. CASE FailStop \/ ShutDown
    BY Zenon, <1>12, <1>15 DEF FailStop, ShutDown, TypeOK
<1>16. ASSUME NEW t \in Txns, NEW k \in Keys, Reacquire(t, k) PROVE TypeOK'
  <2>1. locked' \in [Txns -> SUBSET Keys]
      BY <1>16 DEF Reacquire, TypeOK
  <2>2. QED
      BY Zenon, <1>16, <2>1 DEF Reacquire, Acquire, TypeOK, table, store
<1>17. ASSUME NEW t \in Txns, CommitPrepared(t) PROVE TypeOK'
  <2>1. last_seq' \in Seqs /\ last_seq + 1 \in Seqs
      BY <1>17 DEF CommitPrepared, TypeOK, Seqs
  <2>2. last_write' \in [Keys -> Seqs] /\ bare' \subseteq Keys /\ prepared' \in [Txns -> SUBSET Keys]
      BY <1>17, <2>1 DEF CommitPrepared, TypeOK
  <2>3. QED
      BY Zenon, <1>17, <2>1, <2>2 DEF CommitPrepared, TypeOK, table, txn, snap
<1>18. ASSUME NEW t \in Txns, AbortPrepared(t) PROVE TypeOK'
  <2>1. prepared' \in [Txns -> SUBSET Keys]
      BY <1>18 DEF AbortPrepared, TypeOK
  <2>2. QED
      BY Zenon, <1>18, <2>1 DEF AbortPrepared, TypeOK, table, txn, snap
<1>19. QED
    BY Zenon, <1>16, <1>17, <1>18, <1>1, <1>2, <1>3, <1>4, <1>5, <1>6, <1>7, <1>8, <1>9, <1>10, <1>11, <1>13, <1>14, <1>15
       DEF Next, Step, Finish, Refresh, RefreshExpired, Release, Rollback

(* Ownership and queues stay consistent, and every waiter stays older than  *)
(* the owner it waits for.                                                  *)
LEMMA OwnStep == TypeOK /\ OwnInv /\ [Next]_vars => OwnInv'
<1> SUFFICES ASSUME TypeOK, OwnInv, [Next]_vars PROVE OwnInv'
    OBVIOUS
<1> USE Constants
<1>0. /\ \A t \in Txns : t # NO_OWNER
      /\ \A t \in Txns : Mine(t) = held[t]
  <2>1. \A t \in Txns : t # NO_OWNER
      OBVIOUS
  <2>2. ASSUME NEW t \in Txns PROVE Mine(t) = held[t]
      BY DEF Mine, OwnInv
  <2>3. QED
      BY <2>1, <2>2
<1>t. /\ entries \subseteq Keys
      /\ owner \in [Keys -> Txns \cup {NO_OWNER}]
      /\ waiters \in [Keys -> SUBSET Txns]
      /\ held \in [Txns -> SUBSET Keys]
      /\ stage \in [Txns -> Stages]
      /\ wants \in [Txns -> Keys \cup {NoKey}]
      /\ locked \in [Txns -> SUBSET Keys]
    BY DEF TypeOK
<1>1. ASSUME NEW t \in Txns, Begin(t) PROVE OwnInv'
  <2>1. /\ UNCHANGED <<entries, owner, last_commit_seq, waiters, held, wants, locked>>
        /\ \A u \in Txns : \/ stage'[u] = stage[u]
                           \/ u = t /\ stage[u] = "new" /\ stage'[u] = "running"
      BY <1>1, <1>t DEF Begin, table
  <2>2. QED
      BY <2>1, <1>t DEF OwnInv, WaitersOlder
<1>a. ASSUME NEW t \in Txns, NEW k \in Keys, NEW seq, GrantReturned(t, k, seq)
      PROVE /\ stage'[t] \in {"refresh", "running"}
            /\ \A u \in Txns : u # t => stage'[u] = stage[u] /\ wants'[u] = wants[u]
                                         /\ locked'[u] = locked[u]
            /\ stage'[t] = "refresh" => wants'[t] = k
            /\ locked'[t] \subseteq locked[t] \cup {k}
    BY Zenon, <1>a, <1>t DEF GrantReturned
<1>b. ASSUME NEW t \in Txns, NEW k \in Keys, Acquire(t), owner[k] = NO_OWNER,
             NEW seq, GrantReturned(t, k, seq), k \in entries',
             entries' = entries \cup {k},
             owner' = [owner EXCEPT ![k] = t], held' = [held EXCEPT ![t] = @ \cup {k}],
             UNCHANGED <<last_commit_seq, waiters>>
      PROVE OwnInv'
  <2>1. /\ owner'[k] = t
        /\ \A j \in Keys : j # k => owner'[j] = owner[j]
        /\ held'[t] = held[t] \cup {k}
        /\ \A u \in Txns : u # t => held'[u] = held[u]
        /\ stage[t] = "running"
      BY <1>b, <1>t DEF Acquire
  <2>2. waiters[k] = {}
      BY <1>b DEF OwnInv, WaitersOlder
  <2>3. WaitersOlder'
      BY <1>b, <2>1, <2>2 DEF OwnInv, WaitersOlder
  <2>4. /\ stage'[t] \in {"refresh", "running"}
        /\ \A u \in Txns : u # t => stage'[u] = stage[u] /\ wants'[u] = wants[u]
                                     /\ locked'[u] = locked[u]
        /\ stage'[t] = "refresh" => wants'[t] = k
        /\ locked'[t] \subseteq locked[t] \cup {k}
      BY Zenon, <1>a, <1>b
  <2>5. \A j \in Keys : owner'[j] # NO_OWNER => j \in entries' /\ j \in held'[owner'[j]]
    <3>1. SUFFICES ASSUME NEW j \in Keys, j # k, owner[j] # NO_OWNER
                   PROVE  j \in entries' /\ j \in held'[owner[j]]
        BY <1>b, <2>1
    <3>2. j \in entries /\ j \in held[owner[j]] /\ owner[j] \in Txns
        BY <3>1, <1>t DEF OwnInv
    <3>3. QED
        BY <1>b, <2>1, <3>2
  <2>6. \A u \in Txns : \A j \in held'[u] : j \in entries' /\ owner'[j] = u
    <3>1. SUFFICES ASSUME NEW u \in Txns, NEW j \in held[u]
                   PROVE  j \in entries' /\ owner'[j] = u
        BY <1>b, <2>1
    <3>2. j \in entries /\ owner[j] = u /\ j \in Keys
        BY <1>t DEF OwnInv
    <3>3. j # k
        BY <3>2, <1>b, <1>0
    <3>4. QED
        BY <1>b, <2>1, <3>2, <3>3
  <2>7. \A j \in Keys : j \notin entries' => last_commit_seq'[j] = 0
      BY <1>b DEF OwnInv
  <2>8. \A j \in Keys : \A u \in waiters'[j] : stage'[u] = "queued" /\ wants'[u] = j
    <3>1. SUFFICES ASSUME NEW j \in Keys, NEW u \in waiters[j]
                   PROVE  stage'[u] = "queued" /\ wants'[u] = j
        BY <1>b
    <3>2. stage[u] = "queued" /\ wants[u] = j /\ u \in Txns
        BY Zenon, <1>t DEF OwnInv
    <3>3. QED
        BY Zenon, <2>1, <2>4, <3>2
  <2>9. \A u \in Txns : stage'[u] = "queued" => wants'[u] \in Keys /\ u \in waiters'[wants'[u]]
      BY <1>b, <2>4 DEF OwnInv
  <2>10. ASSUME NEW u \in Txns, stage'[u] \in {"granted", "refresh"} PROVE wants'[u] \in held'[u]
    <3>1. CASE u = t
        BY <2>1, <2>4, <2>10, <3>1
    <3>2. CASE u # t
      <4>1. stage[u] \in {"granted", "refresh"} /\ wants'[u] = wants[u] /\ held'[u] = held[u]
          BY <2>1, <2>4, <2>10, <3>2
      <4>2. wants[u] \in held[u]
          BY Zenon, <4>1 DEF OwnInv
      <4>3. QED
          BY <4>1, <4>2
    <3>3. QED
        BY Zenon, <3>1, <3>2
  <2>11. \A u \in Txns : locked'[u] \subseteq held'[u]
      BY <2>1, <2>4 DEF OwnInv
  <2>12. QED
      BY <2>3, <2>5, <2>6, <2>7, <2>8, <2>9, <2>10, <2>11 DEF OwnInv
<1>2. ASSUME NEW t \in Txns, NEW k \in Keys, AcquireFresh(t, k) PROVE OwnInv'
  <2>1. owner[k] = NO_OWNER
      BY <1>2 DEF AcquireFresh, OwnInv
  <2>2. QED
      BY Zenon, <1>2, <1>b, <2>1 DEF AcquireFresh
<1>3. ASSUME NEW t \in Txns, NEW k \in Keys, AcquireTakeover(t, k) PROVE OwnInv'
  <2>1. entries' = entries \cup {k}
      BY <1>3 DEF AcquireTakeover
  <2>2. QED
      BY Zenon, <1>3, <1>b, <2>1 DEF AcquireTakeover
<1>4. ASSUME NEW t \in Txns, NEW k \in Keys, AcquireQueue(t, k) PROVE OwnInv'
  <2>1. /\ waiters'[k] = waiters[k] \cup {t}
        /\ \A j \in Keys : j # k => waiters'[j] = waiters[j]
        /\ stage'[t] = "queued" /\ wants'[t] = k /\ stage[t] = "running"
        /\ \A u \in Txns : u # t => stage'[u] = stage[u] /\ wants'[u] = wants[u]
        /\ UNCHANGED <<entries, owner, last_commit_seq, held, locked>>
      BY <1>4, <1>t DEF AcquireQueue, Acquire
  <2>2. owner[k] # NO_OWNER /\ t < owner[k]
      BY <1>4 DEF AcquireQueue
  <2>3. WaitersOlder'
    <3>1. WaitersOlder
        BY Zenon DEF OwnInv
    <3>2. \A j \in Keys : \A u \in waiters'[j] : u \in waiters[j] \/ (j = k /\ u = t)
        BY <2>1
    <3>3. QED
        BY ZenonT(60), <2>1, <2>2, <3>1, <3>2 DEF WaitersOlder
  <2>4. \A j \in Keys : \A u \in waiters'[j] : stage'[u] = "queued" /\ wants'[u] = j
    <3>1. SUFFICES ASSUME NEW j \in Keys, NEW u \in waiters'[j], u # t
                   PROVE  stage'[u] = "queued" /\ wants'[u] = j
      <4>1. \A j \in Keys : t \notin waiters[j]
          BY Zenon, <2>1 DEF OwnInv
      <4>2. QED
          BY <2>1, <4>1
    <3>2. u \in waiters[j] /\ u \in Txns
        BY <2>1, <3>1, <1>t
    <3>3. stage[u] = "queued" /\ wants[u] = j
        BY Zenon, <3>2 DEF OwnInv
    <3>4. QED
        BY <2>1, <3>1, <3>2, <3>3
  <2>5. \A u \in Txns : stage'[u] = "queued" => wants'[u] \in Keys /\ u \in waiters'[wants'[u]]
      BY <2>1 DEF OwnInv
  <2>6. QED
      BY <2>1, <2>3, <2>4, <2>5 DEF OwnInv
<1>5. ASSUME NEW t \in Txns, Wake(t) PROVE OwnInv'
  <2>1. UNCHANGED <<entries, owner, last_commit_seq, waiters, held>>
      BY Zenon, <1>5 DEF Wake, table
  <2>2. CASE stage[t] = "granted" /\ GrantReturned(t, wants[t], last_commit_seq[wants[t]])
    <3>1. wants[t] \in Keys /\ wants[t] \in held[t]
        BY <2>2, <1>t DEF OwnInv
    <3>2. /\ stage'[t] \in {"refresh", "running"}
          /\ \A u \in Txns : u # t => stage'[u] = stage[u] /\ wants'[u] = wants[u]
                                       /\ locked'[u] = locked[u]
          /\ stage'[t] = "refresh" => wants'[t] = wants[t]
          /\ locked'[t] \subseteq locked[t] \cup {wants[t]}
        BY <2>2, <3>1, <1>a
    <3>3. WaitersOlder'
        BY <2>1 DEF OwnInv, WaitersOlder
    <3>4. \A j \in Keys : \A u \in waiters'[j] : stage'[u] = "queued" /\ wants'[u] = j
      <4>1. SUFFICES ASSUME NEW j \in Keys, NEW u \in waiters[j]
                     PROVE  stage'[u] = "queued" /\ wants'[u] = j
          BY <2>1
      <4>2. stage[u] = "queued" /\ wants[u] = j /\ u \in Txns
          BY Zenon, <1>t DEF OwnInv
      <4>3. QED
          BY <2>2, <3>2, <4>2
    <3>5. \A u \in Txns : stage'[u] = "queued" => wants'[u] \in Keys /\ u \in waiters'[wants'[u]]
        BY <2>1, <3>2 DEF OwnInv
    <3>6. \A u \in Txns : stage'[u] \in {"granted", "refresh"} => wants'[u] \in held'[u]
        BY <2>1, <3>1, <3>2 DEF OwnInv
    <3>7. \A u \in Txns : locked'[u] \subseteq held'[u]
        BY <2>1, <3>1, <3>2 DEF OwnInv
    <3>8. QED
        BY <2>1, <3>3, <3>4, <3>5, <3>6, <3>7 DEF OwnInv
  <2>3. CASE /\ stage[t] = "denied"
             /\ stage' = [stage EXCEPT ![t] = "running"]
             /\ wants' = [wants EXCEPT ![t] = NoKey]
             /\ UNCHANGED locked
    <3>1. /\ stage'[t] = "running"
          /\ \A u \in Txns : u # t => stage'[u] = stage[u] /\ wants'[u] = wants[u]
        BY Zenon, <2>3, <1>t
    <3>2. QED
        BY <2>1, <2>3, <3>1, <1>t DEF OwnInv, WaitersOlder
  <2>4. QED
      BY <1>5, <2>2, <2>3 DEF Wake
<1>c. ASSUME NEW t \in Txns,
             stage[t] \in {"running", "refresh", "finishing"},
             stage'[t] \in {"running", "finishing", "releasing"},
             \A u \in Txns : u # t => stage'[u] = stage[u] /\ wants'[u] = wants[u],
             \A u \in Txns : locked'[u] \subseteq held[u],
             UNCHANGED <<entries, owner, last_commit_seq, waiters, held>>
      PROVE OwnInv'
    BY ZenonT(60), <1>c, <1>t DEF OwnInv, WaitersOlder
<1>6. ASSUME NEW t \in Txns, NEW late \in BOOLEAN, AdoptSnapshot(t, late) PROVE OwnInv'
  <2>1. /\ stage[t] = "refresh" /\ stage'[t] = "running"
        /\ \A u \in Txns : u # t => stage'[u] = stage[u] /\ wants'[u] = wants[u]
        /\ UNCHANGED <<entries, owner, last_commit_seq, waiters, held>>
      BY <1>6, <1>t DEF AdoptSnapshot, table
  <2>2. /\ locked'[t] = locked[t] \cup {wants[t]}
        /\ \A u \in Txns : u # t => locked'[u] = locked[u]
      BY <1>6, <1>t DEF AdoptSnapshot
  <2>3. \A u \in Txns : locked'[u] \subseteq held[u]
      BY <2>1, <2>2 DEF OwnInv
  <2>4. QED
      BY ZenonT(60), <2>1, <2>3, <1>c
<1>7. ASSUME NEW t \in Txns, RefreshConflict(t) PROVE OwnInv'
  <2>1. /\ stage[t] = "refresh" /\ stage'[t] = "running"
        /\ \A u \in Txns : u # t => stage'[u] = stage[u] /\ wants'[u] = wants[u]
        /\ UNCHANGED <<entries, owner, last_commit_seq, waiters, held, locked>>
      BY <1>7, <1>t DEF RefreshConflict, table
  <2>2. QED
      BY <2>1, <1>c DEF OwnInv
<1>8. ASSUME NEW t \in Txns, Commit(t) \/ Release(t) \/ Rollback(t) PROVE OwnInv'
  <2>1. /\ stage[t] \in {"running", "finishing"} /\ stage'[t] \in {"finishing", "releasing"}
        /\ \A u \in Txns : u # t => stage'[u] = stage[u] /\ wants'[u] = wants[u]
        /\ UNCHANGED <<entries, owner, last_commit_seq, waiters, held, locked>>
      BY <1>8, <1>t DEF Commit, Release, Rollback, ReadWatermark, table, snap
  <2>2. QED
      BY Zenon, <2>1, <1>c DEF OwnInv
<1>r. ASSUME NEW t \in Txns, NEW k \in Keys, Reacquire(t, k) PROVE OwnInv'
  <2>1. /\ stage[t] = "running" /\ stage' = stage /\ wants' = wants /\ owner[k] = t
        /\ UNCHANGED <<entries, owner, last_commit_seq, waiters, held>>
      BY Zenon, <1>r DEF Reacquire, Acquire, table
  <2>2. k \in held[t]
      BY Zenon, <2>1, <1>0 DEF OwnInv
  <2>3. \A u \in Txns : locked'[u] = locked[u] \/ (u = t /\ locked'[u] = locked[u] \cup {k})
      BY <1>r, <1>t DEF Reacquire
  <2>4. \A u \in Txns : locked'[u] \subseteq held[u]
    <3>1. \A u \in Txns : locked[u] \subseteq held[u]
        BY Zenon DEF OwnInv
    <3>2. QED
        BY <2>2, <2>3, <3>1
  <2>5. stage'[t] = "running"
      BY Zenon, <2>1
  <2>6. QED
      BY ZenonT(60), <2>1, <2>4, <2>5, <1>c
<1>9. ASSUME NEW t \in Txns, ReleaseAll(t) PROVE OwnInv'
  <2>1. PICK next \in [Mine(t) -> Txns \cup {NO_OWNER}] :
          /\ Fronts(t, next)
          /\ owner' = [k \in Keys |-> IF k \in Mine(t) THEN next[k] ELSE owner[k]]
          /\ last_commit_seq' = [k \in Keys |-> IF k \in entries' THEN Stamped(t)[k] ELSE 0]
          /\ waiters' = [k \in Keys |-> waiters[k] \ Gone(t, next)]
          /\ held' = [u \in Txns |->
                        IF u = t THEN {} ELSE held[u] \cup {k \in Mine(t) : next[k] = u}]
          /\ stage'[t] = "done"
          /\ \A u \in Txns : u # t /\ u \notin Gone(t, next) => stage'[u] = stage[u]
          /\ \A u \in Gone(t, next) : u # t => stage'[u] =
                  IF \E k \in Mine(t) : next[k] = u THEN "granted" ELSE "denied"
      <3>1. PICK next \in [Mine(t) -> Txns \cup {NO_OWNER}] :
              /\ Fronts(t, next)
              /\ owner' = [k \in Keys |-> IF k \in Mine(t) THEN next[k] ELSE owner[k]]
              /\ last_commit_seq' = [k \in Keys |-> IF k \in entries' THEN Stamped(t)[k] ELSE 0]
              /\ waiters' = [k \in Keys |-> waiters[k] \ Gone(t, next)]
              /\ held' = [u \in Txns |->
                            IF u = t THEN {} ELSE held[u] \cup {k \in Mine(t) : next[k] = u}]
              /\ LET granted == {u \in Gone(t, next) : \E k \in Mine(t) : next[k] = u}
                 IN stage' = [u \in Txns |->
                             CASE u = t -> "done"
                               [] u # t /\ u \in granted -> "granted"
                               [] u # t /\ u \in Gone(t, next) \ granted -> "denied"
                               [] u # t /\ u \notin Gone(t, next) -> stage[u]]
          BY Zenon, <1>9 DEF ReleaseAll
      <3>2. Gone(t, next) \subseteq Txns
          BY DEF Gone
      <3>3. QED
          BY Zenon, <3>1, <3>2
  <2>2. /\ \A k \in Keys : k \in entries' => k \in entries
        /\ \A k \in entries : owner'[k] # NO_OWNER => k \in entries'
    <3> DEFINE Live(ks) == {k \in ks : owner'[k] # NO_OWNER \/ StampNeeded(t, k)}
               kept == (entries \ Mine(t)) \cup Live(Mine(t))
    <3>1. entries' = kept \/ entries' = Live(kept)
        BY ZenonT(60), <1>9 DEF ReleaseAll
    <3>2. Mine(t) \subseteq entries
        BY DEF Mine
    <3>3. QED
        BY <3>1, <3>2
  <2>3. /\ \A u \in Txns : locked'[u] \subseteq locked[u]
        /\ locked'[t] = {}
        /\ UNCHANGED <<wants>>
      BY <1>9, <1>t DEF ReleaseAll, Forget
  <2>4. \A u \in Txns : u \in Gone(t, next) <=> \E k \in Mine(t) : u \in waiters[k] /\ ~ u < next[k]
      BY DEF Gone
  <2>5. \A u \in Gone(t, next) : /\ u \in Txns /\ stage[u] = "queued" /\ u # t
                                 /\ wants[u] \in Mine(t) /\ u \in waiters[wants[u]]
                                 /\ ~ u < next[wants[u]]
      BY <1>9, <2>4, <1>t DEF OwnInv, ReleaseAll, Gone, Mine
  <2>6. \A k \in Mine(t) : next[k] # NO_OWNER => /\ next[k] \in waiters[k] /\ next[k] \in Txns
                                               /\ next[k] \in Gone(t, next)
                                               /\ wants[next[k]] = k
    <3>1. SUFFICES ASSUME NEW k \in Mine(t), next[k] # NO_OWNER
                   PROVE  /\ next[k] \in waiters[k] /\ next[k] \in Txns
                          /\ next[k] \in Gone(t, next)
                          /\ wants[next[k]] = k
        OBVIOUS
    <3>2. k \in Keys /\ next[k] \in Txns
      <4>1. k \in Keys
          BY Zenon, <1>t DEF Mine
      <4>2. next[k] \in Txns \cup {NO_OWNER}
          BY Zenon, <2>1
      <4>3. QED
          BY Zenon, <3>1, <4>1, <4>2
    <3>3. next[k] \in waiters[k]
        BY <2>1, <3>1 DEF Fronts
    <3>4. ~ next[k] < next[k]
      <4>1. next[k] \in Nat
          BY Zenon, <3>2, TxnLockAssumption
      <4>2. QED
          BY <4>1
    <3>5. QED
        BY Zenon, <2>4, <3>2, <3>3, <3>4 DEF OwnInv
  <2>7. \A k \in Keys : k \notin Mine(t) => waiters'[k] = waiters[k] /\ owner'[k] = owner[k]
    <3>1. SUFFICES ASSUME NEW k \in Keys, k \notin Mine(t)
                   PROVE  waiters'[k] = waiters[k] /\ owner'[k] = owner[k]
        BY Zenon
    <3>2. \A u \in waiters[k] : u \notin Gone(t, next)
        BY <2>5, <3>1 DEF OwnInv
    <3>3. QED
        BY Zenon, <2>1, <3>1, <3>2
  <2>8. \A k \in Mine(t) : \A u \in waiters'[k] : u < next[k] /\ next[k] # NO_OWNER
    <3>1. SUFFICES ASSUME NEW k \in Mine(t), NEW u \in waiters'[k]
                   PROVE  u < next[k] /\ next[k] # NO_OWNER
        BY Zenon
    <3>2. k \in Keys /\ u \in waiters[k] /\ u \in Txns /\ u \notin Gone(t, next)
        BY <2>1, <3>1, <1>t DEF Mine
    <3>3. u < next[k]
        BY Zenon, <2>4, <3>2
    <3>4. next[k] # NO_OWNER
      <4>1. u \in Nat
          BY Zenon, <3>2, TxnLockAssumption
      <4>2. QED
          BY <4>1, <3>3 DEF NO_OWNER
    <3>5. QED
        BY <3>3, <3>4
  <2>9. WaitersOlder'
      BY Zenon, <2>1, <2>7, <2>8 DEF WaitersOlder, OwnInv, Mine
  <2>10. \A k \in Keys : owner'[k] # NO_OWNER => k \in entries' /\ k \in held'[owner'[k]]
    <3>1. SUFFICES ASSUME NEW k \in Keys, owner'[k] # NO_OWNER
                   PROVE  k \in entries' /\ k \in held'[owner'[k]]
        BY Zenon
    <3>2. CASE k \in Mine(t)
      <4>1. owner'[k] = next[k] /\ next[k] \in Txns /\ next[k] # t
          BY <2>1, <2>5, <2>6, <3>1, <3>2
      <4>2. QED
          BY Zenon, <2>1, <2>2, <3>1, <3>2, <4>1 DEF Mine
    <3>3. CASE k \notin Mine(t)
      <4>1. owner'[k] = owner[k] /\ owner[k] \in Txns
          BY <2>7, <3>1, <3>3, <1>t
      <4>2. owner[k] # t
        <5>1. k \in held[owner[k]]
            BY <3>1, <4>1, <1>0 DEF OwnInv
        <5>2. QED
            BY Zenon, <5>1, <3>3, <1>0
      <4>3. QED
          BY Zenon, <2>1, <2>2, <3>1, <4>1, <4>2 DEF OwnInv
    <3>4. QED
        BY <3>2, <3>3
  <2>11. \A u \in Txns : \A k \in held'[u] : k \in entries' /\ owner'[k] = u
    <3>1. SUFFICES ASSUME NEW u \in Txns, NEW k \in held'[u]
                   PROVE  k \in entries' /\ owner'[k] = u
        BY Zenon
    <3>2. u # t
        BY <2>1, <3>1
    <3>3. CASE k \in Mine(t)
      <4>1. next[k] = u
          BY Zenon, <2>1, <3>1, <3>2, <3>3, <1>0 DEF OwnInv, Mine
      <4>2. QED
          BY Zenon, <2>1, <2>2, <3>3, <4>1, <1>0, <1>t DEF Mine
    <3>4. CASE k \notin Mine(t)
      <4>1. k \in held[u] /\ k \in Keys /\ k \in entries /\ owner[k] = u
          BY Zenon, <2>1, <3>1, <3>2, <3>4, <1>t DEF OwnInv
      <4>2. QED
          BY Zenon, <2>2, <2>7, <3>4, <4>1, <1>0
    <3>5. QED
        BY <3>3, <3>4
  <2>12. \A k \in Keys : k \notin entries' => last_commit_seq'[k] = 0
      BY <2>1
  <2>13. \A k \in Keys : \A u \in waiters'[k] : stage'[u] = "queued" /\ wants'[u] = k
      BY <1>9, <2>1, <2>3, <1>t DEF OwnInv, ReleaseAll
  <2>14. \A u \in Txns : stage'[u] = "queued" => wants'[u] \in Keys /\ u \in waiters'[wants'[u]]
      BY Zenon, <2>1, <2>3 DEF OwnInv
  <2>15. \A u \in Txns : stage'[u] \in {"granted", "refresh"} => wants'[u] \in held'[u]
    <3>1. SUFFICES ASSUME NEW u \in Txns, stage'[u] \in {"granted", "refresh"}
                   PROVE  wants[u] \in held'[u]
        BY Zenon, <2>3
    <3>2. u # t
        BY Zenon, <2>1, <3>1
    <3>3. CASE u \in Gone(t, next)
      <4>1. PICK k \in Mine(t) : next[k] = u
          BY Zenon, <2>1, <3>1, <3>2, <3>3
      <4>2. wants[u] = k
          BY Zenon, <4>1, <2>6, <1>0
      <4>3. QED
          BY Zenon, <2>1, <3>2, <4>1, <4>2
    <3>4. CASE u \notin Gone(t, next)
        BY Zenon, <2>1, <3>1, <3>2, <3>4 DEF OwnInv
    <3>5. QED
        BY <3>3, <3>4
  <2>16. \A u \in Txns : locked'[u] \subseteq held'[u]
      BY Zenon, <2>1, <2>3 DEF OwnInv
  <2>17. QED
      BY <2>9, <2>10, <2>11, <2>12, <2>13, <2>14, <2>15, <2>16 DEF OwnInv
<1>10. ASSUME NEW t \in Txns, Prepare(t) PROVE OwnInv'
  <2> DEFINE gone == UNION {waiters[k] : k \in Mine(t)}
  <2>1. /\ stage[t] = "running"
        /\ entries' = entries \ Mine(t)
        /\ owner' = [k \in Keys |-> IF k \in Mine(t) THEN NO_OWNER ELSE owner[k]]
        /\ last_commit_seq' = [k \in Keys |-> IF k \in Mine(t) THEN 0 ELSE last_commit_seq[k]]
        /\ waiters' = [k \in Keys |-> IF k \in Mine(t) THEN {} ELSE waiters[k]]
        /\ held' = [held EXCEPT ![t] = {}]
        /\ UNCHANGED <<wants>>
      BY <1>10 DEF Prepare
  <2>2. /\ stage'[t] = "done"
        /\ \A u \in Txns : u # t /\ u \in gone => stage'[u] = "denied"
        /\ \A u \in Txns : u # t /\ u \notin gone => stage'[u] = stage[u]
    <3>1. stage' = [u \in Txns |-> CASE u = t -> "done"
                                      [] u \in gone -> "denied"
                                      [] OTHER -> stage[u]]
        BY Zenon, <1>10 DEF Prepare
    <3>2. t \notin gone
      <4>1. SUFFICES ASSUME NEW k \in Mine(t), t \in waiters[k] PROVE FALSE
          OBVIOUS
      <4>2. k \in Keys
          BY <1>t DEF Mine
      <4>3. stage[t] = "queued"
          BY <4>1, <4>2 DEF OwnInv
      <4>4. QED
          BY Zenon, <4>3, <2>1
    <3> HIDE DEF gone
    <3>3. QED
        BY <3>1, <3>2
  <2>3. /\ \A u \in Txns : locked'[u] \subseteq locked[u]
        /\ locked'[t] = {}
      BY <1>10, <1>t DEF Prepare, Forget
  <2>4. \A u \in gone : u \in Txns /\ u # t /\ stage[u] = "queued" /\ wants[u] \in Mine(t)
    <3>1. SUFFICES ASSUME NEW k \in Mine(t), NEW u \in waiters[k]
                   PROVE  u \in Txns /\ u # t /\ stage[u] = "queued" /\ wants[u] = k
        OBVIOUS
    <3>2. k \in Keys
        BY <1>t DEF Mine
    <3>3. QED
        BY <2>1, <3>1, <3>2, <1>t DEF OwnInv
  <2>5. /\ held'[t] = {}
        /\ \A u \in Txns : u # t => held'[u] = held[u] /\ held[u] \cap Mine(t) = {}
      BY <2>1, <1>t DEF OwnInv, Mine
  <2>6. \A k \in Keys : owner'[k] # NO_OWNER => k \in entries' /\ k \in held'[owner'[k]]
      BY <2>1, <2>5, <1>0, <1>t DEF OwnInv
  <2>7. \A u \in Txns : \A k \in held'[u] : k \in entries' /\ owner'[k] = u
      BY <2>1, <2>5, <1>t DEF OwnInv
  <2>8. WaitersOlder'
      BY <2>1 DEF OwnInv, WaitersOlder
  <2>9. \A k \in Keys : \A u \in waiters'[k] : stage'[u] = "queued" /\ wants'[u] = k
    <3>1. SUFFICES ASSUME NEW k \in Keys, NEW u \in waiters'[k]
                   PROVE  stage'[u] = "queued" /\ wants[u] = k
        BY <2>1
    <3>2. k \notin Mine(t) /\ u \in waiters[k] /\ u \in Txns
        BY <2>1, <3>1, <1>t
    <3>3. stage[u] = "queued" /\ wants[u] = k
        BY Zenon, <3>2 DEF OwnInv
    <3>4. u \notin gone /\ u # t
        BY Zenon, <2>1, <2>4, <3>2, <3>3
    <3>5. QED
        BY Zenon, <2>2, <3>2, <3>3, <3>4
  <2>10. \A u \in Txns : stage'[u] = "queued" => wants'[u] \in Keys /\ u \in waiters'[wants'[u]]
    <3>1. SUFFICES ASSUME NEW u \in Txns, stage'[u] = "queued"
                   PROVE  wants[u] \in Keys /\ u \in waiters'[wants[u]]
        BY ZenonT(60), <2>1
    <3>2. u # t /\ u \notin gone /\ stage[u] = "queued"
        BY <2>2, <3>1
    <3>3. wants[u] \in Keys /\ u \in waiters[wants[u]]
        BY <3>2 DEF OwnInv
    <3>4. wants[u] \notin Mine(t)
        BY Zenon, <3>2, <3>3
    <3>5. QED
        BY <2>1, <3>3, <3>4
  <2>11. QED
      BY <2>1, <2>2, <2>3, <2>5, <2>6, <2>7, <2>8, <2>9, <2>10 DEF OwnInv
<1>11. CASE FailStop \/ ShutDown
  <2>1. /\ waiters' = [k \in Keys |-> {}]
        /\ stage' = [u \in Txns |-> IF u \in Queued THEN "denied" ELSE stage[u]]
        /\ UNCHANGED <<entries, owner, last_commit_seq, held, wants, locked>>
      BY <1>11 DEF FailStop, ShutDown, WakeEveryWaiter, txn, snap
  <2>2. ASSUME NEW u \in Txns, stage[u] = "queued" PROVE u \in Queued
    <3>1. wants[u] \in Keys /\ u \in waiters[wants[u]]
        BY Zenon, <2>2 DEF OwnInv
    <3>2. QED
        BY <3>1 DEF Queued
  <2>3. QED
      BY <2>1, <2>2 DEF OwnInv, WaitersOlder
<1>12. CASE Publish \/ UNCHANGED vars
    BY <1>12 DEF Publish, vars, table, txn, snap, OwnInv, WaitersOlder
<1>13. ASSUME NEW t \in Txns, CommitPrepared(t) \/ AbortPrepared(t) PROVE OwnInv'
  <2>1. UNCHANGED <<entries, owner, last_commit_seq, waiters, held, stage, wants, locked>>
      BY Zenon, <1>13 DEF CommitPrepared, AbortPrepared, table, txn, snap
  <2>2. QED
      BY Zenon, <2>1 DEF OwnInv, WaitersOlder
<1>14. QED
    BY Zenon, <1>r, <1>13, <1>1, <1>2, <1>3, <1>4, <1>5, <1>6, <1>7, <1>8, <1>9, <1>10, <1>11, <1>12
       DEF Next, Step, Finish, Refresh, RefreshExpired

(* Once the table is shut down nobody queues.                               *)
LEMMA ShutStep == TypeOK /\ ShutInv /\ [Next]_vars => ShutInv'
<1> SUFFICES ASSUME TypeOK, ShutInv, [Next]_vars, shutdown' PROVE \A k \in Keys : waiters'[k] = {}
    BY DEF ShutInv
<1>1. ASSUME NEW t \in Txns, NEW k \in Keys, AcquireQueue(t, k) PROVE FALSE
    BY <1>1, Zenon DEF AcquireQueue, Acquire
<1>2. CASE waiters' = [k \in Keys |-> {}]
    BY <1>2
<1>3. ASSUME \A k \in Keys : waiters'[k] \subseteq waiters[k], UNCHANGED shutdown
      PROVE \A k \in Keys : waiters'[k] = {}
    BY <1>3, Zenon DEF ShutInv
<1>4. ASSUME NEW t \in Txns, Prepare(t) PROVE \A k \in Keys : waiters'[k] = {}
  <2>1. \A k \in Keys : waiters'[k] \subseteq waiters[k]
      BY <1>4 DEF Prepare
  <2>2. UNCHANGED shutdown
      BY Zenon, <1>4 DEF Prepare
  <2>3. QED
      BY Zenon, <2>1, <2>2, <1>3
<1>5. ASSUME NEW t \in Txns, ReleaseAll(t) PROVE \A k \in Keys : waiters'[k] = {}
  <2>1. \A k \in Keys : waiters'[k] \subseteq waiters[k]
      BY <1>5 DEF ReleaseAll
  <2>2. UNCHANGED shutdown
      BY Zenon, <1>5 DEF ReleaseAll
  <2>3. QED
      BY Zenon, <2>1, <2>2, <1>3
<1>6. CASE UNCHANGED <<shutdown, waiters>>
    BY Zenon, <1>3, <1>6
<1>7. CASE \/ \E t \in Txns : Begin(t)
           \/ \E t \in Txns, k \in Keys : AcquireFresh(t, k) \/ AcquireTakeover(t, k) \/ Reacquire(t, k)
           \/ \E t \in Txns : \/ Wake(t) \/ Refresh(t) \/ RefreshExpired(t) \/ RefreshConflict(t)
                              \/ Release(t) \/ Commit(t) \/ Rollback(t)
                              \/ CommitPrepared(t) \/ AbortPrepared(t)
           \/ Publish
           \/ UNCHANGED vars
  <2>1. UNCHANGED <<shutdown, waiters>>
      BY Zenon, <1>7 DEF Begin, AcquireFresh, AcquireTakeover, Acquire, Wake, Refresh, RefreshExpired,
         AdoptSnapshot, RefreshConflict, Release, Rollback, ReadWatermark, Commit, Publish,
         Reacquire, CommitPrepared, AbortPrepared, vars, table
  <2>2. QED
      BY Zenon, <2>1, <1>6
<1>8. CASE FailStop \/ ShutDown
    BY Zenon, <1>2, <1>8 DEF FailStop, ShutDown, WakeEveryWaiter
<1>9. QED
    BY <1>1, <1>4, <1>5, <1>7, <1>8, Zenon DEF Next, Step, Finish

(* Every key a transaction holds is one it asked for and, short of a failed *)
(* refresh, was told it has.                                                *)
LEMMA LockStep == TypeOK /\ OwnInv /\ LockInv /\ [Next]_vars => LockInv'
<1> SUFFICES ASSUME TypeOK, OwnInv, LockInv, [Next]_vars PROVE LockInv'
    OBVIOUS
<1> USE Constants
<1> DEFINE Told(u) == u \notin doomed =>
               /\ stage[u] \in Quiet => held[u] \subseteq locked[u]
               /\ stage[u] \in {"granted", "refresh"} => held[u] \subseteq locked[u] \cup {wants[u]}
<1>t. /\ held \in [Txns -> SUBSET Keys]
      /\ stage \in [Txns -> Stages]
      /\ wants \in [Txns -> Keys \cup {NoKey}]
      /\ locked \in [Txns -> SUBSET Keys]
    BY DEF TypeOK
<1>0. \A u \in Txns : Told(u)
    BY Zenon DEF LockInv
<1>1. SUFFICES \A u \in Txns : Told(u)'
    BY Zenon DEF LockInv
<1>2. ASSUME NEW u \in Txns, u \notin doomed' => u \notin doomed,
             held'[u] = held[u], locked'[u] = locked[u],
             \/ stage'[u] = stage[u] /\ wants'[u] = wants[u]
             \/ stage[u] \in Quiet /\ stage'[u] \in Quiet
             \/ stage'[u] \notin Quiet \cup {"granted", "refresh"}
      PROVE Told(u)'
    BY ZenonT(60), <1>0, <1>2 DEF Quiet
<1> HIDE DEF Told
<1>3. ASSUME NEW t \in Txns, NEW k \in Keys, NEW seq, GrantReturned(t, k, seq),
             held[t] \subseteq locked[t] \cup {k} \/ t \in doomed, doomed' = doomed,
             held'[t] = held[t] \/ held'[t] = held[t] \cup {k},
             \A u \in Txns : u # t => held'[u] = held[u]
      PROVE \A u \in Txns : Told(u)'
  <2>1. CASE t \in Refreshing
    <3>1. /\ stage'[t] = "refresh" /\ wants'[t] = k /\ locked' = locked
          /\ \A u \in Txns : u # t => stage'[u] = stage[u] /\ wants'[u] = wants[u]
        BY <1>3, <2>1, <1>t DEF GrantReturned
    <3>2. t \notin doomed' => held'[t] \subseteq locked'[t] \cup {wants'[t]}
        BY <1>3, <3>1
    <3>3. Told(t)'
        BY Zenon, <3>1, <3>2 DEF Told, Quiet
    <3>4. QED
        BY Zenon, <1>2, <1>3, <3>1, <3>3
  <2>2. CASE t \notin Refreshing
    <3>1. /\ stage'[t] = "running" /\ locked'[t] = locked[t] \cup {k}
          /\ \A u \in Txns : u # t => stage'[u] = stage[u] /\ wants'[u] = wants[u] /\ locked'[u] = locked[u]
        BY <1>3, <2>2, <1>t DEF GrantReturned
    <3>2. t \notin doomed' => held'[t] \subseteq locked'[t]
        BY <1>3, <3>1
    <3>3. Told(t)'
        BY Zenon, <3>1, <3>2 DEF Told
    <3>4. QED
        BY Zenon, <1>2, <1>3, <3>1, <3>3
  <2>3. QED
      BY Zenon, <2>1, <2>2
<1>4. ASSUME NEW t \in Txns, Begin(t) PROVE \A u \in Txns : Told(u)'
  <2>1. /\ stage[t] = "new" /\ stage'[t] = "running"
        /\ \A u \in Txns : u # t => stage'[u] = stage[u]
        /\ UNCHANGED <<held, wants, locked, doomed>>
      BY <1>4, <1>t DEF Begin, table
  <2>2. QED
      BY Zenon, <1>2, <2>1 DEF Quiet
<1>5. ASSUME NEW t \in Txns, NEW k \in Keys, AcquireFresh(t, k) \/ AcquireTakeover(t, k)
      PROVE \A u \in Txns : Told(u)'
  <2>1. /\ stage[t] = "running" /\ doomed' = doomed
        /\ held' = [held EXCEPT ![t] = @ \cup {k}]
        /\ \E seq : GrantReturned(t, k, seq)
      BY Zenon, <1>5 DEF AcquireFresh, AcquireTakeover, Acquire
  <2>2. held'[t] = held[t] \cup {k} /\ \A u \in Txns : u # t => held'[u] = held[u]
      BY <2>1, <1>t
  <2>3. t \notin doomed => held[t] \subseteq locked[t]
      BY Zenon, <1>0, <2>1 DEF Told, Quiet
  <2>4. held[t] \subseteq locked[t] \cup {k} \/ t \in doomed
      BY <2>3
  <2>5. QED
      BY Zenon, <1>3, <2>1, <2>2, <2>4
<1>6. ASSUME NEW t \in Txns, NEW k \in Keys, Reacquire(t, k) PROVE \A u \in Txns : Told(u)'
  <2>1. /\ stage[t] = "running"
        /\ UNCHANGED <<held, stage, wants, doomed>>
      BY Zenon, <1>6 DEF Reacquire, Acquire, table
  <2>2. locked'[t] = locked[t] \cup {k} /\ \A u \in Txns : u # t => locked'[u] = locked[u]
      BY <1>6, <1>t DEF Reacquire
  <2>3. t \notin doomed => held[t] \subseteq locked[t]
      BY Zenon, <1>0, <2>1 DEF Told, Quiet
  <2>4. t \notin doomed' => held'[t] \subseteq locked'[t]
      BY <2>1, <2>2, <2>3
  <2>5. Told(t)'
      BY Zenon, <2>1, <2>4 DEF Told
  <2>6. QED
      BY Zenon, <1>2, <2>1, <2>2, <2>5
<1>7. ASSUME NEW t \in Txns, NEW k \in Keys, AcquireQueue(t, k) PROVE \A u \in Txns : Told(u)'
  <2>1. /\ stage[t] = "running" /\ stage'[t] = "queued"
        /\ \A u \in Txns : u # t => stage'[u] = stage[u] /\ wants'[u] = wants[u]
        /\ UNCHANGED <<held, locked, doomed>>
      BY <1>7, <1>t DEF AcquireQueue, Acquire
  <2>2. QED
      BY Zenon, <1>2, <2>1 DEF Quiet
<1>8. ASSUME NEW t \in Txns, Wake(t) PROVE \A u \in Txns : Told(u)'
  <2>1. UNCHANGED <<held, doomed>>
      BY Zenon, <1>8 DEF Wake, table
  <2>2. CASE stage[t] = "granted" /\ GrantReturned(t, wants[t], last_commit_seq[wants[t]])
    <3>1. wants[t] \in held[t] /\ wants[t] \in Keys
        BY <2>2, <1>t DEF OwnInv
    <3>2. held[t] \subseteq locked[t] \cup {wants[t]} \/ t \in doomed
        BY Zenon, <1>0, <2>2 DEF Told
    <3>3. QED
        BY Zenon, <1>3, <2>1, <2>2, <3>1, <3>2
  <2>3. CASE /\ stage[t] = "denied"
             /\ stage' = [stage EXCEPT ![t] = "running"]
             /\ wants' = [wants EXCEPT ![t] = NoKey]
             /\ UNCHANGED <<stamp, locked>>
    <3>1. /\ stage'[t] = "running"
          /\ \A u \in Txns : u # t => stage'[u] = stage[u] /\ wants'[u] = wants[u]
        BY <2>3, <1>t
    <3>2. QED
        BY Zenon, <1>2, <2>1, <2>3, <3>1 DEF Quiet
  <2>4. QED
      BY Zenon, <1>8, <2>2, <2>3 DEF Wake
<1>9. ASSUME NEW t \in Txns, NEW late \in BOOLEAN, AdoptSnapshot(t, late) PROVE \A u \in Txns : Told(u)'
  <2>1. /\ stage[t] = "refresh" /\ stage'[t] = "running"
        /\ \A u \in Txns : u # t => stage'[u] = stage[u] /\ wants'[u] = wants[u] /\ locked'[u] = locked[u]
        /\ locked'[t] = locked[t] \cup {wants[t]}
        /\ UNCHANGED <<held, doomed>>
      BY <1>9, <1>t DEF AdoptSnapshot, table
  <2>2. t \notin doomed => held[t] \subseteq locked[t] \cup {wants[t]}
      BY Zenon, <1>0, <2>1 DEF Told
  <2>3. Told(t)'
      BY Zenon, <2>1, <2>2 DEF Told
  <2>4. QED
      BY Zenon, <1>2, <2>1, <2>3
<1>10. ASSUME NEW t \in Txns, RefreshConflict(t) PROVE \A u \in Txns : Told(u)'
  <2>1. /\ t \in doomed' /\ \A u \in Txns : u \notin doomed' => u \notin doomed
        /\ \A u \in Txns : u # t => stage'[u] = stage[u] /\ wants'[u] = wants[u]
        /\ UNCHANGED <<held, locked>>
      BY <1>10, <1>t DEF RefreshConflict, table
  <2>2. Told(t)'
      BY Zenon, <2>1 DEF Told
  <2>3. QED
      BY Zenon, <1>2, <2>1, <2>2
<1>11. ASSUME NEW t \in Txns, Commit(t) \/ Release(t) \/ Rollback(t) PROVE \A u \in Txns : Told(u)'
  <2>1. /\ stage'[t] \in {"finishing", "releasing"}
        /\ \A u \in Txns : u # t => stage'[u] = stage[u]
        /\ UNCHANGED <<held, wants, locked, doomed>>
      BY <1>11, <1>t DEF Commit, Release, Rollback, ReadWatermark, table, snap
  <2>2. QED
      BY Zenon, <1>2, <2>1 DEF Quiet
<1>12. ASSUME NEW t \in Txns, ReleaseAll(t) PROVE \A u \in Txns : Told(u)'
  <2>1. PICK next \in [Mine(t) -> Txns \cup {NO_OWNER}] :
          /\ Fronts(t, next)
          /\ held' = [u \in Txns |->
                        IF u = t THEN {} ELSE held[u] \cup {k \in Mine(t) : next[k] = u}]
          /\ stage'[t] = "done"
          /\ \A u \in Txns : u # t /\ u \notin Gone(t, next) => stage'[u] = stage[u]
          /\ \A u \in Gone(t, next) : u # t => stage'[u] =
                  IF \E k \in Mine(t) : next[k] = u THEN "granted" ELSE "denied"
      <3>1. PICK next \in [Mine(t) -> Txns \cup {NO_OWNER}] :
              /\ Fronts(t, next)
              /\ held' = [u \in Txns |->
                            IF u = t THEN {} ELSE held[u] \cup {k \in Mine(t) : next[k] = u}]
              /\ LET granted == {u \in Gone(t, next) : \E k \in Mine(t) : next[k] = u}
                 IN stage' = [u \in Txns |->
                             CASE u = t -> "done"
                               [] u # t /\ u \in granted -> "granted"
                               [] u # t /\ u \in Gone(t, next) \ granted -> "denied"
                               [] u # t /\ u \notin Gone(t, next) -> stage[u]]
          BY Zenon, <1>12 DEF ReleaseAll
      <3>2. Gone(t, next) \subseteq Txns
          BY DEF Gone
      <3>3. QED
          BY Zenon, <3>1, <3>2
  <2>2. /\ UNCHANGED wants
        /\ \A u \in Txns : u # t => locked'[u] = locked[u] /\ (u \notin doomed' => u \notin doomed)
      BY <1>12, <1>t DEF ReleaseAll, Forget
  <2>3. Told(t)'
      BY Zenon, <2>1 DEF Told, Quiet
  <2>4. ASSUME NEW u \in Txns, u # t PROVE Told(u)'
    <3>1. \A k \in Mine(t) : next[k] = u => u \in waiters[k] /\ stage[u] = "queued" /\ wants[u] = k
                                           /\ u \in Gone(t, next)
      <4>1. SUFFICES ASSUME NEW k \in Mine(t), next[k] = u
                     PROVE u \in waiters[k] /\ stage[u] = "queued" /\ wants[u] = k /\ u \in Gone(t, next)
          BY Zenon
      <4>2. k \in Keys
          BY Zenon, <1>t DEF Mine
      <4>3. u # NO_OWNER /\ ~ u < u
          BY TxnLockAssumption DEF NO_OWNER
      <4>4. u \in waiters[k]
          BY Zenon, <2>1, <4>1, <4>3 DEF Fronts
      <4>5. QED
          BY Zenon, <4>1, <4>2, <4>3, <4>4 DEF OwnInv, Gone
    <3>2. held'[u] = held[u] \cup {k \in Mine(t) : next[k] = u}
        BY Zenon, <2>1, <2>4
    <3>3. CASE \E k \in Mine(t) : next[k] = u
      <4>1. stage[u] = "queued" /\ stage'[u] = "granted"
          BY Zenon, <2>1, <2>4, <3>1, <3>3
      <4>2. held'[u] \subseteq held[u] \cup {wants[u]}
          BY <3>1, <3>2
      <4>3. u \notin doomed' => held[u] \subseteq locked[u]
          BY Zenon, <1>0, <2>2, <2>4, <4>1 DEF Told, Quiet
      <4>4. u \notin doomed' => held'[u] \subseteq locked'[u] \cup {wants'[u]}
          BY <2>2, <2>4, <4>2, <4>3
      <4>5. QED
          BY Zenon, <4>1, <4>4 DEF Told, Quiet
    <3>4. CASE ~ \E k \in Mine(t) : next[k] = u
      <4>1. held'[u] = held[u]
          BY <3>2, <3>4
      <4>2. u \in Gone(t, next) => stage[u] = "queued" /\ stage'[u] = "denied"
        <5>1. ASSUME u \in Gone(t, next) PROVE stage[u] = "queued"
            BY <5>1, <1>t DEF Gone, Mine, OwnInv
        <5>2. QED
            BY Zenon, <2>1, <2>4, <3>4, <5>1
      <4>3. u \notin Gone(t, next) => stage'[u] = stage[u]
          BY Zenon, <2>1, <2>4
      <4>4. QED
          BY Zenon, <1>2, <2>2, <2>4, <4>1, <4>2, <4>3 DEF Quiet
    <3>5. QED
        BY Zenon, <3>3, <3>4
  <2>5. QED
      BY Zenon, <2>3, <2>4
<1>13. ASSUME NEW t \in Txns, Prepare(t) PROVE \A u \in Txns : Told(u)'
  <2>1. /\ stage[t] = "running"
        /\ UNCHANGED wants
        /\ \A u \in Txns : u # t => held'[u] = held[u] /\ locked'[u] = locked[u]
                                     /\ (u \notin doomed' => u \notin doomed)
      BY <1>13, <1>t DEF Prepare, Forget
  <2>2. /\ stage'[t] = "done"
        /\ \A u \in Txns : u # t => stage'[u] = stage[u] \/ (stage[u] = "queued" /\ stage'[u] = "denied")
    <3> DEFINE gone == UNION {waiters[k] : k \in Mine(t)}
    <3>1. stage' = [u \in Txns |-> CASE u = t -> "done"
                                      [] u \in gone -> "denied"
                                      [] OTHER -> stage[u]]
        BY Zenon, <1>13 DEF Prepare
    <3>2. \A u \in gone : stage[u] = "queued"
      <4>1. SUFFICES ASSUME NEW k \in Mine(t), NEW u \in waiters[k] PROVE stage[u] = "queued"
          BY Zenon
      <4>2. k \in Keys
          BY Zenon, <1>t DEF Mine
      <4>3. QED
          BY Zenon, <4>1, <4>2 DEF OwnInv
    <3>3. t \notin gone
        BY <2>1, <3>2
    <3> HIDE DEF gone
    <3>4. QED
        BY <3>1, <3>2, <3>3
  <2>3. Told(t)'
      BY Zenon, <2>2 DEF Told, Quiet
  <2>4. QED
      BY Zenon, <1>2, <2>1, <2>2, <2>3 DEF Quiet
<1>14. CASE FailStop \/ ShutDown
  <2>1. /\ stage' = [u \in Txns |-> IF u \in Queued THEN "denied" ELSE stage[u]]
        /\ UNCHANGED <<held, wants, locked, doomed>>
      BY Zenon, <1>14 DEF FailStop, ShutDown, WakeEveryWaiter, txn, snap
  <2>2. \A u \in Queued : stage[u] = "queued"
    <3>1. SUFFICES ASSUME NEW k \in Keys, NEW u \in waiters[k] PROVE stage[u] = "queued"
        BY DEF Queued
    <3>2. QED
        BY Zenon DEF OwnInv
  <2>3. \A u \in Txns : stage'[u] = stage[u] \/ (stage[u] = "queued" /\ stage'[u] = "denied")
    <3> HIDE DEF Queued
    <3> QED
        BY <2>1, <2>2
  <2>4. QED
      BY Zenon, <1>2, <2>1, <2>3 DEF Quiet
<1>15. CASE \/ Publish \/ UNCHANGED vars
            \/ \E t \in Txns : CommitPrepared(t) \/ AbortPrepared(t)
  <2>1. UNCHANGED <<held, stage, wants, locked, doomed>>
      BY Zenon, <1>15 DEF Publish, CommitPrepared, AbortPrepared, vars, table, txn, snap
  <2>2. QED
      BY Zenon, <1>2, <2>1
<1>16. QED
    BY Zenon, <1>4, <1>5, <1>6, <1>7, <1>8, <1>9, <1>10, <1>11, <1>12, <1>13, <1>14, <1>15
       DEF Next, Step, Finish, Refresh, RefreshExpired

(* A lock owner's commit stays remembered until it is visible, and no grant *)
(* is adopted at a snapshot below it.                                       *)
LEMMA SeqStep == TypeOK /\ OwnInv /\ LockInv /\ SeqInv /\ [Next]_vars => SeqInv'
<1> SUFFICES ASSUME TypeOK, OwnInv, LockInv, SeqInv, [Next]_vars PROVE SeqInv'
    OBVIOUS
<1> USE Constants
<1>t. /\ owner \in [Keys -> Txns \cup {NO_OWNER}]
      /\ held \in [Txns -> SUBSET Keys]
      /\ stage \in [Txns -> Stages]
      /\ wants \in [Txns -> Keys \cup {NoKey}]
      /\ locked \in [Txns -> SUBSET Keys]
      /\ last_commit_seq \in [Keys -> Nat]
      /\ stamp \in [Txns -> Nat]
      /\ read_seq \in [Txns -> Nat]
      /\ committed_at \in [Txns -> Nat]
      /\ seen \in [Txns -> Nat]
      /\ visible \in Nat
      /\ last_seq \in Nat
      /\ last_write \in [Keys -> Nat]
      /\ owed \in [Keys -> Nat]
  <2>1. last_write \in [Keys -> Nat]
      BY DEF TypeOK, Seqs
  <2>2. owed \in [Keys -> Nat]
      BY <2>1 DEF owed
  <2>3. QED
      BY <2>1, <2>2 DEF TypeOK, Seqs
<1>o. ASSUME UNCHANGED store PROVE UNCHANGED <<last_seq, last_write, owed>>
    BY <1>o DEF store, owed
<1>0. /\ \A t \in Txns : t # NO_OWNER
      /\ \A k \in Keys : owner[k] # NO_OWNER => owner[k] \in Txns /\ k \in held[owner[k]]
      /\ \A t \in Txns : \A k \in held[t] : k \in Keys /\ k \in entries /\ owner[k] = t
      /\ \A t \in Txns : locked[t] \subseteq held[t]
      /\ \A t \in Txns : stage[t] \in {"granted", "refresh"} => wants[t] \in held[t]
    BY <1>t DEF NO_OWNER, OwnInv
(* A transaction that is not finishing is not what remembers a commit.      *)
<1>1. ASSUME NEW t \in Txns, NEW k \in held[t], stage[t] \notin {"finishing", "releasing"}
      PROVE owed[k] <= visible \/ owed[k] <= last_commit_seq[k]
    BY <1>1, <1>0 DEF SeqInv, Remembered
<1>2. ASSUME NEW k \in Keys, owner[k] = NO_OWNER
      PROVE owed[k] <= visible \/ owed[k] <= last_commit_seq[k]
    BY Zenon, <1>2 DEF SeqInv, Remembered
(* Steps of t that change no sequence and keep t alive.                     *)
<1>3. ASSUME NEW t \in Txns, stage[t] \in Alive \cup {"new"}, stage'[t] \in Alive,
             \A u \in Txns : u # t => stage'[u] = stage[u] /\ wants'[u] = wants[u] /\ stamp'[u] = stamp[u]
                                      /\ locked'[u] = locked[u] /\ read_seq'[u] = read_seq[u],
             \A u \in Txns : u # t => expired'[u] = expired[u] /\ (u \notin doomed' => u \notin doomed),
             \A k \in Keys : owner'[k] = owner[k] \/ (owner[k] = NO_OWNER /\ owner'[k] = t),
             UNCHANGED <<last_commit_seq, committed_at, seen, visible, last_seq, last_write, owed>>,
             t \in Refreshing => StampCovers(t)' /\ ReadsCover(t)'
      PROVE SeqInv'
  <2>1. \A k \in Keys : Remembered(k)'
    <3>1. SUFFICES ASSUME NEW k \in Keys PROVE Remembered(k)'
        OBVIOUS
    <3>2. CASE owed[k] <= visible \/ owed[k] <= last_commit_seq[k]
        BY Zenon, <1>3, <3>2 DEF Remembered
    <3>3. CASE /\ owner[k] # NO_OWNER
               /\ stage[owner[k]] \in {"finishing", "releasing"}
               /\ owed[k] <= committed_at[owner[k]]
      <4>1. owner[k] # t /\ owner'[k] = owner[k]
          BY <1>3, <3>3, <1>0 DEF Alive
      <4>2. stage'[owner[k]] = stage[owner[k]] /\ committed_at' = committed_at /\ owed' = owed
          BY Zenon, <1>3, <3>3, <4>1, <1>0
      <4>3. QED
          BY ZenonT(60), <3>3, <4>1, <4>2 DEF Remembered
    <3>4. QED
        BY Zenon, <3>2, <3>3 DEF SeqInv, Remembered
  <2>2. \A u \in Refreshing : StampCovers(u)'
      BY Zenon, <1>3 DEF SeqInv, StampCovers
  <2>3. \A u \in Refreshing : ReadsCover(u)'
      BY ZenonT(60), <1>3 DEF SeqInv, ReadsCover
  <2>4. \A u \in Txns : stage'[u] = "new" => locked'[u] = {}
      BY Zenon, <1>3 DEF SeqInv, Alive
  <2>5. QED
      BY ZenonT(60), <1>3, <2>1, <2>2, <2>3, <2>4 DEF SeqInv
<1>4. ASSUME NEW t \in Txns, Begin(t) PROVE SeqInv'
  <2>1. /\ stage[t] = "new" /\ stage'[t] = "running"
        /\ \A u \in Txns : u # t => stage'[u] = stage[u] /\ read_seq'[u] = read_seq[u]
        /\ UNCHANGED <<owner, wants, stamp, locked, expired, doomed, last_commit_seq, committed_at, seen,
                       visible, last_seq, last_write, owed>>
      BY <1>4, <1>t, <1>o DEF Begin, table
  <2>2. locked'[t] = {}
      BY Zenon, <2>1 DEF SeqInv
  <2>3. StampCovers(t)' /\ ReadsCover(t)'
      BY Zenon, <2>1, <2>2 DEF StampCovers, ReadsCover
  <2>4. QED
      BY Zenon, <2>1, <2>3, <1>3 DEF Alive
<1>5. ASSUME NEW t \in Txns, NEW k \in Keys, NEW seq \in Nat, GrantReturned(t, k, seq),
             stage[t] \in {"running", "granted"},
             owed[k] <= visible \/ owed[k] <= seq,
             \A j \in Keys : owner'[j] = owner[j] \/ (owner[j] = NO_OWNER /\ owner'[j] = t),
             UNCHANGED <<expired, doomed, read_seq, last_commit_seq, committed_at, seen, visible,
                         last_seq, last_write, owed>>
      PROVE SeqInv'
  <2>1. CASE t \in Refreshing
    <3>1. /\ stage'[t] = "refresh" /\ wants'[t] = k /\ stamp'[t] = seq
          /\ \A u \in Txns : u # t => stage'[u] = stage[u] /\ wants'[u] = wants[u] /\ stamp'[u] = stamp[u]
          /\ locked' = locked
        BY ZenonT(60), <1>5, <2>1, <1>t DEF GrantReturned
    <3>2. StampCovers(t)'
        BY Zenon, <1>5, <3>1 DEF StampCovers
    <3>3. ReadsCover(t)'
        BY Zenon, <1>5, <2>1, <3>1 DEF ReadsCover, SeqInv, Alive
    <3>4. QED
        BY Zenon, <1>3, <1>5, <3>1, <3>2, <3>3 DEF Alive
  <2>2. CASE t \notin Refreshing
    <3>1. /\ stage'[t] = "running" /\ stamp' = stamp
          /\ \A u \in Txns : u # t => stage'[u] = stage[u] /\ wants'[u] = wants[u] /\ locked'[u] = locked[u]
        BY <1>5, <2>2, <1>t DEF GrantReturned
    <3>2. QED
        BY Zenon, <1>3, <1>5, <2>2, <3>1 DEF Alive
  <2>3. QED
      BY Zenon, <2>1, <2>2
<1>6. ASSUME NEW t \in Txns, NEW k \in Keys, AcquireFresh(t, k) PROVE SeqInv'
  <2>1. owner[k] = NO_OWNER /\ last_commit_seq[k] = 0
      BY Zenon, <1>6 DEF AcquireFresh, OwnInv
  <2>2. owed[k] <= visible \/ owed[k] <= 0
      BY <2>1, <1>2
  <2>3. \A j \in Keys : owner'[j] = owner[j] \/ (owner[j] = NO_OWNER /\ owner'[j] = t)
      BY <1>6, <2>1, <1>t DEF AcquireFresh
  <2>4. UNCHANGED <<last_seq, last_write, owed>>
      BY Zenon, <1>6, <1>o DEF AcquireFresh, Acquire
  <2>5. QED
      BY <1>5, <1>6, <2>2, <2>3, <2>4 DEF AcquireFresh, Acquire
<1>7. ASSUME NEW t \in Txns, NEW k \in Keys, AcquireTakeover(t, k) PROVE SeqInv'
  <2>1. owner[k] = NO_OWNER /\ last_commit_seq[k] \in Nat
      BY <1>7, <1>t DEF AcquireTakeover
  <2>2. \A j \in Keys : owner'[j] = owner[j] \/ (owner[j] = NO_OWNER /\ owner'[j] = t)
      BY Zenon, <1>7, <2>1, <1>t DEF AcquireTakeover
  <2>3. UNCHANGED <<last_seq, last_write, owed>>
      BY Zenon, <1>7, <1>o DEF AcquireTakeover, Acquire
  <2>4. QED
      BY Zenon, <1>2, <1>5, <1>7, <2>1, <2>2, <2>3 DEF AcquireTakeover, Acquire
<1>8. ASSUME NEW t \in Txns, NEW k \in Keys, AcquireQueue(t, k) PROVE SeqInv'
  <2>1. /\ stage[t] = "running" /\ stage'[t] = "queued"
        /\ \A u \in Txns : u # t => stage'[u] = stage[u] /\ wants'[u] = wants[u]
        /\ UNCHANGED <<owner, stamp, locked, expired, doomed, read_seq, last_commit_seq, committed_at,
                       seen, visible, last_seq, last_write, owed>>
      BY <1>8, <1>t, <1>o DEF AcquireQueue, Acquire
  <2>2. t \in Refreshing => StampCovers(t)' /\ ReadsCover(t)'
      BY Zenon, <2>1 DEF StampCovers, ReadsCover, SeqInv, Alive
  <2>3. QED
      BY Zenon, <1>3, <2>1, <2>2 DEF Alive
<1>9. ASSUME NEW t \in Txns, Wake(t) PROVE SeqInv'
  <2>1. UNCHANGED <<owner, expired, doomed, read_seq, last_commit_seq, committed_at, seen, visible,
                    last_seq, last_write, owed>>
      BY <1>9, <1>o DEF Wake, table
  <2>2. CASE stage[t] = "granted" /\ GrantReturned(t, wants[t], last_commit_seq[wants[t]])
    <3>1. wants[t] \in held[t] /\ wants[t] \in Keys /\ last_commit_seq[wants[t]] \in Nat
        BY ZenonT(60), <2>2, <1>0, <1>t
    <3>2. owed[wants[t]] <= visible \/ owed[wants[t]] <= last_commit_seq[wants[t]]
        BY ZenonT(60), <2>2, <3>1, <1>1
    <3>3. QED
        BY Zenon, <1>5, <2>1, <2>2, <3>1, <3>2
  <2>3. CASE /\ stage[t] = "denied"
             /\ stage' = [stage EXCEPT ![t] = "running"]
             /\ wants' = [wants EXCEPT ![t] = NoKey]
             /\ UNCHANGED <<stamp, locked>>
    <3>1. /\ stage'[t] = "running"
          /\ \A u \in Txns : u # t => stage'[u] = stage[u] /\ wants'[u] = wants[u]
        BY <2>3, <1>t
    <3>2. t \in Refreshing => StampCovers(t)' /\ ReadsCover(t)'
        BY ZenonT(60), <2>1, <2>3, <3>1 DEF StampCovers, ReadsCover, SeqInv, Alive
    <3>3. QED
        BY ZenonT(60), <1>3, <2>1, <2>3, <3>1, <3>2 DEF Alive
  <2>4. QED
      BY <1>9, <2>2, <2>3 DEF Wake
<1>10. ASSUME NEW t \in Txns, NEW late \in BOOLEAN, AdoptSnapshot(t, late) PROVE SeqInv'
  <2>1. /\ stage[t] = "refresh" /\ stage'[t] = "running"
        /\ \A u \in Txns : u # t => stage'[u] = stage[u] /\ wants'[u] = wants[u] /\ stamp'[u] = stamp[u]
                                     /\ locked'[u] = locked[u] /\ read_seq'[u] = read_seq[u]
        /\ locked'[t] = locked[t] \cup {wants[t]}
        /\ UNCHANGED <<owner, doomed, last_commit_seq, committed_at, seen, visible, last_seq, last_write,
                       owed>>
      BY <1>10, <1>t, <1>o DEF AdoptSnapshot, table
  <2>2. read_seq'[t] \in Nat /\ visible <= read_seq'[t] /\ read_seq[t] <= read_seq'[t]
      BY <1>10, <1>t DEF AdoptSnapshot
  <2>3. /\ \A u \in Txns : u # t => expired'[u] = expired[u]
        /\ expired'[t] = (expired[t] \/ late)
        /\ late = (visible < stamp[t])
      BY <1>10 DEF AdoptSnapshot, TypeOK
  <2>4. StampCovers(t)'
      BY <2>1 DEF StampCovers
  <2>5. ASSUME t \in Refreshing PROVE ReadsCover(t)'
    <3>1. SUFFICES ASSUME ~ expired'[t], t \notin doomed', NEW k \in locked'[t] PROVE owed[k] <= read_seq'[t]
        BY <2>1 DEF ReadsCover
    <3>2. ~ expired[t] /\ t \notin doomed /\ ~ (visible < stamp[t])
        BY <2>1, <2>3, <3>1, Zenon
    <3>3. CASE k \in locked[t]
      <4>1. owed[k] <= read_seq[t]
          BY ZenonT(60), <2>1, <2>5, <3>2, <3>3 DEF SeqInv, ReadsCover, Alive
      <4>2. QED
          BY <4>1, <2>2, <3>3, <1>t
    <3>4. CASE k = wants[t]
      <4>1. k \in Keys /\ (owed[k] <= visible \/ owed[k] <= stamp[t])
          BY Zenon, <2>1, <2>5, <3>4, <1>0 DEF SeqInv, StampCovers
      <4>2. ~ (visible < stamp[t])
          BY Zenon, <3>2
      <4>3. QED
          BY <4>1, <4>2, <2>2, <1>t
    <3>5. QED
        BY <2>1, <3>3, <3>4
  <2>6. QED
      BY Zenon, <1>3, <2>1, <2>3, <2>4, <2>5 DEF Alive
<1>11. ASSUME NEW t \in Txns, RefreshConflict(t) PROVE SeqInv'
  <2>1. /\ stage[t] = "refresh" /\ stage'[t] = "running"
        /\ \A u \in Txns : u # t => stage'[u] = stage[u] /\ wants'[u] = wants[u] /\ stamp'[u] = stamp[u]
        /\ t \in doomed' /\ \A u \in Txns : u \notin doomed' => u \notin doomed
        /\ UNCHANGED <<owner, locked, expired, read_seq, last_commit_seq, committed_at, seen,
                       visible, last_seq, last_write, owed>>
      BY <1>11, <1>t, <1>o DEF RefreshConflict, table
  <2>2. t \in Refreshing => StampCovers(t)' /\ ReadsCover(t)'
      BY ZenonT(60), <2>1 DEF StampCovers, ReadsCover, SeqInv, Alive
  <2>3. QED
      BY Zenon, <1>3, <2>1, <2>2 DEF Alive
<1>12. ASSUME NEW t \in Txns, Commit(t) PROVE SeqInv'
  <2>1. /\ stage[t] = "running" /\ stage'[t] = "finishing"
        /\ \A u \in Txns : u # t => stage'[u] = stage[u] /\ committed_at'[u] = committed_at[u]
        /\ committed_at'[t] = last_seq + 1
        /\ last_seq' = last_seq + 1
        /\ UNCHANGED <<owner, wants, stamp, locked, expired, doomed, read_seq, last_commit_seq, seen, visible>>
      BY <1>12, <1>t DEF Commit, table, snap
  <2>w. ASSUME NEW k \in Keys
        PROVE /\ last_write'[k] = last_seq + 1 \/ last_write'[k] = last_write[k]
              /\ owed'[k] = 0 \/ owed'[k] = last_write'[k]
              /\ k \notin held[t] => owed'[k] = owed[k]
    <3>1. last_write'[k] = IF k \in Writable(t) THEN last_seq + 1 ELSE last_write[k]
        BY <1>12 DEF Commit
    <3>2. Writable(t) \subseteq held[t]
        BY DEF Writable
    <3>3. bare' = bare \ held[t]
        BY Zenon, <1>12 DEF Commit
    <3>4. QED
        BY <3>1, <3>2, <3>3 DEF owed
  <2>2. ASSUME NEW u \in Txns, NEW k \in held[u], u # t PROVE owed'[k] = owed[k]
    <3>1. k \in Keys /\ owner[k] = u
        BY <1>0
    <3>2. k \notin held[t]
        BY Zenon, <3>1, <2>2, <1>0
    <3>3. QED
        BY Zenon, <2>w, <3>1, <3>2
  <2>k. ASSUME NEW k \in Keys PROVE last_write'[k] <= last_seq' /\ owed'[k] <= last_seq + 1
    <3>1. last_write[k] <= last_seq /\ last_write[k] \in Nat
        BY Zenon, <1>t DEF SeqInv
    <3>2. last_write'[k] <= last_seq + 1
        BY <2>w, <3>1, <1>t
    <3>3. owed'[k] <= last_seq + 1
        BY <2>w, <3>2, <1>t
    <3>4. QED
        BY <2>1, <3>2, <3>3
  <2>3. ASSUME NEW k \in Keys PROVE Remembered(k)'
    <3>1. CASE k \in held[t]
        BY <2>1, <2>k, <3>1, <1>0 DEF Remembered
    <3>2. CASE k \notin held[t]
      <4>1. owed'[k] = owed[k]
          BY Zenon, <2>w, <3>2
      <4>2. QED
          BY ZenonT(60), <2>1, <3>2, <4>1, <1>0, <1>t DEF SeqInv, Remembered
    <3>3. QED
        BY Zenon, <3>1, <3>2
  <2>4. ASSUME NEW u \in Refreshing PROVE StampCovers(u)' /\ ReadsCover(u)'
    <3>1. CASE u = t
        BY ZenonT(60), <2>1, <3>1 DEF StampCovers, ReadsCover, Alive
    <3>2. CASE u # t
      <4>1. stage'[u] = stage[u] /\ StampCovers(u) /\ ReadsCover(u)
          BY Zenon, <2>1, <3>2 DEF SeqInv
      <4>2. stage[u] = "refresh" => owed'[wants[u]] = owed[wants[u]]
          BY Zenon, <2>2, <3>2, <1>0
      <4>3. \A k \in locked[u] : owed'[k] = owed[k]
          BY Zenon, <2>2, <3>2, <1>0
      <4>4. StampCovers(u)'
          BY ZenonT(60), <2>1, <4>1, <4>2 DEF StampCovers
      <4>5. ReadsCover(u)'
          BY ZenonT(60), <2>1, <4>1, <4>3 DEF ReadsCover
      <4>6. QED
          BY Zenon, <4>4, <4>5
    <3>3. QED
        BY Zenon, <3>1, <3>2
  <2>5. visible' <= last_seq' /\ last_seq <= last_seq' /\ last_seq' \in Nat
    <3>1. visible <= last_seq
        BY Zenon DEF SeqInv
    <3>2. QED
        BY <2>1, <3>1, <1>t
  <2>7. \A u \in Txns : seen'[u] <= visible' /\ (stage'[u] = "new" => locked'[u] = {})
      BY ZenonT(60), <2>1 DEF SeqInv
  <2>8. QED
      BY Zenon, <2>3, <2>4, <2>5, <2>k, <2>7 DEF SeqInv
<1>13. ASSUME NEW t \in Txns, Release(t) \/ Rollback(t) PROVE SeqInv'
  <2>1. /\ stage[t] \in {"running", "finishing"} /\ stage'[t] = "releasing"
        /\ \A u \in Txns : u # t => stage'[u] = stage[u] /\ seen'[u] = seen[u]
        /\ seen'[t] = visible
        /\ UNCHANGED <<owner, wants, stamp, locked, expired, doomed, read_seq, last_commit_seq,
                       committed_at, visible, last_seq, last_write, owed>>
      BY <1>13, <1>t, <1>o DEF Release, Rollback, ReadWatermark, table, snap
  <2>2. \A k \in Keys : Remembered(k)'
      BY ZenonT(60), <2>1, <1>0 DEF SeqInv, Remembered
  <2>3. ASSUME NEW u \in Refreshing PROVE StampCovers(u)' /\ ReadsCover(u)'
      BY ZenonT(60), <2>1 DEF SeqInv, StampCovers, ReadsCover, Alive
  <2>4. ASSUME NEW u \in Txns PROVE seen'[u] <= visible' /\ (stage'[u] = "new" => locked'[u] = {})
    <3>1. visible <= visible
        BY <1>t
    <3>2. seen'[u] = seen[u] \/ seen'[u] = visible
        BY Zenon, <2>1
    <3>3. stage'[u] = "new" => stage[u] = "new"
        BY Zenon, <2>1
    <3>4. QED
        BY Zenon, <2>1, <3>1, <3>2, <3>3 DEF SeqInv
  <2>5. visible' <= last_seq' /\ \A k \in Keys : last_write'[k] <= last_seq'
      BY Zenon, <2>1 DEF SeqInv
  <2>6. QED
      BY Zenon, <2>2, <2>3, <2>4, <2>5 DEF SeqInv
<1>14. ASSUME NEW t \in Txns, ReleaseAll(t) PROVE SeqInv'
  <2>1. PICK next \in [Mine(t) -> Txns \cup {NO_OWNER}] :
          /\ owner' = [k \in Keys |-> IF k \in Mine(t) THEN next[k] ELSE owner[k]]
          /\ last_commit_seq' = [k \in Keys |-> IF k \in entries' THEN Stamped(t)[k] ELSE 0]
          /\ \A u \in Txns : u # t => stage'[u] = stage[u] \/ stage'[u] \in {"granted", "denied"}
          /\ \A u \in Txns : u # t /\ stage'[u] # stage[u] => u \in Gone(t, next)
          /\ stage'[t] = "done"
    <3>1. PICK next \in [Mine(t) -> Txns \cup {NO_OWNER}] :
            /\ owner' = [k \in Keys |-> IF k \in Mine(t) THEN next[k] ELSE owner[k]]
            /\ last_commit_seq' = [k \in Keys |-> IF k \in entries' THEN Stamped(t)[k] ELSE 0]
            /\ LET granted == {u \in Gone(t, next) : \E k \in Mine(t) : next[k] = u}
               IN stage' = [u \in Txns |->
                           CASE u = t -> "done"
                             [] u # t /\ u \in granted -> "granted"
                             [] u # t /\ u \in Gone(t, next) \ granted -> "denied"
                             [] u # t /\ u \notin Gone(t, next) -> stage[u]]
        BY <1>14 DEF ReleaseAll
    <3>2. QED
        BY <3>1
  <2>2. /\ stage[t] = "releasing"
        /\ UNCHANGED <<wants, visible, last_seq, last_write, owed>>
        /\ \A u \in Txns : u # t => stamp'[u] = stamp[u] /\ locked'[u] = locked[u]
                   /\ read_seq'[u] = read_seq[u] /\ committed_at'[u] = committed_at[u] /\ seen'[u] = seen[u]
        /\ locked'[t] = {} /\ seen'[t] = 0
      BY <1>14, <1>t, <1>o DEF ReleaseAll, Forget
  <2>3. \A u \in Txns : u # t => expired'[u] = expired[u] /\ (u \notin doomed' => u \notin doomed)
    <3>1. doomed' = doomed \ {t}
        BY Zenon, <1>14 DEF ReleaseAll, Forget
    <3>2. \A u \in Txns : u # t => expired'[u] = expired[u]
        BY Zenon, <1>14 DEF ReleaseAll, Forget, TypeOK
    <3>3. QED
        BY <3>1, <3>2
  <2>4. \A u \in Gone(t, next) : stage[u] = "queued"
      BY <1>t DEF Gone, Mine, OwnInv, TypeOK
  <2>5. Mine(t) = held[t] /\ Mine(t) \subseteq Keys
    <3>1. held[t] \subseteq Keys
        BY Zenon, <1>0
    <3>2. Mine(t) = held[t]
        BY ZenonT(60), <1>0 DEF Mine
    <3>3. QED
        BY Zenon, <3>1, <3>2
  <2>6. \A k \in Keys : k \in entries /\ k \notin entries' => owner'[k] = NO_OWNER /\ Stamped(t)[k] <= seen[t]
    <3> DEFINE Live(ks) == {k \in ks : owner'[k] # NO_OWNER \/ StampNeeded(t, k)}
               kept == (entries \ Mine(t)) \cup Live(Mine(t))
    <3>1. entries' = kept \/ entries' = Live(kept)
        BY Zenon, <1>14 DEF ReleaseAll
    <3>2. \A k \in Keys : Stamped(t)[k] \in Nat
        BY Zenon, StampIsMax
    <3>3. \A k \in Keys : k \in entries /\ k \notin entries' => owner'[k] = NO_OWNER /\ ~ StampNeeded(t, k)
        BY <3>1
    <3> HIDE DEF kept, Live
    <3>4. seen[t] \in Nat
        BY <1>t
    <3>5. \A k \in Keys : ~ StampNeeded(t, k) => Stamped(t)[k] <= seen[t]
        BY <3>2, <3>4 DEF StampNeeded
    <3>6. QED
        BY <3>3, <3>5
  <2>7. \A k \in Keys : /\ Stamped(t)[k] \in Nat
                        /\ last_commit_seq[k] <= Stamped(t)[k]
                        /\ k \in Mine(t) => committed_at[t] <= Stamped(t)[k]
      BY Zenon, StampIsMax
  <2>8. ASSUME NEW k \in Keys PROVE Remembered(k)'
    <3>1. CASE owed[k] <= visible
        BY Zenon, <2>2, <3>1 DEF Remembered
    <3>2. CASE owed[k] <= Stamped(t)[k]
      <4>1. CASE k \in entries'
          BY ZenonT(60), <2>1, <2>2, <3>2, <4>1 DEF Remembered
      <4>2. CASE k \in entries /\ k \notin entries'
        <5>1. seen[t] <= visible
            BY Zenon DEF SeqInv
        <5>2. Stamped(t)[k] <= seen[t] /\ Stamped(t)[k] \in Nat
            BY Zenon, <2>6, <2>7, <4>2
        <5>3. owed[k] \in Nat /\ seen[t] \in Nat /\ visible \in Nat
            BY Zenon, <1>t
        <5>4. owed[k] <= visible
            BY ZenonT(60), <5>1, <5>2, <5>3, <3>2, Order
        <5>5. QED
            BY ZenonT(60), <5>4, <2>2 DEF Remembered
      <4>3. CASE k \notin entries
        <5>1. k \notin Mine(t) /\ last_commit_seq[k] = 0
            BY Zenon, <4>3 DEF Mine, OwnInv
        <5>2. Stamped(t)[k] = 0
            BY <5>1 DEF Stamped
        <5>3. owed[k] \in Nat /\ visible \in Nat /\ 0 \in Nat
            BY Zenon, <1>t
        <5>4. owed[k] <= visible
            BY ZenonT(60), <3>2, <5>2, <5>3, Order
        <5>5. QED
            BY ZenonT(60), <5>4, <2>2 DEF Remembered
      <4>4. QED
          BY <4>1, <4>2, <4>3
    <3>3. CASE /\ owner[k] # NO_OWNER /\ owner[k] # t
               /\ stage[owner[k]] \in {"finishing", "releasing"}
               /\ owed[k] <= committed_at[owner[k]]
      <4>1. k \notin Mine(t) /\ owner[k] \in Txns
          BY ZenonT(60), <3>3, <1>0 DEF Mine
      <4>2. owner'[k] = owner[k] /\ stage'[owner[k]] = stage[owner[k]]
          BY ZenonT(60), <2>1, <2>4, <3>3, <4>1
      <4>3. QED
          BY ZenonT(60), <2>2, <3>3, <4>1, <4>2 DEF Remembered
    <3>4. CASE owner[k] = t /\ owed[k] <= committed_at[owner[k]]
      <4>1. k \in held[t]
          BY Zenon, <3>4, <1>0
      <4>2. k \in Mine(t)
          BY Zenon, <4>1, <2>5
      <4>3. owed[k] <= Stamped(t)[k]
        <5>1. /\ owed[k] \in Nat /\ committed_at[t] \in Nat /\ Stamped(t)[k] \in Nat
              /\ owed[k] <= committed_at[t] /\ committed_at[t] <= Stamped(t)[k]
            BY <3>4, <4>2, <2>7, <1>t
        <5>2. QED
            BY <5>1
      <4>4. QED
          BY Zenon, <3>2, <4>3
    <3>5. CASE owed[k] <= last_commit_seq[k]
        BY <3>2, <3>5, <2>7, <1>t
    <3>6. QED
        BY <3>1, <3>3, <3>4, <3>5 DEF SeqInv, Remembered
  <2>9. ASSUME NEW u \in Refreshing PROVE StampCovers(u)' /\ ReadsCover(u)'
    <3>1. CASE u = t
        BY <2>1, <3>1 DEF StampCovers, ReadsCover, Alive
    <3>2. CASE u # t
      <4>1. StampCovers(u)'
          BY ZenonT(60), <2>1, <2>2, <3>2 DEF SeqInv, StampCovers
      <4>2. stage'[u] \in Alive => stage[u] \in Alive
          BY Zenon, <2>1, <2>4, <3>2 DEF Alive
      <4>3. ReadsCover(u)'
          BY Zenon, <2>2, <2>3, <3>2, <4>2 DEF SeqInv, ReadsCover
      <4>4. QED
          BY Zenon, <4>1, <4>3
    <3>3. QED
        BY Zenon, <3>1, <3>2
  <2>10. ASSUME NEW u \in Txns PROVE seen'[u] <= visible'
    <3>1. CASE u = t
      <4>1. seen'[u] = 0 /\ visible' = visible
          BY Zenon, <3>1, <2>2
      <4>2. 0 <= visible
          BY Zenon, <1>t, Order
      <4>3. QED
          BY ZenonT(60), <4>1, <4>2
    <3>2. CASE u # t
      <4>1. seen[u] <= visible
          BY Zenon DEF SeqInv
      <4>2. QED
          BY Zenon, <4>1, <3>2, <2>2
    <3>3. QED
        BY <3>1, <3>2
  <2>11. \A u \in Txns : stage'[u] = "new" => locked'[u] = {}
      BY Zenon, <2>1, <2>2 DEF SeqInv
  <2>12. QED
      BY Zenon, <2>2, <2>8, <2>9, <2>10, <2>11 DEF SeqInv
<1>15. ASSUME NEW t \in Txns, Prepare(t) PROVE SeqInv'
  <2>1. /\ stage[t] = "running"
        /\ \A k \in Keys : owner'[k] = IF k \in Mine(t) THEN NO_OWNER ELSE owner[k]
        /\ \A k \in Keys : last_commit_seq'[k] = IF k \in Mine(t) THEN 0 ELSE last_commit_seq[k]
        /\ UNCHANGED <<wants, visible, last_seq, last_write>>
      BY <1>15 DEF Prepare
  <2>w. ASSUME NEW k \in Keys
        PROVE /\ k \in Mine(t) => owed'[k] <= visible
              /\ k \notin Mine(t) => owed'[k] = owed[k]
    <3>1. bare' = bare \cup {j \in Mine(t) : last_write[j] > visible} /\ last_write' = last_write
        BY Zenon, <1>15 DEF Prepare
    <3>2. last_write[k] \in Nat /\ visible \in Nat
        BY Zenon, <1>t
    <3>3. QED
        BY <3>1, <3>2 DEF owed
  <2>2. /\ \A u \in Txns : u # t => stamp'[u] = stamp[u] /\ locked'[u] = locked[u]
                   /\ read_seq'[u] = read_seq[u] /\ committed_at'[u] = committed_at[u] /\ seen'[u] = seen[u]
        /\ locked'[t] = {} /\ seen'[t] = 0
      BY <1>15, <1>t DEF Prepare, Forget
  <2>3. \A u \in Txns : u # t => expired'[u] = expired[u] /\ (u \notin doomed' => u \notin doomed)
    <3>1. doomed' = doomed \ {t}
        BY Zenon, <1>15 DEF Prepare, Forget
    <3>2. \A u \in Txns : u # t => expired'[u] = expired[u]
        BY Zenon, <1>15 DEF Prepare, Forget, TypeOK
    <3>3. QED
        BY <3>1, <3>2
  <2>4. Mine(t) = held[t] /\ Mine(t) \subseteq Keys
      BY <1>0, <1>t DEF Mine
  <2>5. /\ stage'[t] = "done"
        /\ \A u \in Txns : u # t => stage'[u] = stage[u] \/ (stage[u] = "queued" /\ stage'[u] = "denied")
    <3> DEFINE gone == UNION {waiters[k] : k \in Mine(t)}
    <3>1. stage' = [u \in Txns |-> CASE u = t -> "done"
                                      [] u \in gone -> "denied"
                                      [] OTHER -> stage[u]]
        BY Zenon, <1>15 DEF Prepare
    <3>2. \A u \in gone : stage[u] = "queued"
      <4>1. SUFFICES ASSUME NEW k \in Mine(t), NEW u \in waiters[k] PROVE stage[u] = "queued"
          BY Zenon
      <4>2. QED
          BY Zenon, <4>1, <2>4 DEF OwnInv
    <3>3. t \notin gone
        BY <2>1, <3>2
    <3> HIDE DEF gone
    <3>4. QED
        BY <3>1, <3>2, <3>3
  <2>6. ASSUME NEW k \in Keys PROVE Remembered(k)'
    <3>1. CASE k \in Mine(t)
        BY Zenon, <2>1, <2>w, <3>1 DEF Remembered
    <3>2. CASE k \notin Mine(t)
      <4>1. owner[k] # t
        <5>1. ASSUME owner[k] = t PROVE k \in held[t]
            BY <5>1, <1>0
        <5>2. k \notin held[t]
            BY Zenon, <3>2, <2>4
        <5>3. QED
            BY <5>1, <5>2
      <4>2. Remembered(k)
          BY Zenon DEF SeqInv
      <4>3. CASE owed[k] <= visible \/ owed[k] <= last_commit_seq[k]
          BY Zenon, <2>1, <2>w, <3>2, <4>3 DEF Remembered
      <4>4. CASE /\ owner[k] # NO_OWNER
                 /\ stage[owner[k]] \in {"finishing", "releasing"}
                 /\ owed[k] <= committed_at[owner[k]]
        <5>1. stage'[owner[k]] = stage[owner[k]] /\ committed_at'[owner[k]] = committed_at[owner[k]]
            BY ZenonT(60), <2>2, <2>5, <4>1, <4>4, <1>0
        <5>2. QED
            BY <2>1, <2>w, <3>2, <4>4, <5>1 DEF Remembered
      <4>5. QED
          BY ZenonT(60), <4>2, <4>3, <4>4 DEF Remembered
    <3>3. QED
        BY Zenon, <3>1, <3>2
  <2>7. ASSUME NEW u \in Txns, NEW k \in held[u], u # t PROVE owed'[k] = owed[k]
    <3>1. k \in Keys /\ owner[k] = u
        BY <1>0
    <3>2. k \notin Mine(t)
        BY <3>1, <2>4, <2>7, <1>0
    <3>3. QED
        BY Zenon, <2>w, <3>1, <3>2
  <2>8. ASSUME NEW u \in Refreshing PROVE StampCovers(u)' /\ ReadsCover(u)'
    <3>1. CASE u = t
        BY ZenonT(60), <2>5, <3>1 DEF StampCovers, ReadsCover, Alive
    <3>2. CASE u # t
      <4>1. StampCovers(u)'
        <5>1. SUFFICES ASSUME stage'[u] = "refresh"
                       PROVE owed'[wants'[u]] <= visible' \/ owed'[wants'[u]] <= stamp'[u]
            BY Zenon DEF StampCovers
        <5>2. stage[u] = "refresh" /\ u \in Txns
            BY Zenon, <2>5, <3>2, <5>1
        <5>3. wants[u] \in held[u]
            BY Zenon, <5>2, <1>0
        <5>4. owed'[wants[u]] = owed[wants[u]]
            BY Zenon, <2>7, <3>2, <5>2, <5>3
        <5>5. owed[wants[u]] <= visible \/ owed[wants[u]] <= stamp[u]
            BY Zenon, <5>2 DEF SeqInv, StampCovers
        <5>6. wants'[u] = wants[u] /\ visible' = visible /\ stamp'[u] = stamp[u]
            BY Zenon, <2>1, <2>2, <3>2, <5>2
        <5>7. QED
            BY Zenon, <5>4, <5>5, <5>6
      <4>2. stage'[u] \in Alive => stage[u] \in Alive
          BY <2>5, <3>2 DEF Alive
      <4>3. ReadsCover(u)'
        <5>1. SUFFICES ASSUME ~ expired'[u], u \notin doomed', stage'[u] \in Alive, NEW k \in locked'[u]
                       PROVE owed'[k] <= read_seq'[u]
            BY DEF ReadsCover
        <5>2. ~ expired[u] /\ u \notin doomed
            BY <2>3, <3>2, <5>1, Zenon
        <5>3. \A j \in locked[u] : owed[j] <= read_seq[u]
            BY <4>2, <5>1, <5>2, Zenon DEF SeqInv, ReadsCover
        <5>4. locked'[u] = locked[u] /\ read_seq'[u] = read_seq[u] /\ locked[u] \subseteq held[u]
            BY Zenon, <2>2, <3>2, <1>0
        <5>5. k \in locked[u] /\ owed'[k] = owed[k]
            BY <2>7, <3>2, <5>4
        <5>6. QED
            BY <5>3, <5>4, <5>5
      <4>4. QED
          BY Zenon, <4>1, <4>3
    <3>3. QED
        BY <3>1, <3>2
  <2>9. \A k \in Keys : last_write'[k] <= last_seq'
      BY Zenon, <2>1 DEF SeqInv
  <2>10. ASSUME NEW u \in Txns PROVE seen'[u] <= visible'
    <3>1. seen[u] <= visible /\ visible' = visible /\ 0 <= visible
        BY Zenon, <2>1, <1>t, Order DEF SeqInv
    <3>2. seen'[u] = seen[u] \/ seen'[u] = 0
        BY Zenon, <2>2
    <3>3. QED
        BY Zenon, <3>1, <3>2
  <2>11. \A u \in Txns : stage'[u] = "new" => locked'[u] = {}
      BY Zenon, <2>2, <2>5 DEF SeqInv
  <2>12. QED
      BY Zenon, <2>1, <2>6, <2>8, <2>9, <2>10, <2>11 DEF SeqInv
<1>16. CASE FailStop \/ ShutDown
  <2>1. /\ stage' = [u \in Txns |-> IF u \in Queued THEN "denied" ELSE stage[u]]
        /\ UNCHANGED <<owner, wants, stamp, locked, expired, doomed, read_seq, last_commit_seq,
                       committed_at, seen, visible, last_seq, last_write, owed>>
      BY <1>16, <1>o DEF FailStop, ShutDown, WakeEveryWaiter, txn, snap
  <2>2. \A u \in Queued : stage[u] = "queued"
    <3>1. SUFFICES ASSUME NEW k \in Keys, NEW u \in waiters[k] PROVE stage[u] = "queued"
        BY DEF Queued
    <3>2. QED
        BY Zenon DEF OwnInv
  <2>3. \A u \in Txns : stage'[u] = stage[u] \/ (stage[u] = "queued" /\ stage'[u] = "denied")
    <3> HIDE DEF Queued
    <3> QED
        BY <2>1, <2>2
  <2>4. \A k \in Keys : Remembered(k)'
      BY ZenonT(60), <2>1, <2>3, <1>0 DEF SeqInv, Remembered
  <2>5. ASSUME NEW u \in Refreshing PROVE StampCovers(u)' /\ ReadsCover(u)'
      BY Zenon, <2>1, <2>3 DEF SeqInv, StampCovers, ReadsCover, Alive
  <2>6. QED
      BY Zenon, <2>1, <2>3, <2>4, <2>5 DEF SeqInv
<1>17. CASE Publish
  <2>1. /\ visible' \in Nat /\ visible <= visible' /\ visible' <= last_seq
        /\ UNCHANGED <<owner, stage, wants, stamp, locked, expired, doomed, read_seq, last_commit_seq,
                       committed_at, seen, last_seq, last_write, owed>>
      BY <1>17, <1>t, <1>o DEF Publish, table, txn, snap
  <2>2. ASSUME NEW k \in Keys PROVE Remembered(k)'
      BY <2>1, <1>t DEF SeqInv, Remembered
  <2>3. ASSUME NEW u \in Refreshing PROVE StampCovers(u)' /\ ReadsCover(u)'
    <3>1. ReadsCover(u)'
        BY Zenon, <2>1 DEF SeqInv, ReadsCover
    <3>2. ASSUME stage[u] = "refresh" PROVE wants[u] \in Keys
        BY Zenon, <3>2, <1>0
    <3>3. StampCovers(u)'
        BY <2>1, <3>2, <1>t DEF SeqInv, StampCovers
    <3>4. QED
        BY <3>1, <3>3
  <2>4. \A u \in Txns : seen[u] <= visible'
      BY <2>1, <1>t DEF SeqInv
  <2>5. QED
      BY Zenon, <2>1, <2>2, <2>3, <2>4 DEF SeqInv
<1>18. CASE UNCHANGED vars
  <2>1. UNCHANGED <<last_seq, last_write, owed>>
      BY Zenon, <1>18, <1>o DEF vars
  <2>2. QED
      BY Zenon, <1>18, <2>1 DEF vars, table, txn, snap, SeqInv, Remembered, StampCovers, ReadsCover
(* A key is locked again: without a failed refresh it was locked before.    *)
<1>19. ASSUME NEW t \in Txns, NEW k \in Keys, Reacquire(t, k) PROVE SeqInv'
  <2>1. /\ stage[t] = "running" /\ owner[k] = t
        /\ UNCHANGED <<owner, stage, wants, stamp, expired, doomed, read_seq, last_commit_seq,
                       committed_at, seen, visible, last_seq, last_write, owed>>
      BY Zenon, <1>19, <1>o DEF Reacquire, Acquire, table
  <2>2. \A u \in Txns : u # t => locked'[u] = locked[u]
      BY <1>19, <1>t DEF Reacquire
  <2>3. locked'[t] = locked[t] \cup {k}
      BY <1>19, <1>t DEF Reacquire
  <2>4. StampCovers(t)'
      BY Zenon, <2>1 DEF StampCovers
  <2>5. t \notin doomed => k \in locked[t]
    <3>1. k \in held[t]
        BY Zenon, <2>1, <1>0
    <3>2. t \notin doomed => held[t] \subseteq locked[t]
        BY Zenon, <2>1 DEF LockInv, Quiet
    <3>3. QED
        BY <3>1, <3>2
  <2>6. t \notin doomed => locked'[t] = locked[t]
      BY <2>3, <2>5
  <2>7. t \in Refreshing => ReadsCover(t)'
      BY ZenonT(60), <2>1, <2>6 DEF SeqInv, ReadsCover
  <2>8. QED
      BY ZenonT(60), <1>3, <2>1, <2>2, <2>4, <2>7 DEF Alive
(* What commit_prepared writes it does not owe to a grant.                  *)
<1>20. ASSUME NEW t \in Txns, CommitPrepared(t) PROVE SeqInv'
  <2>1. /\ last_seq' = last_seq + 1
        /\ UNCHANGED <<owner, stage, wants, stamp, locked, expired, doomed, read_seq,
                       last_commit_seq, committed_at, seen, visible>>
      BY Zenon, <1>20 DEF CommitPrepared, table, txn, snap
  <2>2. ASSUME NEW k \in Keys
        PROVE /\ last_write'[k] = last_seq + 1 \/ last_write'[k] = last_write[k]
              /\ owed'[k] = 0 \/ owed'[k] = owed[k]
    <3>1. CASE /\ last_write' = [j \in Keys |-> IF j \in prepared[t] THEN last_seq + 1 ELSE last_write[j]]
               /\ bare' = bare \cup prepared[t]
        BY <3>1 DEF owed
    <3>2. CASE UNCHANGED <<last_write, bare>>
        BY <3>2 DEF owed
    <3>3. QED
        BY Zenon, <1>20, <3>1, <3>2 DEF CommitPrepared
  <2>3. ASSUME NEW k \in Keys PROVE owed'[k] <= owed[k] /\ owed'[k] \in Nat /\ owed[k] \in Nat
      BY <2>2, <1>t
  <2>4. ASSUME NEW k \in Keys, NEW n \in Nat, owed[k] <= n PROVE owed'[k] <= n
      BY Zenon, <2>3, <2>4, Order
  <2>5. ASSUME NEW k \in Keys PROVE Remembered(k)'
    <3>1. Remembered(k)
        BY Zenon DEF SeqInv
    <3>2. CASE owed[k] <= visible
      <4>1. owed'[k] <= visible
          BY Zenon, <3>2, <2>4, <1>t
      <4>2. QED
          BY Zenon, <4>1, <2>1 DEF Remembered
    <3>3. CASE owed[k] <= last_commit_seq[k]
      <4>1. owed'[k] <= last_commit_seq[k]
          BY Zenon, <3>3, <2>4, <1>t
      <4>2. QED
          BY Zenon, <4>1, <2>1 DEF Remembered
    <3>4. CASE /\ owner[k] # NO_OWNER
               /\ stage[owner[k]] \in {"finishing", "releasing"}
               /\ owed[k] <= committed_at[owner[k]]
      <4>1. committed_at[owner[k]] \in Nat
          BY Zenon, <3>4, <1>0, <1>t
      <4>2. owed'[k] <= committed_at[owner[k]]
          BY Zenon, <3>4, <4>1, <2>4
      <4>3. QED
          BY ZenonT(60), <3>4, <4>2, <2>1 DEF Remembered
    <3>5. QED
        BY Zenon, <3>1, <3>2, <3>3, <3>4 DEF Remembered
  <2>6. ASSUME NEW u \in Refreshing PROVE StampCovers(u)' /\ ReadsCover(u)'
    <3>0. u \in Txns /\ StampCovers(u) /\ ReadsCover(u) /\ stamp[u] \in Nat /\ read_seq[u] \in Nat
        BY Zenon, <1>t DEF SeqInv
    <3>1. ASSUME stage[u] = "refresh" PROVE owed'[wants[u]] <= visible \/ owed'[wants[u]] <= stamp[u]
      <4>1. wants[u] \in Keys
          BY Zenon, <3>0, <3>1, <1>0
      <4>2. owed[wants[u]] <= visible \/ owed[wants[u]] <= stamp[u]
          BY Zenon, <3>0, <3>1 DEF StampCovers
      <4>3. QED
          BY Zenon, <4>1, <4>2, <3>0, <2>4, <1>t
    <3>2. StampCovers(u)'
        BY Zenon, <3>1, <2>1 DEF StampCovers
    <3>3. \A k \in locked[u] : k \in Keys
        BY Zenon, <3>0, <1>0
    <3>4. ASSUME ~ expired[u], u \notin doomed, stage[u] \in Alive, NEW k \in locked[u]
          PROVE owed'[k] <= read_seq[u]
        BY Zenon, <3>0, <3>3, <3>4, <2>4 DEF ReadsCover
    <3>5. ReadsCover(u)'
        BY Zenon, <3>4, <2>1 DEF ReadsCover
    <3>6. QED
        BY Zenon, <3>2, <3>5
  <2>7. visible' <= last_seq'
    <3>1. visible <= last_seq
        BY Zenon DEF SeqInv
    <3>2. QED
        BY <2>1, <3>1, <1>t
  <2>8. ASSUME NEW k \in Keys PROVE last_write'[k] <= last_seq'
    <3>1. last_write[k] <= last_seq /\ last_write[k] \in Nat
        BY Zenon, <1>t DEF SeqInv
    <3>2. QED
        BY <2>1, <2>2, <3>1, <1>t
  <2>9. QED
      BY Zenon, <2>1, <2>5, <2>6, <2>7, <2>8 DEF SeqInv
<1>21. ASSUME NEW t \in Txns, AbortPrepared(t) PROVE SeqInv'
  <2>1. UNCHANGED <<owner, stage, wants, stamp, locked, expired, doomed, read_seq, last_commit_seq,
                    committed_at, seen, visible, last_seq, last_write, bare>>
      BY Zenon, <1>21 DEF AbortPrepared, table, txn, snap
  <2>2. owed' = owed
      BY <2>1 DEF owed
  <2>3. QED
      BY Zenon, <2>1, <2>2 DEF SeqInv, Remembered, StampCovers, ReadsCover
<1>22. QED
    BY Zenon, <1>19, <1>20, <1>21, <1>4, <1>6, <1>7, <1>8, <1>9, <1>10, <1>11, <1>12, <1>13, <1>14, <1>15, <1>16, <1>17, <1>18
       DEF Next, Step, Finish, Refresh, RefreshExpired

(* Every reachable state of the lock table satisfies the invariant.         *)
THEOREM Inductive == Spec => []IndInv
<1>1. IndInv /\ [Next]_vars => IndInv'
    BY FreeStep, TypeStep, OwnStep, ShutStep, LockStep, SeqStep DEF IndInv
<1>2. QED
    BY InitInv, <1>1, PTL DEF Spec

(* The lock table keeps its types.                                          *)
THEOREM TypeCorrect == Spec => []TypeOK
<1>1. IndInv => TypeOK
    BY Zenon DEF IndInv
<1>2. QED
    BY Inductive, <1>1, PTL

(* A granted key is owned by the transaction it was granted to, and so by   *)
(* no other, for any number of transactions and keys.                       *)
THEOREM MutualExclusion == Spec => []GrantedMeansOwned
<1>1. IndInv => GrantedMeansOwned
    BY DEF IndInv, OwnInv, GrantedMeansOwned
<1>2. QED
    BY Inductive, <1>1, PTL

(* Wait-die holds after every hand-off: waits only point from an older to a *)
(* younger transaction, so they cannot form a cycle.                        *)
THEOREM WaitDie == Spec => []WaitersOlder
<1>1. IndInv => WaitersOlder
    BY DEF IndInv, OwnInv
<1>2. QED
    BY Inductive, <1>1, PTL

(* The sweep trigger counts exactly the unowned entries.                    *)
THEOREM SweepCountExact == Spec => []FreeStampedExact
<1>1. IndInv => FreeStampedExact
    BY DEF IndInv
<1>2. QED
    BY Inductive, <1>1, PTL

(* shut_down leaves no thread parked on a lock, for good.                   *)
THEOREM CloseFreesEveryone == Spec => []ShutdownParksNobody
<1>1. IndInv => ShutdownParksNobody
  <2>1. SUFFICES ASSUME IndInv, shutdown, NEW t \in Txns, stage[t] = "queued" PROVE FALSE
      BY DEF ShutdownParksNobody
  <2>2. \A k \in Keys : waiters[k] = {}
      BY <2>1, Zenon DEF IndInv, ShutInv
  <2>3. wants[t] \in Keys /\ t \in waiters[wants[t]]
      BY Zenon, <2>1 DEF IndInv, OwnInv
  <2>4. QED
      BY <2>2, <2>3
<1>2. QED
    BY Inductive, <1>1, PTL

(* A granted transaction reads at a snapshot that includes the newest       *)
(* stamped commit of every key it holds, whichever transaction made it and  *)
(* however the grant was handed over.  Excepted, as in the property: the    *)
(* one-second wait expired; the refresh failed and the key was locked again *)
(* (acquire returns Held at the old snapshot); the newest commit of the key *)
(* left no stamp, because commit_prepared made it or deny_all dropped it.   *)
THEOREM GrantsSeePredecessors == Spec => []GrantSeesPredecessor
<1>1. IndInv => GrantSeesPredecessor
    BY DEF IndInv, SeqInv, ReadsCover, Alive, GrantSeesPredecessor
<1>2. QED
    BY Inductive, <1>1, PTL
=============================================================================
