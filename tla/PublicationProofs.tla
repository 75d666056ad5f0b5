-------------------------- MODULE PublicationProofs --------------------------
(***************************************************************************)
(* Proofs about Publication for any number of threads, readers, sequences  *)
(* and any batch size: commits publish without gaps, and a pinned snapshot *)
(* is stable.                                                              *)
(***************************************************************************)
EXTENDS Publication, FiniteSetTheorems, TLAPS

Disjoint(r, q) == r.end <= q.start \/ q.end <= r.start

(* What makes gap-freedom inductive: every batch that is not yet behind the *)
(* cursor lies entirely beyond it, and no two such batches overlap.         *)
BatchInv ==
    /\ cursor <= next_seq
    /\ visible = cursor - 1
    /\ \A t \in Threads : batch[t].stage # "idle" =>
          /\ batch[t].range \in Ranges
          /\ batch[t].range.end <= next_seq
    /\ \A t \in Threads : Unpublished(t) => cursor <= batch[t].range.start
    /\ \A r \in completed : cursor <= r.start /\ r.end <= next_seq
    /\ \A t, u \in Threads : t # u /\ Unpublished(t) /\ Unpublished(u)
          => Disjoint(batch[t].range, batch[u].range)
    /\ \A t \in Threads : \A r \in completed :
          Unpublished(t) => Disjoint(batch[t].range, r)
    /\ \A r, q \in completed : r = q \/ Disjoint(r, q)

(* The owners of a pin at sequence s.                                       *)
Holders(s) == {p \in Pins : held[p] = s}

(* What makes a snapshot stable: the reference counts are exact, the floor  *)
(* a compaction works with is at or below every pin, and the version a      *)
(* reader saw dominates every version at or below its pin.                  *)
PinInv ==
    /\ \A s \in Seqs : snapshots[s] = Cardinality(Holders(s))
    /\ gc_floor <= visible
    /\ \A p \in Pins : held[p] # NoPin =>
          /\ gc_floor <= held[p]
          /\ held[p] <= visible
          /\ held[p] <= reads[p].at
          /\ reads[p].saw <= reads[p].at
          /\ reads[p].saw \in versions \cup {0}
          /\ \A w \in versions : w <= held[p] => w <= reads[p].saw

IndInv == TypeOK /\ BatchInv /\ PinInv

(* The states Publication starts from satisfy the inductive invariant.      *)
LEMMA InitInv == Init => IndInv
<1> SUFFICES ASSUME Init PROVE IndInv
    OBVIOUS
<1> USE PublicationAssumption
<1>1. TypeOK
    BY DEF Init, TypeOK, Seqs, Stages, Ranges, NoRange, SeqRange
<1>2. BatchInv
    BY DEF Init, BatchInv, Unpublished, Seqs
<1>3. PinInv
  <2>1. ASSUME NEW s \in Seqs PROVE snapshots[s] = Cardinality(Holders(s))
    <3>1. Holders(s) = {}
        BY DEF Init, Holders, Seqs
    <3>2. QED
        BY <3>1, FS_EmptySet DEF Init
  <2>2. QED
      BY <2>1 DEF Init, PinInv
<1>4. QED
    BY <1>1, <1>2, <1>3 DEF IndInv

(* Types are preserved by every step.                                       *)
LEMMA TypeStep == TypeOK /\ BatchInv /\ PinInv /\ [Next]_vars => TypeOK'
<1> SUFFICES ASSUME TypeOK, BatchInv, PinInv, [Next]_vars PROVE TypeOK'
    OBVIOUS
<1> USE PublicationAssumption
<1> USE DEF TypeOK, Seqs, Stages
<1>1. ASSUME NEW t \in Threads, NEW n \in 1..MaxBatch, ReserveSeq(t, n) PROVE TypeOK'
  <2>1. /\ next_seq' = next_seq + n
        /\ next_seq + n <= MaxSeq + 1
        /\ SeqRange(next_seq, next_seq + n) \in Ranges
      BY <1>1 DEF ReserveSeq, SeqRange, Ranges
  <2>2. batch' \in [Threads -> [stage : Stages, range : Ranges \cup {NoRange}]]
      BY <1>1, <2>1 DEF ReserveSeq
  <2>3. QED
      BY SMTT(30), <1>1, <2>1, <2>2 DEF ReserveSeq, pinVars
<1>2. ASSUME NEW t \in Threads, Apply(t) PROVE TypeOK'
  <2>1. batch' \in [Threads -> [stage : Stages, range : Ranges \cup {NoRange}]]
    <3>1. PICK st \in Stages : batch' = [batch EXCEPT ![t].stage = st]
        BY <1>2 DEF Apply
    <3>2. batch \in [Threads -> [stage : Stages, range : Ranges \cup {NoRange}]]
        OBVIOUS
    <3> HIDE DEF TypeOK, Stages
    <3>3. QED
        BY <3>1, <3>2
  <2>2. versions' \subseteq Seqs
      BY Zenon, <1>2 DEF Apply
  <2>3. UNCHANGED <<next_seq, cursor, completed, visible, floor, snapshots, held, reads, gc_floor>>
      BY <1>2 DEF Apply, pinVars
  <2>4. QED
      BY Zenon, <2>1, <2>2, <2>3
<1>3. ASSUME NEW t \in Threads, PublishRange(t) PROVE TypeOK'
  <2>1. batch[t].range \in Ranges
      BY <1>3 DEF PublishRange, BatchInv
  <2>2. batch' \in [Threads -> [stage : Stages, range : Ranges \cup {NoRange}]]
      BY <1>3, <2>1 DEF PublishRange
  <2>3. completed' \subseteq Ranges
      BY <1>3, <2>1 DEF PublishRange
  <2>4. cursor' \in 1..(MaxSeq + 1) /\ visible' \in Seqs
      BY <1>3 DEF PublishRange
  <2>5. QED
      BY Zenon, <1>3, <2>2, <2>3, <2>4 DEF PublishRange, pinVars
<1>4. ASSUME NEW t \in Threads, NoteThreadCommit(t) PROVE TypeOK'
  <2>1. batch[t].range \in Ranges
      BY <1>4 DEF NoteThreadCommit, BatchInv
  <2>2. batch[t].range.end - 1 \in Seqs
      BY <2>1 DEF Ranges
  <2>3. batch' \in [Threads -> [stage : Stages, range : Ranges \cup {NoRange}]]
      BY <1>4 DEF NoteThreadCommit
  <2>4. floor' \in [Threads -> Seqs]
      BY <1>4, <2>2 DEF NoteThreadCommit
  <2>5. QED
      BY Zenon, <1>4, <2>3, <2>4 DEF NoteThreadCommit, pinVars
<1>5. ASSUME NEW p \in Pins, NEW at \in Seqs, AcquireVisible(p, at) PROVE TypeOK'
  <2>1. snapshots' \in [Seqs -> Nat]
      BY <1>5 DEF AcquireVisible
  <2>2. held' \in [Pins -> Seqs \cup {NoPin}]
      BY <1>5 DEF AcquireVisible
  <2>3. reads' \in [Pins -> [at : Seqs, saw : Seqs]]
      BY <1>5 DEF AcquireVisible
  <2>4. UNCHANGED <<next_seq, cursor, completed, visible, batch, floor, versions, gc_floor>>
      BY <1>5 DEF AcquireVisible, pubVars
  <2>5. QED
      BY Zenon, <2>1, <2>2, <2>3, <2>4
<1>6. ASSUME NEW p \in Pins, ReleaseSnapshot(p) PROVE TypeOK'
  <2>1. /\ held[p] \in Seqs
        /\ p \in Holders(held[p])
        /\ snapshots[held[p]] = Cardinality(Holders(held[p]))
      BY Zenon, <1>6 DEF ReleaseSnapshot, PinInv, Holders
  <2>2. IsFiniteSet(Holders(held[p]))
      BY FS_Subset DEF Holders
  <2>3. snapshots[held[p]] # 0
      BY <2>1, <2>2, FS_EmptySet
  <2>4. snapshots' \in [Seqs -> Nat]
      BY <1>6, <2>1, <2>3 DEF ReleaseSnapshot
  <2>5. held' \in [Pins -> Seqs \cup {NoPin}]
      BY <1>6 DEF ReleaseSnapshot
  <2>6. reads' \in [Pins -> [at : Seqs, saw : Seqs]]
      BY <1>6 DEF ReleaseSnapshot
  <2>7. UNCHANGED <<next_seq, cursor, completed, visible, batch, floor, versions, gc_floor>>
      BY <1>6 DEF ReleaseSnapshot, pubVars
  <2>8. QED
      BY Zenon, <2>4, <2>5, <2>6, <2>7
<1>7. CASE FreezeGcFloor
    BY Zenon, <1>7 DEF FreezeGcFloor, pubVars, pinVars
<1>8. CASE Compact
    BY Zenon, <1>8 DEF Compact, Retained, pubVars, pinVars
<1>9. CASE UNCHANGED vars
    BY <1>9 DEF vars, pubVars, pinVars
<1>10. ASSUME NEW p \in Pins, NEW t \in Threads,
              AcquireFixed(p, t) \/ AcquireExpired(p, t) \/ PinReadFloor(p, t)
       PROVE TypeOK'
    BY Zenon, <1>5, <1>10 DEF AcquireFixed, AcquireExpired, PinReadFloor
<1>11. QED
    BY Zenon, <1>1, <1>2, <1>3, <1>4, <1>6, <1>7, <1>8, <1>9, <1>10 DEF Next, Commit, Read

(* No step makes the watermark pass an unpublished batch.                   *)
LEMMA BatchStep == TypeOK /\ BatchInv /\ [Next]_vars => BatchInv'
<1> SUFFICES ASSUME TypeOK, BatchInv, [Next]_vars PROVE BatchInv'
    OBVIOUS
<1> USE PublicationAssumption
<1>1. ASSUME NEW t \in Threads, NEW n \in 1..MaxBatch, ReserveSeq(t, n) PROVE BatchInv'
  <2>1. /\ batch' = [batch EXCEPT ![t] =
                        [stage |-> "reserved", range |-> SeqRange(next_seq, next_seq + n)]]
        /\ next_seq' = next_seq + n
        /\ next_seq \in Nat /\ next_seq >= 1 /\ next_seq + n <= MaxSeq + 1
        /\ UNCHANGED <<cursor, completed, visible>>
      BY <1>1 DEF ReserveSeq, TypeOK
  <2>2. /\ batch'[t].stage = "reserved"
        /\ batch'[t].range.start = next_seq
        /\ batch'[t].range.end = next_seq + n
        /\ batch'[t].range \in Ranges
      BY <2>1 DEF TypeOK, SeqRange, Ranges
  <2>3. \A u \in Threads : u # t => batch'[u] = batch[u]
      BY <2>1 DEF TypeOK
  <2>4. \A u \in Threads : batch[u].stage # "idle" =>
           batch[u].range.start \in Nat /\ batch[u].range.end \in Nat
      BY DEF BatchInv, Ranges
  <2>5. \A r \in completed : r.start \in Nat /\ r.end \in Nat
      BY DEF TypeOK, Ranges
  <2>6. QED
      BY <2>1, <2>2, <2>3, <2>4, <2>5 DEF BatchInv, Unpublished, Disjoint, TypeOK
<1>2. ASSUME NEW t \in Threads, Apply(t) PROVE BatchInv'
  <2>1. /\ \A u \in Threads : u # t => batch'[u] = batch[u]
        /\ batch'[t].range = batch[t].range
        /\ batch[t].stage = "reserved"
        /\ UNCHANGED <<next_seq, cursor, completed, visible>>
      BY Zenon, <1>2 DEF Apply, TypeOK
  <2>2. QED
      BY <2>1 DEF BatchInv, Unpublished
<1>3. ASSUME NEW t \in Threads, PublishRange(t) PROVE BatchInv'
  <2> DEFINE done == completed \cup {batch[t].range}
  <2>1. PICK c \in cursor..next_seq :
           /\ ChainEnd(done, cursor, c)
           /\ cursor' = c
           /\ completed' = {r \in done : ~ (cursor <= r.start /\ r.end <= c)}
           /\ visible' = c - 1
      BY <1>3 DEF PublishRange
  <2>2. /\ batch[t].stage \in {"applied", "failed"}
        /\ next_seq' = next_seq
        /\ \A u \in Threads : u # t => batch'[u] = batch[u]
        /\ batch'[t].stage \in {"published", "idle"}
        /\ batch'[t].stage = "published" => batch'[t].range = batch[t].range
      BY <1>3 DEF PublishRange, TypeOK
  <2>3. cursor \in Nat /\ c \in Nat /\ cursor <= c /\ c <= next_seq /\ next_seq \in Nat
      BY <2>1 DEF TypeOK
  <2>4. \A r \in done : /\ r.start \in Nat /\ r.end \in Nat /\ r.start < r.end
                        /\ cursor <= r.start /\ r.end <= next_seq
      BY <2>2 DEF BatchInv, TypeOK, Ranges, Unpublished
  <2>5. ASSUME NEW u \in Threads, u # t, Unpublished(u)
        PROVE  /\ \A r \in done : Disjoint(batch[u].range, r)
               /\ cursor <= batch[u].range.start
               /\ batch[u].range.start \in Nat
               /\ batch[u].range.end \in Nat
               /\ batch[u].range.start < batch[u].range.end
      BY <2>2, <2>5 DEF BatchInv, Unpublished, Ranges
  <2>6. ASSUME NEW u \in Threads, u # t, Unpublished(u) PROVE c <= batch[u].range.start
    <3> DEFINE i == batch[u].range.start
    <3>1. SUFFICES ASSUME i < c PROVE FALSE
        BY <2>3, <2>5, <2>6
    <3>2. i \in cursor..(c - 1)
        BY <2>3, <2>5, <2>6, <3>1
    <3>3. PICK r \in done : r.start <= i /\ i < r.end
        BY <2>1, <3>2 DEF ChainEnd
    <3>4. QED
        BY <2>4, <2>5, <2>6, <3>3 DEF Disjoint
  <2>7. ASSUME NEW r \in done, ~ (cursor <= r.start /\ r.end <= c) PROVE c <= r.start
    <3>1. SUFFICES ASSUME r.start < c PROVE FALSE
        BY <2>3, <2>4
    <3>2. r.start \in cursor..(c - 1)
        BY <2>3, <2>4, <3>1
    <3>3. PICK q \in done : q.start <= r.start /\ r.start < q.end /\ q.end <= c
        BY Zenon, <2>1, <3>2 DEF ChainEnd
    <3>4. q = r \/ Disjoint(q, r)
        BY Zenon, <2>2 DEF BatchInv, Unpublished, Disjoint
    <3>5. QED
        BY <2>3, <2>4, <2>7, <3>3, <3>4 DEF Disjoint
  <2>8. \A r, q \in done : r = q \/ Disjoint(r, q)
      BY <2>2 DEF BatchInv, Unpublished, Disjoint
  <2>9. \A u \in Threads : batch'[u].stage # "idle" =>
           batch'[u].range \in Ranges /\ batch'[u].range.end <= next_seq
      BY <2>2 DEF BatchInv
  <2>10. \A u \in Threads : Unpublished(u)' => u # t /\ Unpublished(u)
      BY <2>2 DEF Unpublished
  <2>11. QED
      BY <2>1, <2>2, <2>3, <2>4, <2>5, <2>6, <2>7, <2>8, <2>9, <2>10 DEF BatchInv
<1>4. ASSUME NEW t \in Threads, NoteThreadCommit(t) PROVE BatchInv'
  <2>1. /\ \A u \in Threads : u # t => batch'[u] = batch[u]
        /\ batch'[t].stage = "idle"
        /\ UNCHANGED <<next_seq, cursor, completed, visible>>
      BY <1>4 DEF NoteThreadCommit, TypeOK
  <2>2. QED
      BY <2>1 DEF BatchInv, Unpublished
<1>5. CASE UNCHANGED pubVars
    BY <1>5 DEF pubVars, BatchInv, Unpublished
<1>6. QED
    BY <1>1, <1>2, <1>3, <1>4, <1>5 DEF Next, Commit, Read, AcquireFixed, AcquireExpired,
       PinReadFloor, AcquireVisible, ReleaseSnapshot, FreezeGcFloor, Compact, vars

(* A pin is counted exactly once, and no commit, publication, release or    *)
(* compaction takes away or hides the version its owner saw.                *)
LEMMA PinStep == TypeOK /\ BatchInv /\ PinInv /\ [Next]_vars => PinInv'
<1> SUFFICES ASSUME TypeOK, BatchInv, PinInv, [Next]_vars PROVE PinInv'
    OBVIOUS
<1> USE PublicationAssumption
<1>a. /\ visible \in Nat /\ gc_floor \in Nat /\ versions \subseteq Nat
      /\ \A p \in Pins : held[p] # NoPin => held[p] \in Nat
      /\ \A p \in Pins : reads[p].at \in Nat /\ reads[p].saw \in Nat
    BY DEF TypeOK, Seqs
<1>b. ASSUME UNCHANGED <<held, snapshots>>
      PROVE \A s \in Seqs : snapshots'[s] = Cardinality(Holders(s)')
    BY <1>b DEF PinInv, Holders
<1>1. ASSUME NEW t \in Threads, NEW n \in 1..MaxBatch, ReserveSeq(t, n) PROVE PinInv'
    BY Zenon, <1>1, <1>b DEF ReserveSeq, pinVars, PinInv
<1>2. ASSUME NEW t \in Threads, Apply(t) PROVE PinInv'
  <2>1. UNCHANGED <<visible, gc_floor, held, reads, snapshots>>
      BY <1>2 DEF Apply, pinVars
  <2>2. batch[t].range.start \in Nat /\ visible < batch[t].range.start
      BY <1>2 DEF Apply, BatchInv, Unpublished, TypeOK, Ranges
  <2>3. versions \subseteq versions'
      BY <1>2 DEF Apply
  <2>4. \/ versions' = versions
        \/ \E s \in Nat : batch[t].range.start <= s /\ versions' = versions \cup {s}
      BY <1>2, PublicationAssumption DEF Apply, Seqs
  <2>5. ASSUME NEW w \in versions', w \notin versions PROVE w \in Nat /\ visible < w
      BY <2>2, <2>4, <2>5, <1>a
  <2>6. ASSUME NEW p \in Pins, held[p] # NoPin
        PROVE  /\ reads[p].saw \in versions' \cup {0}
               /\ \A w \in versions' : w <= held[p] => w <= reads[p].saw
    <3>1. /\ reads[p].saw \in versions \cup {0}
          /\ \A w \in versions : w <= held[p] => w <= reads[p].saw
          /\ held[p] <= visible
        BY <2>6 DEF PinInv
    <3>2. ASSUME NEW w \in versions', w <= held[p] PROVE w <= reads[p].saw
      <4>1. CASE w \in versions
          BY <3>1, <3>2, <4>1
      <4>2. CASE w \notin versions
        <5>1. w \in Nat /\ visible < w
            BY <2>5, <4>2
        <5>2. held[p] \in Nat /\ visible \in Nat
            BY <2>6, <1>a
        <5>3. QED
            BY <3>1, <3>2, <5>1, <5>2
      <4>3. QED
          BY <4>1, <4>2
    <3>3. QED
        BY <3>1, <3>2, <2>3
  <2>7. QED
      BY <2>1, <2>6, <1>b DEF PinInv
<1>3. ASSUME NEW t \in Threads, PublishRange(t) PROVE PinInv'
  <2>1. UNCHANGED <<gc_floor, held, reads, snapshots, versions>>
      BY <1>3 DEF PublishRange, pinVars
  <2>2. visible' \in Nat /\ visible <= visible'
      BY <1>3 DEF PublishRange, BatchInv, TypeOK
  <2>3. QED
      BY <2>1, <2>2, <1>a, <1>b DEF PinInv
<1>4. ASSUME NEW t \in Threads, NoteThreadCommit(t) PROVE PinInv'
    BY <1>4, <1>b DEF NoteThreadCommit, pinVars, PinInv
<1>5. ASSUME NEW p \in Pins, NEW at \in Seqs, visible <= at, AcquireVisible(p, at)
      PROVE PinInv'
  <2>1. /\ held[p] = NoPin
        /\ held' = [held EXCEPT ![p] = visible]
        /\ snapshots' = [snapshots EXCEPT ![visible] = @ + 1]
        /\ UNCHANGED <<visible, gc_floor, versions>>
      BY <1>5 DEF AcquireVisible, pubVars
  <2>2. PICK v \in Seqs : /\ Newest(versions, at, v)
                          /\ reads' = [reads EXCEPT ![p] = [at |-> at, saw |-> v]]
      BY Zenon, <1>5 DEF AcquireVisible
  <2>3. ASSUME NEW s \in Seqs PROVE snapshots'[s] = Cardinality(Holders(s)')
    <3>1. IsFiniteSet(Holders(s))
        BY FS_Subset DEF Holders
    <3>2. CASE s = visible
      <4>1. Holders(s)' = Holders(s) \cup {p} /\ p \notin Holders(s)
          BY <2>1, <3>2, <1>a DEF Holders, TypeOK
      <4>2. Cardinality(Holders(s)') = Cardinality(Holders(s)) + 1
          BY Zenon, <3>1, <4>1, FS_AddElement
      <4>3. QED
          BY <2>1, <3>2, <4>2 DEF PinInv, TypeOK
    <3>3. CASE s # visible
      <4>1. Holders(s)' = Holders(s)
          BY <2>1, <3>3 DEF Holders, TypeOK, Seqs
      <4>2. QED
          BY <2>1, <3>3, <4>1 DEF PinInv, TypeOK
    <3>4. QED
        BY <3>2, <3>3
  <2>4. ASSUME NEW q \in Pins, held'[q] # NoPin
        PROVE /\ gc_floor <= held'[q]
              /\ held'[q] <= visible
              /\ held'[q] <= reads'[q].at
              /\ reads'[q].saw <= reads'[q].at
              /\ reads'[q].saw \in versions \cup {0}
              /\ \A w \in versions : w <= held'[q] => w <= reads'[q].saw
    <3>1. CASE q = p
      <4>1. held'[q] = visible /\ reads'[q].at = at /\ reads'[q].saw = v
          BY Zenon, <2>1, <2>2, <3>1 DEF TypeOK
      <4>2. QED
          BY <4>1, <2>2, <1>5, <1>a DEF Newest, PinInv, Seqs
    <3>2. CASE q # p
      <4>1. held'[q] = held[q] /\ reads'[q] = reads[q]
          BY <2>1, <2>2, <3>2 DEF TypeOK
      <4>2. QED
          BY <4>1, <2>4 DEF PinInv
    <3>3. QED
        BY <3>1, <3>2
  <2>5. QED
      BY <2>1, <2>3, <2>4 DEF PinInv
<1>6. ASSUME NEW p \in Pins, ReleaseSnapshot(p) PROVE PinInv'
  <2>1. /\ held[p] \in Seqs
        /\ held' = [held EXCEPT ![p] = NoPin]
        /\ snapshots' = [snapshots EXCEPT ![held[p]] = @ - 1]
        /\ reads' = [reads EXCEPT ![p] = [at |-> 0, saw |-> 0]]
        /\ UNCHANGED <<visible, gc_floor, versions>>
      BY Zenon, <1>6 DEF ReleaseSnapshot, pubVars, TypeOK
  <2>2. ASSUME NEW s \in Seqs PROVE snapshots'[s] = Cardinality(Holders(s)')
    <3>1. IsFiniteSet(Holders(s))
        BY Zenon, FS_Subset DEF Holders
    <3>2. CASE s = held[p]
      <4>1. Holders(s)' = Holders(s) \ {p} /\ p \in Holders(s)
          BY <2>1, <3>2 DEF Holders, TypeOK, Seqs
      <4>2. Cardinality(Holders(s)') = Cardinality(Holders(s)) - 1
          BY ZenonT(60), <3>1, <4>1, FS_RemoveElement
      <4>3. QED
          BY <2>1, <3>2, <4>2 DEF PinInv, TypeOK
    <3>3. CASE s # held[p]
      <4>1. Holders(s)' = Holders(s)
          BY <2>1, <3>3 DEF Holders, TypeOK, Seqs
      <4>2. QED
          BY <2>1, <3>3, <4>1 DEF PinInv, TypeOK
    <3>4. QED
        BY <3>2, <3>3
  <2>3. \A q \in Pins : held'[q] # NoPin => held'[q] = held[q] /\ reads'[q] = reads[q]
      BY <2>1 DEF TypeOK
  <2>4. QED
      BY <2>1, <2>2, <2>3 DEF PinInv
<1>7. CASE FreezeGcFloor
  <2>1. UNCHANGED <<visible, held, reads, snapshots, versions>>
      BY <1>7 DEF FreezeGcFloor, pubVars, pinVars
  <2>2. PICK s \in Seqs : OldestSnapshot(s) /\ gc_floor' = s
      BY <1>7 DEF FreezeGcFloor
  <2>3. ASSUME NEW q \in Pins, held[q] # NoPin PROVE snapshots[held[q]] > 0
    <3>1. held[q] \in Seqs /\ q \in Holders(held[q])
        BY <2>3 DEF Holders, TypeOK
    <3>2. IsFiniteSet(Holders(held[q]))
        BY FS_Subset DEF Holders
    <3>3. Cardinality(Holders(held[q])) # 0
        BY <3>1, <3>2, FS_EmptySet
    <3>4. QED
        BY <3>1, <3>3 DEF PinInv, TypeOK
  <2>4. \A q \in Pins : held[q] # NoPin => s <= held[q]
      BY <2>2, <2>3 DEF OldestSnapshot, TypeOK, Seqs
  <2>5. s <= visible
    <3>1. CASE snapshots[s] > 0
      <4>1. Holders(s) # {}
          BY <3>1, FS_EmptySet DEF PinInv
      <4>2. PICK q \in Pins : held[q] = s
          BY <4>1 DEF Holders
      <4>3. QED
          BY <4>2 DEF PinInv, Seqs
    <3>2. QED
        BY <2>2, <3>1, <1>a DEF OldestSnapshot
  <2>6. QED
      BY <2>1, <2>2, <2>4, <2>5, <1>b DEF PinInv
<1>8. CASE Compact
  <2>1. UNCHANGED <<visible, gc_floor, held, reads, snapshots>>
      BY <1>8 DEF Compact, pubVars, pinVars
  <2>2. PICK inputs \in SUBSET versions :
           versions' = (versions \ inputs) \cup Retained(inputs, gc_floor)
      BY <1>8 DEF Compact
  <2>3. versions' \subseteq versions
      BY <2>2 DEF Retained
  <2>4. ASSUME NEW q \in Pins, held[q] # NoPin PROVE reads[q].saw \in versions' \cup {0}
    <3>1. SUFFICES ASSUME reads[q].saw \in inputs PROVE reads[q].saw \in Retained(inputs, gc_floor)
        BY Zenon, <2>2, <2>4 DEF PinInv
    <3>2. \A w \in inputs : ~ (reads[q].saw < w /\ w <= gc_floor)
        BY <2>4, <1>a DEF PinInv
    <3>3. QED
        BY Zenon, <3>1, <3>2 DEF Retained
  <2>5. QED
      BY <2>1, <2>3, <2>4, <1>b DEF PinInv
<1>9. CASE UNCHANGED vars
    BY <1>9, <1>b DEF vars, pubVars, pinVars, PinInv
<1>10. ASSUME NEW p \in Pins, NEW t \in Threads,
              AcquireFixed(p, t) \/ AcquireExpired(p, t) \/ PinReadFloor(p, t)
       PROVE PinInv'
    BY <1>5, <1>10 DEF AcquireFixed, AcquireExpired, PinReadFloor, TypeOK, Seqs
<1>11. QED
    BY <1>1, <1>2, <1>3, <1>4, <1>6, <1>7, <1>8, <1>9, <1>10 DEF Next, Commit, Read

(* Every reachable state satisfies the inductive invariant.                 *)
THEOREM Inductive == Spec => []IndInv
<1>1. IndInv /\ [Next]_vars => IndInv'
    BY TypeStep, BatchStep, PinStep DEF IndInv
<1>2. QED
    BY InitInv, <1>1, PTL DEF Spec

(* The state of DbInner keeps its types.                                    *)
THEOREM TypeCorrect == Spec => []TypeOK
<1>1. IndInv => TypeOK
    BY DEF IndInv
<1>2. QED
    BY Inductive, <1>1, PTL

(* publish_range is gap-free: no reader's watermark ever covers a commit    *)
(* that has reserved its sequences and not published them, for any number   *)
(* of committing threads and any batch sizes.                               *)
THEOREM GapFree == Spec => []InFlightInvisible
<1>1. IndInv => InFlightInvisible
  <2>1. SUFFICES ASSUME IndInv, NEW t \in Threads, Unpublished(t)
                 PROVE  visible < batch[t].range.start
      BY DEF InFlightInvisible
  <2>2. batch[t].range \in Ranges /\ cursor <= batch[t].range.start
      BY <2>1 DEF IndInv, BatchInv, Unpublished
  <2>3. QED
      BY <2>1, <2>2 DEF IndInv, BatchInv, TypeOK, Ranges
<1>2. QED
    BY Inductive, <1>1, PTL

(* acquire_fixed_snapshot: a snapshot registered at the watermark reads the *)
(* same version until it is released, for any number of readers and of      *)
(* committing threads.  (An ingestion publishes its sequence before it      *)
(* installs its tables, ingest.rs:14-17, and is not one of them.)           *)
THEOREM SnapshotsAreStable == Spec => []SnapshotStable
<1>1. IndInv => SnapshotStable
  <2>1. SUFFICES ASSUME IndInv, NEW p \in Pins, held[p] # NoPin, reads[p].at = held[p]
                 PROVE  Newest(versions, held[p], reads[p].saw)
      BY DEF SnapshotStable
  <2>2. QED
      BY <2>1 DEF IndInv, PinInv, Newest
<1>2. QED
    BY Inductive, <1>1, PTL

(* pin_read_floor: pinning the watermark protects a read at a higher floor. *)
THEOREM ReadFloorsAreKept == Spec => []ReadFloorKept
<1>1. IndInv => ReadFloorKept
    BY DEF IndInv, PinInv, ReadFloorKept
<1>2. QED
    BY Inductive, <1>1, PTL

(* The watermark a reader pins never moves backwards.                       *)
THEOREM WatermarkMonotone == Spec => VisibleMonotone
<1>1. IndInv /\ [Next]_vars => [visible' >= visible]_vars
  <2> SUFFICES ASSUME IndInv, [Next]_vars PROVE visible' >= visible \/ UNCHANGED vars
      OBVIOUS
  <2>1. visible \in Nat /\ cursor \in Nat /\ visible = cursor - 1
      BY DEF IndInv, TypeOK, BatchInv, Seqs
  <2>2. ASSUME NEW t \in Threads, PublishRange(t) PROVE visible' >= visible
      BY <2>1, <2>2 DEF PublishRange
  <2>3. CASE visible' = visible
      BY <2>1, <2>3
  <2>4. QED
      BY <2>2, <2>3 DEF Next, Commit, Read, ReserveSeq, Apply, NoteThreadCommit,
         AcquireFixed, AcquireExpired, PinReadFloor, AcquireVisible, ReleaseSnapshot,
         FreezeGcFloor, Compact, pubVars
<1>2. QED
    BY Inductive, <1>1, PTL DEF Spec, VisibleMonotone
=============================================================================
