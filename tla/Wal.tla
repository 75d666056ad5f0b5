------------------------------- MODULE Wal -------------------------------
(***************************************************************************)
(* One WAL generation (src/wal.rs): its stripe files, the user-space write *)
(* buffer, group commit under SyncMode::Full, the interval thread, sync,   *)
(* close, a crash of the process or of the machine, and the replay that    *)
(* follows.  A frame is kept as the fields its payload holds, in order, so *)
(* that replay decodes what the append encoded.                            *)
(***************************************************************************)
EXTENDS Integers, Sequences, FiniteSets, Functions

CONSTANTS
    Committers,     \* threads that append, numbered from 0: my_stripe's slots
    WAL_STRIPES,    \* stripe files of a generation outside SyncMode::Full
    WalBatches,     \* the i-th frame appended carries WalBatches[i]
    WalBufferCap,   \* frames a stripe buffer holds when buffering is on
    MaxWalFaults    \* failing writes and fsyncs of one behaviour

ASSUME WalAssumption ==
    /\ Committers \subseteq Nat
    /\ WAL_STRIPES \in Nat \ {0}
    /\ WalBufferCap \in Nat

VARIABLES
    walMode,        \* [sync, cap]: fixed when the database is opened
    stripes,        \* generation -> stripe -> [head, file, synced, suspect, buf, open]
    walNow,         \* the generation whose handle the family holds
    walSwap,        \* the rotation: [pc, k]
    walDirty,       \* generation -> Shared.dirty
    walBuffered,    \* generation -> Shared.buffered
    groupQueue,     \* qstate.queue: committers whose frame waits for a leader
    groupFlushing,  \* qstate.flushing
    committer,      \* per committer: where its call stands
    ticker,         \* generation -> its onda-wal-sync thread: [pc, k]
    walPoison,      \* the database-wide fail-stop flag
    nextFrame,      \* frames submitted so far
    acked,          \* frames whose append returned Ok
    promised,       \* [process, machine, syncWal]: frames owed after a crash
    walFaults       \* faults spent

walVars == <<walMode, stripes, walNow, walSwap, walDirty, walBuffered, groupQueue,
             groupFlushing, committer, ticker, walPoison, nextFrame, acked, promised,
             walFaults>>

---------------------------------------------------------------------------
(* Payloads.  A varint is one field, and a slot's bytes are a sequence.    *)

KIND_PUT == 1
KIND_DELETE == 2
KIND_SINGLE_DELETE == 3
KIND_MERGE == 4
KIND_RANGE_DELETE == 5
KIND_PREPARE == 16
KIND_COMMIT_DECISION == 17
KIND_ABORT_DECISION == 18
ENVELOPE_TAG == 255

PointKinds == {KIND_PUT, KIND_DELETE, KIND_SINGLE_DELETE}
ControlKinds == {KIND_PREPARE, KIND_COMMIT_DECISION, KIND_ABORT_DECISION}
DataKinds == PointKinds \cup {KIND_MERGE, KIND_RANGE_DELETE}

HAS_TTL == 2

\* The flags byte of a point record: TOMBSTONE 1, HAS_TTL 2, SINGLE_DELETE 16.
normalized_entry_flags(r) ==
    (CASE r.kind = KIND_PUT -> 0
       [] r.kind = KIND_DELETE -> 1
       [] r.kind = KIND_SINGLE_DELETE -> 17) + (IF r.ttl # 0 THEN HAS_TTL ELSE 0)

FieldsAfterKind(r) ==
    <<Len(r.a), Len(r.b), r.seq>> \o (IF r.ttl # 0 THEN <<r.ttl>> ELSE <<>>) \o r.a \o r.b

encode_record_body(r) == <<normalized_entry_flags(r)>> \o FieldsAfterKind(r)

encode_envelope_record(r) ==
    <<r.kind, IF r.ttl # 0 THEN HAS_TTL ELSE 0>> \o FieldsAfterKind(r)

\* The records of a batch, one after the other.
Concatenated(parts) ==
    LET first[n \in 0 .. Len(parts)] == IF n = 0 THEN <<>> ELSE first[n - 1] \o parts[n]
    IN  first[Len(parts)]

\* schema 0 is the flags-byte stream, which only holds point kinds.
encode_frame(schema, recs) ==
    IF schema = 0
    THEN Concatenated([i \in DOMAIN recs |-> encode_record_body(recs[i])])
    ELSE <<ENVELOPE_TAG, schema, Len(recs)>>
             \o Concatenated([i \in DOMAIN recs |-> encode_envelope_record(recs[i])])

append_prepare(id, cfIds, recs) ==
    <<[kind |-> KIND_PREPARE, seq |-> 0, ttl |-> 0, a |-> id, b |-> cfIds]>>
        \o [i \in DOMAIN recs |-> [recs[i] EXCEPT !.seq = 0]]

append_decision(id, commit) ==
    <<[kind |-> IF commit = <<>> THEN KIND_ABORT_DECISION ELSE KIND_COMMIT_DECISION,
       seq |-> 0, ttl |-> 0, a |-> id, b |-> commit]>>

\* The fields after a record's kind, from position at: the record and its end.
DecodeSlots(p, at, kind, hasTtl) ==
    LET skip == IF hasTtl THEN 1 ELSE 0
        body == at + 3 + skip
        end == body + p[at] + p[at + 1]
    IN  [rec |-> [kind |-> kind, seq |-> p[at + 2], ttl |-> IF hasTtl THEN p[at + 3] ELSE 0,
                  a |-> SubSeq(p, body, body + p[at] - 1),
                  b |-> SubSeq(p, body + p[at], end - 1)],
         end |-> end]

decode_record(p, at) ==
    LET fl == p[at]
        bare == IF fl \in {2, 3, 19} THEN fl - HAS_TTL ELSE fl
        kind == CASE bare = 0 -> KIND_PUT [] bare = 1 -> KIND_DELETE
                  [] bare = 17 -> KIND_SINGLE_DELETE
    IN  DecodeSlots(p, at + 1, kind, fl # bare)

decode_raw_record(p, at) == DecodeSlots(p, at + 2, p[at], p[at + 1] = HAS_TTL)

DecodeRun(p, at, enveloped) ==
    LET run[i \in 1..(Len(p) + 1)] ==
            IF i > Len(p) THEN <<>>
            ELSE LET d == IF enveloped THEN decode_raw_record(p, i) ELSE decode_record(p, i)
                 IN  <<d.rec>> \o run[d.end]
    IN  run[at]

\* A control frame is one unit: every record carries sequence 0, a prepare
\* holds points and merge operands only, a decision stands alone.
decode_control_frame(recs) ==
    IF /\ \A i \in DOMAIN recs : recs[i].seq = 0
       /\ IF recs[1].kind = KIND_PREPARE
          THEN \A i \in 2..Len(recs) : recs[i].kind \in PointKinds \cup {KIND_MERGE}
          ELSE /\ Len(recs) = 1
               /\ Len(recs[1].b) = IF recs[1].kind = KIND_ABORT_DECISION THEN 0 ELSE 2
    THEN recs ELSE <<"corrupt">>

decode_envelope(p) ==
    LET recs == DecodeRun(p, 4, TRUE)
    IN  IF Len(recs) # p[3] THEN <<"corrupt">>
        ELSE IF recs[1].kind \in ControlKinds THEN decode_control_frame(recs)
        ELSE IF \E i \in DOMAIN recs : recs[i].kind \notin DataKinds THEN <<"corrupt">>
        ELSE recs

decode_frame_payload(p) ==
    IF p[1] = ENVELOPE_TAG THEN decode_envelope(p) ELSE DecodeRun(p, 1, FALSE)

---------------------------------------------------------------------------
(* Files.  A stripe file lists the numbers of the frames written to it;    *)
(* Torn stands for a frame of which only some bytes landed.                *)

Torn == 0
WalGensKept == {1, 2}
StripeFiles == 0..(IF walMode.sync = "Full" THEN 0 ELSE WAL_STRIPES - 1)
Absent == [head |-> "absent", file |-> <<>>, synced |-> 0, suspect |-> FALSE,
           buf |-> <<>>, open |-> FALSE]
OpenSegment == [Absent EXCEPT !.head = "valid", !.open = TRUE]
AtRest == [pc |-> "idle", k |-> 0]
NoAppend == [pc |-> "idle", frame |-> 0, gen |-> 0, k |-> 0, covers |-> {}, batch |-> <<>>]

my_stripe(c) == c % Cardinality(StripeFiles)
FinalStripe(k) == k + 1 \notin StripeFiles

\* What a failing write_all of fs may leave: a run of whole frames, perhaps
\* followed by part of the next one.
Landed(fs) ==
    LET runs == {SubSeq(fs, 1, i) : i \in 0..(Len(fs) - 1)}
    IN  runs \cup {Append(r, Torn) : r \in runs}

FramesIn(file) == {file[i] : i \in DOMAIN file} \ {Torn}
\* Frames a reader that stops at the first torn frame still finds.
Readable(file) == {file[i] : i \in {j \in DOMAIN file : \A l \in 1..j : file[l] # Torn}}

Flushed(st) == [st EXCEPT !.file = @ \o st.buf, !.buf = <<>>]
\* sync_data: it covers what the OS holds, unless an earlier one failed.
Fsynced(st) == IF st.suspect THEN st ELSE [st EXCEPT !.synced = Len(st.file)]
FsyncFailed(st) == [st EXCEPT !.suspect = TRUE]
Durable(st) == FramesIn(SubSeq(st.file, 1, st.synced))

WalFault == walFaults < MaxWalFaults /\ walFaults' = walFaults + 1
NoWalFault == UNCHANGED walFaults

WalInit ==
    /\ walMode \in [sync : {"None", "Interval", "Full"}, cap : {0, WalBufferCap}]
    /\ walMode.sync = "Full" => walMode.cap = 0
    /\ stripes = [g \in WalGensKept |-> [k \in 0..(WAL_STRIPES - 1) |->
                    IF g = 1 /\ k \in StripeFiles THEN OpenSegment ELSE Absent]]
    /\ walNow = 1
    /\ walSwap = AtRest
    /\ walDirty = [g \in WalGensKept |-> FALSE]
    /\ walBuffered = [g \in WalGensKept |-> FALSE]
    /\ groupQueue = <<>>
    /\ groupFlushing = FALSE
    /\ committer = [c \in Committers |-> NoAppend]
    /\ ticker = [g \in WalGensKept |-> AtRest]
    /\ walPoison = FALSE
    /\ nextFrame = 0
    /\ acked = {}
    /\ promised = [process |-> {}, machine |-> {}, syncWal |-> {}]
    /\ walFaults = 0

---------------------------------------------------------------------------
(* submit_frame outside SyncMode::Full: one critical section of the        *)
(* committer's stripe.                                                     *)

Appending(c) == committer[c].pc \in {"waiting", "leading", "writing", "answering"}
\* A commit starts past the poison check and the rotation gate.
Admitted(c) ==
    /\ ~walPoison
    /\ walSwap.pc # "closing"
    /\ committer[c].pc = "idle"
    /\ nextFrame < Len(WalBatches)

SetStripe(g, k, st) == stripes' = [stripes EXCEPT ![g][k] = st]
Owe(field, fs) == promised' = [promised EXCEPT ![field] = @ \cup fs]

WriteThrough(c) ==
    LET f == nextFrame + 1
        k == my_stripe(c)
        st == stripes[walNow][k]
    IN  /\ Admitted(c)
        /\ walMode.sync # "Full"
        /\ walMode.cap = 0
        /\ nextFrame' = f
        /\ \/ /\ NoWalFault
              /\ SetStripe(walNow, k, [st EXCEPT !.file = Append(@, f)])
              /\ acked' = acked \cup {f}
              /\ Owe("process", IF Torn \in Range(st.file) THEN {} ELSE {f})
              /\ walDirty' = [walDirty EXCEPT ![walNow] = @ \/ walMode.sync = "Interval"]
           \/ \* write_all fails: an error, no poison
              /\ WalFault
              /\ \E l \in Landed(<<f>>) : SetStripe(walNow, k, [st EXCEPT !.file = @ \o l])
              /\ UNCHANGED <<acked, promised, walDirty>>
        /\ UNCHANGED <<walMode, walNow, walSwap, walBuffered, groupQueue, groupFlushing,
                       committer, ticker, walPoison>>

\* The buffered form: make room, then buffer the frame, or write one too big
\* to coalesce straight to the file.
WriteBuffered(c) ==
    LET f == nextFrame + 1
        k == my_stripe(c)
        st == stripes[walNow][k]
        size == WalBatches[f].size
        room == IF st.buf # <<>> /\ Len(st.buf) + size > walMode.cap THEN Flushed(st) ELSE st
        big == size >= walMode.cap
        end == IF big THEN [room EXCEPT !.file = Append(@, f)] ELSE [room EXCEPT !.buf = Append(@, f)]
    IN  /\ Admitted(c)
        /\ walMode.sync # "Full"
        /\ walMode.cap > 0
        /\ nextFrame' = f
        /\ \/ /\ NoWalFault
              /\ SetStripe(walNow, k, end)
              /\ acked' = acked \cup {f}
              /\ Owe("process", Readable(end.file))
              /\ walBuffered' = [walBuffered EXCEPT ![walNow] = @ \/ ~big]
              /\ walDirty' = [walDirty EXCEPT ![walNow] = @ \/ walMode.sync = "Interval"]
              /\ UNCHANGED walPoison
           \/ \* flush_stripe fails: the buffer is dropped and the database poisoned
              /\ WalFault
              /\ room # st
              /\ \E l \in Landed(st.buf) :
                    SetStripe(walNow, k, [st EXCEPT !.file = @ \o l, !.buf = <<>>])
              /\ walPoison' = TRUE
              /\ UNCHANGED <<acked, promised, walBuffered, walDirty>>
           \/ \* the direct write of a big frame fails
              /\ WalFault
              /\ big
              /\ \E l \in Landed(<<f>>) : SetStripe(walNow, k, [room EXCEPT !.file = @ \o l])
              /\ UNCHANGED <<acked, promised, walBuffered, walDirty, walPoison>>
        /\ UNCHANGED <<walMode, walNow, walSwap, groupQueue, groupFlushing, committer,
                       ticker>>

---------------------------------------------------------------------------
(* Group commit under SyncMode::Full.                                      *)

\* Push the frame; the first committer to find nobody flushing leads.
Enqueue(c) ==
    /\ Admitted(c)
    /\ walMode.sync = "Full"
    /\ nextFrame' = nextFrame + 1
    /\ groupQueue' = Append(groupQueue, c)
    /\ groupFlushing' = TRUE
    /\ committer' = [committer EXCEPT ![c] =
                       [NoAppend EXCEPT !.pc = IF groupFlushing THEN "waiting" ELSE "leading",
                                        !.frame = nextFrame + 1]]
    /\ UNCHANGED <<walMode, stripes, walNow, walSwap, walDirty, walBuffered, ticker,
                   walPoison, acked, promised, walFaults>>

\* The leader takes every queued request.
TakeGroup(c) ==
    /\ committer[c].pc = "leading"
    /\ committer' = [committer EXCEPT ![c].pc = "writing", ![c].batch = groupQueue]
    /\ groupQueue' = <<>>
    /\ UNCHANGED <<walMode, stripes, walNow, walSwap, walDirty, walBuffered, groupFlushing,
                   ticker, walPoison, nextFrame, acked, promised, walFaults>>

\* The group's one sync_data.
GroupSynced(st) == Fsynced(st)

\* flush_group: every frame of the group, then one fsync.
flush_group(c) ==
    LET batch == committer[c].batch
        fs == [i \in DOMAIN batch |-> committer[batch[i]].frame]
        st == stripes[walNow][0]
        written == [st EXCEPT !.file = @ \o fs]
        Answer(ok) == committer' = [committer EXCEPT ![c].pc = "answering", ![c].k = IF ok THEN 0 ELSE 1]
    IN  /\ committer[c].pc = "writing"
        /\ \/ /\ NoWalFault
              /\ SetStripe(walNow, 0, GroupSynced(written))
              /\ UNCHANGED walPoison
              /\ Answer(TRUE)
           \/ /\ WalFault   \* a write fails: an error for the whole group, no poison
              /\ \E l \in Landed(fs) : SetStripe(walNow, 0, [st EXCEPT !.file = @ \o l])
              /\ UNCHANGED walPoison
              /\ Answer(FALSE)
           \/ /\ WalFault
              /\ SetStripe(walNow, 0, FsyncFailed(written))
              /\ walPoison' = TRUE
              /\ Answer(FALSE)
        /\ UNCHANGED <<walMode, walNow, walSwap, walDirty, walBuffered, groupQueue,
                       groupFlushing, ticker, nextFrame, acked, promised>>

NeverMore == FALSE
\* The queue is looked at again, under its lock, before flushing is cleared.
MoreQueued == groupQueue # <<>>

\* The leader answers its group; it leads again if more was queued meanwhile.
AnswerGroup(c) ==
    LET batch == Range(committer[c].batch)
        fs == {committer[b].frame : b \in batch}
        ok == committer[c].k = 0
    IN  /\ committer[c].pc = "answering"
        /\ committer' = [d \in Committers |->
               IF d = c /\ MoreQueued THEN [committer[c] EXCEPT !.pc = "leading", !.batch = <<>>]
               ELSE IF d \in batch \cup {c} THEN NoAppend ELSE committer[d]]
        /\ groupFlushing' = MoreQueued
        /\ acked' = IF ok THEN acked \cup fs ELSE acked
        /\ promised' = IF ok /\ ~walPoison
              THEN [promised EXCEPT !.process = @ \cup (fs \cap Readable(stripes[walNow][0].file)),
                                    !.machine = @ \cup (fs \cap Readable(stripes[walNow][0].file))]
              ELSE promised
        /\ UNCHANGED <<walMode, stripes, walNow, walSwap, walDirty, walBuffered, groupQueue,
                       ticker, walPoison, nextFrame, walFaults>>

---------------------------------------------------------------------------
(* DB::sync_wal: the family's current handle, cloned, then Wal::sync.      *)

SyncBegin(c) ==
    /\ ~walPoison
    /\ committer[c].pc = "idle"
    /\ committer' = [committer EXCEPT ![c] =
                      [NoAppend EXCEPT !.pc = "syncing", !.gen = walNow, !.covers = acked]]
    /\ walDirty' = [walDirty EXCEPT ![walNow] = FALSE]
    /\ walBuffered' = [walBuffered EXCEPT ![walNow] = FALSE]
    /\ UNCHANGED <<walMode, stripes, walNow, walSwap, groupQueue, groupFlushing, ticker,
                   walPoison, nextFrame, acked, promised, walFaults>>

\* One stripe: flush its buffer, then fsync it.  The last one returns Ok.
SyncStripe(c) ==
    LET call == committer[c]
        st == stripes[call.gen][call.k]
        mine == UNION {FramesIn(stripes[call.gen][k].file) : k \in StripeFiles}
        done == call.covers \cap mine \cap UNION {Readable(stripes'[call.gen][k].file) : k \in StripeFiles}
    IN  /\ call.pc = "syncing"
        /\ \/ /\ ~st.open      \* "wal closed"
              /\ NoWalFault
              /\ committer' = [committer EXCEPT ![c] = NoAppend]
              /\ UNCHANGED <<stripes, walPoison, promised>>
           \/ /\ st.open
              /\ NoWalFault
              /\ SetStripe(call.gen, call.k, Fsynced(Flushed(st)))
              /\ UNCHANGED walPoison
              /\ IF FinalStripe(call.k)
                 THEN /\ committer' = [committer EXCEPT ![c] = NoAppend]
                      /\ promised' = IF walPoison THEN promised ELSE
                           [process |-> promised.process \cup done,
                            machine |-> promised.machine \cup done,
                            syncWal |-> promised.syncWal \cup call.covers]
                 ELSE /\ committer' = [committer EXCEPT ![c].k = @ + 1]
                      /\ UNCHANGED promised
           \/ /\ st.open
              /\ WalFault
              /\ \/ SetStripe(call.gen, call.k, FsyncFailed(Flushed(st)))
                 \/ \E l \in Landed(st.buf) :
                        SetStripe(call.gen, call.k, [st EXCEPT !.file = @ \o l, !.buf = <<>>])
              /\ walPoison' = TRUE
              /\ committer' = [committer EXCEPT ![c] = NoAppend]
              /\ UNCHANGED promised
        /\ UNCHANGED <<walMode, walNow, walSwap, walDirty, walBuffered, groupQueue,
                       groupFlushing, ticker, nextFrame, acked>>

---------------------------------------------------------------------------
(* interval_sync: flush_buffers, then sync_dirty_files.                    *)

HasTicker == walMode.sync = "Interval" \/ walMode.cap > 0
TickerAt(g, pc, k) == ticker' = [ticker EXCEPT ![g] = [pc |-> pc, k |-> k]]
\* The next stripe of a pass, or what follows the last one.
TickerOn(g, pc, after) ==
    LET k == ticker[g].k
    IN  IF FinalStripe(k) THEN TickerAt(g, after, 0) ELSE TickerAt(g, pc, k + 1)

Tick(g) ==
    /\ HasTicker
    /\ stripes[g][0].open
    /\ ticker[g].pc = "idle"
    /\ walBuffered[g] \/ walDirty[g]
    /\ TickerAt(g, IF walBuffered[g] THEN "flush" ELSE "swap", 0)
    /\ walBuffered' = [walBuffered EXCEPT ![g] = FALSE]
    /\ UNCHANGED <<walMode, stripes, walNow, walSwap, walDirty, groupQueue, groupFlushing,
                   committer, walPoison, nextFrame, acked, promised, walFaults>>

flush_buffers(g) ==
    LET k == ticker[g].k
        st == stripes[g][k]
    IN  /\ ticker[g].pc = "flush"
        /\ TickerOn(g, "flush", "swap")
        /\ \/ /\ NoWalFault
              /\ SetStripe(g, k, Flushed(st))
              /\ Owe("process", Readable(Flushed(st).file))
              /\ UNCHANGED walPoison
           \/ /\ WalFault
              /\ \E l \in Landed(st.buf) : SetStripe(g, k, [st EXCEPT !.file = @ \o l, !.buf = <<>>])
              /\ walPoison' = TRUE
              /\ UNCHANGED promised
        /\ UNCHANGED <<walMode, walNow, walSwap, walDirty, walBuffered, groupQueue,
                       groupFlushing, committer, nextFrame, acked>>

\* The dirty flag is taken before the fsyncs it asks for.
TakeDirty(g) ==
    /\ ticker[g].pc = "swap"
    /\ IF walMode.sync = "Interval" /\ walDirty[g]
       THEN /\ TickerAt(g, "sync", 0)
            /\ walDirty' = [walDirty EXCEPT ![g] = FALSE]
       ELSE /\ TickerAt(g, "idle", 0)
            /\ UNCHANGED walDirty
    /\ UNCHANGED <<walMode, stripes, walNow, walSwap, walBuffered, groupQueue, groupFlushing,
                   committer, walPoison, nextFrame, acked, promised, walFaults>>

sync_dirty_files(g) ==
    LET k == ticker[g].k
        st == stripes[g][k]
    IN  /\ ticker[g].pc = "sync"
        /\ TickerOn(g, "sync", "idle")
        /\ \/ /\ NoWalFault
              /\ SetStripe(g, k, Fsynced(st))
              /\ UNCHANGED walPoison
           \/ /\ WalFault
              /\ SetStripe(g, k, FsyncFailed(st))
              /\ walPoison' = TRUE
        /\ UNCHANGED <<walMode, walNow, walSwap, walDirty, walBuffered, groupQueue,
                       groupFlushing, committer, nextFrame, acked, promised>>

---------------------------------------------------------------------------
(* A rotation's view of the WAL: open the next generation stripe by stripe *)
(* with a durable header, swap the handles once no append is in flight,    *)
(* close the old one.                                                      *)

\* open_inner on stripe k of generation 2: create, header, fsync.
OpenStripe ==
    /\ walNow = 1 /\ walSwap.pc = "idle"
    /\ walSwap.k \in StripeFiles
    /\ SetStripe(2, walSwap.k, OpenSegment)
    /\ walSwap' = [walSwap EXCEPT !.k = @ + 1]
    /\ UNCHANGED <<walMode, walNow, walDirty, walBuffered, groupQueue, groupFlushing, committer,
                   ticker, walPoison, nextFrame, acked, promised, walFaults>>

\* The new handle is in place; the old one is yet to be closed.
SwapHandles ==
    /\ walNow = 1 /\ walSwap.pc = "idle"
    /\ walSwap.k \notin StripeFiles
    /\ ~\E c \in Committers : Appending(c)
    /\ walNow' = 2
    /\ walSwap' = [pc |-> "closing", k |-> 0]
    /\ UNCHANGED <<walMode, stripes, walDirty, walBuffered, groupQueue, groupFlushing, committer,
                   ticker, walPoison, nextFrame, acked, promised, walFaults>>

\* close: the interval thread is joined, then each stripe is flushed, synced
\* and closed.  Only a failed flush poisons.
CloseStripe ==
    LET k == walSwap.k
        st == stripes[1][k]
        Shut(s) == SetStripe(1, k, [s EXCEPT !.open = FALSE])
    IN  /\ walSwap.pc = "closing"
        /\ ticker[1].pc = "idle"
        /\ walSwap' = IF FinalStripe(k) THEN [pc |-> "closed", k |-> k] ELSE [walSwap EXCEPT !.k = @ + 1]
        /\ \/ /\ NoWalFault
              /\ Shut(Fsynced(Flushed(st)))
              /\ promised' = IF walPoison THEN promised ELSE
                   [promised EXCEPT !.process = @ \cup Readable(Flushed(st).file),
                                    !.machine = @ \cup (acked \cap Readable(Flushed(st).file))]
              /\ UNCHANGED walPoison
           \/ /\ WalFault
              /\ \/ /\ \E l \in Landed(st.buf) : Shut([st EXCEPT !.file = @ \o l, !.buf = <<>>])
                    /\ walPoison' = TRUE
                 \/ /\ Shut(FsyncFailed(Flushed(st)))
                    /\ UNCHANGED walPoison
              /\ UNCHANGED promised
        /\ UNCHANGED <<walMode, walNow, walDirty, walBuffered, groupQueue, groupFlushing,
                       committer, ticker, nextFrame, acked>>

---------------------------------------------------------------------------
(* Crash and replay.                                                       *)

\* What survives of one stripe file: a process crash keeps what the OS was
\* given, a machine crash at least what was fsynced, perhaps more.
Survivors(st, kind) ==
    IF st.head = "absent" THEN {[st EXCEPT !.head = h] : h \in {"absent", "torn"}}
    ELSE IF kind = "process" THEN {[st EXCEPT !.buf = <<>>]}
    ELSE LET kept == {SubSeq(st.file, 1, n) : n \in st.synced..Len(st.file)}
         IN  {[st EXCEPT !.file = f, !.buf = <<>>] : f \in kept \cup {Append(f, Torn) : f \in kept}}

\* check_segment_head, for a file this program wrote: no valid header, no frame.
check_segment_head(st) == IF st.head = "valid" THEN "Valid" ELSE "Empty"

\* What replay decodes from the payload of each frame.
DecodedFrame ==
    [i \in DOMAIN WalBatches |->
        decode_frame_payload(encode_frame(WalBatches[i].schema, WalBatches[i].recs))]

\* replay_frames: whole frames up to the first unreadable one, by number; frame
\* i yields DecodedFrame[i].
replay_frames(file) == Readable(file)

replay_file(st) == IF check_segment_head(st) = "Empty" THEN {} ELSE replay_frames(st.file)

\* replay goes over every stripe of every generation, each file on its own.
\* For each file, what it may yield after a crash of the given kind.
replay(kind) ==
    {{replay_file(st) : st \in Survivors(stripes[gk[1]][gk[2]], kind)}
        : gk \in WalGensKept \X (0..(WAL_STRIPES - 1))}

\* The frames replay yields whatever the crash left, and those it may yield.
SurelyReplayed(yields) == UNION {{b \in UNION y : \A out \in y : b \in out} : y \in yields}
MaybeReplayed(yields) == UNION UNION yields

WalNext ==
    \/ \E c \in Committers :
          \/ WriteThrough(c) \/ WriteBuffered(c)
          \/ Enqueue(c) \/ TakeGroup(c) \/ flush_group(c) \/ AnswerGroup(c)
          \/ SyncBegin(c) \/ SyncStripe(c)
    \/ \E g \in WalGensKept : Tick(g) \/ flush_buffers(g) \/ TakeDirty(g) \/ sync_dirty_files(g)
    \/ OpenStripe \/ SwapHandles \/ CloseStripe

WalSpec == WalInit /\ [][WalNext]_walVars

---------------------------------------------------------------------------
(* Properties.                                                             *)


\* Work left to another thread is always known to one: a queued committer has a
\* leader (submit_frame's hand-over of flushing), and on an unbuffered Interval
\* log an unsynced frame is behind the dirty flag or a pass still under way.
HandoffsHold ==
    /\ groupQueue # <<>> \/ (\E c \in Committers : committer[c].pc = "waiting") =>
          \E c \in Committers : committer[c].pc \in {"leading", "writing", "answering"}
    /\ \A g \in WalGensKept :
          (/\ ~walPoison
           /\ walMode = [sync |-> "Interval", cap |-> 0]
           /\ stripes[g][0].open /\ ~walDirty[g] /\ ticker[g].pc = "idle"
           /\ ~\E c \in Committers : committer[c].pc = "syncing" /\ committer[c].gen = g)
          => \A k \in StripeFiles : FramesIn(stripes[g][k].file) \subseteq Durable(stripes[g][k])

\* sync_wal: "when this returns Ok, every write committed before the call is on
\* disk" (the doc comment of DB::sync_wal).  The handle it syncs may be a
\* rotation's new one while the old one is not yet closed.
SyncWalForces == promised.syncWal \subseteq SurelyReplayed(replay("machine"))
=============================================================================
