----------------------------- MODULE WritePath -----------------------------
(***************************************************************************)
(* The engine's write path: timestamps and the batch gap under             *)
(* batch_mutex_, the WAL buffer with its sequence numbers, the sync worker *)
(* that hardens the buffer by group commit, and the batch commit and abort *)
(* protocols that run against it.  Several threads act:                    *)
(*   Writers    Insert and Delete, with a client waiting on the returned   *)
(*              sequence number;                                           *)
(*   batcher    the thread that applies BatchInsert and commits (bpc);     *)
(*   Aborters   threads that call AbortBatch, which runs WAL::Sync on the  *)
(*              calling thread;                                            *)
(*   Worker     SyncWorkerLoop;                                            *)
(*   the flush worker, which only appends checkpoints here.                *)
(* Memtables, tables and recovery are modelled in Engine and WalRecovery.  *)
(***************************************************************************)
EXTENDS Integers, Sequences, FiniteSets

CONSTANTS
    Writers,      \* threads in Insert or Delete
    Aborters,     \* threads that may call AbortBatch
    Worker,       \* the thread of SyncWorkerLoop
    Batcher,      \* the thread that commits batches
    NoOne,        \* batch_mutex_ is free
    Gap,          \* batch_increment_gap_
    MinSync,      \* kWALMinSyncBytes, in records
    MaxSeq,       \* bound: records that take a sequence number
    MaxBatches    \* bound: batches started

Syncers == Aborters \cup {Worker}

ASSUME ThreadsAssumption ==
    /\ Worker \notin Aborters
    /\ Batcher \notin Syncers
    /\ NoOne \notin Syncers \cup {Batcher}

ASSUME ConfigAssumption ==
    /\ Gap \in Nat \ {0}
    /\ MinSync \in Nat
    /\ MaxSeq \in Nat
    /\ MaxBatches \in Nat

VARIABLES
    global_ts, batch_in_progress, batch_ts, batch_touched, batch_commit_seq,
    batch_mutex,   \* who holds batch_mutex_ across a wait, or NoOne
    write_buf, batch_seq, synced_seq,   \* WAL members
    file,          \* the records written and fsynced, in file order
    sync,          \* per thread inside WAL::Sync: [pc, to_sync, at]
    engine_synced, \* EngineSyncState::synced_seq
    stop,          \* EngineSyncState::should_stop
    op,            \* per writer: [pc, ts, rec], rec its record's number
    bpc,           \* the batcher: "idle", "buffered", "polling", "blocking"
    pending,       \* clients waiting: [rec, seq]
    acked,         \* record numbers whose clients were told "durable"
    visible,       \* timestamps of the batches made visible
    batches        \* how many batches were started (bound)

batchVars == <<batch_in_progress, batch_ts, batch_touched, batch_commit_seq>>
walVars == <<write_buf, batch_seq, synced_seq, file, sync, engine_synced>>
clientVars == <<op, pending, acked>>
vars == <<global_ts, batchVars, batch_mutex, walVars, stop, clientVars, bpc,
          visible, batches>>

Kinds == {"put", "bput", "begin", "commit", "abort", "ckpt"}

\* A WAL record: its kind, its timestamp, and the value of batch_seq_ it
\* raised the log to (0 for the records that do not raise it).
Record == [kind : Kinds, ts : Nat, seq : Nat]

SyncState ==
    [pc : {"idle", "swapped", "written", "exited"}, to_sync : Seq(Record), at : Nat]

OpState == [pc : {"idle", "stamped", "buffered"}, ts : Nat, rec : Nat]

NotSyncing == [pc |-> "idle", to_sync |-> << >>, at |-> 0]

Init ==
    /\ global_ts = 0
    /\ batch_in_progress = FALSE
    /\ batch_ts = 0
    /\ batch_touched = FALSE
    /\ batch_commit_seq = 0
    /\ batch_mutex = NoOne
    /\ write_buf = << >>
    /\ batch_seq = 0
    /\ synced_seq = 0
    /\ file = << >>
    /\ sync = [t \in Syncers |-> NotSyncing]
    /\ engine_synced = 0
    /\ stop = FALSE
    /\ op = [w \in Writers |-> [pc |-> "idle", ts |-> 0, rec |-> 0]]
    /\ bpc = "idle"
    /\ pending = {}
    /\ acked = {}
    /\ visible = {}
    /\ batches = 0

-----------------------------------------------------------------------------
(* The WAL buffer.                                                         *)

\* Buffer, BufferBatchCommit and WriteCheckpoint: append a record and take a
\* sequence number.
BufferNumbered(kind, ts) ==
    /\ batch_seq < MaxSeq
    /\ batch_seq' = batch_seq + 1
    /\ write_buf' = Append(write_buf,
                           [kind |-> kind, ts |-> ts, seq |-> batch_seq + 1])

\* BufferBatchBegin and BufferAbort: append without taking a number.
BufferUnnumbered(kind, ts) ==
    /\ batch_seq' = batch_seq
    /\ write_buf' = Append(write_buf, [kind |-> kind, ts |-> ts, seq |-> 0])

-----------------------------------------------------------------------------
(* Insert and Delete, up to the point where the record is logged.  The     *)
(* timestamp, the record and the sequence number are taken under three     *)
(* separate locks, so other threads may act between them.                  *)

\* The wait loop on batch_cv_ and the clock step.
TakeTs(w) ==
    /\ op[w].pc = "idle"
    /\ ~stop
    /\ batch_mutex = NoOne
    /\ ~(batch_in_progress /\ global_ts + 1 > batch_ts)
    /\ batch_seq + Cardinality({v \in Writers : op[v].pc = "stamped"}) < MaxSeq
    /\ global_ts' = global_ts + 1
    /\ op' = [op EXCEPT ![w] = [pc |-> "stamped", ts |-> global_ts + 1, rec |-> 0]]
    /\ UNCHANGED <<batchVars, batch_mutex, walVars, stop, bpc, pending, acked,
                   visible, batches>>

BufferWrite(w) ==
    /\ op[w].pc = "stamped"
    /\ BufferNumbered("put", op[w].ts)
    /\ op' = [op EXCEPT ![w] = [pc |-> "buffered", ts |-> @.ts, rec |-> batch_seq + 1]]
    /\ UNCHANGED <<global_ts, batchVars, batch_mutex, synced_seq, file, sync,
                   engine_synced, stop, bpc, pending, acked, visible, batches>>

\* Mutant: the number is read before the record is buffered.
TakeSeqBefore(w) ==
    /\ op[w].pc = "buffered"
    /\ \/ pending' = pending \cup {[rec |-> op[w].rec, seq |-> op[w].rec - 1]}
       \/ pending' = pending
    /\ op' = [op EXCEPT ![w] = [pc |-> "idle", ts |-> 0, rec |-> 0]]
    /\ UNCHANGED <<global_ts, batchVars, batch_mutex, walVars, stop, bpc, acked,
                   visible, batches>>

\* CurrentBatchSeq may already include records of other threads: the client
\* then waits for more than its own record.  An asynchronous client does not wait.
TakeSeq(w) ==
    /\ op[w].pc = "buffered"
    /\ \/ pending' = pending \cup {[rec |-> op[w].rec, seq |-> batch_seq]}
       \/ pending' = pending
    /\ op' = [op EXCEPT ![w] = [pc |-> "idle", ts |-> 0, rec |-> 0]]
    /\ UNCHANGED <<global_ts, batchVars, batch_mutex, walVars, stop, bpc, acked,
                   visible, batches>>

\* Mutant: off by one.
CoveredStrictly == {p \in pending : p.seq < engine_synced}

\* checkAndFulfill: every waiting client covered by synced_seq is answered.
Covered == {p \in pending : p.seq <= engine_synced}

Fulfill ==
    /\ Covered # {}
    /\ pending' = pending \ Covered
    /\ acked' = acked \cup {p.rec : p \in Covered}
    /\ UNCHANGED <<global_ts, batchVars, batch_mutex, walVars, stop, op, bpc,
                   visible, batches>>

-----------------------------------------------------------------------------
(* WAL::Sync, in the steps its lock divides it into.  A thread that runs   *)
(* it swaps the buffer out under the lock, writes and fsyncs without the   *)
(* lock, and records the result under the lock again.                      *)

\* Mutant: the buffer is copied, not swapped.
SyncSwapCopy(t) ==
    /\ write_buf # << >>
    /\ sync' = [sync EXCEPT ![t] = [pc |-> "swapped", to_sync |-> write_buf,
                                    at |-> batch_seq]]
    /\ UNCHANGED <<global_ts, batchVars, batch_mutex, write_buf, batch_seq, synced_seq, file,
                   engine_synced, stop, clientVars, bpc, visible, batches>>

\* Mutant: the last record is lost.
SyncSwapShort(t) ==
    /\ write_buf # << >>
    /\ sync' = [sync EXCEPT ![t] = [pc |-> "swapped",
                                    to_sync |-> SubSeq(write_buf, 1, Len(write_buf) - 1),
                                    at |-> batch_seq]]
    /\ write_buf' = << >>
    /\ UNCHANGED <<global_ts, batchVars, batch_mutex, batch_seq, synced_seq, file,
                   engine_synced, stop, clientVars, bpc, visible, batches>>

SyncSwap(t) ==
    /\ write_buf # << >>
    /\ sync' = [sync EXCEPT ![t] = [pc |-> "swapped", to_sync |-> write_buf,
                                    at |-> batch_seq]]
    /\ write_buf' = << >>
    /\ UNCHANGED <<global_ts, batchVars, batch_mutex, batch_seq, synced_seq, file,
                   engine_synced, stop, clientVars, bpc, visible, batches>>

\* fwrite and fsync.  A failing fwrite throws out of the worker thread and ends
\* the process: the records stay out of the file, as in any state before this step.
SyncWrite(t) ==
    /\ sync[t].pc = "swapped"
    /\ file' = file \o sync[t].to_sync
    /\ sync' = [sync EXCEPT ![t].pc = "written"]
    /\ UNCHANGED <<global_ts, batchVars, batch_mutex, write_buf, batch_seq,
                   synced_seq, engine_synced, stop, clientVars, bpc, visible,
                   batches>>

(* SyncWorkerLoop.  A call is forced once kWALIdleSyncUs have passed since  *)
(* the last forced one, so any call may be forced.                          *)

\* A forced call, or a call with enough bytes in the buffer.
WorkerSwap ==
    /\ sync[Worker].pc = "idle"
    /\ SyncSwap(Worker)

\* A call that finds too little: it sets WAL::synced_seq_ and writes nothing.
WorkerTooSmall ==
    /\ sync[Worker].pc = "idle"
    /\ ~stop
    /\ write_buf # << >>
    /\ Len(write_buf) < MinSync
    /\ synced_seq' = batch_seq
    /\ UNCHANGED <<global_ts, batchVars, batch_mutex, write_buf, batch_seq, file,
                   sync, engine_synced, stop, clientVars, bpc, visible, batches>>

\* A call that finds nothing.
WorkerNothing ==
    /\ sync[Worker].pc = "idle"
    /\ ~stop
    /\ write_buf = << >>
    /\ UNCHANGED vars

WorkerFinish ==
    /\ sync[Worker].pc = "written"
    /\ synced_seq' = sync[Worker].at
    /\ engine_synced' = sync[Worker].at
    /\ sync' = [sync EXCEPT ![Worker] = NotSyncing]
    /\ UNCHANGED <<global_ts, batchVars, batch_mutex, write_buf, batch_seq, file,
                   stop, clientVars, bpc, visible, batches>>

\* The destructor sets should_stop when no call is in progress.  The flush worker
\* is joined before, so no checkpoint follows.
Shutdown ==
    /\ ~stop
    /\ batch_mutex = NoOne
    /\ bpc = "idle"
    /\ pending = {}
    /\ \A w \in Writers : op[w].pc = "idle"
    /\ stop' = TRUE
    /\ UNCHANGED <<global_ts, batchVars, batch_mutex, walVars, clientVars, bpc,
                   visible, batches>>

\* Mutant: no last Sync.
WorkerExitAtOnce ==
    /\ stop
    /\ sync[Worker].pc = "idle"
    /\ engine_synced' = synced_seq
    /\ sync' = [sync EXCEPT ![Worker].pc = "exited"]
    /\ UNCHANGED <<global_ts, batchVars, batch_mutex, write_buf, batch_seq,
                   synced_seq, file, stop, clientVars, bpc, visible, batches>>

\* The forced Sync after the loop, once it finds the buffer empty; its result is
\* stored whether or not it persisted anything.
WorkerExit ==
    /\ stop
    /\ sync[Worker].pc = "idle"
    /\ write_buf = << >>
    /\ engine_synced' = synced_seq
    /\ sync' = [sync EXCEPT ![Worker].pc = "exited"]
    /\ UNCHANGED <<global_ts, batchVars, batch_mutex, write_buf, batch_seq,
                   synced_seq, file, stop, clientVars, bpc, visible, batches>>

Halted ==
    /\ sync[Worker].pc = "exited"
    /\ UNCHANGED vars

\* The flush worker after a flush.  The clock and the batch are read without
\* batch_mutex_.
Checkpoint ==
    /\ ~stop
    /\ BufferNumbered("ckpt", global_ts)
    /\ UNCHANGED <<global_ts, batchVars, batch_mutex, synced_seq, file, sync,
                   engine_synced, stop, clientVars, bpc, visible, batches>>

-----------------------------------------------------------------------------
(* Batches.                                                                *)

StartBatch ==
    /\ ~stop
    /\ batch_mutex = NoOne
    /\ ~batch_in_progress
    /\ batches < MaxBatches
    /\ batches' = batches + 1
    /\ batch_ts' = global_ts + Gap
    /\ batch_in_progress' = TRUE
    /\ batch_touched' = FALSE
    /\ BufferUnnumbered("begin", global_ts + Gap)
    /\ UNCHANGED <<global_ts, batch_commit_seq, batch_mutex, synced_seq, file, sync,
                   engine_synced, stop, clientVars, bpc, visible>>

\* BatchInsert and BatchDelete take no lock of the engine.  The batcher calls
\* them before it commits.
BatchWrite ==
    /\ ~stop
    /\ bpc = "idle"
    /\ batch_in_progress
    /\ batch_touched' = TRUE
    /\ BufferNumbered("bput", batch_ts)
    /\ UNCHANGED <<global_ts, batch_in_progress, batch_ts, batch_commit_seq,
                   batch_mutex, synced_seq, file, sync, engine_synced, stop,
                   clientVars, bpc, visible, batches>>

\* The first half of CommitBatch and CommitBatchAsync, up to the call of
\* CurrentBatchSeq; batch_mutex_ is held from here on.
BufferCommit ==
    /\ ~stop
    /\ bpc = "idle"
    /\ batch_mutex = NoOne
    /\ batch_in_progress
    /\ BufferNumbered("commit", batch_ts)
    /\ batch_mutex' = Batcher
    /\ bpc' = "buffered"
    /\ UNCHANGED <<global_ts, batchVars, synced_seq, file, sync, engine_synced,
                   stop, clientVars, visible, batches>>

\* CommitBatchAsync returns and its caller polls CommitBatchFinalize.
CommitBatchAsync ==
    /\ bpc = "buffered"
    /\ batch_commit_seq' = batch_seq
    /\ batch_mutex' = NoOne
    /\ bpc' = "polling"
    /\ UNCHANGED <<global_ts, batch_in_progress, batch_ts, batch_touched, walVars,
                   stop, clientVars, visible, batches>>

\* CommitBatch keeps batch_mutex_ and spins on synced_seq.
CommitBatch ==
    /\ bpc = "buffered"
    /\ batch_commit_seq' = batch_seq
    /\ bpc' = "blocking"
    /\ UNCHANGED <<global_ts, batch_in_progress, batch_ts, batch_touched,
                   batch_mutex, walVars, stop, clientVars, visible, batches>>

\* Mutant: the batch is published without waiting for the Sync.
PublishBatchEarly ==
    /\ global_ts' = batch_ts + 1
    /\ batch_in_progress' = FALSE
    /\ batch_commit_seq' = 0
    /\ visible' = visible \cup {batch_ts}
    /\ bpc' = "idle"
    /\ UNCHANGED <<batch_ts, batch_touched, walVars, stop, clientVars, batches>>

\* Mutant: off by one.
PublishBatchLate ==
    /\ engine_synced > batch_commit_seq
    /\ PublishBatchEarly

\* The common tail: jump the clock past the batch and close it.
PublishBatch ==
    /\ engine_synced >= batch_commit_seq
    /\ global_ts' = batch_ts + 1
    /\ batch_in_progress' = FALSE
    /\ batch_commit_seq' = 0
    /\ visible' = visible \cup {batch_ts}
    /\ bpc' = "idle"
    /\ UNCHANGED <<batch_ts, batch_touched, walVars, stop, clientVars, batches>>

CommitBatchFinalize ==
    /\ bpc = "polling"
    /\ batch_mutex = NoOne
    /\ batch_in_progress
    /\ PublishBatch
    /\ UNCHANGED batch_mutex

CommitBatchReturn ==
    /\ bpc = "blocking"
    /\ PublishBatch
    /\ batch_mutex' = NoOne

\* AbortBatch of a batch without entries.
AbortUntouched(a) ==
    /\ ~stop
    /\ batch_mutex = NoOne
    /\ batch_in_progress
    /\ ~batch_touched
    /\ batch_in_progress' = FALSE
    /\ UNCHANGED <<global_ts, batch_ts, batch_touched, batch_commit_seq,
                   batch_mutex, walVars, stop, clientVars, bpc, visible, batches>>

\* AbortBatch of a touched batch: BufferAbort, then WAL::Sync(true) on this
\* thread, all under batch_mutex_.
AbortBuffer(a) ==
    /\ ~stop
    /\ batch_mutex = NoOne
    /\ batch_in_progress
    /\ batch_touched
    /\ BufferUnnumbered("abort", batch_ts)
    /\ batch_mutex' = a
    /\ UNCHANGED <<global_ts, batchVars, synced_seq, file, sync, engine_synced,
                   stop, clientVars, bpc, visible, batches>>

AbortSwap(a) ==
    /\ batch_mutex = a
    /\ sync[a].pc = "idle"
    /\ SyncSwap(a)

\* The end of AbortBatch: WAL::Sync has returned (its buffer may have been taken
\* by the worker before), the batch is closed.  The clock is left alone.
AbortReturn(a) ==
    /\ batch_mutex = a
    /\ \/ /\ sync[a].pc = "written"
          /\ synced_seq' = sync[a].at
       \/ /\ sync[a].pc = "idle"
          /\ write_buf = << >>
          /\ UNCHANGED synced_seq
    /\ sync' = [sync EXCEPT ![a] = NotSyncing]
    /\ batch_in_progress' = FALSE
    /\ batch_mutex' = NoOne
    /\ UNCHANGED <<global_ts, batch_ts, batch_touched, batch_commit_seq, write_buf,
                   batch_seq, file, engine_synced, stop, clientVars, bpc, visible,
                   batches>>

-----------------------------------------------------------------------------
WriterStep(w) == TakeTs(w) \/ BufferWrite(w) \/ TakeSeq(w)

WorkerStep ==
    \/ WorkerSwap \/ WorkerTooSmall \/ WorkerNothing \/ WorkerFinish
    \/ WorkerExit \/ Halted

BatchStep ==
    \/ StartBatch \/ BatchWrite \/ BufferCommit
    \/ CommitBatchAsync \/ CommitBatch
    \/ CommitBatchFinalize \/ CommitBatchReturn

AbortStep(a) ==
    AbortUntouched(a) \/ AbortBuffer(a) \/ AbortSwap(a) \/ AbortReturn(a)

Next ==
    \/ \E w \in Writers : WriterStep(w)
    \/ Fulfill
    \/ WorkerStep
    \/ \E t \in Syncers : SyncWrite(t)
    \/ Shutdown
    \/ Checkpoint
    \/ BatchStep
    \/ \E a \in Aborters : AbortStep(a)

Spec == Init /\ [][Next]_vars

\* The sync worker's wait is timed, so it keeps calling Sync and, once the idle
\* interval is over, forces it; threads inside a call take their next step; the
\* server's writer polls checkAndFulfill and CommitBatchFinalize.
Fairness ==
    /\ WF_vars(WorkerSwap)
    /\ WF_vars(WorkerFinish)
    /\ WF_vars(WorkerExit)
    /\ \A t \in Syncers : WF_vars(SyncWrite(t))
    /\ \A w \in Writers : WF_vars(BufferWrite(w) \/ TakeSeq(w))
    /\ WF_vars(Fulfill)
    /\ WF_vars(CommitBatchAsync \/ CommitBatch)
    /\ WF_vars(CommitBatchFinalize \/ CommitBatchReturn)
    /\ \A a \in Aborters : WF_vars(AbortSwap(a) \/ AbortReturn(a))

FairSpec == Spec /\ Fairness

-----------------------------------------------------------------------------
(* Properties.                                                             *)

\* The log in order: what is in the file, what the worker holds, the buffer.
LogView ==
    file \o (IF sync[Worker].pc = "swapped" THEN sync[Worker].to_sync ELSE << >>)
         \o write_buf

Numbers(s) == {s[i].seq : i \in DOMAIN s}

\* Counters stay natural numbers, batch_mutex_ is held by a thread that may wait under
\* it, and buffer, file and syncing threads hold well-formed records.
TypeOK ==
    /\ global_ts \in Nat
    /\ batch_in_progress \in BOOLEAN
    /\ batch_ts \in Nat
    /\ batch_touched \in BOOLEAN
    /\ batch_commit_seq \in Nat
    /\ batch_mutex \in Aborters \cup {Batcher, NoOne}
    /\ write_buf \in Seq(Record)
    /\ batch_seq \in Nat
    /\ synced_seq \in Nat
    /\ file \in Seq(Record)
    /\ sync \in [Syncers -> SyncState]
    /\ engine_synced \in Nat
    /\ stop \in BOOLEAN
    /\ op \in [Writers -> OpState]
    /\ bpc \in {"idle", "buffered", "polling", "blocking"}
    /\ pending \subseteq [rec : Nat, seq : Nat]
    /\ acked \subseteq Nat
    /\ visible \subseteq Nat
    /\ batches \in Nat

\* A client of a synchronous write is answered only when its record is in the
\* file: group commit never acknowledges what a crash could still take away.
AckedDurable == acked \subseteq Numbers(file)

\* A batch becomes visible only when its commit record is in the file and every
\* entry of the batch lies before that record.
CommitDurable ==
    \A b \in visible :
        \E i \in DOMAIN file :
            /\ file[i].kind = "commit" /\ file[i].ts = b
            /\ \A j \in DOMAIN LogView :
                  LogView[j].kind = "bput" /\ LogView[j].ts = b => j < i

\* When the destructor has joined the sync worker, every numbered record is in
\* the file: a clean shutdown loses no asynchronous write.
CleanShutdown ==
    sync[Worker].pc = "exited" => 1..batch_seq \subseteq Numbers(file)

\* The clock never goes back, also when a commit overwrites it with a store.
ClockMonotone == [][global_ts' >= global_ts]_vars

\* The write path implements the durable log: records keep their order, the
\* durable prefix only grows, and acknowledgements stay inside it.
Durable == INSTANCE DurableLog WITH
    log <- LogView, durable <- Len(file), acked <- acked, Record <- Record

RefinesDurableLog == Durable!Spec

\* Every synchronous client is answered in the end: no wakeup, threshold or
\* concurrent commit makes the worker forget its record.
EventuallyAcked ==
    \A s \in 1..MaxSeq : (\E p \in pending : p.rec = s) ~> s \in acked

\* Whoever syncs, and also when two threads sync at once, every record that took
\* a number ends in the file.
EventuallyDurable ==
    \A s \in 1..MaxSeq : s <= batch_seq ~> s \in Numbers(file)

\* A commit, polled or blocking, always completes, so that the writers held back
\* by the batch's timestamp gap are released.
CommitCompletes == bpc = "buffered" ~> ~batch_in_progress

\* While a batch is open every reader's timestamp, the clock, is below the
\* timestamp of the batch.
ReadsBelowBatch == batch_in_progress => global_ts < batch_ts
=============================================================================
