-------------------------- MODULE WritePathProofs --------------------------
(***************************************************************************)
(* Proofs about WritePath for any writers, any batch gap, any sync         *)
(* threshold and any bounds.                                               *)
(***************************************************************************)
EXTENDS WritePath, TLAPS

-----------------------------------------------------------------------------
(* The numbers of a sequence of records.                                   *)

\* Appending a record adds its number and nothing else.
LEMMA NumbersAppend ==
    ASSUME NEW s \in Seq(Record), NEW r \in Record
    PROVE  Numbers(Append(s, r)) = Numbers(s) \cup {r.seq}
<1> DEFINE t == Append(s, r)
<1>1. /\ DOMAIN t = DOMAIN s \cup {Len(s) + 1}
      /\ \A i \in DOMAIN s : t[i] = s[i]
      /\ t[Len(s) + 1] = r
  OBVIOUS
<1> HIDE DEF t
<1>2. Numbers(t) = Numbers(s) \cup {r.seq}
  BY <1>1 DEF Numbers
<1> QED  BY <1>2 DEF t

\* The numbers of a concatenation, as fwrite appends the buffer to the file.
LEMMA NumbersConcat ==
    ASSUME NEW s \in Seq(Record), NEW t \in Seq(Record)
    PROVE  Numbers(s \o t) = Numbers(s) \cup Numbers(t)
<1> DEFINE u == s \o t
<1>1. /\ \A i \in DOMAIN s : i \in DOMAIN u /\ u[i] = s[i]
      /\ \A i \in DOMAIN t : Len(s) + i \in DOMAIN u /\ u[Len(s) + i] = t[i]
      /\ \A i \in DOMAIN u : \/ i \in DOMAIN s /\ u[i] = s[i]
                             \/ i - Len(s) \in DOMAIN t /\ u[i] = t[i - Len(s)]
  OBVIOUS
<1> HIDE DEF u
<1>2. Numbers(u) = Numbers(s) \cup Numbers(t)
  BY <1>1 DEF Numbers
<1> QED  BY <1>2 DEF u

-----------------------------------------------------------------------------
(* Type correctness.                                                       *)

\* Every step of the write path keeps the types.
LEMMA TypeStep == TypeOK /\ [Next]_vars => TypeOK'
<1> SUFFICES ASSUME TypeOK, [Next]_vars PROVE TypeOK'
  OBVIOUS
<1>1. CASE UNCHANGED vars
  BY <1>1 DEF TypeOK, vars, batchVars, walVars, clientVars
<1>2. ASSUME NEW w \in Writers, TakeTs(w) PROVE TypeOK'
  BY <1>2 DEF TypeOK, TakeTs, OpState, batchVars, walVars
<1>3. ASSUME NEW w \in Writers, BufferWrite(w) PROVE TypeOK'
  <2>1. [kind |-> "put", ts |-> op[w].ts, seq |-> batch_seq + 1] \in Record
    BY DEF TypeOK, OpState, Record, Kinds
  <2>2. op' \in [Writers -> OpState]
    BY <1>3 DEF TypeOK, BufferWrite, OpState
  <2> QED  BY <1>3, <2>1, <2>2 DEF TypeOK, BufferWrite, BufferNumbered, batchVars
<1>4. ASSUME NEW w \in Writers, TakeSeq(w) PROVE TypeOK'
  <2>1. op[w].rec \in Nat
    BY DEF TypeOK, OpState
  <2>2. pending' \subseteq [rec : Nat, seq : Nat]
    BY <1>4, <2>1 DEF TypeOK, TakeSeq
  <2> QED  BY <1>4, <2>2 DEF TypeOK, TakeSeq, OpState, batchVars, walVars
<1>5. CASE Fulfill
  <2>1. {p.rec : p \in Covered} \subseteq Nat
    BY DEF TypeOK, Covered
  <2>2. acked' \subseteq Nat /\ pending' \subseteq [rec : Nat, seq : Nat]
    BY <1>5, <2>1, Zenon DEF TypeOK, Fulfill
  <2> QED  BY <1>5, <2>2 DEF TypeOK, Fulfill, batchVars, walVars
<1>6. CASE WorkerSwap
  BY <1>6 DEF TypeOK, WorkerSwap, SyncSwap, SyncState, Syncers, batchVars, clientVars
<1>7. CASE WorkerTooSmall
  BY <1>7 DEF TypeOK, WorkerTooSmall, batchVars, clientVars
<1>8. CASE WorkerNothing
  BY <1>8 DEF TypeOK, WorkerNothing, vars, batchVars, walVars, clientVars
<1>9. CASE WorkerFinish
  <2>1. sync[Worker].at \in Nat /\ NotSyncing \in SyncState
    BY DEF TypeOK, SyncState, NotSyncing, Syncers
  <2> QED  BY <1>9, <2>1, Zenon DEF TypeOK, WorkerFinish, batchVars, clientVars
<1>10. CASE WorkerExit
  <2>1. sync' \in [Syncers -> SyncState]
    BY <1>10, Zenon DEF TypeOK, WorkerExit, SyncState, Syncers
  <2> QED  BY <1>10, <2>1 DEF TypeOK, WorkerExit, batchVars, clientVars
<1>11. CASE Halted
  BY <1>11 DEF TypeOK, Halted, vars, batchVars, walVars, clientVars
<1>12. ASSUME NEW t \in Syncers, SyncWrite(t) PROVE TypeOK'
  <2>1. sync' \in [Syncers -> SyncState] /\ sync[t].to_sync \in Seq(Record)
    BY <1>12, Zenon DEF TypeOK, SyncWrite, SyncState
  <2> QED  BY <1>12, <2>1 DEF TypeOK, SyncWrite, batchVars, clientVars
<1>13. CASE Shutdown
  BY <1>13 DEF TypeOK, Shutdown, batchVars, walVars, clientVars
<1>14. CASE Checkpoint
  <2>1. [kind |-> "ckpt", ts |-> global_ts, seq |-> batch_seq + 1] \in Record
    BY DEF TypeOK, Record, Kinds
  <2> QED  BY <1>14, <2>1 DEF TypeOK, Checkpoint, BufferNumbered, batchVars, clientVars
<1>15. CASE StartBatch
  <2>1. /\ global_ts + Gap \in Nat
        /\ [kind |-> "begin", ts |-> global_ts + Gap, seq |-> 0] \in Record
    BY ConfigAssumption DEF TypeOK, Record, Kinds
  <2>2. batch_in_progress' \in BOOLEAN /\ batch_touched' \in BOOLEAN
    BY <1>15, Zenon DEF TypeOK, StartBatch
  <2> QED  BY <1>15, <2>1, <2>2 DEF TypeOK, StartBatch, BufferUnnumbered, clientVars
<1>16. CASE BatchWrite
  <2>1. [kind |-> "bput", ts |-> batch_ts, seq |-> batch_seq + 1] \in Record
    BY DEF TypeOK, Record, Kinds
  <2> QED  BY <1>16, <2>1 DEF TypeOK, BatchWrite, BufferNumbered, clientVars
<1>17. CASE BufferCommit
  <2>1. [kind |-> "commit", ts |-> batch_ts, seq |-> batch_seq + 1] \in Record
    BY DEF TypeOK, Record, Kinds
  <2> QED  BY <1>17, <2>1 DEF TypeOK, BufferCommit, BufferNumbered, batchVars, clientVars
<1>18. CASE CommitBatchAsync
  BY <1>18 DEF TypeOK, CommitBatchAsync, walVars, clientVars
<1>19. CASE CommitBatch
  BY <1>19 DEF TypeOK, CommitBatch, walVars, clientVars
<1>20. CASE CommitBatchFinalize
  <2>1. batch_in_progress' \in BOOLEAN /\ visible' \subseteq Nat
    BY <1>20, Zenon DEF TypeOK, CommitBatchFinalize, PublishBatch
  <2> QED
    BY <1>20, <2>1 DEF TypeOK, CommitBatchFinalize, PublishBatch, walVars, clientVars
<1>21. CASE CommitBatchReturn
  <2>1. batch_in_progress' \in BOOLEAN /\ visible' \subseteq Nat
    BY <1>21, Zenon DEF TypeOK, CommitBatchReturn, PublishBatch
  <2> QED
    BY <1>21, <2>1 DEF TypeOK, CommitBatchReturn, PublishBatch, walVars, clientVars
<1>22. ASSUME NEW a \in Aborters, AbortUntouched(a) PROVE TypeOK'
  BY <1>22, Zenon DEF TypeOK, AbortUntouched, walVars, clientVars
<1>23. ASSUME NEW a \in Aborters, AbortBuffer(a) PROVE TypeOK'
  <2>1. [kind |-> "abort", ts |-> batch_ts, seq |-> 0] \in Record
    BY DEF TypeOK, Record, Kinds
  <2> QED  BY <1>23, <2>1 DEF TypeOK, AbortBuffer, BufferUnnumbered, batchVars, clientVars
<1>24. ASSUME NEW a \in Aborters, AbortSwap(a) PROVE TypeOK'
  BY <1>24 DEF TypeOK, AbortSwap, SyncSwap, SyncState, Syncers, batchVars, clientVars
<1>25. ASSUME NEW a \in Aborters, AbortReturn(a) PROVE TypeOK'
  <2>1. a \in Syncers /\ sync[a].at \in Nat /\ NotSyncing \in SyncState
    BY DEF TypeOK, SyncState, NotSyncing, Syncers
  <2>2. batch_in_progress' \in BOOLEAN /\ synced_seq' \in Nat
    BY <1>25, <2>1, Zenon DEF TypeOK, AbortReturn
  <2> QED  BY <1>25, <2>1, <2>2 DEF TypeOK, AbortReturn, clientVars
<1> QED
  BY <1>1, <1>2, <1>3, <1>4, <1>5, <1>6, <1>7, <1>8, <1>9, <1>10, <1>11, <1>12,
     <1>13, <1>14, <1>15, <1>16, <1>17, <1>18, <1>19, <1>20, <1>21, <1>22, <1>23,
     <1>24, <1>25
     DEF Next, WriterStep, WorkerStep, BatchStep, AbortStep

\* Every behaviour of the write path keeps its variables in their types.
THEOREM TypeCorrect == Spec => []TypeOK
<1>1. Init => TypeOK
  <2>1. NotSyncing \in SyncState
    BY DEF NotSyncing, SyncState
  <2>2. Init => sync \in [Syncers -> SyncState] /\ op \in [Writers -> OpState]
    BY <2>1 DEF Init, OpState
  <2> SUFFICES ASSUME Init PROVE TypeOK
    OBVIOUS
  <2>3. /\ batch_in_progress \in BOOLEAN /\ batch_touched \in BOOLEAN
        /\ stop \in BOOLEAN
    BY Zenon DEF Init
  <2> QED  BY <2>2, <2>3 DEF Init, TypeOK
<1> QED  BY <1>1, TypeStep, PTL DEF Spec

-----------------------------------------------------------------------------
(* The clock, whoever aborts.  A commit overwrites the clock with a store, *)
(* so the clock must not have passed the batch's timestamp before.         *)

ClockInv ==
    /\ batch_in_progress => global_ts <= batch_ts
    /\ bpc \in {"buffered", "blocking"} => batch_mutex = Batcher /\ batch_in_progress

\* No step moves the clock back: writes wait for the batch, and a commit jumps ahead.
LEMMA ClockStep == TypeOK /\ ClockInv /\ [Next]_vars => ClockInv'
<1> SUFFICES ASSUME TypeOK, ClockInv, [Next]_vars PROVE ClockInv'
  OBVIOUS
<1> USE DEF ClockInv
<1>1. CASE UNCHANGED <<global_ts, batch_in_progress, batch_ts, bpc, batch_mutex>>
  BY <1>1
<1>2. ASSUME NEW w \in Writers, TakeTs(w) PROVE ClockInv'
  BY <1>2 DEF TypeOK, TakeTs, batchVars
<1>3. CASE StartBatch
  BY <1>3, ConfigAssumption, ThreadsAssumption DEF TypeOK, StartBatch
<1>4. CASE BufferCommit
  BY <1>4 DEF BufferCommit, batchVars
<1>5. CASE CommitBatchAsync
  BY <1>5 DEF CommitBatchAsync
<1>6. CASE CommitBatch
  BY <1>6 DEF CommitBatch
<1>7. CASE CommitBatchFinalize
  BY <1>7 DEF CommitBatchFinalize, PublishBatch
<1>8. CASE CommitBatchReturn
  BY <1>8 DEF CommitBatchReturn, PublishBatch
<1>9. ASSUME NEW a \in Aborters, AbortUntouched(a) PROVE ClockInv'
  BY <1>9, ThreadsAssumption DEF AbortUntouched
<1>10. ASSUME NEW a \in Aborters, AbortBuffer(a) PROVE ClockInv'
  BY <1>10, ThreadsAssumption DEF AbortBuffer, batchVars
<1>11. ASSUME NEW a \in Aborters, AbortReturn(a) PROVE ClockInv'
  BY <1>11, ThreadsAssumption DEF AbortReturn, Syncers
<1>12. CASE BatchWrite
  BY <1>1, <1>12 DEF BatchWrite
<1>13. ASSUME NEW w \in Writers, BufferWrite(w) \/ TakeSeq(w) PROVE ClockInv'
  BY <1>1, <1>13 DEF BufferWrite, TakeSeq, batchVars
<1>14. CASE Fulfill \/ Shutdown \/ Checkpoint
  BY <1>1, <1>14 DEF Fulfill, Shutdown, Checkpoint, batchVars
<1>15. CASE WorkerStep
  BY <1>1, <1>15 DEF WorkerStep, WorkerSwap, SyncSwap, WorkerTooSmall,
     WorkerNothing, WorkerFinish, WorkerExit, Halted, vars, batchVars
<1>16. ASSUME NEW t \in Syncers, SyncWrite(t) PROVE ClockInv'
  BY <1>1, <1>16 DEF SyncWrite, batchVars
<1>17. ASSUME NEW a \in Aborters, AbortSwap(a) PROVE ClockInv'
  BY <1>1, <1>17 DEF AbortSwap, SyncSwap, batchVars
<1>18. CASE UNCHANGED vars
  BY <1>1, <1>18 DEF vars, batchVars
<1> HIDE DEF ClockInv
<1> QED
  BY <1>2, <1>3, <1>4, <1>5, <1>6, <1>7, <1>8, <1>9, <1>10, <1>11, <1>12, <1>13,
     <1>14, <1>15, <1>16, <1>17, <1>18
     DEF Next, WriterStep, BatchStep, AbortStep

\* The clock never goes back: neither a commit's store, nor an abort, nor a late
\* finalize of a batch that was aborted and started anew.
THEOREM ClockNeverBack == Spec => ClockMonotone
<1>1. Init => ClockInv
  BY DEF Init, ClockInv
<1>2. TypeOK /\ ClockInv /\ [Next]_vars => [global_ts' >= global_ts]_vars
  <2> SUFFICES ASSUME TypeOK, ClockInv, Next PROVE global_ts' >= global_ts
    OBVIOUS
  <2>1. CASE UNCHANGED global_ts
    BY <2>1 DEF TypeOK
  <2>2. ASSUME NEW w \in Writers, TakeTs(w) PROVE global_ts' >= global_ts
    BY <2>2 DEF TypeOK, TakeTs
  <2>3. CASE CommitBatchFinalize \/ CommitBatchReturn
    BY <2>3 DEF TypeOK, ClockInv, CommitBatchFinalize, CommitBatchReturn, PublishBatch
  <2>4. CASE StartBatch \/ BatchWrite \/ BufferCommit \/ CommitBatchAsync \/ CommitBatch
    BY <2>1, <2>4 DEF StartBatch, BatchWrite, BufferCommit, CommitBatchAsync,
       CommitBatch
  <2>5. ASSUME NEW w \in Writers, BufferWrite(w) \/ TakeSeq(w) PROVE global_ts' >= global_ts
    BY <2>1, <2>5 DEF BufferWrite, TakeSeq
  <2>6. CASE Fulfill \/ Shutdown \/ Checkpoint
    BY <2>1, <2>6 DEF Fulfill, Shutdown, Checkpoint
  <2>7. CASE WorkerStep
    BY <2>1, <2>7 DEF WorkerStep, WorkerSwap, SyncSwap, WorkerTooSmall,
       WorkerNothing, WorkerFinish, WorkerExit, Halted, vars
  <2>8. ASSUME NEW t \in Syncers, SyncWrite(t) PROVE global_ts' >= global_ts
    BY <2>1, <2>8 DEF SyncWrite
  <2>9. ASSUME NEW a \in Aborters, AbortStep(a) PROVE global_ts' >= global_ts
    BY <2>1, <2>9 DEF AbortStep, AbortUntouched, AbortBuffer, AbortSwap, SyncSwap,
       AbortReturn
  <2> QED
    BY <2>2, <2>3, <2>4, <2>5, <2>6, <2>7, <2>8, <2>9 DEF Next, WriterStep, BatchStep
<1> QED  BY <1>1, <1>2, ClockStep, TypeCorrect, PTL DEF Spec, ClockMonotone

-----------------------------------------------------------------------------
(* Group commit with one syncing thread.  Every numbered record is in the  *)
(* file, in the worker's hands or in the buffer; what the worker holds and *)
(* what is buffered lies above the number already reported as synced.      *)

W == sync[Worker]

InFlight == IF W.pc = "swapped" THEN W.to_sync ELSE << >>

\* The number the next WorkerFinish, or the last one, reports.
Reported == IF W.pc \in {"swapped", "written"} THEN W.at ELSE engine_synced

Above(s, n) == \A i \in DOMAIN s : s[i].seq = 0 \/ s[i].seq > n

Numbered == 1..batch_seq \subseteq Numbers(file) \cup Numbers(InFlight) \cup Numbers(write_buf)

SyncInv ==
    /\ engine_synced <= Reported /\ Reported <= batch_seq
    /\ Above(write_buf, Reported)
    /\ Above(InFlight, engine_synced)
    /\ Numbered
    /\ W.pc = "idle" /\ write_buf = << >> => synced_seq = engine_synced

ClientInv ==
    /\ \A w \in Writers : op[w].pc = "buffered" => op[w].rec \in 1..batch_seq
    /\ \A p \in pending : p.rec \in 1..p.seq
    /\ acked \subseteq 1..engine_synced

GroupInv == SyncInv /\ ClientInv

\* What was reported as synced is in the file.
LEMMA ReportedInFile ==
    ASSUME TypeOK, SyncInv
    PROVE  1..engine_synced \subseteq Numbers(file)
<1> SUFFICES ASSUME NEW n \in 1..engine_synced PROVE n \in Numbers(file)
  OBVIOUS
<1>1. /\ engine_synced \in Nat /\ batch_seq \in Nat /\ Reported \in Nat
      /\ n \in 1..batch_seq /\ n <= Reported
  BY DEF TypeOK, SyncInv, Reported, W, SyncState, Syncers
<1>2. n \notin Numbers(write_buf)
  BY <1>1 DEF SyncInv, Above, Numbers
<1>3. n \notin Numbers(InFlight)
  BY <1>1 DEF SyncInv, Above, Numbers
<1> QED  BY <1>1, <1>2, <1>3 DEF SyncInv, Numbered

\* Appending a record to the buffer: a new number is the next one.
LEMMA SyncAppend ==
    ASSUME TypeOK, SyncInv, NEW r \in Record,
           write_buf' = Append(write_buf, r),
           \/ r.seq = 0 /\ batch_seq' = batch_seq
           \/ r.seq = batch_seq + 1 /\ batch_seq' = batch_seq + 1,
           UNCHANGED <<file, sync, engine_synced, synced_seq>>
    PROVE  SyncInv'
<1>1. /\ W' = W /\ InFlight' = InFlight /\ Reported' = Reported
      /\ engine_synced \in Nat /\ batch_seq \in Nat /\ Reported \in Nat
  BY DEF TypeOK, W, InFlight, Reported, SyncState, Syncers
<1>2. Above(write_buf', Reported)
  BY <1>1 DEF TypeOK, SyncInv, Above
<1>3. Numbered'
  <2>1. Numbers(write_buf') = Numbers(write_buf) \cup {r.seq}
    BY NumbersAppend DEF TypeOK
  <2>2. Numbers(file') = Numbers(file) /\ Numbers(InFlight') = Numbers(InFlight)
    BY <1>1
  <2>3. \A n \in 1..batch_seq' : n \in 1..batch_seq \/ n = r.seq
    BY <1>1
  <2> QED  BY <2>1, <2>2, <2>3 DEF SyncInv, Numbered
<1>4. write_buf' # << >>
  BY DEF TypeOK
<1>5. Above(InFlight', engine_synced')
  BY <1>1, Zenon DEF SyncInv, Above
<1> QED  BY <1>1, <1>2, <1>3, <1>4, <1>5 DEF SyncInv, Above

\* The invariant of Sync only speaks of the log, the syncing threads and the counters.
LEMMA SyncUnchanged ==
    ASSUME SyncInv, UNCHANGED <<write_buf, batch_seq, synced_seq, file, sync, engine_synced>>
    PROVE  SyncInv'
BY DEF SyncInv, Reported, Above, InFlight, Numbered, Numbers, W

\* Every step keeps what Sync relies on.
LEMMA SyncStep ==
    ASSUME Aborters = {}, TypeOK, SyncInv, [Next]_vars
    PROVE  SyncInv'
<1>1. CASE UNCHANGED vars
  BY <1>1, SyncUnchanged DEF vars, walVars
<1>2. ASSUME NEW w \in Writers, TakeTs(w) \/ TakeSeq(w) PROVE SyncInv'
  BY <1>2, SyncUnchanged DEF TakeTs, TakeSeq, walVars
<1>3. ASSUME NEW w \in Writers, BufferWrite(w) PROVE SyncInv'
  <2>1. [kind |-> "put", ts |-> op[w].ts, seq |-> batch_seq + 1] \in Record
    BY DEF TypeOK, OpState, Record, Kinds
  <2> QED  BY <1>3, <2>1, SyncAppend DEF BufferWrite, BufferNumbered
<1>4. CASE Fulfill \/ Shutdown
  BY <1>4, SyncUnchanged DEF Fulfill, Shutdown, walVars
<1>5. CASE WorkerSwap
  <2>1. /\ W.pc = "idle" /\ W'.pc = "swapped" /\ W'.to_sync = write_buf
        /\ W'.at = batch_seq /\ write_buf' = << >>
        /\ UNCHANGED <<batch_seq, engine_synced, file, synced_seq>>
    BY <1>5 DEF WorkerSwap, SyncSwap, TypeOK, W, SyncState, Syncers
  <2>2. InFlight = << >> /\ InFlight' = write_buf /\ Reported = engine_synced
        /\ Reported' = batch_seq
    BY <2>1 DEF InFlight, Reported
  <2>3. Numbered'
    BY <2>1, <2>2 DEF SyncInv, Numbered, Numbers
  <2> QED  BY <2>1, <2>2, <2>3 DEF SyncInv, Above, TypeOK
<1>6. CASE WorkerTooSmall
  BY <1>6, Zenon DEF WorkerTooSmall, SyncInv, Reported, Above, InFlight, Numbered, Numbers, W
<1>7. CASE WorkerNothing \/ Halted
  BY <1>7, SyncUnchanged DEF WorkerNothing, Halted, vars, walVars
<1>8. CASE WorkerFinish
  <2>1. /\ W.pc = "written" /\ W'.pc = "idle" /\ engine_synced' = W.at
        /\ synced_seq' = W.at /\ UNCHANGED <<batch_seq, write_buf, file>>
    BY <1>8 DEF WorkerFinish, NotSyncing, TypeOK, W, Syncers
  <2>2. InFlight = << >> /\ InFlight' = << >> /\ Reported = W.at /\ Reported' = W.at
    BY <2>1 DEF InFlight, Reported
  <2>3. Numbered'
    BY <2>1, <2>2 DEF SyncInv, Numbered, Numbers
  <2>4. W.at \in Nat
    BY DEF TypeOK, W, SyncState, Syncers
  <2> QED  BY <2>1, <2>2, <2>3, <2>4 DEF SyncInv, Above
<1>9. CASE WorkerExit
  <2>1. /\ W.pc = "idle" /\ W'.pc = "exited" /\ write_buf = << >>
        /\ engine_synced' = synced_seq /\ UNCHANGED <<batch_seq, write_buf, file>>
    BY <1>9 DEF WorkerExit, TypeOK, W, SyncState, Syncers
  <2>2. engine_synced' = engine_synced
    BY <2>1 DEF SyncInv
  <2>3. InFlight = << >> /\ InFlight' = << >> /\ Reported' = Reported
    BY <2>1, <2>2 DEF InFlight, Reported
  <2>4. Numbered'
    BY <2>1, <2>3 DEF SyncInv, Numbered, Numbers
  <2> QED  BY <2>1, <2>2, <2>3, <2>4 DEF SyncInv, Above
<1>10. ASSUME NEW t \in Syncers, SyncWrite(t) PROVE SyncInv'
  <2>1. /\ t = Worker /\ W.pc = "swapped" /\ W'.pc = "written" /\ W'.at = W.at
        /\ file' = file \o W.to_sync /\ UNCHANGED <<batch_seq, write_buf, engine_synced>>
    BY <1>10, Zenon DEF SyncWrite, TypeOK, W, SyncState, Syncers
  <2>2. InFlight = W.to_sync /\ InFlight' = << >> /\ Reported' = Reported
    BY <2>1 DEF InFlight, Reported
  <2>3. Numbers(file') = Numbers(file) \cup Numbers(InFlight)
    BY <2>1, <2>2, NumbersConcat DEF TypeOK, W, SyncState, Syncers
  <2>4. Numbered'
    <3>1. Numbers(write_buf') = Numbers(write_buf) /\ batch_seq' = batch_seq
      BY <2>1
    <3> QED  BY <2>3, <3>1 DEF SyncInv, Numbered
  <2> QED  BY <2>1, <2>2, <2>4 DEF SyncInv, Above
<1>11. CASE Checkpoint
  <2>1. [kind |-> "ckpt", ts |-> global_ts, seq |-> batch_seq + 1] \in Record
    BY DEF TypeOK, Record, Kinds
  <2> QED  BY <1>11, <2>1, SyncAppend DEF Checkpoint, BufferNumbered
<1>12. CASE StartBatch
  <2>1. [kind |-> "begin", ts |-> global_ts + Gap, seq |-> 0] \in Record
    BY ConfigAssumption DEF TypeOK, Record, Kinds
  <2> QED  BY <1>12, <2>1, SyncAppend DEF StartBatch, BufferUnnumbered
<1>13. CASE BatchWrite
  <2>1. [kind |-> "bput", ts |-> batch_ts, seq |-> batch_seq + 1] \in Record
    BY DEF TypeOK, Record, Kinds
  <2> QED  BY <1>13, <2>1, SyncAppend DEF BatchWrite, BufferNumbered
<1>14. CASE BufferCommit
  <2>1. [kind |-> "commit", ts |-> batch_ts, seq |-> batch_seq + 1] \in Record
    BY DEF TypeOK, Record, Kinds
  <2> QED  BY <1>14, <2>1, SyncAppend DEF BufferCommit, BufferNumbered
<1>15. CASE CommitBatchAsync \/ CommitBatch \/ CommitBatchFinalize \/ CommitBatchReturn
  BY <1>15, SyncUnchanged DEF CommitBatchAsync, CommitBatch, CommitBatchFinalize,
     CommitBatchReturn, PublishBatch, walVars
<1> QED
  BY <1>1, <1>2, <1>3, <1>4, <1>5, <1>6, <1>7, <1>8, <1>9, <1>10, <1>11, <1>12,
     <1>13, <1>14, <1>15 DEF Next, WriterStep, WorkerStep, BatchStep

\* The clients' side: the number a client waits for covers its own record, and
\* whoever was answered lies at or below the reported number.
LEMMA ClientStep ==
    ASSUME Aborters = {}, TypeOK, GroupInv, [Next]_vars
    PROVE  ClientInv'
<1> USE DEF GroupInv
<1>0. /\ batch_seq \in Nat /\ engine_synced \in Nat /\ W.at \in Nat
      /\ pending \subseteq [rec : Nat, seq : Nat]
  BY DEF TypeOK, W, SyncState, Syncers
<1>1. CASE /\ UNCHANGED <<op, pending, acked>>
           /\ engine_synced' \in Nat /\ engine_synced' >= engine_synced
           /\ batch_seq' \in Nat /\ batch_seq' >= batch_seq
  BY <1>0, <1>1 DEF ClientInv
<1>2. CASE UNCHANGED vars
  BY <1>0, <1>1, <1>2 DEF vars, walVars, clientVars
<1>3. ASSUME NEW w \in Writers, TakeTs(w) PROVE ClientInv'
  BY <1>3 DEF TypeOK, TakeTs, ClientInv, walVars
<1>4. ASSUME NEW w \in Writers, BufferWrite(w) PROVE ClientInv'
  BY <1>0, <1>4 DEF TypeOK, BufferWrite, BufferNumbered, ClientInv
<1>5. ASSUME NEW w \in Writers, TakeSeq(w) PROVE ClientInv'
  BY <1>0, <1>5 DEF TypeOK, TakeSeq, ClientInv, walVars
<1>6. CASE Fulfill
  <2>1. \A p \in Covered : p.rec \in 1..engine_synced
    BY <1>0 DEF Covered, ClientInv
  <2>2. /\ UNCHANGED <<op, engine_synced, batch_seq>> /\ pending' \subseteq pending
        /\ acked' = acked \cup {p.rec : p \in Covered}
    BY <1>6 DEF Fulfill, walVars
  <2> QED  BY <2>1, <2>2, Zenon DEF ClientInv
<1>7. CASE WorkerFinish
  <2>1. W.pc = "written" /\ engine_synced' = W.at /\ engine_synced <= W.at
    BY <1>7 DEF WorkerFinish, W, SyncInv, Reported
  <2> QED  BY <1>0, <1>1, <1>7, <2>1 DEF WorkerFinish, clientVars
<1>8. CASE WorkerExit
  <2>1. engine_synced' = engine_synced
    BY <1>8 DEF WorkerExit, W, SyncInv
  <2> QED  BY <1>0, <1>1, <1>8, <2>1 DEF WorkerExit, clientVars
<1>9. CASE WorkerSwap \/ WorkerTooSmall \/ WorkerNothing \/ Halted
  BY <1>0, <1>1, <1>9 DEF WorkerSwap, SyncSwap, WorkerTooSmall, WorkerNothing,
     Halted, vars, walVars, clientVars
<1>10. ASSUME NEW t \in Syncers, SyncWrite(t) PROVE ClientInv'
  BY <1>0, <1>1, <1>10 DEF SyncWrite, clientVars
<1>11. CASE Shutdown \/ Checkpoint \/ StartBatch \/ BatchWrite \/ BufferCommit
  BY <1>0, <1>1, <1>11 DEF Shutdown, Checkpoint, StartBatch, BatchWrite, BufferCommit,
     BufferNumbered, BufferUnnumbered, walVars, clientVars
<1>12. CASE CommitBatchAsync \/ CommitBatch \/ CommitBatchFinalize \/ CommitBatchReturn
  BY <1>0, <1>1, <1>12 DEF CommitBatchAsync, CommitBatch, CommitBatchFinalize,
     CommitBatchReturn, PublishBatch, walVars, clientVars
<1> QED
  BY <1>2, <1>3, <1>4, <1>5, <1>6, <1>7, <1>8, <1>9, <1>10, <1>11, <1>12
     DEF Next, WriterStep, WorkerStep, BatchStep

\* Without concurrent aborts the inductive invariant of group commit holds always.
LEMMA GroupInvariant ==
    ASSUME Aborters = {}
    PROVE  Spec => [](TypeOK /\ GroupInv)
<1>1. Init => GroupInv
  <2> SUFFICES ASSUME Init PROVE GroupInv
    OBVIOUS
  <2>1. W.pc = "idle"
    BY DEF Init, W, NotSyncing, Syncers
  <2>2. ClientInv
    BY DEF Init, ClientInv
  <2>3. InFlight = << >> /\ Reported = 0
    BY <2>1 DEF Init, InFlight, Reported
  <2>4. SyncInv
    BY <2>3 DEF Init, SyncInv, Above, Numbered, Numbers
  <2> QED  BY <2>2, <2>4 DEF GroupInv
<1>2. TypeOK /\ GroupInv /\ [Next]_vars => GroupInv'
  BY SyncStep, ClientStep DEF GroupInv
<1> QED  BY <1>1, <1>2, TypeCorrect, PTL DEF Spec

\* Group commit is sound: with the sync worker as the only syncing thread, a
\* client is answered only when its record is in the file.
THEOREM GroupCommitSound ==
    ASSUME Aborters = {}
    PROVE  Spec => []AckedDurable
<1>1. TypeOK /\ GroupInv => AckedDurable
  BY ReportedInFile, Zenon DEF GroupInv, ClientInv, AckedDurable
<1> QED  BY <1>1, GroupInvariant, PTL

-----------------------------------------------------------------------------
(* Shutdown, whoever aborts.  Every numbered record is in the file, in the *)
(* buffer or in the hands of a thread inside WAL::Sync; the destructor     *)
(* runs when no call is in progress, so that nothing is buffered and no    *)
(* AbortBatch is syncing once should_stop is set.                          *)

Kept(n) ==
    \/ n \in Numbers(file)
    \/ n \in Numbers(write_buf)
    \/ \E t \in Syncers : sync[t].pc = "swapped" /\ n \in Numbers(sync[t].to_sync)

KeptInv == \A n \in 1..batch_seq : Kept(n)

StopInv ==
    /\ \A a \in Aborters : sync[a].pc # "idle" => batch_mutex = a
    /\ stop => bpc = "idle" /\ batch_mutex = NoOne /\ \A w \in Writers : op[w].pc = "idle"
    /\ W.pc = "exited" => stop /\ write_buf = << >>

\* Buffering a record loses none, and the new one is in the buffer.
LEMMA KeptAppend ==
    ASSUME TypeOK, KeptInv, NEW r \in Record, write_buf' = Append(write_buf, r),
           \/ r.seq = 0 /\ batch_seq' = batch_seq
           \/ r.seq = batch_seq + 1 /\ batch_seq' = batch_seq + 1,
           UNCHANGED <<file, sync>>
    PROVE  KeptInv'
<1>1. Numbers(write_buf') = Numbers(write_buf) \cup {r.seq}
  BY NumbersAppend DEF TypeOK
<1>2. Numbers(file') = Numbers(file)
  OBVIOUS
<1>3. \A n \in 1..batch_seq' : n \in 1..batch_seq \/ n = r.seq
  BY DEF TypeOK
<1> QED  BY <1>1, <1>2, <1>3 DEF KeptInv, Kept

\* A thread that swaps the buffer out holds what was in it.
LEMMA KeptSwap ==
    ASSUME TypeOK, KeptInv, NEW u \in Syncers, sync[u].pc = "idle", SyncSwap(u)
    PROVE  KeptInv'
<1>1. /\ sync'[u].pc = "swapped" /\ sync'[u].to_sync = write_buf
      /\ \A t \in Syncers \ {u} : sync'[t] = sync[t]
      /\ file' = file /\ batch_seq' = batch_seq
  BY DEF SyncSwap, TypeOK
<1>2. Numbers(file') = Numbers(file) /\ Numbers(sync'[u].to_sync) = Numbers(write_buf)
  BY <1>1, Zenon
<1>3. ASSUME NEW n \in 1..batch_seq PROVE Kept(n)'
  <2>1. CASE n \in Numbers(file)
    BY <1>2, <2>1 DEF Kept
  <2>2. CASE n \in Numbers(write_buf)
    BY <1>1, <1>2, <2>2 DEF Kept
  <2>3. CASE \E t \in Syncers : sync[t].pc = "swapped" /\ n \in Numbers(sync[t].to_sync)
    <3>1. PICK t \in Syncers : sync[t].pc = "swapped" /\ n \in Numbers(sync[t].to_sync)
      BY <2>3
    <3>2. t # u
      BY <3>1
    <3> QED  BY <1>1, <3>1, <3>2 DEF Kept
  <2> QED  BY <1>3, <2>1, <2>2, <2>3 DEF KeptInv, Kept
<1> QED  BY <1>1, <1>3, Zenon DEF KeptInv

\* A thread that leaves WAL::Sync, or changes nothing of it, holds nothing it could lose.
LEMMA KeptLeave ==
    ASSUME KeptInv, UNCHANGED <<file, write_buf, batch_seq>>,
           \A t \in Syncers : sync[t].pc = "swapped" => sync'[t] = sync[t]
    PROVE  KeptInv'
<1>1. Numbers(file') = Numbers(file) /\ Numbers(write_buf') = Numbers(write_buf)
  OBVIOUS
<1> QED  BY <1>1 DEF KeptInv, Kept

\* Every step keeps every numbered record.
LEMMA KeptStep == TypeOK /\ KeptInv /\ [Next]_vars => KeptInv'
<1> SUFFICES ASSUME TypeOK, KeptInv, [Next]_vars PROVE KeptInv'
  OBVIOUS
<1>1. CASE UNCHANGED <<file, write_buf, batch_seq, sync>>
  BY <1>1, KeptLeave
<1>2. CASE UNCHANGED vars
  BY <1>1, <1>2 DEF vars, walVars
<1>3. ASSUME NEW w \in Writers, WriterStep(w) PROVE KeptInv'
  <2>1. CASE TakeTs(w) \/ TakeSeq(w)
    BY <1>1, <2>1 DEF TakeTs, TakeSeq, walVars
  <2>2. CASE BufferWrite(w)
    <3>1. [kind |-> "put", ts |-> op[w].ts, seq |-> batch_seq + 1] \in Record
      BY DEF TypeOK, OpState, Record, Kinds
    <3> QED  BY <2>2, <3>1, KeptAppend DEF BufferWrite, BufferNumbered
  <2> QED  BY <1>3, <2>1, <2>2, Zenon DEF WriterStep
<1>4. CASE Fulfill \/ Shutdown
  BY <1>1, <1>4 DEF Fulfill, Shutdown, walVars
<1>5. CASE WorkerSwap
  BY <1>5, KeptSwap, Zenon DEF WorkerSwap, Syncers
<1>6. CASE WorkerTooSmall \/ WorkerNothing \/ Halted
  BY <1>1, <1>6, Zenon DEF WorkerTooSmall, WorkerNothing, Halted, vars, walVars
<1>7. CASE WorkerFinish \/ WorkerExit
  <2>1. sync[Worker].pc # "swapped" /\ \A t \in Syncers \ {Worker} : sync'[t] = sync[t]
    BY <1>7, Zenon DEF WorkerFinish, WorkerExit, TypeOK
  <2>2. UNCHANGED <<file, write_buf, batch_seq>>
    BY <1>7 DEF WorkerFinish, WorkerExit
  <2> QED  BY <2>1, <2>2, KeptLeave
<1>8. ASSUME NEW u \in Syncers, SyncWrite(u) PROVE KeptInv'
  <2>1. /\ \A t \in Syncers \ {u} : sync'[t] = sync[t]
        /\ file' = file \o sync[u].to_sync /\ UNCHANGED <<write_buf, batch_seq>>
    BY <1>8 DEF SyncWrite, TypeOK
  <2>2. Numbers(file') = Numbers(file) \cup Numbers(sync[u].to_sync)
    BY <2>1, NumbersConcat DEF TypeOK, SyncState
  <2>3. Numbers(write_buf') = Numbers(write_buf)
    BY <2>1
  <2> QED  BY <2>1, <2>2, <2>3, Zenon DEF KeptInv, Kept
<1>9. CASE Checkpoint
  <2>1. [kind |-> "ckpt", ts |-> global_ts, seq |-> batch_seq + 1] \in Record
    BY DEF TypeOK, Record, Kinds
  <2> QED  BY <1>9, <2>1, KeptAppend, Zenon DEF Checkpoint, BufferNumbered
<1>10. CASE StartBatch
  <2>1. [kind |-> "begin", ts |-> global_ts + Gap, seq |-> 0] \in Record
    BY ConfigAssumption DEF TypeOK, Record, Kinds
  <2> QED  BY <1>10, <2>1, KeptAppend DEF StartBatch, BufferUnnumbered
<1>11. CASE BatchWrite
  <2>1. [kind |-> "bput", ts |-> batch_ts, seq |-> batch_seq + 1] \in Record
    BY DEF TypeOK, Record, Kinds
  <2> QED  BY <1>11, <2>1, KeptAppend DEF BatchWrite, BufferNumbered
<1>12. CASE BufferCommit
  <2>1. [kind |-> "commit", ts |-> batch_ts, seq |-> batch_seq + 1] \in Record
    BY DEF TypeOK, Record, Kinds
  <2> QED  BY <1>12, <2>1, KeptAppend DEF BufferCommit, BufferNumbered
<1>13. CASE CommitBatchAsync \/ CommitBatch \/ CommitBatchFinalize \/ CommitBatchReturn
  BY <1>1, <1>13 DEF CommitBatchAsync, CommitBatch, CommitBatchFinalize, CommitBatchReturn,
     PublishBatch, walVars
<1>14. ASSUME NEW a \in Aborters, AbortUntouched(a) PROVE KeptInv'
  BY <1>1, <1>14 DEF AbortUntouched, walVars
<1>15. ASSUME NEW a \in Aborters, AbortBuffer(a) PROVE KeptInv'
  <2>1. [kind |-> "abort", ts |-> batch_ts, seq |-> 0] \in Record
    BY DEF TypeOK, Record, Kinds
  <2> QED  BY <1>15, <2>1, KeptAppend DEF AbortBuffer, BufferUnnumbered
<1>16. ASSUME NEW a \in Aborters, AbortSwap(a) PROVE KeptInv'
  BY <1>16, KeptSwap DEF AbortSwap, Syncers
<1>17. ASSUME NEW a \in Aborters, AbortReturn(a) PROVE KeptInv'
  <2>1. sync[a].pc # "swapped" /\ \A t \in Syncers \ {a} : sync'[t] = sync[t]
    BY <1>17 DEF AbortReturn, TypeOK
  <2>2. UNCHANGED <<file, write_buf, batch_seq>>
    BY <1>17 DEF AbortReturn
  <2> QED  BY <2>1, <2>2, KeptLeave
<1> QED
  BY <1>2, <1>3, <1>4, <1>5, <1>6, <1>7, <1>8, <1>9, <1>10, <1>11, <1>12, <1>13, <1>14,
     <1>15, <1>16, <1>17 DEF Next, WorkerStep, BatchStep, AbortStep

\* Every step keeps what the worker's exit relies on.
LEMMA StopStep == TypeOK /\ ClockInv /\ StopInv /\ [Next]_vars => StopInv'
<1> SUFFICES ASSUME TypeOK, ClockInv, StopInv, [Next]_vars PROVE StopInv'
  OBVIOUS
<1>1. CASE UNCHANGED <<sync, batch_mutex, stop, bpc, op, write_buf>>
  BY <1>1 DEF StopInv, W
<1>2. CASE UNCHANGED vars
  BY <1>1, <1>2 DEF vars, walVars, clientVars
<1>3. ASSUME NEW w \in Writers, WriterStep(w) PROVE StopInv'
  <2>1. ~stop /\ UNCHANGED <<stop, sync, batch_mutex>>
    BY <1>3, Zenon DEF StopInv, WriterStep, TakeTs, BufferWrite, TakeSeq, walVars
  <2> QED  BY <2>1, Zenon DEF StopInv, W
<1>4. CASE Fulfill
  BY <1>1, <1>4, Zenon DEF Fulfill, walVars
<1>5. CASE WorkerSwap \/ WorkerFinish \/ WorkerExit
  <2>1. \/ W'.pc \in {"swapped", "idle"}
        \/ W'.pc = "exited" /\ stop /\ write_buf' = << >>
    BY <1>5 DEF WorkerSwap, SyncSwap, WorkerFinish, WorkerExit, NotSyncing, W, TypeOK,
       SyncState, Syncers
  <2>2. /\ UNCHANGED <<stop, bpc, op, batch_mutex>>
        /\ \A a \in Aborters : sync'[a] = sync[a]
    BY <1>5, ThreadsAssumption, Zenon DEF WorkerSwap, SyncSwap, WorkerFinish, WorkerExit, clientVars,
       TypeOK, Syncers
  <2> QED  BY <2>1, <2>2 DEF StopInv
<1>6. CASE WorkerTooSmall \/ WorkerNothing \/ Halted
  BY <1>1, <1>6, Zenon DEF WorkerTooSmall, WorkerNothing, Halted, vars, walVars, clientVars
<1>7. ASSUME NEW u \in Syncers, SyncWrite(u) PROVE StopInv'
  <2>1. /\ sync[u].pc = "swapped" /\ sync'[u].pc = "written"
        /\ \A t \in Syncers \ {u} : sync'[t] = sync[t]
        /\ UNCHANGED <<stop, bpc, op, batch_mutex, write_buf>>
    BY <1>7 DEF SyncWrite, TypeOK, SyncState, clientVars
  <2>2. \A a \in Aborters : a \in Syncers /\ (sync'[a].pc # "idle" => sync[a].pc # "idle")
    BY <2>1 DEF Syncers
  <2>3. W'.pc = "exited" => W.pc = "exited"
    BY <2>1, Zenon DEF W, Syncers
  <2> QED  BY <2>1, <2>2, <2>3, Zenon DEF StopInv
<1>8. CASE Shutdown
  BY <1>8, Zenon DEF Shutdown, StopInv, W, walVars, clientVars
<1>9. CASE Checkpoint \/ StartBatch \/ BatchWrite
  BY <1>9 DEF Checkpoint, StartBatch, BatchWrite, StopInv, W
<1>10. CASE BufferCommit
  <2>1. ~stop /\ stop' = stop /\ sync' = sync /\ batch_mutex = NoOne
    BY <1>10 DEF BufferCommit
  <2>2. \A a \in Aborters : sync[a].pc = "idle"
    BY <2>1, ThreadsAssumption DEF StopInv, Syncers
  <2> QED  BY <2>1, <2>2 DEF StopInv, W
<1>11. CASE CommitBatchAsync \/ CommitBatch \/ CommitBatchReturn
  <2>1. ~stop /\ UNCHANGED <<stop, sync>>
    BY <1>11 DEF CommitBatchAsync, CommitBatch, CommitBatchReturn, PublishBatch, StopInv, walVars
  <2>2. batch_mutex = Batcher
    BY <1>11 DEF CommitBatchAsync, CommitBatch, CommitBatchReturn, ClockInv
  <2>3. \A a \in Aborters : sync[a].pc = "idle"
    BY <2>2, ThreadsAssumption DEF StopInv, Syncers
  <2> QED  BY <2>1, <2>3, Zenon DEF StopInv, W
<1>12. CASE CommitBatchFinalize
  <2>1. ~stop /\ UNCHANGED <<stop, sync, batch_mutex>>
    BY <1>12, Zenon DEF CommitBatchFinalize, PublishBatch, StopInv, walVars
  <2> QED  BY <2>1, Zenon DEF StopInv, W
<1>13. ASSUME NEW a \in Aborters, AbortUntouched(a) PROVE StopInv'
  BY <1>1, <1>13 DEF AbortUntouched, walVars, clientVars
<1>14. ASSUME NEW a \in Aborters, AbortBuffer(a) PROVE StopInv'
  <2>1. ~stop /\ stop' = stop /\ sync' = sync /\ batch_mutex = NoOne
    BY <1>14 DEF AbortBuffer
  <2>2. \A c \in Aborters : sync[c].pc = "idle"
    BY <2>1, ThreadsAssumption DEF StopInv, Syncers
  <2> QED  BY <2>1, <2>2 DEF StopInv, W
<1>15. ASSUME NEW a \in Aborters, AbortSwap(a) PROVE StopInv'
  <2>1. /\ batch_mutex = a /\ UNCHANGED <<batch_mutex, stop>>
        /\ \A t \in Syncers \ {a} : sync'[t] = sync[t]
    BY <1>15 DEF AbortSwap, SyncSwap, TypeOK
  <2>2. ~stop /\ a # Worker /\ a # NoOne
    BY <2>1, ThreadsAssumption DEF StopInv, Syncers
  <2>3. W' = W
    BY <2>1, <2>2 DEF W, Syncers
  <2> QED  BY <2>1, <2>2, <2>3, Zenon DEF StopInv, Syncers
<1>16. ASSUME NEW a \in Aborters, AbortReturn(a) PROVE StopInv'
  <2>1. /\ batch_mutex = a /\ stop' = stop /\ sync'[a].pc = "idle"
        /\ \A t \in Syncers \ {a} : sync'[t] = sync[t]
    BY <1>16 DEF AbortReturn, TypeOK, NotSyncing, Syncers
  <2>2. ~stop /\ a # Worker /\ a # NoOne
    BY <2>1, ThreadsAssumption DEF StopInv, Syncers
  <2>3. W' = W
    BY <2>1, <2>2 DEF W, Syncers
  <2>4. \A c \in Aborters : sync'[c].pc = "idle"
    BY <2>1 DEF StopInv, Syncers
  <2> QED  BY <2>1, <2>2, <2>3, <2>4 DEF StopInv
<1> QED
  BY <1>2, <1>3, <1>4, <1>5, <1>6, <1>7, <1>8, <1>9, <1>10, <1>11, <1>12, <1>13, <1>14,
     <1>15, <1>16 DEF Next, WorkerStep, BatchStep, AbortStep

\* A clean shutdown hardens every numbered record, whether or not its client waited
\* for it, and also when AbortBatch has synced on other threads.
THEOREM ShutdownLosesNothing == Spec => []CleanShutdown
<1>1. Init => ClockInv /\ StopInv /\ KeptInv
  <2> SUFFICES ASSUME Init PROVE ClockInv /\ StopInv /\ KeptInv
    OBVIOUS
  <2>1. \A t \in Syncers : sync[t].pc = "idle"
    BY Zenon DEF Init, NotSyncing
  <2>2. StopInv
    BY <2>1 DEF Init, StopInv, W, Syncers
  <2> QED  BY <2>2 DEF Init, ClockInv, KeptInv
<1>2. TypeOK /\ ClockInv /\ StopInv /\ KeptInv /\ [Next]_vars => (ClockInv /\ StopInv /\ KeptInv)'
  BY ClockStep, StopStep, KeptStep, Zenon
<1>3. TypeOK /\ StopInv /\ KeptInv => CleanShutdown
  <2> SUFFICES ASSUME TypeOK, StopInv, KeptInv, W.pc = "exited", NEW n \in 1..batch_seq
               PROVE  n \in Numbers(file)
    BY DEF CleanShutdown, W
  <2>1. Numbers(write_buf) = {}
    BY DEF StopInv, Numbers
  <2>2. \A t \in Syncers : sync[t].pc # "swapped"
    BY ThreadsAssumption, Zenon DEF StopInv, W, Syncers
  <2> QED  BY <2>1, <2>2 DEF KeptInv, Kept
<1> QED  BY <1>1, <1>2, <1>3, TypeCorrect, PTL DEF Spec

-----------------------------------------------------------------------------
(* The write path implements the durable log.  Every step either leaves    *)
(* the log as it is or appends one record to it: moving records from the   *)
(* buffer through the worker's hands into the file changes only which      *)
(* prefix is durable.                                                      *)

\* Buffering a record appends it to the log of file, records in flight and buffer.
LEMMA LogAppend ==
    ASSUME TypeOK, NEW r \in Record, write_buf' = Append(write_buf, r),
           UNCHANGED <<file, sync>>
    PROVE  LogView' = Append(LogView, r)
<1>1. /\ file \in Seq(Record) /\ write_buf \in Seq(Record) /\ InFlight \in Seq(Record)
      /\ InFlight' = InFlight
  BY DEF TypeOK, InFlight, W, SyncState, Syncers
<1>2. (file \o InFlight) \o Append(write_buf, r) = Append((file \o InFlight) \o write_buf, r)
  BY <1>1
<1> QED  BY <1>1, <1>2, Zenon DEF LogView, InFlight, W

\* A record enters the log at its end.
LEMMA AppendAccepts ==
    ASSUME TypeOK, NEW r \in Record, write_buf' = Append(write_buf, r),
           UNCHANGED <<file, sync, acked>>
    PROVE  Durable!Accept
<1>1. LogView' = Append(LogView, r)
  BY LogAppend
<1>2. LogView \in Seq(Record)
  BY DEF TypeOK, LogView, SyncState, Syncers
<1>3. LogView'[Len(LogView')] = r /\ LogView' # << >>
  BY <1>1, <1>2
<1> QED  BY <1>1, <1>3 DEF Durable!Accept

\* Every step extends the log, hardens a prefix, acknowledges, or leaves it alone.
LEMMA LogStep ==
    ASSUME Aborters = {}, TypeOK, GroupInv, [Next]_vars
    PROVE  [Durable!Next]_(Durable!vars)
<1> USE DEF Durable!Next, Durable!vars
<1>1. CASE UNCHANGED <<file, sync, write_buf, acked>>
  BY <1>1 DEF LogView
<1>2. CASE UNCHANGED vars
  BY <1>1, <1>2, Zenon DEF vars, walVars, clientVars
<1>3. ASSUME NEW w \in Writers, TakeTs(w) \/ TakeSeq(w) PROVE [Durable!Next]_(Durable!vars)
  BY <1>1, <1>3, Zenon DEF TakeTs, TakeSeq, walVars
<1>4. ASSUME NEW w \in Writers, BufferWrite(w) PROVE [Durable!Next]_(Durable!vars)
  <2>1. [kind |-> "put", ts |-> op[w].ts, seq |-> batch_seq + 1] \in Record
    BY DEF TypeOK, OpState, Record, Kinds
  <2> QED  BY <1>4, <2>1, AppendAccepts DEF BufferWrite, BufferNumbered
<1>5. CASE Fulfill
  <2>1. LogView' = LogView /\ file' = file
    BY <1>5 DEF Fulfill, LogView, walVars
  <2>2. acked' \subseteq 1..engine_synced
    <3>1. \A p \in Covered : p.rec \in 1..engine_synced
      BY DEF TypeOK, Covered, GroupInv, ClientInv
    <3> QED  BY <1>5, <3>1, Zenon DEF Fulfill, GroupInv, ClientInv
  <2>3. 1..engine_synced \subseteq Numbers(file)
    BY ReportedInFile DEF GroupInv
  <2>4. Numbers(file) \subseteq Durable!Tickets(Len(file))
    BY DEF TypeOK, Numbers, Durable!Tickets, LogView, SyncState, Syncers
  <2>5. acked \subseteq acked'
    BY <1>5 DEF Fulfill
  <2> QED  BY <2>1, <2>2, <2>3, <2>4, <2>5 DEF Durable!Acknowledge
<1>6. CASE WorkerSwap
  <2>1. /\ sync[Worker].pc = "idle" /\ sync'[Worker].pc = "swapped"
        /\ sync'[Worker].to_sync = write_buf /\ write_buf' = << >>
        /\ UNCHANGED <<file, acked>>
    BY <1>6 DEF WorkerSwap, SyncSwap, TypeOK, SyncState, Syncers, clientVars
  <2>2. (file \o << >>) \o write_buf = (file \o write_buf) \o << >>
    BY DEF TypeOK
  <2> QED  BY <2>1, <2>2 DEF LogView
<1>7. CASE WorkerTooSmall \/ WorkerNothing \/ Halted
  BY <1>1, <1>7, Zenon DEF WorkerTooSmall, WorkerNothing, Halted, vars, walVars, clientVars
<1>8. CASE WorkerFinish \/ WorkerExit
  <2>1. /\ sync[Worker].pc # "swapped" /\ sync'[Worker].pc # "swapped"
        /\ UNCHANGED <<file, write_buf, acked>>
    BY <1>8 DEF WorkerFinish, WorkerExit, NotSyncing, TypeOK, SyncState, Syncers,
       clientVars
  <2> QED  BY <2>1 DEF LogView
<1>9. ASSUME NEW t \in Syncers, SyncWrite(t) PROVE [Durable!Next]_(Durable!vars)
  <2>1. /\ sync[Worker].pc = "swapped" /\ sync'[Worker].pc = "written"
        /\ file' = file \o sync[Worker].to_sync /\ UNCHANGED <<write_buf, acked>>
    BY <1>9, Zenon DEF SyncWrite, TypeOK, SyncState, Syncers, clientVars
  <2>2. /\ file \in Seq(Record) /\ sync[Worker].to_sync \in Seq(Record)
        /\ write_buf \in Seq(Record)
    BY DEF TypeOK, SyncState, Syncers
  <2>3. LogView' = LogView
    BY <2>1, <2>2 DEF LogView
  <2>4. Len(file') \in Len(file)..Len(LogView)
    BY <2>1, <2>2 DEF LogView
  <2> QED  BY <2>1, <2>3, <2>4 DEF Durable!Harden
<1>10. CASE Shutdown
  BY <1>1, <1>10 DEF Shutdown, walVars, clientVars
<1>11. CASE Checkpoint
  <2>1. [kind |-> "ckpt", ts |-> global_ts, seq |-> batch_seq + 1] \in Record
    BY DEF TypeOK, Record, Kinds
  <2> QED  BY <1>11, <2>1, AppendAccepts DEF Checkpoint, BufferNumbered, clientVars
<1>12. CASE StartBatch
  <2>1. [kind |-> "begin", ts |-> global_ts + Gap, seq |-> 0] \in Record
    BY ConfigAssumption DEF TypeOK, Record, Kinds
  <2> QED  BY <1>12, <2>1, AppendAccepts DEF StartBatch, BufferUnnumbered, clientVars
<1>13. CASE BatchWrite
  <2>1. [kind |-> "bput", ts |-> batch_ts, seq |-> batch_seq + 1] \in Record
    BY DEF TypeOK, Record, Kinds
  <2> QED  BY <1>13, <2>1, AppendAccepts DEF BatchWrite, BufferNumbered, clientVars
<1>14. CASE BufferCommit
  <2>1. [kind |-> "commit", ts |-> batch_ts, seq |-> batch_seq + 1] \in Record
    BY DEF TypeOK, Record, Kinds
  <2> QED  BY <1>14, <2>1, AppendAccepts, Zenon DEF BufferCommit, BufferNumbered, clientVars
<1>15. CASE CommitBatchAsync \/ CommitBatch \/ CommitBatchFinalize \/ CommitBatchReturn
  BY <1>1, <1>15 DEF CommitBatchAsync, CommitBatch, CommitBatchFinalize,
     CommitBatchReturn, PublishBatch, walVars, clientVars
<1> HIDE DEF Durable!Next, Durable!vars
<1> QED
  BY <1>2, <1>3, <1>4, <1>5, <1>6, <1>7, <1>8, <1>9, <1>10, <1>11, <1>12, <1>13,
     <1>14, <1>15 DEF Next, WriterStep, WorkerStep, BatchStep

\* With one syncing thread the write path implements the durable log: the file is
\* always a prefix of the log in the order of the calls, and acknowledgements stay
\* inside that prefix.
THEOREM ImplementsDurableLog ==
    ASSUME Aborters = {}
    PROVE  Spec => RefinesDurableLog
<1>1. Init => Durable!Init
  BY DEF Init, Durable!Init, LogView, NotSyncing, Syncers
<1>2. TypeOK /\ GroupInv /\ [Next]_vars => [Durable!Next]_(Durable!vars)
  BY LogStep, Zenon
<1> QED
  BY <1>1, <1>2, GroupInvariant, PTL DEF Spec, RefinesDurableLog, Durable!Spec

-----------------------------------------------------------------------------
(* Batch commit.  The commit record must be found in the file, not only in *)
(* the log, when a number that covers it has been reported.                *)

\* Record i of the log commits batch b, and no entry of b lies behind it.
Closes(log, b, i) ==
    /\ log[i].kind = "commit" /\ log[i].ts = b
    /\ \A j \in DOMAIN log : log[j].kind = "bput" /\ log[j].ts = b => j < i

\* The batches a reader can see lie below the clock and are closed in the file; a
\* batch that is being committed is closed in the log, at a number the committing
\* thread waits for.
CommitInv ==
    /\ \A b \in visible : b < global_ts /\ \E i \in DOMAIN file : Closes(LogView, b, i)
    /\ bpc # "idle" =>
          /\ batch_in_progress
          /\ \E i \in DOMAIN LogView :
                /\ Closes(LogView, batch_ts, i)
                /\ LogView[i].seq \in 1..(IF bpc = "buffered" THEN batch_seq ELSE batch_commit_seq)

\* The log is the file followed by the records in flight and the buffer.
LEMMA LogParts ==
    ASSUME TypeOK
    PROVE  /\ LogView \in Seq(Record) /\ file \in Seq(Record)
           /\ DOMAIN file \subseteq DOMAIN LogView
           /\ \A i \in DOMAIN file : LogView[i] = file[i]
           /\ \A i \in DOMAIN LogView \ DOMAIN file :
                 \/ \E j \in DOMAIN InFlight : LogView[i] = InFlight[j]
                 \/ \E j \in DOMAIN write_buf : LogView[i] = write_buf[j]
<1>1. file \in Seq(Record) /\ InFlight \in Seq(Record) /\ write_buf \in Seq(Record)
  BY DEF TypeOK, InFlight, W, SyncState, Syncers
<1>2. LogView = (file \o InFlight) \o write_buf
  BY DEF LogView, InFlight, W
<1> DEFINE l == (file \o InFlight) \o write_buf
<1>3. l \in Seq(Record) /\ DOMAIN file \subseteq DOMAIN l
  BY <1>1
<1>4. \A i \in DOMAIN file : l[i] = file[i]
  BY <1>1
<1>5. ASSUME NEW i \in DOMAIN l \ DOMAIN file
      PROVE  \/ \E j \in DOMAIN InFlight : l[i] = InFlight[j]
             \/ \E j \in DOMAIN write_buf : l[i] = write_buf[j]
  <2>1. CASE i <= Len(file) + Len(InFlight)
    <3>1. i - Len(file) \in DOMAIN InFlight /\ l[i] = InFlight[i - Len(file)]
      BY <1>1, <2>1
    <3> QED  BY <3>1
  <2>2. CASE i > Len(file) + Len(InFlight)
    <3>1. /\ i - (Len(file) + Len(InFlight)) \in DOMAIN write_buf
          /\ l[i] = write_buf[i - (Len(file) + Len(InFlight))]
      BY <1>1, <2>2
    <3> QED  BY <3>1
  <2> QED  BY <1>1, <2>1, <2>2
<1> HIDE DEF l
<1> QED  BY <1>1, <1>2, <1>3, <1>4, <1>5, Zenon DEF l

\* A record whose number was reported as synced is in the file.
LEMMA SyncedInFile ==
    ASSUME TypeOK, SyncInv, NEW i \in DOMAIN LogView, LogView[i].seq \in 1..engine_synced
    PROVE  i \in DOMAIN file
<1>1. engine_synced \in Nat /\ Reported \in Nat /\ engine_synced <= Reported
  BY DEF TypeOK, SyncInv, Reported, W, SyncState, Syncers
<1>2. \A j \in DOMAIN InFlight : InFlight[j].seq \notin 1..engine_synced
  BY <1>1 DEF SyncInv, Above
<1>3. \A j \in DOMAIN write_buf : write_buf[j].seq \notin 1..engine_synced
  BY <1>1 DEF SyncInv, Above
<1> QED  BY <1>2, <1>3, LogParts, Zenon

\* A record that is no entry of a batch leaves the batch closed where it was.
LEMMA ClosesAppend ==
    ASSUME NEW l \in Seq(Record), NEW r \in Record, NEW b, NEW i \in DOMAIN l,
           Closes(l, b, i), ~(r.kind = "bput" /\ r.ts = b)
    PROVE  /\ Closes(Append(l, r), b, i) /\ i \in DOMAIN Append(l, r)
           /\ Append(l, r)[i] = l[i]
<1> DEFINE m == Append(l, r)
<1>1. /\ DOMAIN m = DOMAIN l \cup {Len(l) + 1}
      /\ \A j \in DOMAIN l : m[j] = l[j]
      /\ m[Len(l) + 1] = r
  OBVIOUS
<1> HIDE DEF m
<1>2. Closes(m, b, i) /\ i \in DOMAIN m /\ m[i] = l[i]
  BY <1>1, Zenon DEF Closes
<1> QED  BY <1>2 DEF m

\* Steps that leave the log, the clock and the batch alone.  The file may grow.
LEMMA CommitUnchanged ==
    ASSUME CommitInv, LogView' = LogView, DOMAIN file \subseteq DOMAIN file',
           batch_seq \in Nat, UNCHANGED <<visible, bpc, batch_in_progress, batch_ts, batch_commit_seq, batch_seq>>,
           global_ts \in Nat, visible \subseteq Nat, global_ts' \in Nat, global_ts' >= global_ts
    PROVE  CommitInv'
<1>1. ASSUME NEW b \in visible'
      PROVE  b < global_ts' /\ \E i \in DOMAIN file' : Closes(LogView', b, i)
  <2>1. b \in Nat /\ b < global_ts /\ \E i \in DOMAIN file : Closes(LogView, b, i)
    BY <1>1, Zenon DEF CommitInv
  <2>2. b < global_ts'
    BY <2>1
  <2> QED  BY <2>1, <2>2, Zenon
<1>2. bpc' # "idle" =>
          /\ batch_in_progress'
          /\ \E i \in DOMAIN LogView' :
                /\ Closes(LogView', batch_ts', i)
                /\ LogView'[i].seq \in 1..(IF bpc' = "buffered" THEN batch_seq' ELSE batch_commit_seq')
  BY DEF CommitInv
<1> QED  BY <1>1, <1>2 DEF CommitInv

\* Buffering a record that is no entry of a visible or a committing batch.
LEMMA CommitAppend ==
    ASSUME TypeOK, CommitInv, NEW r \in Record, write_buf' = Append(write_buf, r),
           batch_seq' \in Nat, batch_seq' >= batch_seq,
           UNCHANGED <<file, sync, global_ts, visible, bpc, batch_commit_seq>>,
           r.kind = "bput" => r.ts \notin visible /\ bpc = "idle",
           bpc = "idle" \/ UNCHANGED <<batch_in_progress, batch_ts>>
    PROVE  CommitInv'
<1>1. LogView' = Append(LogView, r) /\ LogView \in Seq(Record)
  BY LogAppend, LogParts
<1>2. DOMAIN file \subseteq DOMAIN LogView
  BY LogParts, Zenon
<1>3. ASSUME NEW b \in visible'
      PROVE  b < global_ts' /\ \E i \in DOMAIN file' : Closes(LogView', b, i)
  <2>1. PICK i \in DOMAIN file : Closes(LogView, b, i)
    BY <1>3, Zenon DEF CommitInv
  <2>2. Closes(LogView', b, i)
    BY <1>1, <1>2, <1>3, <2>1, ClosesAppend, Zenon
  <2> QED  BY <1>3, <2>2 DEF CommitInv
<1>4. ASSUME bpc' # "idle"
      PROVE  /\ batch_in_progress'
             /\ \E i \in DOMAIN LogView' :
                   /\ Closes(LogView', batch_ts', i)
                   /\ LogView'[i].seq \in 1..(IF bpc' = "buffered" THEN batch_seq' ELSE batch_commit_seq')
  <2>1. PICK i \in DOMAIN LogView :
           /\ Closes(LogView, batch_ts, i)
           /\ LogView[i].seq \in 1..(IF bpc = "buffered" THEN batch_seq ELSE batch_commit_seq)
    BY <1>4 DEF CommitInv
  <2>2. Closes(LogView', batch_ts, i) /\ i \in DOMAIN LogView' /\ LogView'[i] = LogView[i]
    BY <1>1, <1>4, <2>1, ClosesAppend
  <2>3. LogView'[i].seq \in 1..(IF bpc' = "buffered" THEN batch_seq' ELSE batch_commit_seq')
    BY <2>1, <2>2 DEF TypeOK
  <2> QED  BY <1>4, <2>2, <2>3, Zenon DEF CommitInv
<1> QED  BY <1>3, <1>4 DEF CommitInv

\* Publishing a batch: its commit record, waited for, is in the file.
LEMMA CommitPublish ==
    ASSUME TypeOK, ClockInv, SyncInv, CommitInv, PublishBatch,
           bpc \in {"polling", "blocking"}
    PROVE  CommitInv'
<1>1. /\ LogView' = LogView /\ file' = file /\ bpc' = "idle"
      /\ global_ts' = batch_ts + 1 /\ visible' = visible \cup {batch_ts}
      /\ batch_commit_seq <= engine_synced
      /\ batch_commit_seq \in Nat /\ engine_synced \in Nat /\ batch_ts \in Nat
      /\ global_ts \in Nat /\ visible \subseteq Nat
  BY DEF PublishBatch, LogView, walVars, TypeOK
<1>2. global_ts <= batch_ts
  BY DEF CommitInv, ClockInv
<1>3. PICK i \in DOMAIN LogView :
         /\ Closes(LogView, batch_ts, i)
         /\ LogView[i].seq \in 1..batch_commit_seq
  BY DEF CommitInv
<1>4. i \in DOMAIN file
  BY <1>1, <1>3, SyncedInFile
<1>5. ASSUME NEW b \in visible'
      PROVE  b < global_ts' /\ \E k \in DOMAIN file' : Closes(LogView', b, k)
  <2>1. CASE b = batch_ts
    BY <1>1, <1>3, <1>4, <2>1
  <2>2. CASE b \in visible
    <3>1. b < global_ts /\ \E k \in DOMAIN file : Closes(LogView, b, k)
      BY <2>2 DEF CommitInv
    <3>2. b < global_ts'
      BY <1>1, <1>2, <2>2, <3>1
    <3> QED  BY <1>1, <3>1, <3>2
  <2> QED  BY <1>1, <1>5, <2>1, <2>2
<1> QED  BY <1>1, <1>5 DEF CommitInv

\* Every step keeps the commit invariant.
LEMMA CommitStep ==
    ASSUME Aborters = {}, TypeOK, TypeOK', ClockInv, SyncInv, CommitInv, [Next]_vars
    PROVE  CommitInv'
<1>0. /\ global_ts \in Nat /\ visible \subseteq Nat /\ batch_seq \in Nat /\ batch_ts \in Nat
      /\ batch_commit_seq \in Nat /\ global_ts' \in Nat /\ batch_seq' \in Nat
  BY DEF TypeOK
<1>1. CASE /\ UNCHANGED <<file, write_buf, visible, bpc, batch_in_progress, batch_ts,
                          batch_commit_seq, batch_seq>>
           /\ InFlight' = InFlight /\ global_ts' >= global_ts
  <2>1. LogView' = LogView
    BY <1>1, Zenon DEF LogView, InFlight, W
  <2> QED  BY <1>0, <1>1, <2>1, CommitUnchanged, Zenon
<1>s. ASSUME UNCHANGED <<file, write_buf, visible, bpc, batch_in_progress, batch_ts,
                        batch_commit_seq, batch_seq, sync>>,
             global_ts' = global_ts \/ global_ts' = global_ts + 1
      PROVE  CommitInv'
  <2>1. InFlight' = InFlight
    BY <1>s, Zenon DEF InFlight, W
  <2>2. global_ts' >= global_ts
    BY <1>0, <1>s
  <2> QED  BY <1>1, <1>s, <2>1, <2>2, Zenon
<1>2. CASE UNCHANGED vars
  BY <1>2, <1>s, Zenon DEF vars, walVars, batchVars
<1>3. ASSUME NEW w \in Writers, TakeTs(w) \/ TakeSeq(w) PROVE CommitInv'
  BY <1>3, <1>s, Zenon DEF TakeTs, TakeSeq, walVars, batchVars
<1>4. ASSUME NEW w \in Writers, BufferWrite(w) PROVE CommitInv'
  <2>1. [kind |-> "put", ts |-> op[w].ts, seq |-> batch_seq + 1] \in Record
    BY DEF TypeOK, OpState, Record, Kinds
  <2> QED  BY <1>0, <1>4, <2>1, CommitAppend DEF BufferWrite, BufferNumbered, batchVars
<1>5. CASE Fulfill \/ Shutdown
  BY <1>5, <1>s, Zenon DEF Fulfill, Shutdown, walVars, batchVars
<1>6. CASE WorkerSwap
  <2>1. /\ W.pc = "idle" /\ W'.pc = "swapped" /\ W'.to_sync = write_buf
        /\ write_buf' = << >> /\ file' = file
        /\ UNCHANGED <<global_ts, visible, bpc, batch_in_progress, batch_ts, batch_commit_seq,
                       batch_seq>>
    BY <1>6 DEF WorkerSwap, SyncSwap, TypeOK, W, SyncState, Syncers, batchVars
  <2>2. (file \o << >>) \o write_buf = (file \o write_buf) \o << >>
    BY DEF TypeOK
  <2>3. LogView' = LogView
    BY <2>1, <2>2 DEF LogView, W
  <2> QED  BY <1>0, <2>1, <2>3, CommitUnchanged
<1>7. CASE WorkerTooSmall \/ WorkerNothing \/ Halted
  <2>1. CASE WorkerTooSmall
    BY <1>s, <2>1, Zenon DEF WorkerTooSmall, batchVars
  <2>2. CASE WorkerNothing
    BY <1>2, <2>2, Zenon DEF WorkerNothing
  <2>3. CASE Halted
    BY <1>2, <2>3, Zenon DEF Halted
  <2> QED  BY <1>7, <2>1, <2>2, <2>3, Zenon
<1>8. CASE WorkerFinish \/ WorkerExit
  <2>1. W.pc # "swapped" /\ W'.pc # "swapped"
    <3>1. CASE WorkerFinish
      BY <3>1, Zenon DEF WorkerFinish, NotSyncing, TypeOK, Syncers, W
    <3>2. CASE WorkerExit
      BY <3>2 DEF WorkerExit, TypeOK, SyncState, Syncers, W
    <3> QED  BY <1>8, <3>1, <3>2, Zenon
  <2>2. InFlight' = InFlight
    BY <2>1, Zenon DEF InFlight
  <2> QED  BY <1>0, <1>1, <1>8, <2>2 DEF WorkerFinish, WorkerExit, batchVars
<1>9. ASSUME NEW t \in Syncers, SyncWrite(t) PROVE CommitInv'
  <2>1. /\ W.pc = "swapped" /\ W'.pc = "written" /\ file' = file \o W.to_sync
        /\ write_buf' = write_buf
        /\ UNCHANGED <<global_ts, visible, bpc, batch_in_progress, batch_ts, batch_commit_seq,
                       batch_seq>>
    BY <1>9 DEF SyncWrite, TypeOK, SyncState, Syncers, W, batchVars
  <2>2. /\ file \in Seq(Record) /\ W.to_sync \in Seq(Record)
        /\ write_buf \in Seq(Record)
    BY Zenon DEF TypeOK, SyncState, Syncers, W
  <2>3. LogView' = LogView
    BY <2>1, <2>2 DEF LogView, W
  <2>4. DOMAIN file \subseteq DOMAIN file'
    BY <2>1, <2>2
  <2> QED  BY <1>0, <2>1, <2>3, <2>4, CommitUnchanged
<1>10. CASE Checkpoint
  <2>1. [kind |-> "ckpt", ts |-> global_ts, seq |-> batch_seq + 1] \in Record
    BY DEF TypeOK, Record, Kinds
  <2> QED  BY <1>0, <1>10, <2>1, CommitAppend DEF Checkpoint, BufferNumbered, batchVars
<1>11. CASE StartBatch
  <2>1. [kind |-> "begin", ts |-> global_ts + Gap, seq |-> 0] \in Record
    BY ConfigAssumption DEF TypeOK, Record, Kinds
  <2>2. bpc = "idle"
    BY <1>11, Zenon DEF StartBatch, CommitInv
  <2> QED  BY <1>0, <1>11, <2>1, <2>2, CommitAppend DEF StartBatch, BufferUnnumbered
<1>12. CASE BatchWrite
  <2>1. [kind |-> "bput", ts |-> batch_ts, seq |-> batch_seq + 1] \in Record
    BY DEF TypeOK, Record, Kinds
  <2>2. batch_ts \notin visible /\ bpc = "idle"
    BY <1>0, <1>12 DEF BatchWrite, CommitInv, ClockInv
  <2> QED  BY <1>0, <1>12, <2>1, <2>2, CommitAppend DEF BatchWrite, BufferNumbered
<1>13. CASE BufferCommit
  <2> DEFINE r == [kind |-> "commit", ts |-> batch_ts, seq |-> batch_seq + 1]
  <2>1. r \in Record
    BY DEF TypeOK, Record, Kinds
  <2>2. /\ LogView' = Append(LogView, r) /\ LogView \in Seq(Record)
        /\ DOMAIN file \subseteq DOMAIN LogView
    BY <1>13, <2>1, LogAppend, LogParts DEF BufferCommit, BufferNumbered
  <2>3. /\ batch_in_progress' /\ bpc' = "buffered" /\ batch_seq' = batch_seq + 1
        /\ UNCHANGED <<file, visible, global_ts, batch_ts>>
    BY <1>13, Zenon DEF BufferCommit, BufferNumbered, batchVars
  <2>4. Closes(LogView', batch_ts, Len(LogView) + 1) /\ Len(LogView) + 1 \in DOMAIN LogView'
        /\ LogView'[Len(LogView) + 1].seq = batch_seq + 1
    BY <2>1, <2>2 DEF Closes
  <2>5. ASSUME NEW b \in visible'
        PROVE  b < global_ts' /\ \E i \in DOMAIN file' : Closes(LogView', b, i)
    <3>1. PICK i \in DOMAIN file : Closes(LogView, b, i)
      BY <2>3, <2>5 DEF CommitInv
    <3>2. Closes(LogView', b, i)
      BY <2>1, <2>2, <3>1, ClosesAppend
    <3> QED  BY <2>3, <2>5, <3>2 DEF CommitInv
  <2>6. LogView'[Len(LogView) + 1].seq \in 1..batch_seq'
    BY <1>0, <2>3, <2>4
  <2> QED  BY <2>3, <2>4, <2>5, <2>6, Zenon DEF CommitInv
<1>14. CASE CommitBatchAsync \/ CommitBatch
  <2>1. /\ bpc = "buffered" /\ bpc' \in {"polling", "blocking"} /\ batch_commit_seq' = batch_seq
        /\ UNCHANGED <<file, visible, global_ts, batch_ts, batch_in_progress>>
        /\ LogView' = LogView
    BY <1>14, Zenon DEF CommitBatchAsync, CommitBatch, LogView, walVars
  <2> QED  BY <2>1, Zenon DEF CommitInv
<1>15. CASE CommitBatchFinalize \/ CommitBatchReturn
  BY <1>15, CommitPublish DEF CommitBatchFinalize, CommitBatchReturn
<1> QED
  BY <1>2, <1>3, <1>4, <1>5, <1>6, <1>7, <1>8, <1>9, <1>10, <1>11, <1>12, <1>13,
     <1>14, <1>15, Zenon DEF Next, WriterStep, WorkerStep, BatchStep

\* A batch becomes visible only when its commit record is in the file and all its
\* entries lie before it: a reader never sees a batch that a crash would take back,
\* however the commit, the writers and the sync worker interleave.
THEOREM CommitSound ==
    ASSUME Aborters = {}
    PROVE  Spec => []CommitDurable
<1>1. Init => ClockInv /\ CommitInv
  BY DEF Init, ClockInv, CommitInv
<1>2. TypeOK /\ TypeOK' /\ GroupInv /\ ClockInv /\ CommitInv /\ [Next]_vars
        => (ClockInv /\ CommitInv)'
  BY ClockStep, CommitStep DEF GroupInv
<1>3. TypeOK /\ CommitInv => CommitDurable
  <2> SUFFICES ASSUME TypeOK, CommitInv, NEW b \in visible
               PROVE  \E i \in DOMAIN file :
                         /\ file[i].kind = "commit" /\ file[i].ts = b
                         /\ \A j \in DOMAIN LogView :
                               LogView[j].kind = "bput" /\ LogView[j].ts = b => j < i
    BY DEF CommitDurable
  <2>1. PICK i \in DOMAIN file : Closes(LogView, b, i)
    BY DEF CommitInv
  <2>2. LogView[i] = file[i]
    BY LogParts
  <2> QED  BY <2>1, <2>2 DEF Closes
<1> QED  BY <1>1, <1>2, <1>3, GroupInvariant, PTL DEF Spec
=============================================================================
