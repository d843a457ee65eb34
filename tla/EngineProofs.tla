---------------------------- MODULE EngineProofs ----------------------------
(***************************************************************************)
(* Type correctness of Engine, and the order of its memtables, for any     *)
(* keys, memtable size, gap and bounds.                                    *)
(***************************************************************************)
EXTENDS Engine, TLAPS

-----------------------------------------------------------------------------
(* The inductive invariant behind type correctness, one part per group of  *)
(* variables that change together.                                         *)

ClockOK ==
    /\ {global_ts, batch_ts, writes, batches, crashes} \subseteq Nat
    /\ {batch_in_progress, batch_touched, recovering} \subseteq BOOLEAN
    /\ applied \subseteq Entry
    /\ {committed, spilled, exposed} \subseteq SUBSET Nat
    /\ promised \subseteq [key : Keys, id : Nat]

LogOK ==
    /\ log \in Seq(LogRecord) /\ durable \in 0..Len(log)
    /\ replay \subseteq {i \in DOMAIN log : log[i].kind = "put"}

\* The flush worker has a memtable in hand from the pop to the manifest record, and
\* pending counts it and the frozen ones.
MemOK ==
    /\ mem \in Seq(MemTable) /\ mem # << >>
    /\ frozen \in Seq(DOMAIN mem)
    /\ fl \in FlushWorker
    /\ fl.pc \in {"idle", "logged"} \/ fl.mt \in DOMAIN mem
    /\ fl.mt \in DOMAIN mem \cup {NoTable}
    /\ pending = Len(frozen) + (IF fl.pc = "idle" THEN 0 ELSE 1)

\* The manifest lists the files in the order of their numbers, and all of them but the
\* one the flush worker has not recorded yet.
TablesOK ==
    /\ files \in Seq(SSTable)
    /\ tables \in Seq(Metadata) /\ \A n \in DOMAIN tables : tables[n].seq \in DOMAIN files
    /\ manifest \in [adds : Seq(Nat), aborts : SUBSET [ts : Nat, fence : Nat]]
    /\ \A i \in DOMAIN manifest.adds : manifest.adds[i] = i
    /\ Len(files) = Len(manifest.adds) + (IF fl.pc \in {"written", "published"} THEN 1 ELSE 0)

ReaderOK ==
    /\ rd \in ReaderState
    /\ rd.pc \in {"snapshot", "tables"} =>
         rd.frozen \in Seq(DOMAIN mem) /\ rd.active \in DOMAIN mem

\* Recovery runs alone.
RecoveryOK == recovering => fl.pc = "idle" /\ frozen = << >> /\ op = Idle /\ rd = Idle

\* What the proofs use of the order of replay and of the two passes of WAL::Recover:
\* replay has a first record, the passes stay in the file, and without batches they
\* return the puts behind the last checkpoint. WalFormatProofs proves the general facts,
\* from which EngineTheorems derives this.
ReplaySound ==
    /\ \A S \in SUBSET Nat : S # {} => \E i \in S : \A j \in S : i <= j
    /\ \A L \in Seq(LogRecord) :
         /\ Scanned(L) \subseteq DOMAIN L
         /\ LastCheckpoint(L) # 0 =>
              LastCheckpoint(L) \in DOMAIN L /\ L[LastCheckpoint(L)].kind = "ckpt"
         /\ (\A i \in DOMAIN L : L[i].kind \in {"put", "ckpt"}) =>
              \A i \in DOMAIN L :
                 L[i].kind = "put" => (i \in Scanned(L) <=> \A k \in i..Len(L) : L[k].kind # "ckpt")

TypeInv ==
    /\ ReplaySound
    /\ ClockOK /\ LogOK /\ MemOK /\ TablesOK /\ ReaderOK /\ RecoveryOK
    /\ op \in WriterState

\* The steps, the four writing operations as one.
SomeWrite == \E k \in Keys, form \in {"val", "tomb"}, bat \in BOOLEAN : Write(k, form, bat)

\* Logging a write leaves the memtables, the files, the reader and the
\* history of the batches alone.
LEMMA WriteFrame ==
    ASSUME SomeWrite
    PROVE  /\ Running /\ op = Idle /\ op'.pc = "logged"
           /\ UNCHANGED <<batch_in_progress, batch_ts, durable, batches, crashes, fl, rd>>
           /\ UNCHANGED <<mem, frozen, pending>>
           /\ UNCHANGED <<files, tables, manifest>>
           /\ UNCHANGED <<recovering, replay>>
           /\ UNCHANGED <<applied, committed, spilled, promised>>
<1>1. PICK k \in Keys, form \in {"val", "tomb"}, bat \in BOOLEAN : Write(k, form, bat)
  BY DEF SomeWrite
<1> QED  BY <1>1 DEF Write, mvars, tvars, rvars

LEMMA Steps ==
    ASSUME [Next]_vars
    PROVE  \/ SomeWrite \/ Apply \/ Flush \/ WaitForPendingFlushes
           \/ StartBatch \/ CommitBatch \/ CommitDone
           \/ AbortLog \/ AbortManifest \/ AbortMemTables \/ AbortTables
           \/ Sync
           \/ FlushPop \/ FlushWrite \/ FlushPublish \/ FlushManifest \/ FlushCheckpoint \/ FlushDone
           \/ (\E k \in Keys : ReadStart(k)) \/ ReadSnapshot \/ ReadMemTables \/ ReadTables \/ ReadReturn
           \/ Crash \/ RecoverInsert \/ RecoverEnd
           \/ UNCHANGED vars
<1>1. ASSUME NEW k \in Keys, Insert(k) \/ Delete(k) \/ BatchInsert(k) \/ BatchDelete(k)
      PROVE  SomeWrite
  BY <1>1, Zenon DEF SomeWrite, Insert, Delete, BatchInsert, BatchDelete
<1> QED  BY <1>1 DEF Next, WriterStep, FlushWorkerStep, ReaderStep

LEMMA LeastOf ==
    ASSUME ReplaySound, NEW S \in SUBSET Nat, S # {}
    PROVE  \E i \in S : \A j \in S : i <= j
  BY Zenon DEF ReplaySound

LEMMA ScanFacts ==
    ASSUME ReplaySound, NEW L \in Seq(LogRecord)
    PROVE  /\ Scanned(L) \subseteq DOMAIN L
           /\ LastCheckpoint(L) # 0 =>
                LastCheckpoint(L) \in DOMAIN L /\ L[LastCheckpoint(L)].kind = "ckpt"
  BY DEF ReplaySound

\* A list grows at its end.
LEMMA AppendTo ==
    ASSUME NEW R, NEW L \in Seq(R), NEW r \in R
    PROVE  /\ Append(L, r) \in Seq(R)
           /\ Len(L) \in Nat /\ Len(Append(L, r)) = Len(L) + 1
           /\ DOMAIN L = 1..Len(L) /\ DOMAIN Append(L, r) = 1..(Len(L) + 1)
           /\ \A i \in 1..Len(L) : Append(L, r)[i] = L[i]
           /\ Append(L, r)[Len(L) + 1] = r
  OBVIOUS

-----------------------------------------------------------------------------
(* The log.                                                                *)

LEMMA SeqFacts ==
    ASSUME NEW R, NEW L \in Seq(R)
    PROVE  Len(L) \in Nat /\ DOMAIN L = 1..Len(L)
  OBVIOUS

LEMMA LastPosition ==
    ASSUME NEW n \in Nat
    PROVE  /\ n + 1 \in 1..(n + 1) /\ \A i \in 1..n : i \in 1..(n + 1)
           /\ \A i \in 1..(n + 1) : i \in 1..n \/ i = n + 1
  OBVIOUS

\* Positions counted from the other end.
LEMMA Mirror ==
    ASSUME NEW n \in Nat, NEW i \in 1..n
    PROVE  n + 1 - i \in 1..n
  OBVIOUS

LEMMA LogAppend ==
    ASSUME LogOK, NEW r \in LogRecord, log' = Append(log, r),
           durable' \in {durable, Len(log')}, replay' \subseteq replay
    PROVE  LogOK'
<1>1. /\ log \in Seq(LogRecord) /\ durable \in 0..Len(log)
      /\ replay \subseteq {i \in DOMAIN log : log[i].kind = "put"}
  BY DEF LogOK
<1>2. /\ log' \in Seq(LogRecord) /\ Len(log) \in Nat /\ Len(log') = Len(log) + 1
      /\ DOMAIN log = 1..Len(log) /\ DOMAIN log' = 1..(Len(log) + 1)
      /\ \A i \in 1..Len(log) : log'[i] = log[i]
  BY <1>1, AppendTo
<1>3. durable' \in 0..Len(log')
  BY <1>1, <1>2
<1>4. replay' \subseteq {i \in DOMAIN log' : log'[i].kind = "put"}
  BY <1>1, <1>2
<1> QED  BY <1>2, <1>3, <1>4 DEF LogOK

\* What is written to the log is a record.
LEMMA RecordTypes ==
    /\ \A e \in Entry : PutRecord(e) \in LogRecord
    /\ \A t \in Nat, kind \in {"begin", "commit", "abort"} :
         [kind |-> kind, ts |-> t] \in LogRecord
    /\ ClockOK => \A t \in Nat : CheckpointRecord(t) \in LogRecord
<1>1. \A e \in Entry : PutRecord(e) \in LogRecord
  BY DEF PutRecord, LogRecord, Entry
<1>2. \A t \in Nat, kind \in {"begin", "commit", "abort"} : [kind |-> kind, ts |-> t] \in LogRecord
  BY DEF LogRecord
<1>3. ASSUME ClockOK, NEW t \in Nat PROVE CheckpointRecord(t) \in LogRecord
  BY <1>3 DEF ClockOK, CheckpointRecord, LogRecord
<1> QED  BY <1>1, <1>2, <1>3

LEMMA RecordFields ==
    ASSUME NEW r \in LogRecord
    PROVE  /\ r.kind \in {"put", "begin", "commit", "abort", "ckpt"}
           /\ r.ts \in Nat
           /\ r.kind = "put" => Recovered(r) \in Entry
  BY DEF LogRecord, Recovered, Entry

\* The entry a write creates.
LEMMA WrittenEntry ==
    ASSUME ClockOK, NEW k \in Keys, NEW form \in {"val", "tomb"}, NEW bat \in BOOLEAN,
           Write(k, form, bat)
    PROVE  op'.ent \in Entry /\ op' \in WriterState /\ log' = Append(log, PutRecord(op'.ent))
<1>1. global_ts \in Nat /\ batch_ts \in Nat /\ writes \in Nat /\ batches \in Nat
  BY DEF ClockOK
<1> DEFINE e == [key |-> k, form |-> form, id |-> writes + 1,
                 ts |-> IF bat THEN batch_ts ELSE global_ts + 1,
                 bat |-> IF bat THEN batches ELSE 0]
<1>2. op' = [pc |-> "logged", ent |-> e] /\ log' = Append(log, PutRecord(op'.ent))
  BY DEF Write, Log
<1>3. e \in Entry
  <2>1. writes + 1 \in Nat /\ (IF bat THEN batch_ts ELSE global_ts + 1) \in Nat
        /\ (IF bat THEN batches ELSE 0) \in Nat
    BY <1>1
  <2> QED  BY <2>1 DEF Entry
<1> HIDE DEF e
<1> QED  BY <1>2, <1>3 DEF WriterState

\* The prefix of the log a crash leaves.
LEMMA LogPrefix ==
    ASSUME LogOK, NEW n \in 0..Len(log)
    PROVE  /\ SubSeq(log, 1, n) \in Seq(LogRecord) /\ Len(SubSeq(log, 1, n)) = n
           /\ DOMAIN SubSeq(log, 1, n) = 1..n
           /\ \A i \in 1..n : SubSeq(log, 1, n)[i] = log[i]
  BY DEF LogOK

LEMMA CrashPick ==
    ASSUME LogOK, Crash
    PROVE  \E n \in 0..Len(log) :
             LET L == SubSeq(log, 1, n)
                 T == RecoverTables
                 A == AbortedBatches(L)
                 P == Replayed(L)
             IN  /\ durable <= n
                 /\ log' = L
                 /\ durable' = n
                 /\ global_ts' = CheckpointTs(L)
                 /\ mem' = <<[Empty EXCEPT !.aborted = A]>>
                 /\ tables' = [i \in DOMAIN T |-> [T[i] EXCEPT !.aborted = @ \cup A]]
                 /\ files' = SubSeq(files, 1, Len(T))
                 /\ replay' = P
                 /\ recovering' = (P # {})
                 /\ promised' = {[key |-> L[i].key, id |-> L[i].id] :
                                   i \in {j \in 1..n : L[j].kind = "put"}}
                 /\ applied' = {Recovered(L[i]) : i \in P}
                                 \cup UNION {files[T[i].seq].ents : i \in DOMAIN T}
                 /\ ~Running => n = durable
<1>1. durable \in 0..Len(log) /\ Len(log) \in Nat
  BY DEF LogOK
<1>2. \A n \in (IF Running THEN durable..Len(log) ELSE {durable}) :
        n \in 0..Len(log) /\ durable <= n /\ (~Running => n = durable)
  BY <1>1
<1> QED  BY <1>2, Zenon DEF Crash

\* The next entry RecoverFromWAL inserts.
LEMMA NextReplayedEntry ==
    ASSUME ReplaySound, LogOK, RecoverInsert
    PROVE  /\ NextReplayed \in replay /\ \A j \in replay : NextReplayed <= j
           /\ Recovered(log[NextReplayed]) \in Entry
<1>1. replay \in SUBSET Nat /\ replay # {}
  BY DEF LogOK, RecoverInsert
<1>2. \E i \in replay : \A j \in replay : i <= j
  BY <1>1, LeastOf
<1>3. NextReplayed \in replay /\ \A j \in replay : NextReplayed <= j
  BY <1>2 DEF NextReplayed
<1>4. log[NextReplayed] \in LogRecord /\ log[NextReplayed].kind = "put"
  BY <1>3 DEF LogOK
<1> QED  BY <1>3, <1>4, RecordFields

LEMMA LogStep == TypeInv /\ [Next]_vars => LogOK'
<1> SUFFICES ASSUME TypeInv, [Next]_vars PROVE LogOK'
  OBVIOUS
<1>0. /\ ReplaySound /\ ClockOK /\ LogOK /\ global_ts \in Nat /\ batch_ts \in Nat /\ log \in Seq(LogRecord)
      /\ durable \in 0..Len(log) /\ Len(log) \in Nat
  BY DEF TypeInv, ClockOK, LogOK
<1>a. ASSUME log' = log, durable' = durable, replay' = replay PROVE LogOK'
  BY <1>0, <1>a DEF LogOK
<1>1. CASE SomeWrite
  <2>1. PICK k \in Keys, form \in {"val", "tomb"}, bat \in BOOLEAN : Write(k, form, bat)
    BY <1>1 DEF SomeWrite
  <2>2. PutRecord(op'.ent) \in LogRecord /\ log' = Append(log, PutRecord(op'.ent))
    BY <1>0, <2>1, WrittenEntry, RecordTypes
  <2>3. durable' = durable /\ replay' = replay
    BY <2>1 DEF Write, rvars
  <2> QED  BY <1>0, <2>2, <2>3, LogAppend
<1>2. CASE FlushCheckpoint
  BY <1>0, <1>2, RecordTypes, LogAppend DEF FlushCheckpoint, Log, rvars
<1>3. CASE StartBatch
  <2>1. global_ts + Gap \in Nat
    BY <1>0, EngineAssumption
  <2>2. [kind |-> "begin", ts |-> global_ts + Gap] \in LogRecord
    BY <2>1, RecordTypes, Zenon
  <2> QED  BY <1>0, <1>3, <2>2, LogAppend DEF StartBatch, Log, rvars
<1>4. CASE CommitBatch
  <2>1. [kind |-> "commit", ts |-> batch_ts] \in LogRecord
    BY <1>0, RecordTypes, Zenon
  <2> QED  BY <1>0, <1>4, <2>1, LogAppend DEF CommitBatch, Log, rvars
<1>5. CASE AbortLog
  <2>1. [kind |-> "abort", ts |-> batch_ts] \in LogRecord
    BY <1>0, RecordTypes, Zenon
  <2>2. CASE batch_touched
    BY <1>0, <1>5, <2>1, <2>2, LogAppend DEF AbortLog, Log, rvars
  <2>3. CASE ~batch_touched
    BY <1>5, <1>a, <2>3 DEF AbortLog, rvars
  <2> QED  BY <2>2, <2>3
<1>6. CASE Sync
  BY <1>0, <1>6 DEF Sync, rvars, LogOK
<1>7. CASE Crash
  <2>1. PICK n \in 0..Len(log) :
          /\ log' = SubSeq(log, 1, n) /\ durable' = n /\ replay' = Replayed(SubSeq(log, 1, n))
    BY <1>0, <1>7, CrashPick
  <2>2. log' \in Seq(LogRecord) /\ Len(log') = n
    BY <1>0, <2>1, LogPrefix
  <2>3. replay' \subseteq {i \in DOMAIN log' : log'[i].kind = "put"}
    BY <1>0, <2>1, <2>2, ScanFacts, Zenon DEF Replayed
  <2> QED  BY <1>0, <2>1, <2>2, <2>3 DEF LogOK
<1>8. CASE RecoverInsert
  <2> DEFINE e == Recovered(log[NextReplayed])
  <2>1. global_ts' = Later(global_ts, e.ts)
    BY <1>8 DEF RecoverInsert
  <2>2. replay' \subseteq replay /\ durable' = durable
    BY <1>8 DEF RecoverInsert
  <2>3. log' = Append(log, CheckpointRecord(global_ts')) \/ log' = log
    BY <1>8 DEF RecoverInsert, Log
  <2>4. CASE log' = log
    BY <1>0, <2>2, <2>4 DEF LogOK
  <2>5. global_ts' \in Nat
    <3>1. e \in Entry
      BY <1>0, <1>8, NextReplayedEntry
    <3>2. e.ts \in Nat
      BY <3>1 DEF Entry
    <3> QED  BY <1>0, <2>1, <3>2 DEF Later
  <2>6. CASE log' = Append(log, CheckpointRecord(global_ts'))
    BY <1>0, <2>2, <2>5, <2>6, RecordTypes, LogAppend
  <2> QED  BY <2>3, <2>4, <2>6
<1>9. CASE RecoverEnd
  BY <1>0, <1>9, RecordTypes, LogAppend, Zenon DEF RecoverEnd, Log
<1>10. CASE Apply \/ Flush \/ WaitForPendingFlushes
  BY <1>a, <1>10 DEF Apply, Flush, WaitForPendingFlushes, rvars
<1>11. CASE CommitDone \/ AbortManifest \/ AbortMemTables \/ AbortTables
  BY <1>a, <1>11 DEF CommitDone, AbortManifest, AbortMemTables, AbortTables, rvars
<1>12. CASE FlushPop \/ FlushWrite \/ FlushPublish \/ FlushManifest \/ FlushDone
  BY <1>a, <1>12, Zenon DEF FlushPop, FlushWrite, FlushPublish, FlushManifest, FlushDone, rvars
<1>13. CASE (\E k \in Keys : ReadStart(k)) \/ ReadSnapshot \/ ReadReturn
  BY <1>a, <1>13 DEF ReadStart, ReadSnapshot, ReadReturn, rvars
<1>14. CASE ReadMemTables \/ ReadTables
  BY <1>a, <1>14 DEF ReadMemTables, ReadTables, rvars
<1>15. CASE UNCHANGED vars
  BY <1>a, <1>15 DEF vars, rvars
<1> QED
  BY <1>1, <1>2, <1>3, <1>4, <1>5, <1>6, <1>7, <1>8, <1>9, <1>10, <1>11, <1>12, <1>13,
     <1>14, <1>15, Steps

-----------------------------------------------------------------------------
(* The clock, the batch and what the history records.                      *)

\* The batches a recovery reports as aborted are timestamps.
LEMMA AbortedNat ==
    ASSUME ReplaySound, NEW L \in Seq(LogRecord)
    PROVE  AbortedBatches(L) \subseteq Nat
<1>1. \A i \in Scanned(L) : L[i].ts \in Nat
  BY ScanFacts, RecordFields
<1>2. \A kind : Sentinels(L, kind) \subseteq Nat
  BY <1>1 DEF Sentinels
<1>3. BatchHasEntries(L) \subseteq Nat
  BY <1>1 DEF BatchHasEntries, Replayed
<1> QED  BY <1>2, <1>3 DEF AbortedBatches

\* The tables a restart finds: those of the manifest, numbered as the files are.
LEMMA RecoveredTables ==
    ASSUME TablesOK
    PROVE  /\ DOMAIN RecoverTables = 1..Len(manifest.adds)
           /\ Len(RecoverTables) = Len(manifest.adds)
           /\ Len(manifest.adds) \in Nat /\ Len(manifest.adds) <= Len(files)
           /\ \A i \in DOMAIN RecoverTables :
                /\ i \in DOMAIN files
                /\ RecoverTables[i] = [seq |-> i, source_table_id |-> 1,
                                       aborted |-> files[i].aborted]
<1>1. manifest.adds \in Seq(Nat) /\ files \in Seq(SSTable)
  BY DEF TablesOK
<1>2. /\ DOMAIN manifest.adds = 1..Len(manifest.adds) /\ Len(manifest.adds) \in Nat
      /\ DOMAIN files = 1..Len(files) /\ Len(files) \in Nat
  BY <1>1
<1>3. Len(manifest.adds) <= Len(files)
  BY <1>2 DEF TablesOK
<1>4. DOMAIN RecoverTables = 1..Len(manifest.adds)
  BY <1>2 DEF RecoverTables
<1>5. Len(RecoverTables) = Len(manifest.adds)
  BY <1>2, <1>4
<1>6. ASSUME NEW i \in DOMAIN RecoverTables
      PROVE  /\ i \in DOMAIN files
             /\ RecoverTables[i] = [seq |-> i, source_table_id |-> 1, aborted |-> files[i].aborted]
  <2>1. i \in DOMAIN manifest.adds /\ i \in DOMAIN files
    BY <1>2, <1>3, <1>4
  <2>2. manifest.adds[i] = i
    BY <2>1 DEF TablesOK
  <2> QED  BY <2>1, <2>2 DEF RecoverTables
<1> QED  BY <1>2, <1>3, <1>4, <1>5, <1>6

LEMMA ClockStep == TypeInv /\ [Next]_vars => ClockOK'
<1> SUFFICES ASSUME TypeInv, [Next]_vars PROVE ClockOK'
  OBVIOUS
<1> USE EngineAssumption
<1>0. /\ ReplaySound /\ ClockOK /\ LogOK /\ TablesOK /\ op \in WriterState
      /\ global_ts \in Nat /\ batch_ts \in Nat /\ writes \in Nat /\ batches \in Nat
      /\ crashes \in Nat
      /\ {batch_in_progress, batch_touched, recovering} \subseteq BOOLEAN
      /\ applied \subseteq Entry /\ promised \subseteq [key : Keys, id : Nat]
      /\ committed \subseteq Nat /\ spilled \subseteq Nat /\ exposed \subseteq Nat
  BY DEF TypeInv, ClockOK
<1>a. ASSUME UNCHANGED <<global_ts, bvars, recovering, cvars, hvars>> PROVE ClockOK'
  BY <1>0, <1>a DEF ClockOK, bvars, cvars, hvars
<1>1. CASE SomeWrite
  <2>1. PICK k \in Keys, form \in {"val", "tomb"}, bat \in BOOLEAN : Write(k, form, bat)
    BY <1>1 DEF SomeWrite
  <2>2. global_ts' \in Nat /\ writes' \in Nat
    BY <1>0, <2>1 DEF Write
  <2>3. batch_touched' \in BOOLEAN
    BY <1>0, <2>1, Zenon DEF Write
  <2>4. writes + 1 \in Nat
    BY <1>0
  <2>5. exposed' \subseteq Nat
    BY <1>0, <2>1, <2>4 DEF Write
  <2>6. UNCHANGED <<batch_in_progress, batch_ts, recovering, batches, crashes, applied,
                    committed, spilled, promised>>
    BY <2>1 DEF Write, rvars
  <2> QED  BY <1>0, <2>2, <2>3, <2>5, <2>6 DEF ClockOK
<1>2. CASE Apply
  <2>1. op.ent \in Entry
    BY <1>0, <1>2, Zenon DEF Apply, WriterState
  <2>2. applied' \subseteq Entry
    BY <1>0, <1>2, <2>1, Zenon DEF Apply
  <2>3. [key |-> op.ent.key, id |-> op.ent.id] \in [key : Keys, id : Nat]
    BY <2>1, Zenon DEF Entry
  <2>4. promised' \subseteq [key : Keys, id : Nat]
    BY <1>0, <1>2, <2>3, Zenon DEF Apply
  <2>5. UNCHANGED <<global_ts, batch_in_progress, batch_ts, batch_touched, recovering,
                    writes, batches, crashes, committed, spilled, exposed>>
    BY <1>2 DEF Apply, bvars, cvars, rvars
  <2> QED  BY <1>0, <2>2, <2>4, <2>5, Zenon DEF ClockOK
<1>3. CASE FlushPop
  <2>1. spilled' \subseteq Nat
    BY <1>0, <1>3, Zenon DEF FlushPop
  <2>2. UNCHANGED <<global_ts, batch_in_progress, batch_ts, batch_touched, recovering,
                    writes, batches, crashes, applied, committed, exposed, promised>>
    BY <1>3 DEF FlushPop, bvars, cvars, rvars
  <2> QED  BY <1>0, <2>1, <2>2 DEF ClockOK
<1>4. CASE StartBatch
  <2>1. global_ts + Gap \in Nat
    BY <1>0
  <2>2. batch_ts' \in Nat /\ batches' \in Nat
    BY <1>0, <1>4, <2>1 DEF StartBatch
  <2>3. batch_in_progress' \in BOOLEAN /\ batch_touched' \in BOOLEAN
    BY <1>4, Zenon DEF StartBatch
  <2>4. UNCHANGED <<global_ts, recovering, writes, crashes, applied, committed, spilled,
                    exposed, promised>>
    BY <1>4 DEF StartBatch, hvars, rvars
  <2> QED  BY <1>0, <2>2, <2>3, <2>4 DEF ClockOK
<1>5. CASE CommitDone
  <2>1. global_ts' \in Nat /\ committed' \subseteq Nat
    BY <1>0, <1>5 DEF CommitDone
  <2>2. batch_in_progress' \in BOOLEAN
    BY <1>5, Zenon DEF CommitDone
  <2>3. UNCHANGED <<batch_ts, batch_touched, recovering, writes, batches, crashes, applied,
                    spilled, exposed, promised>>
    BY <1>5 DEF CommitDone, cvars, rvars
  <2> QED  BY <1>0, <2>1, <2>2, <2>3 DEF ClockOK
<1>6. CASE AbortLog \/ AbortTables
  <2>1. batch_in_progress' \in BOOLEAN
    <3>1. CASE AbortLog
      BY <1>0, <3>1, Zenon DEF AbortLog
    <3>2. CASE AbortTables
      BY <3>2, Zenon DEF AbortTables
    <3> QED  BY <1>6, <3>1, <3>2
  <2>2. UNCHANGED <<global_ts, batch_ts, batch_touched, recovering, writes, batches, crashes,
                    applied, committed, spilled, exposed, promised>>
    BY <1>6 DEF AbortLog, AbortTables, cvars, hvars, rvars
  <2> QED  BY <1>0, <2>1, <2>2 DEF ClockOK
<1>7. CASE Crash
  <2>1. PICK n \in 0..Len(log) :
          LET L == SubSeq(log, 1, n)
              T == RecoverTables
              P == Replayed(L)
          IN  /\ global_ts' = CheckpointTs(L)
              /\ recovering' = (P # {})
              /\ promised' = {[key |-> L[i].key, id |-> L[i].id] :
                                i \in {j \in 1..n : L[j].kind = "put"}}
              /\ applied' = {Recovered(L[i]) : i \in P}
                              \cup UNION {files[T[i].seq].ents : i \in DOMAIN T}
    BY <1>0, <1>7, CrashPick, Zenon
  <2> DEFINE L == SubSeq(log, 1, n)
             T == RecoverTables
             P == Replayed(L)
  <2>2. L \in Seq(LogRecord) /\ DOMAIN L = 1..n
    BY <1>0, LogPrefix
  <2>3. /\ global_ts' = CheckpointTs(L)
        /\ recovering' = (P # {})
        /\ promised' = {[key |-> L[i].key, id |-> L[i].id] :
                          i \in {j \in 1..n : L[j].kind = "put"}}
        /\ applied' = {Recovered(L[i]) : i \in P}
                        \cup UNION {files[T[i].seq].ents : i \in DOMAIN T}
    BY <2>1
  <2> HIDE DEF L
  <2>4. \A i \in DOMAIN L : L[i].ts \in Nat /\ (L[i].kind = "put" => Recovered(L[i]) \in Entry)
    BY <2>2, RecordFields
  <2>5. global_ts' \in Nat
    BY <1>0, <2>2, <2>3, <2>4, ScanFacts DEF CheckpointTs
  <2>6. recovering' \in BOOLEAN
    BY <2>3, Zenon
  <2>7. promised' \subseteq [key : Keys, id : Nat]
    <3>1. ASSUME NEW i \in 1..n, L[i].kind = "put"
          PROVE  [key |-> L[i].key, id |-> L[i].id] \in [key : Keys, id : Nat]
      BY <2>2, <2>4, <3>1 DEF Recovered, Entry
    <3> QED  BY <2>3, <3>1, Zenon
  <2>8. applied' \subseteq Entry
    <3>1. \A i \in P : Recovered(L[i]) \in Entry
      BY <1>0, <2>2, <2>4, ScanFacts DEF Replayed
    <3>2. \A i \in DOMAIN T : files[T[i].seq].ents \subseteq Entry
      <4>1. ASSUME NEW i \in DOMAIN T PROVE files[T[i].seq].ents \subseteq Entry
        <5>1. T[i].seq = i /\ i \in DOMAIN files
          BY <1>0, RecoveredTables
        <5>2. files[i] \in SSTable
          BY <1>0, <5>1 DEF TablesOK
        <5> QED  BY <5>1, <5>2 DEF SSTable
      <4> QED  BY <4>1
    <3> HIDE DEF T, P
    <3> QED  BY <2>3, <3>1, <3>2
  <2>9. /\ batch_in_progress' \in BOOLEAN /\ batch_touched' \in BOOLEAN
        /\ batch_ts' \in Nat /\ crashes' \in Nat
    <3>1. batch_in_progress' \in BOOLEAN /\ batch_touched' \in BOOLEAN
      BY <1>7, Zenon DEF Crash
    <3>2. batch_ts' = 0 /\ crashes' = crashes + 1 /\ crashes \in Nat
      BY <1>0, <1>7, Zenon DEF Crash
    <3>3. batch_ts' \in Nat /\ crashes' \in Nat
      BY <3>2
    <3> QED  BY <3>1, <3>3, Zenon
  <2>10. UNCHANGED <<writes, batches, committed, spilled, exposed>>
    BY <1>7 DEF Crash
  <2> QED  BY <1>0, <2>5, <2>6, <2>7, <2>8, <2>9, <2>10, Zenon DEF ClockOK
<1>8. CASE RecoverInsert
  <2> DEFINE e == Recovered(log[NextReplayed])
  <2>1. e \in Entry
    BY <1>0, <1>8, NextReplayedEntry
  <2>2. e.ts \in Nat /\ global_ts' = Later(global_ts, e.ts)
    BY <1>8, <2>1 DEF Entry, RecoverInsert
  <2>3. global_ts' \in Nat
    BY <1>0, <2>2 DEF Later
  <2>4. UNCHANGED <<bvars, recovering, cvars, hvars>>
    BY <1>8 DEF RecoverInsert
  <2> QED  BY <1>0, <2>3, <2>4 DEF ClockOK, bvars, cvars, hvars
<1>9. CASE RecoverEnd
  <2>1. recovering' \in BOOLEAN
    BY <1>9, Zenon DEF RecoverEnd
  <2>2. UNCHANGED <<global_ts, bvars, cvars, hvars>>
    BY <1>9 DEF RecoverEnd
  <2> QED  BY <1>0, <2>1, <2>2 DEF ClockOK, bvars, cvars, hvars
<1>10. CASE Flush \/ WaitForPendingFlushes \/ Sync \/ CommitBatch
  BY <1>a, <1>10 DEF Flush, WaitForPendingFlushes, Sync, CommitBatch, rvars
<1>11. CASE AbortManifest \/ AbortMemTables
  BY <1>a, <1>11 DEF AbortManifest, AbortMemTables, rvars
<1>12. CASE FlushWrite \/ FlushPublish \/ FlushManifest \/ FlushCheckpoint \/ FlushDone
  BY <1>a, <1>12, Zenon DEF FlushWrite, FlushPublish, FlushManifest, FlushCheckpoint, FlushDone, rvars
<1>13. CASE (\E k \in Keys : ReadStart(k)) \/ ReadSnapshot \/ ReadReturn
  BY <1>a, <1>13, Zenon DEF ReadStart, ReadSnapshot, ReadReturn, rvars
<1>14. CASE ReadMemTables \/ ReadTables
  BY <1>a, <1>14 DEF ReadMemTables, ReadTables, rvars
<1>15. CASE UNCHANGED vars
  BY <1>a, <1>15 DEF vars, rvars
<1> QED
  BY <1>1, <1>2, <1>3, <1>4, <1>5, <1>6, <1>7, <1>8, <1>9, <1>10, <1>11, <1>12, <1>13,
     <1>14, <1>15, Steps, Zenon

-----------------------------------------------------------------------------
(* The memtables and the flush worker.                                     *)

\* The active memtable is the last.
LEMMA ActiveFacts ==
    ASSUME MemOK
    PROVE  /\ active \in Nat /\ active \in DOMAIN mem /\ mem[active] \in MemTable
           /\ DOMAIN mem \subseteq Nat /\ frozen \in Seq(DOMAIN mem) /\ fl \in FlushWorker
<1>1. mem \in Seq(MemTable) /\ mem # << >> /\ frozen \in Seq(DOMAIN mem) /\ fl \in FlushWorker
  BY Zenon DEF MemOK
<1>2. active \in Nat /\ active \in DOMAIN mem /\ mem[active] \in MemTable /\ DOMAIN mem \subseteq Nat
  BY <1>1 DEF active
<1> QED  BY <1>1, <1>2, Zenon

LEMMA EmptyType ==
    /\ Empty \in MemTable
    /\ \A A \in SUBSET Nat : /\ [Empty EXCEPT !.aborted = A] \in MemTable
                             /\ [Empty EXCEPT !.aborted = A] = [ents |-> << >>, aborted |-> A]
<1>1. << >> \in Seq(Entry) /\ {} \in SUBSET Nat
  OBVIOUS
<1>2. \A A : [Empty EXCEPT !.aborted = A] = [ents |-> << >>, aborted |-> A]
  BY DEF Empty
<1> QED  BY <1>1, <1>2, Zenon DEF Empty, MemTable

LEMMA FunctionSeq ==
    ASSUME NEW S, NEW n \in Nat, NEW f \in [1..n -> S]
    PROVE  f \in Seq(S) /\ Len(f) = n /\ DOMAIN f = 1..n
  OBVIOUS

LEMMA TreeInsertType ==
    ASSUME NEW m \in MemTable, NEW e \in Entry
    PROVE  TreeInsert(m, e) \in MemTable
<1>1. m.ents \in Seq(Entry) /\ m.aborted \in SUBSET Nat
  BY DEF MemTable
<1>2. <<e>> \o m.ents \in Seq(Entry)
  BY <1>1
<1> QED  BY <1>1, <1>2, Zenon DEF TreeInsert, MemTable

\* What a flush writes are entries of its memtable.
LEMMA FileType ==
    ASSUME NEW m \in MemTable
    PROVE  File(m) \in SSTable
<1>1. m.ents \in Seq(Entry) /\ m.aborted \in SUBSET Nat
  BY DEF MemTable
<1>2. \A i \in DOMAIN m.ents : m.ents[i] \in Entry
  BY <1>1
<1>3. WriteFromWalk(m) \subseteq Entry
  BY <1>2 DEF WriteFromWalk
<1> QED  BY <1>1, <1>3 DEF File, SSTable

LEMMA SeqWiden ==
    ASSUME NEW S, NEW T, S \subseteq T, NEW s \in Seq(S)
    PROVE  s \in Seq(T)
  OBVIOUS

\* The active memtable is replaced, with or without a fresh one behind it.
LEMMA MemReplace ==
    ASSUME MemOK, NEW m \in MemTable
    PROVE  /\ active \in DOMAIN mem /\ active \in Nat /\ DOMAIN mem = 1..active
           /\ [mem EXCEPT ![active] = m] \in Seq(MemTable)
           /\ Len([mem EXCEPT ![active] = m]) = active
           /\ Append([mem EXCEPT ![active] = m], Empty) \in Seq(MemTable)
           /\ Len(Append([mem EXCEPT ![active] = m], Empty)) = active + 1
<1>1. mem \in Seq(MemTable) /\ mem # << >>
  BY DEF MemOK
<1>2. active \in DOMAIN mem /\ active \in Nat /\ DOMAIN mem = 1..active
  BY <1>1 DEF active
<1>3. [mem EXCEPT ![active] = m] \in Seq(MemTable) /\ Len([mem EXCEPT ![active] = m]) = active
  BY <1>1, <1>2 DEF active
<1> DEFINE M == [mem EXCEPT ![active] = m]
<1> HIDE DEF M
<1>4. Append(M, Empty) \in Seq(MemTable) /\ Len(Append(M, Empty)) = active + 1
  BY <1>3, EmptyType, AppendTo DEF M
<1> QED  BY <1>2, <1>3, <1>4 DEF M

\* New memtables at the end leave the ids known before valid.
LEMMA MemLonger ==
    ASSUME MemOK, mem' \in Seq(MemTable), Len(mem') >= active
    PROVE  /\ mem' # << >> /\ DOMAIN mem \subseteq DOMAIN mem'
           /\ \A s \in Seq(DOMAIN mem) : s \in Seq(DOMAIN mem')
<1>1. mem \in Seq(MemTable) /\ mem # << >>
  BY DEF MemOK
<1>2. Len(mem) \in Nat /\ Len(mem) > 0 /\ DOMAIN mem = 1..Len(mem)
  BY <1>1
<1>3. Len(mem') \in Nat /\ Len(mem') > 0 /\ DOMAIN mem' = 1..Len(mem')
  BY <1>2 DEF active
<1>4. DOMAIN mem \subseteq DOMAIN mem'
  BY <1>2, <1>3 DEF active
<1> QED  BY <1>3, <1>4, SeqWiden

LEMMA FreezeMem ==
    ASSUME MemOK, NEW m \in MemTable, Freeze(m), fl' = fl
    PROVE  MemOK' /\ Len(mem') = active + 1
<1>1. mem' = Append([mem EXCEPT ![active] = m], Empty)
  BY DEF Freeze
<1>2. mem' \in Seq(MemTable) /\ Len(mem') = active + 1 /\ active \in Nat /\ active \in DOMAIN mem
  BY <1>1, MemReplace
<1>3. /\ mem' # << >> /\ DOMAIN mem \subseteq DOMAIN mem'
      /\ \A s \in Seq(DOMAIN mem) : s \in Seq(DOMAIN mem')
  BY <1>2, MemLonger
<1>4. frozen \in Seq(DOMAIN mem) /\ frozen' = Append(frozen, active) /\ pending' = pending + 1
  BY DEF MemOK, Freeze
<1>5. /\ frozen' \in Seq(DOMAIN mem) /\ Len(frozen') = Len(frozen) + 1 /\ Len(frozen) \in Nat
  BY <1>2, <1>4
<1>6. frozen' \in Seq(DOMAIN mem')
  BY <1>3, <1>5
<1>7. pending' = Len(frozen') + (IF fl'.pc = "idle" THEN 0 ELSE 1)
  BY <1>4, <1>5 DEF MemOK
<1>8. /\ fl' \in FlushWorker
      /\ fl'.pc \in {"idle", "logged"} \/ fl'.mt \in DOMAIN mem'
      /\ fl'.mt \in DOMAIN mem' \cup {NoTable}
  BY <1>3 DEF MemOK
<1> QED  BY <1>2, <1>3, <1>6, <1>7, <1>8 DEF MemOK

\* A memtable changed in place.
LEMMA SameMem ==
    ASSUME MemOK, mem' \in Seq(MemTable), Len(mem') = active,
           UNCHANGED <<frozen, pending, fl>>
    PROVE  MemOK'
<1>1. active \in Nat
  BY DEF MemOK, active
<1>2. /\ mem' # << >> /\ DOMAIN mem \subseteq DOMAIN mem'
      /\ \A s \in Seq(DOMAIN mem) : s \in Seq(DOMAIN mem')
  BY <1>1, MemLonger
<1> QED  BY <1>2 DEF MemOK

LEMMA MemStep == TypeInv /\ [Next]_vars => MemOK'
<1> SUFFICES ASSUME TypeInv, [Next]_vars PROVE MemOK'
  OBVIOUS
<1>0. /\ ReplaySound /\ MemOK /\ LogOK /\ op \in WriterState /\ batch_ts \in Nat
      /\ mem \in Seq(MemTable) /\ mem # << >> /\ frozen \in Seq(DOMAIN mem)
      /\ fl \in FlushWorker /\ Len(frozen) \in Nat
      /\ pending = Len(frozen) + (IF fl.pc = "idle" THEN 0 ELSE 1)
  BY DEF TypeInv, ClockOK, MemOK
<1>1. active \in DOMAIN mem /\ active \in Nat /\ DOMAIN mem = 1..active /\ mem[active] \in MemTable
  BY <1>0 DEF active
<1>a. ASSUME UNCHANGED <<mem, frozen, pending, fl>> PROVE MemOK'
  BY <1>0, <1>a DEF MemOK
<1>2. CASE Apply
  <2> DEFINE m == TreeInsert(mem[active], op.ent)
  <2>1. op.ent \in Entry
    BY <1>0, <1>2 DEF Apply, WriterState
  <2>2. m \in MemTable
    BY <1>1, <2>1, TreeInsertType, Zenon
  <2>3. fl' = fl
    BY <1>2 DEF Apply
  <2>4. CASE IsFull(m)
    <3>1. Freeze(m)
      BY <1>2, <2>4, Zenon DEF Apply
    <3> QED  BY <1>0, <2>2, <2>3, <3>1, FreezeMem, Zenon
  <2>5. CASE ~IsFull(m)
    <3>1. mem' = [mem EXCEPT ![active] = m] /\ UNCHANGED <<frozen, pending>>
      BY <1>2, <2>5 DEF Apply
    <3> HIDE DEF m
    <3>2. mem' \in Seq(MemTable) /\ Len(mem') = active
      BY <1>0, <2>2, <3>1, MemReplace, Zenon
    <3> QED  BY <1>0, <2>3, <3>1, <3>2, SameMem, Zenon
  <2> QED  BY <2>4, <2>5, Zenon
<1>3. CASE Flush
  BY <1>0, <1>1, <1>3, FreezeMem, Zenon DEF Flush
<1>4. CASE FlushPop
  <2>1. frozen # << >>
    BY <1>0, <1>4 DEF FlushPop
  <2>2. fl' = [pc |-> "popped", mt |-> Head(frozen)] /\ frozen' = Tail(frozen)
    BY <1>4, <2>1 DEF FlushPop
  <2>3. UNCHANGED <<mem, pending>> /\ fl.pc = "idle"
    BY <1>4 DEF FlushPop
  <2>4. /\ Head(frozen) \in DOMAIN mem /\ Tail(frozen) \in Seq(DOMAIN mem)
        /\ Len(Tail(frozen)) = Len(frozen) - 1
    BY <1>0, <2>1
  <2>5. fl' \in FlushWorker /\ fl'.pc # "idle" /\ fl'.mt \in DOMAIN mem
    BY <1>1, <2>2, <2>4 DEF FlushWorker
  <2>6. pending' = Len(frozen') + 1
    BY <1>0, <2>2, <2>3, <2>4
  <2> QED  BY <1>0, <2>2, <2>3, <2>4, <2>5, <2>6, Zenon DEF MemOK
<1>5. CASE FlushWrite
  BY <1>0, <1>5 DEF FlushWrite, mvars, MemOK, FlushWorker
<1>6. CASE FlushPublish
  BY <1>0, <1>6, Zenon DEF FlushPublish, mvars, MemOK, FlushWorker
<1>7. CASE FlushManifest
  BY <1>0, <1>7 DEF FlushManifest, mvars, MemOK, FlushWorker
<1>8. CASE FlushCheckpoint
  BY <1>0, <1>8, Zenon DEF FlushCheckpoint, mvars, MemOK, FlushWorker
<1>9. CASE FlushDone
  <2>1. fl.pc = "logged" /\ fl' = [pc |-> "idle", mt |-> NoTable] /\ UNCHANGED <<mem, frozen>>
        /\ pending' = IF pending > 0 THEN pending - 1 ELSE 0
    BY <1>9 DEF FlushDone
  <2>2. pending' = Len(frozen')
    BY <1>0, <2>1
  <2>3. fl' \in FlushWorker /\ fl'.pc = "idle" /\ fl'.mt = NoTable
    BY <2>1 DEF FlushWorker, NoTable
  <2> QED  BY <1>0, <2>1, <2>2, <2>3 DEF MemOK
<1>10. CASE AbortMemTables
  <2> DEFINE M == [n \in DOMAIN mem |->
                     IF n \in Bag(frozen) \cup {active}
                     THEN [mem[n] EXCEPT !.aborted = @ \cup {batch_ts}] ELSE mem[n]]
  <2>1. mem' = M /\ UNCHANGED <<frozen, pending, fl>>
    BY <1>10 DEF AbortMemTables
  <2>2. ASSUME NEW n \in DOMAIN mem PROVE M[n] \in MemTable
    <3>1. mem[n] \in MemTable
      BY <1>0
    <3> QED  BY <1>0, <3>1, Zenon DEF MemTable
  <2>a. M \in [1..active -> MemTable]
    BY <1>1, <2>2
  <2> HIDE DEF M
  <2>3. M \in Seq(MemTable) /\ Len(M) = active
    BY <1>1, <2>a, FunctionSeq
  <2> QED  BY <1>0, <2>1, <2>3, SameMem
<1>11. CASE Crash
  <2>1. PICK n \in 0..Len(log) :
          mem' = <<[Empty EXCEPT !.aborted = AbortedBatches(SubSeq(log, 1, n))]>>
    BY <1>0, <1>11, CrashPick
  <2> DEFINE m == [Empty EXCEPT !.aborted = AbortedBatches(SubSeq(log, 1, n))]
  <2>2. AbortedBatches(SubSeq(log, 1, n)) \in SUBSET Nat
    BY <1>0, LogPrefix, AbortedNat, Zenon
  <2>a. m \in MemTable /\ mem' = <<m>>
    BY <2>1, <2>2, EmptyType, Zenon
  <2> HIDE DEF m
  <2>3. mem' \in Seq(MemTable) /\ mem' # << >>
    BY <2>a
  <2>4. frozen' = << >> /\ pending' = 0 /\ fl' = [pc |-> "idle", mt |-> NoTable]
    BY <1>11 DEF Crash
  <2>5. fl' \in FlushWorker /\ fl'.pc = "idle" /\ fl'.mt = NoTable
    BY <2>4 DEF FlushWorker, NoTable
  <2>6. frozen' \in Seq(DOMAIN mem') /\ Len(frozen') = 0
    BY <2>4
  <2> QED  BY <2>3, <2>4, <2>5, <2>6 DEF MemOK
<1>12. CASE RecoverInsert
  <2> DEFINE m == TreeInsert(mem[active], Recovered(log[NextReplayed]))
  <2>1. m \in MemTable
    BY <1>0, <1>1, <1>12, NextReplayedEntry, TreeInsertType, Zenon
  <2>2. /\ mem' = Append([mem EXCEPT ![active] = m], Empty) \/ mem' = [mem EXCEPT ![active] = m]
        /\ UNCHANGED <<frozen, pending, fl>>
    BY <1>12 DEF RecoverInsert
  <2> HIDE DEF m
  <2>3. mem' \in Seq(MemTable) /\ Len(mem') >= active
    <3>1. mem' \in Seq(MemTable) /\ Len(mem') \in {active, active + 1}
      BY <1>0, <2>1, <2>2, MemReplace, Zenon
    <3> QED  BY <1>1, <3>1
  <2> QED  BY <1>0, <2>2, <2>3, MemLonger DEF MemOK
<1>13. CASE RecoverEnd
  <2>1. /\ mem' = Append(mem, Empty) \/ mem' = mem
        /\ UNCHANGED <<frozen, pending, fl>>
    BY <1>13, Zenon DEF RecoverEnd
  <2>2. mem' \in Seq(MemTable) /\ Len(mem') >= active
    <3>1. Append(mem, Empty) \in Seq(MemTable) /\ Len(Append(mem, Empty)) = Len(mem) + 1
      BY <1>0, EmptyType, AppendTo
    <3>2. mem' \in Seq(MemTable) /\ Len(mem') \in {active, active + 1}
      BY <1>0, <2>1, <3>1, Zenon DEF active
    <3> QED  BY <1>1, <3>2
  <2> QED  BY <1>0, <2>1, <2>2, MemLonger DEF MemOK
<1>14. CASE SomeWrite
  BY <1>a, <1>14, WriteFrame, Zenon DEF mvars
<1>15. CASE WaitForPendingFlushes \/ Sync \/ StartBatch \/ CommitBatch \/ CommitDone
  BY <1>a, <1>15, Zenon DEF WaitForPendingFlushes, Sync, StartBatch, CommitBatch, CommitDone, mvars
<1>16. CASE AbortLog \/ AbortManifest \/ AbortTables
  BY <1>a, <1>16 DEF AbortLog, AbortManifest, AbortTables, mvars
<1>17. CASE (\E k \in Keys : ReadStart(k)) \/ ReadSnapshot \/ ReadReturn
  BY <1>a, <1>17, Zenon DEF ReadStart, ReadSnapshot, ReadReturn, mvars
<1>18. CASE ReadMemTables \/ ReadTables
  BY <1>a, <1>18, Zenon DEF ReadMemTables, ReadTables, mvars
<1>19. CASE UNCHANGED vars
  BY <1>a, <1>19, Zenon DEF vars, mvars
<1> QED
  BY <1>2, <1>3, <1>4, <1>5, <1>6, <1>7, <1>8, <1>9, <1>10, <1>11, <1>12, <1>13, <1>14,
     <1>15, <1>16, <1>17, <1>18, <1>19, Steps, Zenon

-----------------------------------------------------------------------------
(* The files, the published tables and the manifest.                       *)

\* DoFlush of one memtable, start to end.
LEMMA RecoverFlushTables ==
    ASSUME TablesOK, NEW m \in MemTable, RecoverFlush(m), active \in Nat,
           fl.pc \notin {"written", "published"}, fl' = fl
    PROVE  /\ TablesOK'
           /\ Len(files') = Len(files) + 1 /\ Len(tables') = Len(tables) + 1
           /\ \A n \in DOMAIN tables : n \in DOMAIN tables' /\ tables'[n] = tables[n]
           /\ \A n \in DOMAIN files : n \in DOMAIN files' /\ files'[n] = files[n]
           /\ Len(tables') \in DOMAIN tables' /\ Len(files') \in DOMAIN files'
           /\ tables'[Len(tables')] = [seq |-> Len(files'), source_table_id |-> active,
                                       aborted |-> m.aborted]
           /\ files'[Len(files')] = File(m)
           /\ Bag(manifest'.adds) = Bag(manifest.adds) \cup {Len(files')}
<1>1. /\ files \in Seq(SSTable) /\ tables \in Seq(Metadata)
      /\ manifest.adds \in Seq(Nat)
      /\ manifest \in [adds : Seq(Nat), aborts : SUBSET [ts : Nat, fence : Nat]]
      /\ Len(files) = Len(manifest.adds) /\ Len(files) \in Nat
      /\ DOMAIN files = 1..Len(files) /\ DOMAIN tables = 1..Len(tables)
      /\ \A n \in DOMAIN tables : tables[n].seq \in DOMAIN files
      /\ \A i \in DOMAIN manifest.adds : manifest.adds[i] = i
  <2>1. /\ files \in Seq(SSTable) /\ tables \in Seq(Metadata)
        /\ manifest \in [adds : Seq(Nat), aborts : SUBSET [ts : Nat, fence : Nat]]
        /\ \A n \in DOMAIN tables : tables[n].seq \in DOMAIN files
        /\ \A i \in DOMAIN manifest.adds : manifest.adds[i] = i
    BY Zenon DEF TablesOK
  <2>2. Len(files) = Len(manifest.adds) + (IF fl.pc \in {"written", "published"} THEN 1 ELSE 0)
    BY Zenon DEF TablesOK
  <2>3. manifest.adds \in Seq(Nat)
    BY <2>1, Zenon
  <2>4. /\ Len(files) \in Nat /\ Len(manifest.adds) \in Nat
        /\ DOMAIN files = 1..Len(files) /\ DOMAIN tables = 1..Len(tables)
    BY <2>1, <2>3, SeqFacts, Zenon
  <2>5. Len(files) = Len(manifest.adds)
    BY <2>2, <2>4
  <2> QED  BY <2>1, <2>3, <2>4, <2>5, Zenon
<1> DEFINE t == [seq |-> Len(files) + 1, source_table_id |-> active, aborted |-> m.aborted]
<1>2. File(m) \in SSTable /\ t \in Metadata /\ Len(files) + 1 \in Nat
  <2>1. m.aborted \in SUBSET Nat
    BY DEF MemTable
  <2> QED  BY <1>1, <2>1, FileType DEF Metadata
<1>3. /\ files' = Append(files, File(m)) /\ tables' = Append(tables, t)
      /\ manifest' = [manifest EXCEPT !.adds = Append(manifest.adds, Len(files) + 1)]
  BY DEF RecoverFlush
<1>4. /\ files' \in Seq(SSTable) /\ Len(files') = Len(files) + 1
      /\ DOMAIN files' = 1..(Len(files) + 1)
      /\ \A n \in DOMAIN files : n \in DOMAIN files' /\ files'[n] = files[n]
      /\ files'[Len(files')] = File(m)
  BY <1>1, <1>2, <1>3, AppendTo
<1>5. t.seq = Len(files')
  BY <1>4, Zenon
<1> HIDE DEF t
<1>6. /\ tables' \in Seq(Metadata) /\ Len(tables') = Len(tables) + 1 /\ Len(tables) \in Nat
      /\ DOMAIN tables' = 1..(Len(tables) + 1)
      /\ \A n \in DOMAIN tables : n \in DOMAIN tables' /\ tables'[n] = tables[n]
      /\ tables'[Len(tables) + 1] = t
  BY <1>1, <1>2, <1>3, AppendTo
<1> DEFINE A == Append(manifest.adds, Len(files) + 1)
<1>7. /\ A \in Seq(Nat) /\ Len(A) = Len(files) + 1 /\ DOMAIN A = 1..(Len(files) + 1)
      /\ A[Len(files) + 1] = Len(files) + 1
      /\ \A i \in 1..Len(files) : i \in DOMAIN manifest.adds /\ A[i] = manifest.adds[i]
      /\ DOMAIN manifest.adds = 1..Len(files)
  BY <1>1, <1>2, AppendTo
<1> HIDE DEF A
<1>8. /\ manifest' \in [adds : Seq(Nat), aborts : SUBSET [ts : Nat, fence : Nat]]
      /\ manifest'.adds = A
  BY <1>1, <1>3, <1>7, Zenon DEF A
<1>9. ASSUME NEW i \in DOMAIN A PROVE A[i] = i
  <2>1. i \in 1..(Len(files) + 1) /\ Len(files) \in Nat
    BY <1>1, <1>7, Zenon
  <2>2. i \in 1..Len(files) \/ i = Len(files) + 1
    BY <2>1
  <2>3. CASE i \in 1..Len(files)
    <3>1. i \in DOMAIN manifest.adds /\ A[i] = manifest.adds[i]
      BY <1>7, <2>3, Zenon
    <3> QED  BY <1>1, <3>1, Zenon
  <2>4. CASE i = Len(files) + 1
    BY <1>7, <2>4, Zenon
  <2> QED  BY <2>2, <2>3, <2>4, Zenon
<1>10. Bag(A) = Bag(manifest.adds) \cup {Len(files')}
  <2>1. ASSUME NEW i \in DOMAIN A PROVE A[i] \in Bag(manifest.adds) \cup {Len(files')}
    <3>1. i \in 1..Len(files) \/ i = Len(files) + 1
      BY <1>1, <1>7
    <3>2. CASE i \in 1..Len(files)
      BY <1>7, <3>2, Zenon DEF Bag
    <3>3. CASE i = Len(files) + 1
      BY <1>4, <1>7, <3>3
    <3> QED  BY <3>1, <3>2, <3>3
  <2>2. ASSUME NEW i \in DOMAIN manifest.adds PROVE manifest.adds[i] \in Bag(A)
    <3>1. i \in DOMAIN A /\ A[i] = manifest.adds[i]
      BY <1>1, <1>7
    <3> QED  BY <3>1, Zenon DEF Bag
  <2>3. Len(files') \in Bag(A)
    <3>1. Len(files) + 1 \in DOMAIN A
      BY <1>1, <1>7, LastPosition, Zenon
    <3> QED  BY <1>4, <1>7, <3>1, Zenon DEF Bag
  <2> QED  BY <2>1, <2>2, <2>3 DEF Bag
<1>11. ASSUME NEW n \in DOMAIN tables' PROVE tables'[n].seq \in DOMAIN files'
  <2>1. CASE n \in DOMAIN tables
    BY <1>1, <1>4, <1>6, <2>1, Zenon
  <2>2. CASE n = Len(tables) + 1
    <3>1. tables'[n].seq = Len(files')
      BY <1>5, <1>6, <2>2, Zenon
    <3>2. Len(files') \in DOMAIN files'
      BY <1>1, <1>4, LastPosition, Zenon
    <3> QED  BY <3>1, <3>2, Zenon
  <2>3. n \in DOMAIN tables \/ n = Len(tables) + 1
    BY <1>1, <1>6, LastPosition, Zenon
  <2> QED  BY <2>1, <2>2, <2>3, Zenon
<1>12. TablesOK'
  BY <1>4, <1>6, <1>7, <1>8, <1>9, <1>11 DEF TablesOK
<1>13. t = [seq |-> Len(files'), source_table_id |-> active, aborted |-> m.aborted]
  BY <1>4 DEF t
<1>14. Len(tables') \in DOMAIN tables' /\ Len(files') \in DOMAIN files'
  BY <1>1, <1>4, <1>6, LastPosition, Zenon
<1> QED  BY <1>4, <1>6, <1>8, <1>10, <1>12, <1>13, <1>14, Zenon

LEMMA TablesStep == TypeInv /\ [Next]_vars => TablesOK'
<1> SUFFICES ASSUME TypeInv, [Next]_vars PROVE TablesOK'
  OBVIOUS
<1>0. /\ ReplaySound /\ TablesOK /\ MemOK /\ LogOK /\ RecoveryOK /\ batch_ts \in Nat
      /\ files \in Seq(SSTable) /\ tables \in Seq(Metadata)
      /\ manifest \in [adds : Seq(Nat), aborts : SUBSET [ts : Nat, fence : Nat]]
      /\ \A i \in DOMAIN manifest.adds : manifest.adds[i] = i
      /\ \A n \in DOMAIN tables : tables[n].seq \in DOMAIN files
      /\ Len(files) = Len(manifest.adds) + (IF fl.pc \in {"written", "published"} THEN 1 ELSE 0)
      /\ fl \in FlushWorker
  BY Zenon DEF TypeInv, TablesOK, MemOK, ClockOK
<1>1. /\ active \in Nat /\ active \in DOMAIN mem /\ mem[active] \in MemTable
      /\ Len(files) \in Nat /\ DOMAIN files = 1..Len(files)
      /\ Len(manifest.adds) \in Nat /\ DOMAIN manifest.adds = 1..Len(manifest.adds)
      /\ manifest.adds \in Seq(Nat)
  <2>1. active \in Nat /\ active \in DOMAIN mem /\ mem[active] \in MemTable
    BY <1>0, ActiveFacts, Zenon
  <2>2. Len(files) \in Nat /\ DOMAIN files = 1..Len(files)
    BY <1>0, SeqFacts, Zenon
  <2>3. manifest.adds \in Seq(Nat)
    BY <1>0, Zenon
  <2>4. Len(manifest.adds) \in Nat /\ DOMAIN manifest.adds = 1..Len(manifest.adds)
    BY <2>3, SeqFacts, Zenon
  <2> QED  BY <2>1, <2>2, <2>3, <2>4, Zenon
<1>a. ASSUME UNCHANGED <<files, tables, manifest>>,
             fl'.pc \in {"written", "published"} <=> fl.pc \in {"written", "published"}
      PROVE  TablesOK'
  BY <1>0, <1>a, Zenon DEF TablesOK
<1>2. CASE FlushWrite
  <2>1. File(mem[fl.mt]) \in SSTable
    <3>1. fl.mt \in DOMAIN mem
      BY <1>0, <1>2, Zenon DEF FlushWrite, MemOK
    <3>2. mem \in Seq(MemTable)
      BY <1>0, Zenon DEF MemOK
    <3>3. mem[fl.mt] \in MemTable
      BY <3>1, <3>2
    <3> QED  BY <3>3, FileType, Zenon
  <2>2. /\ files' = Append(files, File(mem[fl.mt])) /\ UNCHANGED <<tables, manifest>>
        /\ fl.pc = "popped" /\ fl'.pc = "written"
    BY <1>0, <1>2, Zenon DEF FlushWrite, FlushWorker
  <2>3. /\ files' \in Seq(SSTable) /\ Len(files') = Len(files) + 1
        /\ DOMAIN files \subseteq DOMAIN files'
    <3> DEFINE F == File(mem[fl.mt])
    <3>0. files \in Seq(SSTable) /\ F \in SSTable /\ files' = Append(files, F)
      BY <1>0, <2>1, <2>2, Zenon
    <3> HIDE DEF F
    <3>1. /\ files' \in Seq(SSTable) /\ Len(files') = Len(files) + 1
          /\ DOMAIN files' = 1..(Len(files) + 1)
      BY <3>0, AppendTo
    <3> QED  BY <1>1, <3>1, LastPosition, Zenon
  <2>4. Len(files') = Len(manifest'.adds) + 1
    <3>1. Len(files) = Len(manifest.adds) + (IF fl.pc \in {"written", "published"} THEN 1 ELSE 0)
      BY <1>0, Zenon
    <3>2. Len(files) = Len(manifest.adds)
      <4>1. ~(fl.pc \in {"written", "published"})
        BY <2>2
      <4>2. Len(files) = Len(manifest.adds) + 0
        BY <3>1, <4>1, Zenon
      <4> QED  BY <1>1, <4>2
    <3> QED  BY <2>2, <2>3, <3>2, Zenon
  <2> QED  BY <1>0, <2>2, <2>3, <2>4 DEF TablesOK
<1>3. CASE FlushPublish
  <2> DEFINE t == [seq |-> Len(files), source_table_id |-> fl.mt, aborted |-> files[Len(files)].aborted]
  <2>1. /\ tables' = Append(tables, t) /\ UNCHANGED <<files, manifest>>
        /\ fl.pc = "written" /\ fl'.pc = "published"
    BY <1>0, <1>3, Zenon DEF FlushPublish, FlushWorker
  <2>2. Len(files) \in DOMAIN files
    BY <1>0, <1>1, <2>1
  <2>3. t \in Metadata
    <3>1. files[Len(files)] \in SSTable /\ fl.mt \in Nat
      BY <1>0, <2>2 DEF FlushWorker
    <3> QED  BY <1>1, <3>1 DEF SSTable, Metadata
  <2>4. t.seq = Len(files)
    BY Zenon
  <2> HIDE DEF t
  <2>5. /\ tables' \in Seq(Metadata) /\ DOMAIN tables = 1..Len(tables)
        /\ DOMAIN tables' = 1..(Len(tables) + 1)
        /\ \A n \in 1..Len(tables) : tables'[n] = tables[n]
        /\ tables'[Len(tables) + 1] = t /\ Len(tables) \in Nat
    BY <1>0, <2>1, <2>3, AppendTo
  <2>6. ASSUME NEW n \in DOMAIN tables' PROVE tables'[n].seq \in DOMAIN files'
    <3>1. CASE n \in 1..Len(tables)
      BY <1>0, <2>1, <2>5, <3>1, Zenon
    <3>2. CASE n = Len(tables) + 1
      BY <2>1, <2>2, <2>4, <2>5, <3>2
    <3> QED  BY <2>5, <3>1, <3>2
  <2> QED  BY <1>0, <2>1, <2>5, <2>6 DEF TablesOK
<1>4. CASE FlushManifest
  <2> DEFINE A == Append(manifest.adds, Len(files))
  <2>1. /\ manifest' = [manifest EXCEPT !.adds = A] /\ UNCHANGED <<files, tables>>
        /\ fl.pc = "published" /\ fl'.pc = "recorded"
    BY <1>0, <1>4 DEF FlushManifest, FlushWorker
  <2>2. Len(files) = Len(manifest.adds) + 1
    BY <1>0, <2>1
  <2>3. /\ A \in Seq(Nat) /\ Len(A) = Len(files) /\ DOMAIN A = 1..(Len(manifest.adds) + 1)
        /\ A[Len(manifest.adds) + 1] = Len(files)
        /\ \A i \in 1..Len(manifest.adds) : A[i] = manifest.adds[i]
    BY <1>1, <2>2, AppendTo
  <2> HIDE DEF A
  <2>4. \A i \in DOMAIN A : A[i] = i
    BY <1>0, <1>1, <2>2, <2>3
  <2>5. /\ manifest' \in [adds : Seq(Nat), aborts : SUBSET [ts : Nat, fence : Nat]]
        /\ manifest'.adds = A
    BY <1>0, <2>1, <2>3, Zenon
  <2>6. Len(files') = Len(manifest'.adds) + 0
    <3>1. Len(files') = Len(manifest'.adds) /\ Len(manifest'.adds) \in Nat
      BY <1>1, <2>1, <2>3, <2>5, Zenon
    <3> QED  BY <3>1
  <2> QED  BY <1>0, <2>1, <2>4, <2>5, <2>6, Zenon DEF TablesOK
<1>5. CASE AbortManifest
  <2>1. /\ manifest' = [manifest EXCEPT !.aborts = @ \cup {[ts |-> batch_ts, fence |-> Len(files)]}]
        /\ UNCHANGED <<files, tables, fl>>
    BY <1>5 DEF AbortManifest
  <2>2. /\ manifest' \in [adds : Seq(Nat), aborts : SUBSET [ts : Nat, fence : Nat]]
        /\ manifest'.adds = manifest.adds
    <3>1. [ts |-> batch_ts, fence |-> Len(files)] \in [ts : Nat, fence : Nat]
      <4>1. batch_ts \in Nat /\ Len(files) \in Nat
        BY <1>0, <1>1, Zenon
      <4> QED  BY <4>1
    <3> QED  BY <1>0, <2>1, <3>1, Zenon
  <2> QED  BY <1>0, <2>1, <2>2 DEF TablesOK
<1>6. CASE AbortTables
  <2> DEFINE T == [n \in DOMAIN tables |-> [tables[n] EXCEPT !.aborted = @ \cup {batch_ts}]]
  <2>1. tables' = T /\ UNCHANGED <<files, manifest, fl>>
    BY <1>6 DEF AbortTables
  <2>2. ASSUME NEW n \in DOMAIN tables PROVE T[n] \in Metadata /\ T[n].seq = tables[n].seq
    <3>1. tables[n] \in Metadata
      BY <1>0
    <3> QED  BY <1>0, <3>1, Zenon DEF Metadata
  <2>3. DOMAIN tables = 1..Len(tables) /\ Len(tables) \in Nat
    BY <1>0
  <2>4. T \in [1..Len(tables) -> Metadata] /\ DOMAIN T = DOMAIN tables
    BY <2>2, <2>3
  <2> HIDE DEF T
  <2>5. T \in Seq(Metadata)
    BY <2>3, <2>4, FunctionSeq, Zenon
  <2> QED  BY <1>0, <2>1, <2>2, <2>4, <2>5 DEF TablesOK
<1>7. CASE Crash
  <2>1. PICK n \in 0..Len(log) :
          LET T == RecoverTables
              A == AbortedBatches(SubSeq(log, 1, n))
          IN  /\ tables' = [i \in DOMAIN T |-> [T[i] EXCEPT !.aborted = @ \cup A]]
              /\ files' = SubSeq(files, 1, Len(T))
    BY <1>0, <1>7, CrashPick, Zenon
  <2> DEFINE T == RecoverTables
             A == AbortedBatches(SubSeq(log, 1, n))
             U == [i \in DOMAIN T |-> [T[i] EXCEPT !.aborted = @ \cup A]]
             c == Len(manifest.adds)
  <2>2. A \subseteq Nat
    BY <1>0, LogPrefix, AbortedNat, Zenon
  <2>3. /\ DOMAIN T = 1..c /\ Len(T) = c /\ c \in Nat /\ c <= Len(files)
        /\ \A i \in DOMAIN T : i \in DOMAIN files
                             /\ T[i] = [seq |-> i, source_table_id |-> 1, aborted |-> files[i].aborted]
    BY <1>0, RecoveredTables
  <2>4. tables' = U /\ files' = SubSeq(files, 1, c)
    BY <2>1, <2>3
  <2> HIDE DEF T, A
  <2>5. ASSUME NEW i \in 1..c PROVE U[i] \in Metadata /\ U[i].seq = i
    <3>1. i \in DOMAIN files /\ T[i] = [seq |-> i, source_table_id |-> 1, aborted |-> files[i].aborted]
      BY <2>3
    <3>2. files[i].aborted \subseteq Nat /\ i \in Nat
      <4>1. files[i] \in SSTable
        BY <1>0, <3>1
      <4> QED  BY <4>1 DEF SSTable
    <3> QED  BY <2>2, <2>3, <3>1, <3>2 DEF Metadata
  <2>6. U \in [1..c -> Metadata]
    BY <2>3, <2>5, Zenon
  <2> HIDE DEF U, c
  <2>7. tables' \in Seq(Metadata) /\ DOMAIN tables' = 1..c
    BY <2>3, <2>4, <2>6, FunctionSeq, Zenon
  <2>8. files' \in Seq(SSTable) /\ Len(files') = c /\ DOMAIN files' = 1..c
    <3>1. files \in Seq(SSTable) /\ c \in Nat /\ c <= Len(files) /\ files' = SubSeq(files, 1, c)
      BY <1>0, <2>3, <2>4, Zenon
    <3> QED  BY <3>1
  <2>9. fl'.pc = "idle" /\ manifest' = manifest
    <3>1. fl' = [pc |-> "idle", mt |-> NoTable] /\ manifest' = manifest
      BY <1>7, Zenon DEF Crash
    <3> QED  BY <3>1, Zenon
  <2>10. \A i \in DOMAIN tables' : tables'[i].seq \in DOMAIN files'
    BY <2>4, <2>5, <2>7, <2>8, Zenon
  <2>11. Len(files') = Len(manifest'.adds) + 0
    <3>1. Len(files') = c /\ c = Len(manifest'.adds) /\ c \in Nat
      BY <2>3, <2>8, <2>9, Zenon DEF c
    <3> QED  BY <3>1
  <2> QED  BY <1>0, <2>7, <2>8, <2>9, <2>10, <2>11 DEF TablesOK
<1>8. CASE RecoverInsert
  <2> DEFINE m == TreeInsert(mem[active], Recovered(log[NextReplayed]))
  <2>1. m \in MemTable
    BY <1>0, <1>1, <1>8, NextReplayedEntry, TreeInsertType
  <2>2. RecoverFlush(m) \/ UNCHANGED <<files, tables, manifest>>
    BY <1>8 DEF RecoverInsert, tvars
  <2>3. fl' = fl /\ fl.pc = "idle"
    BY <1>0, <1>8, Zenon DEF RecoverInsert, RecoveryOK, Running
  <2> HIDE DEF m
  <2> QED  BY <1>0, <1>1, <1>a, <2>1, <2>2, <2>3, RecoverFlushTables, Zenon
<1>9. CASE RecoverEnd
  <2>1. RecoverFlush(mem[active]) \/ UNCHANGED <<files, tables, manifest>>
    BY <1>9, Zenon DEF RecoverEnd, tvars
  <2>2. fl' = fl /\ fl.pc = "idle"
    BY <1>0, <1>9, Zenon DEF RecoverEnd, RecoveryOK, Running
  <2> QED  BY <1>0, <1>1, <1>a, <2>1, <2>2, RecoverFlushTables, Zenon
<1>10. CASE FlushPop \/ FlushCheckpoint \/ FlushDone
  <2>1. UNCHANGED <<files, tables, manifest>>
    BY <1>10 DEF FlushPop, FlushCheckpoint, FlushDone, tvars
  <2>2. /\ fl.pc \notin {"written", "published"} /\ fl'.pc \notin {"written", "published"}
    BY <1>0, <1>10 DEF FlushPop, FlushCheckpoint, FlushDone, FlushWorker
  <2> QED  BY <1>a, <2>1, <2>2
<1>11. CASE SomeWrite
  BY <1>a, <1>11, WriteFrame DEF tvars
<1>12. CASE Apply \/ Flush \/ WaitForPendingFlushes \/ Sync \/ StartBatch \/ CommitBatch
  BY <1>a, <1>12, Zenon DEF Apply, Flush, WaitForPendingFlushes, Sync, StartBatch, CommitBatch, tvars
<1>13. CASE CommitDone \/ AbortLog \/ AbortMemTables
  BY <1>a, <1>13 DEF CommitDone, AbortLog, AbortMemTables, tvars
<1>14. CASE (\E k \in Keys : ReadStart(k)) \/ ReadSnapshot \/ ReadReturn
  BY <1>a, <1>14, Zenon DEF ReadStart, ReadSnapshot, ReadReturn, tvars
<1>15. CASE ReadMemTables \/ ReadTables
  BY <1>a, <1>15, Zenon DEF ReadMemTables, ReadTables, tvars
<1>16. CASE UNCHANGED vars
  BY <1>a, <1>16 DEF vars, tvars
<1> QED
  BY <1>2, <1>3, <1>4, <1>5, <1>6, <1>7, <1>8, <1>9, <1>10, <1>11, <1>12, <1>13, <1>14,
     <1>15, <1>16, Steps

-----------------------------------------------------------------------------
(* The writer, the reader and recovery.                                    *)

\* Only a crash forgets memtables.
LEMMA MemGrows ==
    ASSUME TypeInv, [Next]_vars, ~Crash
    PROVE  /\ active' \in {active, active + 1}
           /\ DOMAIN mem \subseteq DOMAIN mem'
           /\ \A s \in Seq(DOMAIN mem) : s \in Seq(DOMAIN mem')
<1>0. /\ ReplaySound /\ MemOK /\ LogOK /\ MemOK' /\ op \in WriterState
      /\ mem \in Seq(MemTable) /\ mem # << >> /\ active \in Nat
      /\ active \in DOMAIN mem /\ mem[active] \in MemTable
  BY MemStep DEF TypeInv, MemOK, active
<1>1. active' \in {active, active + 1}
  <2>1. CASE Apply
    <3> DEFINE m == TreeInsert(mem[active], op.ent)
    <3>1. m \in MemTable
      BY <1>0, <2>1, TreeInsertType DEF Apply, WriterState
    <3>2. mem' = Append([mem EXCEPT ![active] = m], Empty) \/ mem' = [mem EXCEPT ![active] = m]
      BY <2>1 DEF Apply, Freeze
    <3> HIDE DEF m
    <3>3. Len(mem') \in {active, active + 1}
      BY <1>0, <3>1, <3>2, MemReplace
    <3> QED  BY <3>3, Zenon DEF active
  <2>2. CASE Flush
    <3>1. Len(mem') = active + 1
      BY <1>0, <2>2, FreezeMem DEF Flush
    <3> QED  BY <3>1 DEF active
  <2>3. CASE RecoverInsert
    <3> DEFINE m == TreeInsert(mem[active], Recovered(log[NextReplayed]))
    <3>1. m \in MemTable
      BY <1>0, <2>3, NextReplayedEntry, TreeInsertType, Zenon
    <3>2. mem' = Append([mem EXCEPT ![active] = m], Empty) \/ mem' = [mem EXCEPT ![active] = m]
      BY <2>3 DEF RecoverInsert
    <3> HIDE DEF m
    <3>3. Len(mem') \in {active, active + 1}
      BY <1>0, <3>1, <3>2, MemReplace
    <3> QED  BY <3>3 DEF active
  <2>4. CASE RecoverEnd
    <3>1. mem' = mem \/ mem' = Append(mem, Empty)
      BY <2>4, Zenon DEF RecoverEnd
    <3>2. Append(mem, Empty) \in Seq(MemTable) /\ Len(Append(mem, Empty)) = Len(mem) + 1
      BY <1>0, EmptyType, AppendTo
    <3> QED  BY <3>1, <3>2 DEF active
  <2>5. CASE AbortMemTables
    <3>1. DOMAIN mem' = DOMAIN mem
      BY <2>5 DEF AbortMemTables
    <3>2. Len(mem') = Len(mem)
      BY <1>0, <3>1 DEF MemOK
    <3> QED  BY <3>2 DEF active
  <2>6. CASE UNCHANGED mem
    BY <2>6 DEF active
  <2>7. CASE SomeWrite
    BY <2>6, <2>7, WriteFrame, Zenon DEF mvars
  <2>8. CASE WaitForPendingFlushes \/ Sync \/ StartBatch \/ CommitBatch \/ CommitDone
    BY <2>6, <2>8 DEF WaitForPendingFlushes, Sync, StartBatch, CommitBatch, CommitDone, mvars
  <2>9. CASE AbortLog \/ AbortManifest \/ AbortTables
    BY <2>6, <2>9 DEF AbortLog, AbortManifest, AbortTables, mvars
  <2>10. CASE (\E k \in Keys : ReadStart(k)) \/ ReadSnapshot \/ ReadReturn
    BY <2>6, <2>10, Zenon DEF ReadStart, ReadSnapshot, ReadReturn, mvars
  <2>11. CASE ReadMemTables \/ ReadTables
    BY <2>6, <2>11 DEF ReadMemTables, ReadTables, mvars
  <2>12. CASE FlushPop \/ FlushWrite \/ FlushPublish \/ FlushManifest \/ FlushCheckpoint \/ FlushDone
    BY <2>6, <2>12 DEF FlushPop, FlushWrite, FlushPublish, FlushManifest, FlushCheckpoint,
                       FlushDone, mvars
  <2>13. CASE UNCHANGED vars
    BY <2>6, <2>13 DEF vars, mvars
  <2> QED
    BY <2>1, <2>2, <2>3, <2>4, <2>5, <2>7, <2>8, <2>9, <2>10, <2>11, <2>12, <2>13, Steps
<1>2. Len(mem') >= active /\ mem' \in Seq(MemTable)
  BY <1>0, <1>1 DEF active, MemOK
<1> QED  BY <1>0, <1>1, <1>2, MemLonger, Zenon

LEMMA OpStep == TypeInv /\ [Next]_vars => op' \in WriterState
<1> SUFFICES ASSUME TypeInv, [Next]_vars PROVE op' \in WriterState
  OBVIOUS
<1>0. op \in WriterState /\ ClockOK /\ Len(log) + 1 \in Nat
  <2>1. op \in WriterState /\ ClockOK /\ log \in Seq(LogRecord)
    BY Zenon DEF TypeInv, LogOK
  <2>2. Len(log) + 1 \in Nat
    BY <2>1
  <2> QED  BY <2>1, <2>2, Zenon
<1>1. /\ Idle \in WriterState
      /\ \A pc \in {"flush", "abort1", "abort2", "abort3"} : [pc |-> pc] \in WriterState
      /\ [pc |-> "commit", rec |-> Len(log) + 1] \in WriterState
  BY <1>0 DEF WriterState, Idle
<1>2. CASE SomeWrite
  BY <1>0, <1>2, WrittenEntry DEF SomeWrite
<1>3. CASE Apply \/ WaitForPendingFlushes \/ CommitDone \/ AbortTables \/ Crash
  BY <1>1, <1>3 DEF Apply, WaitForPendingFlushes, CommitDone, AbortTables, Crash
<1>4. CASE Flush \/ CommitBatch \/ AbortLog \/ AbortManifest \/ AbortMemTables
  BY <1>0, <1>1, <1>4 DEF Flush, CommitBatch, AbortLog, AbortManifest, AbortMemTables
<1>5. CASE UNCHANGED op
  BY <1>0, <1>5
<1>6. CASE Sync \/ StartBatch
  BY <1>5, <1>6 DEF Sync, StartBatch
<1>7. CASE FlushPop \/ FlushWrite \/ FlushPublish \/ FlushManifest \/ FlushCheckpoint \/ FlushDone
  BY <1>5, <1>7 DEF FlushPop, FlushWrite, FlushPublish, FlushManifest, FlushCheckpoint, FlushDone
<1>8. CASE (\E k \in Keys : ReadStart(k)) \/ ReadSnapshot \/ ReadMemTables \/ ReadTables \/ ReadReturn
  BY <1>5, <1>8 DEF ReadStart, ReadSnapshot, ReadMemTables, ReadTables, ReadReturn
<1>9. CASE RecoverInsert \/ RecoverEnd \/ UNCHANGED vars
  BY <1>5, <1>9, Zenon DEF RecoverInsert, RecoverEnd, vars
<1> QED  BY <1>2, <1>3, <1>4, <1>6, <1>7, <1>8, <1>9, Steps

LEMMA RecoveryStep == TypeInv /\ [Next]_vars => RecoveryOK'
<1> SUFFICES ASSUME TypeInv, [Next]_vars, recovering'
             PROVE  fl'.pc = "idle" /\ frozen' = << >> /\ op' = Idle /\ rd' = Idle
  BY DEF RecoveryOK
<1>0. RecoveryOK /\ MemOK
  BY DEF TypeInv
<1>a. Idle.pc = "idle"
  BY DEF Idle
<1>b. ASSUME recovering, UNCHANGED <<fl, frozen, op, rd>>
      PROVE  fl'.pc = "idle" /\ frozen' = << >> /\ op' = Idle /\ rd' = Idle
  BY <1>0, <1>b DEF RecoveryOK
<1>1. CASE Crash
  BY <1>1 DEF Crash
<1>2. CASE RecoverInsert \/ RecoverEnd
  BY <1>b, <1>2, Zenon DEF RecoverInsert, RecoverEnd, Running
<1>3. CASE SomeWrite
  BY <1>3, WriteFrame, Zenon DEF rvars, Running
<1>4. CASE Flush \/ Sync \/ StartBatch \/ CommitBatch \/ AbortLog \/ FlushPop
  BY <1>4, Zenon DEF Flush, Sync, StartBatch, CommitBatch, AbortLog, FlushPop, rvars, Running
<1>5. CASE Apply \/ WaitForPendingFlushes \/ CommitDone \/ AbortManifest \/ AbortMemTables \/ AbortTables
  <2>1. recovering /\ op.pc \in {"logged", "flush", "commit", "abort1", "abort2", "abort3"}
    BY <1>5, Zenon DEF Apply, WaitForPendingFlushes, CommitDone, AbortManifest, AbortMemTables,
                AbortTables, rvars
  <2> QED  BY <1>0, <1>a, <2>1 DEF RecoveryOK
<1>6. CASE FlushWrite \/ FlushPublish \/ FlushManifest \/ FlushCheckpoint \/ FlushDone
  <2>1. recovering /\ fl.pc # "idle"
    BY <1>6, Zenon DEF FlushWrite, FlushPublish, FlushManifest, FlushCheckpoint, FlushDone, rvars
  <2> QED  BY <1>0, <2>1 DEF RecoveryOK
<1>7. CASE \E k \in Keys : ReadStart(k)
  BY <1>7 DEF ReadStart, rvars, Running
<1>8. CASE ReadSnapshot \/ ReadMemTables \/ ReadTables \/ ReadReturn
  <2>1. recovering /\ rd.pc # "idle"
    BY <1>8, Zenon DEF ReadSnapshot, ReadMemTables, ReadTables, ReadReturn, rvars
  <2> QED  BY <1>0, <1>a, <2>1 DEF RecoveryOK
<1>9. CASE UNCHANGED vars
  BY <1>b, <1>9 DEF vars, rvars, mvars
<1> QED  BY <1>1, <1>2, <1>3, <1>4, <1>5, <1>6, <1>7, <1>8, <1>9, Steps

LEMMA FirstHitIn ==
    ASSUME NEW S, NEW r, \A i \in DOMAIN r : r[i] \subseteq S
    PROVE  FirstHit(r) \subseteq S
  BY DEF FirstHit

\* What a lookup finds in the memtables of its snapshot, one of them holds.
LEMMA MemSearchIn ==
    ASSUME MemOK, rd.frozen \in Seq(DOMAIN mem), rd.active \in DOMAIN mem, NEW S,
           \A n \in DOMAIN mem : MemLookup(mem[n], rd.key, rd.ts) \subseteq S
    PROVE  SearchMemTables \subseteq S
<1> DEFINE n == Len(rd.frozen)
           order == [i \in 1..(n + 1) |-> IF i = 1 THEN rd.active ELSE rd.frozen[n + 2 - i]]
           r == [i \in DOMAIN order |-> MemLookup(mem[order[i]], rd.key, rd.ts)]
<1>1. n \in Nat /\ DOMAIN rd.frozen = 1..n
  OBVIOUS
<1> HIDE DEF n
<1>2. ASSUME NEW i \in 1..(n + 1) PROVE order[i] \in DOMAIN mem
  <2>1. CASE i = 1
    BY <2>1, Zenon
  <2>2. CASE i # 1
    <3>1. n + 2 - i \in 1..n
      BY <1>1, <2>2
    <3>2. rd.frozen[n + 2 - i] \in DOMAIN mem
      BY <1>1, <3>1
    <3> QED  BY <2>2, <3>2
  <2> QED  BY <2>1, <2>2, Zenon
<1>3. DOMAIN order = 1..(n + 1)
  BY Zenon
<1> HIDE DEF order
<1>4. \A i \in DOMAIN order : MemLookup(mem[order[i]], rd.key, rd.ts) \subseteq S
  BY <1>2, <1>3, Zenon
<1>5. FirstHit(r) \subseteq S
  BY <1>4, FirstHitIn
<1> QED  BY <1>5, Zenon DEF SearchMemTables, order, n

LEMMA TableSearchIn ==
    ASSUME TablesOK, NEW S, \A f \in DOMAIN files : LookupKey(files[f], rd.key, rd.ts) \subseteq S
    PROVE  SearchTables \subseteq S
<1> DEFINE n == Len(tables)
           R(i) == IF tables[n + 1 - i].source_table_id \in Bag(rd.frozen) THEN {}
                   ELSE LookupKey(files[tables[n + 1 - i].seq], rd.key, rd.ts)
           r == [i \in 1..n |-> R(i)]
<1>1. /\ n \in Nat /\ DOMAIN tables = 1..n
      /\ \A t \in DOMAIN tables : tables[t].seq \in DOMAIN files
  <2>1. /\ tables \in Seq(Metadata)
        /\ \A t \in DOMAIN tables : tables[t].seq \in DOMAIN files
    BY Zenon DEF TablesOK
  <2>2. n \in Nat /\ DOMAIN tables = 1..n
    BY <2>1, SeqFacts, Zenon
  <2> QED  BY <2>1, <2>2, Zenon
<1> HIDE DEF n
<1>2. ASSUME NEW i \in 1..n PROVE R(i) \subseteq S
  <2>1. n + 1 - i \in DOMAIN tables
    BY <1>1, Mirror, Zenon
  <2>2. tables[n + 1 - i].seq \in DOMAIN files
    BY <1>1, <2>1
  <2> QED  BY <2>2
<1> HIDE DEF R
<1>3. FirstHit(r) \subseteq S
  BY <1>2, FirstHitIn, Zenon
<1> QED  BY <1>3, Zenon DEF SearchTables, R, n

LEMMA MemEntry ==
    ASSUME MemOK, NEW n \in DOMAIN mem
    PROVE  \A i \in DOMAIN mem[n].ents : mem[n].ents[i] \in Entry
<1>1. mem[n] \in MemTable
  BY DEF MemOK
<1>2. mem[n].ents \in Seq(Entry)
  BY <1>1, Zenon DEF MemTable
<1> QED  BY <1>2

LEMMA SearchTypes ==
    /\ MemOK /\ rd.frozen \in Seq(DOMAIN mem) /\ rd.active \in DOMAIN mem
         => SearchMemTables \subseteq Entry
    /\ TablesOK => SearchTables \subseteq Entry
<1>1. ASSUME MemOK, NEW n \in DOMAIN mem PROVE MemLookup(mem[n], rd.key, rd.ts) \subseteq Entry
  BY <1>1, MemEntry DEF MemLookup, Visible
<1>2. ASSUME TablesOK, NEW f \in DOMAIN files
      PROVE  LookupKey(files[f], rd.key, rd.ts) \subseteq Entry
  <2>1. files[f] \in SSTable
    BY <1>2 DEF TablesOK
  <2> QED  BY <2>1 DEF SSTable, LookupKey
<1> QED  BY <1>1, <1>2, MemSearchIn, TableSearchIn, Zenon

LEMMA ReaderOKStep == TypeInv /\ [Next]_vars => ReaderOK'
<1> SUFFICES ASSUME TypeInv, [Next]_vars PROVE ReaderOK'
  OBVIOUS
<1>0. /\ MemOK /\ ClockOK /\ TablesOK /\ ReaderOK /\ rd \in ReaderState
      /\ frozen \in Seq(DOMAIN mem) /\ active \in DOMAIN mem /\ DOMAIN mem \subseteq Nat
      /\ fl.mt \in Nat
  <2>1. MemOK /\ ClockOK /\ TablesOK /\ ReaderOK /\ rd \in ReaderState
    BY Zenon DEF TypeInv, ReaderOK
  <2>2. fl \in FlushWorker
    BY <2>1, ActiveFacts, Zenon
  <2>3. fl.mt \in Nat
    BY <2>2 DEF FlushWorker
  <2> QED  BY <2>1, <2>3, ActiveFacts, Zenon
<1>a. /\ Idle \in ReaderState /\ Idle.pc = "idle"
  BY DEF Idle, ReaderState
<1>b. CASE rd' = Idle
  BY <1>a, <1>b DEF ReaderOK
<1>c. CASE UNCHANGED rd /\ ~Crash
  BY <1>0, <1>c, MemGrows DEF ReaderOK
<1>d. Listed \subseteq Nat /\ Unpublished \subseteq Nat
  <2>1. \A i \in DOMAIN frozen : frozen[i] \in Nat
    BY <1>0
  <2> QED  BY <1>0, <2>1 DEF Listed, Unpublished, Bag
<1>1. CASE Crash
  BY <1>b, <1>1, Zenon DEF Crash
<1>2. CASE \E k \in Keys : ReadStart(k)
  <2>1. PICK k \in Keys : ReadStart(k)
    BY <1>2, Zenon
  <2> DEFINE D == {e \in applied : /\ e.key = k /\ e.ts <= global_ts
                                   /\ e.bat \in committed \cup {0}}
             o == IF batch_in_progress THEN batches ELSE 0
  <2>2. rd' = [pc |-> "started", key |-> k, ts |-> global_ts, open |-> o, listed |-> Listed, due |-> D]
    BY <2>1, Zenon DEF ReadStart
  <2>3. D \subseteq Entry /\ o \in Nat /\ global_ts \in Nat
    BY <1>0, Zenon DEF ClockOK
  <2> HIDE DEF D, o
  <2> QED  BY <1>d, <2>2, <2>3 DEF ReaderOK, ReaderState
<1>3. CASE ReadSnapshot
  <2>1. /\ rd.key \in Keys /\ rd.ts \in Nat /\ rd.open \in Nat /\ rd.due \subseteq Entry
        /\ rd.listed \subseteq Nat
    BY <1>0, <1>3, Zenon DEF ReadSnapshot, ReaderState
  <2>2. /\ rd' = [pc |-> "snapshot", key |-> rd.key, ts |-> rd.ts, open |-> rd.open, due |-> rd.due,
                  active |-> active, frozen |-> frozen,
                  lost |-> rd.listed \ Listed, gap |-> Unpublished]
        /\ UNCHANGED mem
    BY <1>3, Zenon DEF ReadSnapshot, mvars
  <2>3. frozen \in Seq(Nat) /\ active \in Nat
    BY <1>0, SeqWiden
  <2>4. rd' \in ReaderState
    BY <1>d, <2>1, <2>2, <2>3, Zenon DEF ReaderState
  <2> QED  BY <1>0, <2>2, <2>4 DEF ReaderOK
<1>4. CASE ReadMemTables
  <2>1. /\ rd.pc = "snapshot" /\ rd.frozen \in Seq(DOMAIN mem) /\ rd.active \in DOMAIN mem
        /\ UNCHANGED mem
    BY <1>0, <1>4 DEF ReadMemTables, ReaderOK, mvars
  <2>2. SearchMemTables \subseteq Entry
    BY <1>0, <2>1, SearchTypes, Zenon
  <2>3. CASE rd' = [rd EXCEPT !.pc = "tables"]
    <3>1. rd' \in ReaderState /\ rd'.frozen = rd.frozen /\ rd'.active = rd.active
      BY <1>0, <2>1, <2>3, Zenon DEF ReaderState
    <3> QED  BY <2>1, <3>1 DEF ReaderOK
  <2>4. CASE Done(SearchMemTables, {})
    <3>1. rd' \in ReaderState /\ rd'.pc = "done"
      BY <1>0, <2>1, <2>2, <2>4, Zenon DEF Done, ReaderState
    <3> QED  BY <3>1 DEF ReaderOK
  <2> QED  BY <1>4, <2>3, <2>4 DEF ReadMemTables
<1>5. CASE ReadTables
  <2>1. SearchTables \subseteq Entry
    BY <1>0, SearchTypes, Zenon
  <2>2. rd.pc = "tables" /\ Done(SearchTables, rd.gap \cap Unpublished)
    BY <1>5 DEF ReadTables
  <2>3. rd' \in ReaderState /\ rd'.pc = "done"
    BY <1>0, <1>d, <2>1, <2>2, Zenon DEF Done, ReaderState
  <2> QED  BY <2>3 DEF ReaderOK
<1>6. CASE ReadReturn
  BY <1>b, <1>6, Zenon DEF ReadReturn
<1>7. CASE SomeWrite
  BY <1>1, <1>c, <1>7, WriteFrame
<1>8. CASE Apply \/ Flush \/ WaitForPendingFlushes \/ Sync \/ StartBatch \/ CommitBatch \/ CommitDone
  BY <1>1, <1>c, <1>8, Zenon DEF Apply, Flush, WaitForPendingFlushes, Sync, StartBatch, CommitBatch, CommitDone
<1>9. CASE AbortLog \/ AbortManifest \/ AbortMemTables \/ AbortTables
  BY <1>1, <1>c, <1>9 DEF AbortLog, AbortManifest, AbortMemTables, AbortTables
<1>10. CASE FlushPop \/ FlushWrite \/ FlushPublish \/ FlushManifest \/ FlushCheckpoint \/ FlushDone
  BY <1>1, <1>c, <1>10 DEF FlushPop, FlushWrite, FlushPublish, FlushManifest, FlushCheckpoint, FlushDone
<1>11. CASE RecoverInsert \/ RecoverEnd \/ UNCHANGED vars
  BY <1>1, <1>c, <1>11, Zenon DEF RecoverInsert, RecoverEnd, vars
<1> QED
  BY <1>1, <1>2, <1>3, <1>4, <1>5, <1>6, <1>7, <1>8, <1>9, <1>10, <1>11, Steps, Zenon

-----------------------------------------------------------------------------
(* Type correctness.                                                       *)

LEMMA InitTypeInv ==
    ASSUME ReplaySound, Init
    PROVE  TypeInv
<1>1. ClockOK /\ LogOK
  <2>1. {batch_in_progress, batch_touched, recovering} \subseteq BOOLEAN
    BY Zenon DEF Init
  <2>2. /\ {global_ts, batch_ts, writes, batches, crashes} \subseteq Nat /\ applied = {}
        /\ {committed, spilled, exposed} \subseteq SUBSET Nat /\ promised = {}
    BY DEF Init
  <2> QED  BY <2>1, <2>2 DEF Init, ClockOK, LogOK
<1>2. MemOK
  <2>1. mem = <<Empty>> /\ Empty \in MemTable
    BY EmptyType DEF Init
  <2>2. mem \in Seq(MemTable) /\ mem # << >>
    BY <2>1
  <2>3. fl \in FlushWorker /\ fl.pc = "idle" /\ fl.mt = NoTable
    BY Zenon DEF Init, FlushWorker, NoTable
  <2> QED  BY <2>2, <2>3 DEF Init, MemOK
<1>3. TablesOK
  <2>1. /\ files = << >> /\ tables = << >> /\ manifest = [adds |-> << >>, aborts |-> {}]
        /\ fl.pc = "idle"
    BY Zenon DEF Init
  <2> QED  BY <2>1 DEF TablesOK
<1>4. ReaderOK /\ RecoveryOK /\ op \in WriterState
  BY Zenon DEF Init, ReaderOK, RecoveryOK, Idle, ReaderState, WriterState
<1> QED  BY <1>1, <1>2, <1>3, <1>4, Zenon DEF TypeInv

LEMMA TypeStep == TypeInv /\ [Next]_vars => TypeInv'
  BY ClockStep, LogStep, MemStep, TablesStep, ReaderOKStep, RecoveryStep, OpStep DEF TypeInv

LEMMA TypeInvOK == TypeInv => TypeOK
<1> SUFFICES ASSUME TypeInv PROVE TypeOK
  OBVIOUS
<1>1. pending \in Nat
  BY DEF TypeInv, MemOK
<1>2. manifest.adds \in Seq(DOMAIN files)
  <2>1. /\ manifest.adds \in Seq(Nat) /\ files \in Seq(SSTable)
        /\ \A i \in DOMAIN manifest.adds : manifest.adds[i] = i
        /\ Len(files) \in {Len(manifest.adds), Len(manifest.adds) + 1}
    BY DEF TypeInv, TablesOK
  <2>2. \A i \in DOMAIN manifest.adds : i \in DOMAIN files
    BY <2>1
  <2>3. manifest.adds \in [1..Len(manifest.adds) -> DOMAIN files] /\ Len(manifest.adds) \in Nat
    BY <2>1, <2>2
  <2> QED  BY <2>3, FunctionSeq, Zenon
<1>3. manifest \in [adds : Seq(DOMAIN files), aborts : SUBSET [ts : Nat, fence : Nat]]
  BY <1>2, Zenon DEF TypeInv, TablesOK
<1> QED
  BY <1>1, <1>3, Zenon DEF TypeInv, TypeOK, ClockOK, LogOK, MemOK, TablesOK, ReaderOK

-----------------------------------------------------------------------------
(* The flush worker takes memtables in the order of their ids, and never   *)
(* the active one.                                                         *)

Holding == {"popped", "written", "published"}

OrderInv ==
    /\ \A i, j \in DOMAIN frozen : i < j => frozen[i] < frozen[j]
    /\ \A i \in DOMAIN frozen : frozen[i] < active
    /\ fl.pc \in Holding => fl.mt < active /\ \A i \in DOMAIN frozen : fl.mt < frozen[i]

\* The memtables after the active one became m, with or without a fresh one behind it.
LEMMA MemCases ==
    ASSUME MemOK, NEW m \in MemTable,
           mem' = [mem EXCEPT ![active] = m] \/ mem' = Append([mem EXCEPT ![active] = m], Empty)
    PROVE  /\ active \in DOMAIN mem' /\ mem'[active] = m
           /\ \A n \in DOMAIN mem : n \in DOMAIN mem' /\ (n # active => mem'[n] = mem[n])
           /\ \A n \in DOMAIN mem' : n \in DOMAIN mem \/ (n = active + 1 /\ mem'[n] = Empty)
<1> DEFINE M == [mem EXCEPT ![active] = m]
<1>1. /\ active \in DOMAIN mem /\ active \in Nat /\ DOMAIN mem = 1..active
      /\ M \in Seq(MemTable) /\ Len(M) = active
  BY MemReplace
<1>2. /\ DOMAIN M = 1..active /\ M[active] = m
      /\ \A n \in 1..active : n # active => M[n] = mem[n]
  BY <1>1
<1> HIDE DEF M
<1>3. CASE mem' = M
  BY <1>1, <1>2, <1>3, Zenon
<1>4. CASE mem' = Append(M, Empty)
  <2>1. /\ DOMAIN mem' = 1..(active + 1) /\ mem'[active + 1] = Empty
        /\ \A n \in 1..active : mem'[n] = M[n]
    BY <1>1, <1>4, EmptyType, AppendTo
  <2>2. \A n \in 1..(active + 1) : n \in 1..active \/ n = active + 1
    BY <1>1
  <2>3. \A n \in 1..active : n \in 1..(active + 1)
    BY <1>1
  <2> QED  BY <1>1, <1>2, <2>1, <2>2, <2>3
<1> QED  BY <1>3, <1>4 DEF M

LEMMA TreeInsertEntries ==
    ASSUME NEW m \in MemTable, NEW e \in Entry
    PROVE  LET t == TreeInsert(m, e)
           IN  /\ t.aborted = m.aborted /\ Len(t.ents) = Len(m.ents) + 1
               /\ DOMAIN t.ents = 1..(Len(m.ents) + 1) /\ DOMAIN m.ents = 1..Len(m.ents)
               /\ Len(m.ents) \in Nat /\ t.ents[1] = e
               /\ \A i \in 1..Len(m.ents) : t.ents[i + 1] = m.ents[i]
               /\ \A i \in DOMAIN t.ents :
                    \/ t.ents[i] = e
                    \/ i - 1 \in DOMAIN m.ents /\ t.ents[i] = m.ents[i - 1]
<1> DEFINE t == TreeInsert(m, e)
<1>1. m.ents \in Seq(Entry) /\ t.aborted = m.aborted /\ t.ents = <<e>> \o m.ents
  BY DEF MemTable, TreeInsert
<1>2. /\ Len(t.ents) = Len(m.ents) + 1 /\ Len(m.ents) \in Nat
      /\ DOMAIN t.ents = 1..(Len(m.ents) + 1) /\ DOMAIN m.ents = 1..Len(m.ents)
      /\ t.ents[1] = e /\ \A i \in 1..Len(m.ents) : t.ents[i + 1] = m.ents[i]
  BY <1>1
<1> HIDE DEF t
<1>3. ASSUME NEW i \in DOMAIN t.ents, i # 1
      PROVE  i - 1 \in DOMAIN m.ents /\ t.ents[i] = m.ents[i - 1]
  <2>1. i - 1 \in 1..Len(m.ents) /\ (i - 1) + 1 = i
    BY <1>2, <1>3
  <2>2. t.ents[(i - 1) + 1] = m.ents[i - 1]
    BY <1>2, <2>1, Zenon
  <2> QED  BY <1>2, <2>1, <2>2, Zenon
<1>4. \A i \in DOMAIN t.ents :
        t.ents[i] = e \/ (i - 1 \in DOMAIN m.ents /\ t.ents[i] = m.ents[i - 1])
  BY <1>2, <1>3, Zenon
<1> QED  BY <1>1, <1>2, <1>4, Zenon DEF t

\* Popping takes the head off.
LEMMA PopFrozen ==
    ASSUME MemOK, frozen # << >>
    PROVE  /\ Head(frozen) = frozen[1] /\ 1 \in DOMAIN frozen /\ Head(frozen) \in DOMAIN mem
           /\ Len(frozen) \in Nat /\ Len(Tail(frozen)) = Len(frozen) - 1
           /\ DOMAIN Tail(frozen) = 1..(Len(frozen) - 1) /\ DOMAIN frozen = 1..Len(frozen)
           /\ \A i \in DOMAIN Tail(frozen) : /\ i + 1 \in DOMAIN frozen /\ i + 1 > 1
                                           /\ Tail(frozen)[i] = frozen[i + 1]
           /\ Bag(frozen) \subseteq {Head(frozen)} \cup Bag(Tail(frozen))
<1>1. /\ frozen \in Seq(DOMAIN mem) /\ Len(frozen) \in Nat /\ Len(frozen) > 0
  BY DEF MemOK
<1>2. /\ Len(Tail(frozen)) = Len(frozen) - 1 /\ DOMAIN Tail(frozen) = 1..(Len(frozen) - 1)
      /\ DOMAIN frozen = 1..Len(frozen) /\ Head(frozen) = frozen[1]
      /\ \A i \in 1..(Len(frozen) - 1) : Tail(frozen)[i] = frozen[i + 1]
  BY <1>1
<1>3. 1 \in DOMAIN frozen /\ Head(frozen) \in DOMAIN mem
  BY <1>1, <1>2
<1>4. \A i \in DOMAIN Tail(frozen) : i + 1 \in DOMAIN frozen /\ i + 1 > 1
  BY <1>1, <1>2
<1>5. ASSUME NEW i \in DOMAIN frozen PROVE frozen[i] \in {Head(frozen)} \cup Bag(Tail(frozen))
  <2>1. CASE i = 1
    BY <1>2, <2>1
  <2>2. CASE i # 1
    <3>1. i - 1 \in DOMAIN Tail(frozen) /\ (i - 1) + 1 = i
      BY <1>1, <1>2, <2>2
    <3>2. Tail(frozen)[i - 1] = frozen[(i - 1) + 1]
      BY <1>2, <3>1
    <3> QED  BY <3>1, <3>2 DEF Bag
  <2> QED  BY <2>1, <2>2
<1>6. Bag(frozen) \subseteq {Head(frozen)} \cup Bag(Tail(frozen))
  BY <1>5 DEF Bag
<1> QED  BY <1>1, <1>2, <1>3, <1>4, <1>6

LEMMA FreezeFrozen ==
    ASSUME MemOK, frozen' = Append(frozen, active)
    PROVE  /\ DOMAIN frozen = 1..Len(frozen) /\ Len(frozen) \in Nat
           /\ DOMAIN frozen' = 1..(Len(frozen) + 1) /\ frozen'[Len(frozen) + 1] = active
           /\ \A i \in 1..Len(frozen) : frozen'[i] = frozen[i]
           /\ \A i \in DOMAIN frozen' : i \in DOMAIN frozen \/ i = Len(frozen) + 1
           /\ Bag(frozen') = Bag(frozen) \cup {active}
<1>1. frozen \in Seq(DOMAIN mem) /\ active \in DOMAIN mem
  BY DEF MemOK, active
<1>2. /\ DOMAIN frozen = 1..Len(frozen) /\ Len(frozen) \in Nat
      /\ DOMAIN frozen' = 1..(Len(frozen) + 1) /\ frozen'[Len(frozen) + 1] = active
      /\ \A i \in 1..Len(frozen) : frozen'[i] = frozen[i]
  BY <1>1
<1>3. \A i : i \in DOMAIN frozen' <=> i \in DOMAIN frozen \/ i = Len(frozen) + 1
  BY <1>2
<1>4. Bag(frozen') = Bag(frozen) \cup {active}
  BY <1>2, <1>3, Zenon DEF Bag
<1> QED  BY <1>2, <1>3, <1>4

LEMMA FreezeOrder ==
    ASSUME MemOK, OrderInv, NEW m \in MemTable, Freeze(m), fl' = fl
    PROVE  OrderInv'
<1>1. /\ active \in Nat /\ DOMAIN mem \subseteq Nat /\ fl.mt \in Nat
      /\ \A i \in DOMAIN frozen : frozen[i] \in Nat
  BY DEF MemOK, active, FlushWorker
<1>2. active' = active + 1
  BY FreezeMem DEF active
<1>3. /\ DOMAIN frozen = 1..Len(frozen) /\ Len(frozen) \in Nat
      /\ DOMAIN frozen' = 1..(Len(frozen) + 1) /\ frozen'[Len(frozen) + 1] = active
      /\ \A i \in 1..Len(frozen) : frozen'[i] = frozen[i]
      /\ \A i \in DOMAIN frozen' : i \in DOMAIN frozen \/ i = Len(frozen) + 1
  BY FreezeFrozen DEF Freeze
<1>4. ASSUME NEW i \in DOMAIN frozen', NEW j \in DOMAIN frozen', i < j
      PROVE  frozen'[i] < frozen'[j]
  <2>1. i \in DOMAIN frozen
    BY <1>3, <1>4
  <2>2. CASE j \in DOMAIN frozen
    BY <1>3, <1>4, <2>1, <2>2 DEF OrderInv
  <2>3. CASE j = Len(frozen) + 1
    BY <1>3, <2>1, <2>3 DEF OrderInv
  <2> QED  BY <1>3, <2>2, <2>3, Zenon
<1>5. ASSUME NEW i \in DOMAIN frozen' PROVE frozen'[i] < active'
  <2>1. CASE i \in DOMAIN frozen
    <3>1. frozen'[i] = frozen[i] /\ frozen[i] < active /\ frozen[i] \in Nat
      BY <1>1, <1>3, <2>1 DEF OrderInv
    <3>2. active \in Nat /\ active' = active + 1
      BY <1>1, <1>2, Zenon
    <3>3. frozen[i] < active + 1
      BY <3>1, <3>2
    <3> QED  BY <3>1, <3>2, <3>3, Zenon
  <2>2. CASE i = Len(frozen) + 1
    BY <1>1, <1>2, <1>3, <2>2
  <2> QED  BY <1>3, <2>1, <2>2, Zenon
<1>6. ASSUME fl'.pc \in Holding
      PROVE  fl'.mt < active' /\ \A i \in DOMAIN frozen' : fl'.mt < frozen'[i]
  <2>1. fl.mt < active /\ \A i \in DOMAIN frozen : fl.mt < frozen[i]
    BY <1>6 DEF OrderInv
  <2>2. fl.mt < active + 1
    BY <1>1, <2>1
  <2> QED  BY <1>2, <1>3, <2>1, <2>2
<1> QED  BY <1>4, <1>5, <1>6 DEF OrderInv

LEMMA OrderStep == TypeInv /\ OrderInv /\ [Next]_vars => OrderInv'
<1> SUFFICES ASSUME TypeInv, OrderInv, [Next]_vars PROVE OrderInv'
  OBVIOUS
<1>0. /\ MemOK /\ RecoveryOK /\ LogOK /\ op \in WriterState /\ fl \in FlushWorker /\ active \in Nat
      /\ active \in DOMAIN mem /\ mem[active] \in MemTable
  BY ActiveFacts, Zenon DEF TypeInv
<1>a. ASSUME UNCHANGED frozen, active' = active,
             fl'.pc \in Holding => fl.pc \in Holding /\ fl'.mt = fl.mt
      PROVE  OrderInv'
  BY <1>a DEF OrderInv
<1>b. ASSUME UNCHANGED mem PROVE active' = active
  BY <1>b DEF active
<1>c. ASSUME frozen' = << >>, fl'.pc = "idle" PROVE OrderInv'
  <2>1. DOMAIN frozen' = {}
    BY <1>c
  <2> QED  BY <1>c, <2>1 DEF OrderInv, Holding
<1>1. CASE Apply
  <2> DEFINE m == TreeInsert(mem[active], op.ent)
  <2>1. m \in MemTable
    BY <1>0, <1>1, TreeInsertType, Zenon DEF Apply, WriterState
  <2>2. fl' = fl
    BY <1>1 DEF Apply
  <2>3. CASE Freeze(m)
    BY <1>0, <2>1, <2>2, <2>3, FreezeOrder
  <2>4. CASE mem' = [mem EXCEPT ![active] = m] /\ UNCHANGED <<frozen, pending>>
    <3> HIDE DEF m
    <3>1. active' = active
      BY <1>0, <2>1, <2>4, MemReplace DEF active
    <3> QED  BY <1>a, <2>2, <2>4, <3>1
  <2> QED  BY <1>1, <2>3, <2>4, Zenon DEF Apply
<1>2. CASE Flush
  BY <1>0, <1>2, FreezeOrder, Zenon DEF Flush
<1>3. CASE FlushPop
  <2>1. frozen # << >>
    <3>1. fl.pc = "idle" /\ pending > 0
      BY <1>3, Zenon DEF FlushPop
    <3>2. pending = Len(frozen) + (IF fl.pc = "idle" THEN 0 ELSE 1)
      BY <1>0, Zenon DEF MemOK
    <3> QED  BY <3>1, <3>2
  <2>2. fl' = [pc |-> "popped", mt |-> Head(frozen)] /\ frozen' = Tail(frozen) /\ UNCHANGED mem
    BY <1>3, <2>1, Zenon DEF FlushPop
  <2>3. /\ Head(frozen) = frozen[1] /\ 1 \in DOMAIN frozen
        /\ Len(frozen) \in Nat /\ DOMAIN Tail(frozen) = 1..(Len(frozen) - 1)
        /\ \A i \in DOMAIN Tail(frozen) : /\ i + 1 \in DOMAIN frozen /\ i + 1 > 1
                                        /\ Tail(frozen)[i] = frozen[i + 1]
    BY <1>0, <2>1, PopFrozen, Zenon
  <2>4. ASSUME NEW i \in DOMAIN frozen', NEW j \in DOMAIN frozen', i < j
        PROVE  frozen'[i] < frozen'[j]
    <3>1. i \in 1..(Len(frozen) - 1) /\ j \in 1..(Len(frozen) - 1) /\ Len(frozen) \in Nat
      BY <2>2, <2>3, <2>4, Zenon
    <3>2. i + 1 < j + 1
      BY <2>4, <3>1
    <3> QED  BY <2>2, <2>3, <3>2, Zenon DEF OrderInv
  <2>5. \A i \in DOMAIN frozen' : frozen'[i] < active' /\ Head(frozen) < frozen'[i]
    BY <1>b, <2>2, <2>3, Zenon DEF OrderInv
  <2>6. fl'.mt = Head(frozen) /\ fl'.mt < active'
    BY <1>b, <2>2, <2>3 DEF OrderInv
  <2> QED  BY <2>4, <2>5, <2>6, Zenon DEF OrderInv
<1>4. CASE FlushWrite \/ FlushPublish \/ FlushManifest \/ FlushCheckpoint \/ FlushDone
  BY <1>0, <1>4, <1>a, <1>b DEF FlushWrite, FlushPublish, FlushManifest, FlushCheckpoint, FlushDone,
                                mvars, Holding, FlushWorker
<1>5. CASE Crash
  BY <1>c, <1>5 DEF Crash
<1>6. CASE RecoverInsert \/ RecoverEnd
  <2>1. recovering /\ UNCHANGED <<frozen, fl>>
    BY <1>6, Zenon DEF RecoverInsert, RecoverEnd, Running
  <2> QED  BY <1>0, <1>c, <2>1 DEF RecoveryOK
<1>7. CASE AbortMemTables
  <2>1. UNCHANGED <<frozen, fl>> /\ DOMAIN mem' = DOMAIN mem
    BY <1>7 DEF AbortMemTables
  <2>2. mem' \in Seq(MemTable) /\ mem \in Seq(MemTable)
    BY <1>0, MemStep DEF MemOK
  <2>3. active' = active
    BY <2>1, <2>2 DEF active
  <2> QED  BY <1>a, <2>1, <2>3
<1>8. CASE SomeWrite
  BY <1>8, <1>a, <1>b, WriteFrame DEF mvars
<1>9. CASE WaitForPendingFlushes \/ Sync \/ StartBatch \/ CommitBatch \/ CommitDone
  BY <1>9, <1>a, <1>b, Zenon DEF WaitForPendingFlushes, Sync, StartBatch, CommitBatch, CommitDone, mvars
<1>10. CASE AbortLog \/ AbortManifest \/ AbortTables
  BY <1>10, <1>a, <1>b DEF AbortLog, AbortManifest, AbortTables, mvars
<1>11. CASE (\E k \in Keys : ReadStart(k)) \/ ReadSnapshot \/ ReadMemTables \/ ReadTables \/ ReadReturn
  BY <1>11, <1>a, <1>b DEF ReadStart, ReadSnapshot, ReadMemTables, ReadTables, ReadReturn, mvars
<1>12. CASE UNCHANGED vars
  BY <1>12, <1>a, <1>b, Zenon DEF vars, mvars
<1> QED
  BY <1>1, <1>2, <1>3, <1>4, <1>5, <1>6, <1>7, <1>8, <1>9, <1>10, <1>11, <1>12, Steps, Zenon

LEMMA InitOrder == Init => OrderInv
  BY DEF Init, OrderInv, Holding

============================================================================
