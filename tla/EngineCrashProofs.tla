-------------------------- MODULE EngineCrashProofs --------------------------
(***************************************************************************)
(* What is logged while no flush is pending survives every crash, as long  *)
(* as no batch has begun.                                                  *)
(***************************************************************************)
EXTENDS EngineProofs

NoBatch ==
    /\ ~batch_in_progress
    /\ op.pc \notin {"commit", "abort1", "abort2", "abort3"}
    /\ \A i \in DOMAIN log : log[i].kind = "put" \/ (log[i].kind = "ckpt" /\ log[i].batch = 0)
    /\ \A n \in DOMAIN mem : mem[n].aborted = {}

Puts == {i \in DOMAIN log : log[i].kind = "put"}

\* Records are numbered in the order of the log; the writer's is the last, and is not
\* promised before it is inserted.
Numbered ==
    /\ \A i, j \in Puts : i < j => log[i].id < log[j].id
    /\ \A i \in Puts : log[i].id <= writes
    /\ op.pc = "logged" =>
         /\ op.ent.id = writes
         /\ \E i \in Puts : log[i].key = op.ent.key /\ log[i].id = op.ent.id
    /\ \A p \in promised :
         /\ \E i \in Puts : log[i].key = p.key /\ log[i].id = p.id
         /\ op.pc = "logged" => p.id # op.ent.id

\* What recovery replays after any crash is in the order of its timestamps: a record
\* below an older one has a checkpoint between them.
LogSorted ==
    /\ \A i, j \in Puts :
         i < j /\ (\A k \in i..j : log[k].kind # "ckpt") => log[i].ts < log[j].ts
    /\ \A i \in Puts :
         (\A k \in i..Len(log) : log[k].kind # "ckpt") /\ i \notin replay => log[i].ts <= global_ts
    /\ \A i, j \in replay : i < j => log[i].ts < log[j].ts
    /\ Running => replay = {}

Descending(ents) ==
    \A i, j \in DOMAIN ents : i < j => ents[j].id < ents[i].id /\ ents[j].ts < ents[i].ts

\* Memtables are in the order of writes, and of timestamps; what is still to be
\* inserted is above the active one.
MemSorted ==
    /\ \A n \in DOMAIN mem : Descending(mem[n].ents)
    /\ \A i \in DOMAIN mem[active].ents :
         /\ mem[active].ents[i].id <= writes
         /\ mem[active].ents[i].ts <= global_ts
         /\ op.pc = "logged" => /\ mem[active].ents[i].id < op.ent.id
                                /\ mem[active].ents[i].ts < op.ent.ts
         /\ \A r \in replay : /\ mem[active].ents[i].id < log[r].id
                              /\ mem[active].ents[i].ts < log[r].ts
    /\ op.pc = "logged" => op.ent.ts <= global_ts

\* The write of record r, or a later one of its key, is in a file the manifest lists.
InFiles(r) ==
    \E f \in DOMAIN manifest.adds : \E e \in files[f].ents : e.key = r.key /\ e.id >= r.id

InMem(m, r) == \E i \in DOMAIN m.ents : m.ents[i].key = r.key /\ m.ents[i].id >= r.id

\* The memtable whose table is recorded next.
Oldest == IF fl.pc \in Holding THEN fl.mt ELSE IF frozen # << >> THEN Head(frozen) ELSE active

\* Where a record that was logged while no flush was pending is.
Placed ==
    \A i \in Puts : log[i].id \notin exposed =>
        \/ InFiles(log[i])
        \/ fl.pc \notin {"recorded", "logged"} /\ InMem(mem[Oldest], log[i])
        \/ /\ pending = 0 /\ op.pc = "logged"
           /\ op.ent.key = log[i].key /\ op.ent.id = log[i].id
        \/ i \in replay

\* A checkpoint that may survive a crash covers what is before it.
Covered ==
    \A i \in Puts, j \in DOMAIN log :
        /\ i < j /\ log[j].kind = "ckpt" /\ (Running \/ j <= durable)
        /\ log[i].id \notin exposed
        => InFiles(log[i])

FileWritten == fl.pc \in {"written", "published"} => files[Len(files)] = File(mem[fl.mt])

Published ==
    /\ \A f \in DOMAIN manifest.adds : \E t \in DOMAIN tables : tables[t].seq = f
    /\ fl.pc = "published" => \E t \in DOMAIN tables : tables[t].seq = Len(files)

CrashInv ==
    batches = 0 =>
        /\ NoBatch /\ Numbered /\ LogSorted /\ MemSorted
        /\ Placed /\ Covered /\ FileWritten /\ Published

-----------------------------------------------------------------------------
(* The steps before the first batch.                                       *)

NormalWrite == \E k \in Keys, form \in {"val", "tomb"} : Write(k, form, FALSE)

\* The steps that move no entry.
Quiet ==
    /\ UNCHANGED <<global_ts, batch_in_progress, log, mvars, fl, tvars, rvars, writes, exposed, promised>>
    /\ op' = op \/ (op.pc # "logged" /\ op'.pc = "idle")
    /\ Running \/ durable' = durable

LEMMA NextPosition ==
    ASSUME NEW n \in Nat
    PROVE  1 \in 1..(n + 1) /\ \A k \in 1..n : k + 1 \in 1..(n + 1)
  OBVIOUS

LEMMA PlainSteps ==
    ASSUME TypeInv, [Next]_vars, batches' = 0, batches = 0 => NoBatch
    PROVE  /\ batches = 0
           /\ \/ NormalWrite \/ Apply \/ Flush
              \/ FlushPop \/ FlushWrite \/ FlushPublish \/ FlushManifest \/ FlushCheckpoint \/ FlushDone
              \/ Crash \/ RecoverInsert \/ RecoverEnd
              \/ Quiet
<1> DEFINE G == /\ batches = 0
                /\ \/ NormalWrite \/ Apply \/ Flush
                   \/ FlushPop \/ FlushWrite \/ FlushPublish \/ FlushManifest \/ FlushCheckpoint \/ FlushDone
                   \/ Crash \/ RecoverInsert \/ RecoverEnd
                   \/ Quiet
<1>0. batches \in Nat /\ op \in WriterState
  BY DEF TypeInv, ClockOK
<1>1. CASE SomeWrite
  <2>1. PICK k \in Keys, form \in {"val", "tomb"}, bat \in BOOLEAN : Write(k, form, bat)
    BY <1>1 DEF SomeWrite
  <2>2. batches = 0 /\ ~batch_in_progress
    BY <2>1 DEF Write, NoBatch
  <2>3. bat = FALSE
    BY <2>1, <2>2, Zenon DEF Write
  <2> QED  BY <2>1, <2>2, <2>3, Zenon DEF NormalWrite
<1>2. CASE Apply \/ Flush
  BY <1>2, Zenon DEF Apply, Flush, cvars
<1>3. CASE FlushPop \/ FlushWrite \/ FlushPublish \/ FlushManifest \/ FlushCheckpoint \/ FlushDone
  BY <1>3 DEF FlushPop, FlushWrite, FlushPublish, FlushManifest, FlushCheckpoint, FlushDone, cvars
<1>4. CASE Crash \/ RecoverInsert \/ RecoverEnd
  BY <1>4, Zenon DEF Crash, RecoverInsert, RecoverEnd, cvars
<1>5. CASE StartBatch
  <2>1. batches' = batches + 1
    BY <1>5 DEF StartBatch
  <2> QED  BY <1>0, <2>1
<1>6. CASE CommitBatch \/ AbortLog
  <2>1. batches = 0 /\ batch_in_progress
    BY <1>6 DEF CommitBatch, AbortLog, cvars
  <2> QED  BY <2>1 DEF NoBatch
<1>7. CASE CommitDone \/ AbortManifest \/ AbortMemTables \/ AbortTables
  <2>1. batches = 0 /\ op.pc \in {"commit", "abort1", "abort2", "abort3"}
    BY <1>7 DEF CommitDone, AbortManifest, AbortMemTables, AbortTables, cvars
  <2> QED  BY <2>1 DEF NoBatch
<1>8. CASE WaitForPendingFlushes
  BY <1>8 DEF WaitForPendingFlushes, Quiet, cvars, hvars, bvars, Idle
<1>9. CASE Sync
  BY <1>9, Zenon DEF Sync, Quiet, cvars, hvars, bvars
<1>10. CASE (\E k \in Keys : ReadStart(k)) \/ ReadSnapshot \/ ReadReturn
  BY <1>10 DEF ReadStart, ReadSnapshot, ReadReturn, Quiet, cvars, hvars, bvars
<1>11. CASE ReadMemTables \/ ReadTables
  BY <1>11 DEF ReadMemTables, ReadTables, Quiet, cvars, hvars, bvars
<1>12. CASE UNCHANGED vars
  BY <1>12 DEF vars, Quiet, cvars, hvars, bvars
<1> QED
  BY <1>1, <1>2, <1>3, <1>4, <1>5, <1>6, <1>7, <1>8, <1>9, <1>10, <1>11, <1>12, Steps, Zenon

LEMMA LogAfter ==
    ASSUME LogOK, NEW r, log' = Append(log, r)
    PROVE  /\ Len(log) \in Nat /\ Len(log') = Len(log) + 1
           /\ DOMAIN log = 1..Len(log) /\ DOMAIN log' = 1..(Len(log) + 1)
           /\ log'[Len(log) + 1] = r
           /\ \A i \in DOMAIN log : i \in DOMAIN log' /\ i < Len(log) + 1 /\ log'[i] = log[i]
           /\ Puts' = IF r.kind = "put" THEN Puts \cup {Len(log) + 1} ELSE Puts
<1>1. log \in Seq(LogRecord)
  BY DEF LogOK
<1>2. /\ Len(log) \in Nat /\ Len(log') = Len(log) + 1
      /\ DOMAIN log = 1..Len(log) /\ DOMAIN log' = 1..(Len(log) + 1)
      /\ log'[Len(log) + 1] = r /\ \A i \in 1..Len(log) : log'[i] = log[i]
  BY <1>1
<1>3. /\ \A i : i \in DOMAIN log' <=> i \in DOMAIN log \/ i = Len(log) + 1
      /\ \A i \in DOMAIN log : i < Len(log) + 1
  BY <1>2
<1>4. Puts' = IF r.kind = "put" THEN Puts \cup {Len(log) + 1} ELSE Puts
  BY <1>2, <1>3 DEF Puts
<1> QED  BY <1>2, <1>3, <1>4

\* What a normal write logs.
LEMMA WriteFacts ==
    ASSUME TypeInv, NormalWrite
    PROVE  /\ op.pc = "idle" /\ Running /\ op'.pc = "logged"
           /\ op'.ent.id = writes + 1 /\ op'.ent.ts = global_ts + 1
           /\ writes' = writes + 1 /\ global_ts' = global_ts + 1
           /\ writes \in Nat /\ global_ts \in Nat
           /\ exposed' = IF pending > 0 THEN exposed \cup {writes + 1} ELSE exposed
           /\ log' = Append(log, PutRecord(op'.ent))
           /\ PutRecord(op'.ent).kind = "put" /\ PutRecord(op'.ent).key = op'.ent.key
           /\ PutRecord(op'.ent).id = writes + 1 /\ PutRecord(op'.ent).ts = global_ts + 1
           /\ UNCHANGED <<batch_in_progress, durable, mvars, fl, tvars, rvars, promised>>
<1>1. PICK k \in Keys, form \in {"val", "tomb"} : Write(k, form, FALSE)
  BY Zenon DEF NormalWrite
<1>2. /\ op = Idle /\ Running /\ writes' = writes + 1 /\ global_ts' = global_ts + 1
      /\ op'.pc = "logged" /\ op'.ent.id = writes + 1 /\ op'.ent.ts = global_ts + 1
      /\ log' = Append(log, PutRecord(op'.ent))
      /\ exposed' = IF pending > 0 THEN exposed \cup {writes + 1} ELSE exposed
      /\ UNCHANGED <<batch_in_progress, durable, mvars, fl, tvars, rvars, promised>>
  BY <1>1 DEF Write, Log
<1>3. writes \in Nat /\ global_ts \in Nat
  BY DEF TypeInv, ClockOK
<1> QED  BY <1>2, <1>3 DEF PutRecord, Idle

\* What is left of a log without batches, and what of it is replayed.
LEMMA PrefixReplay ==
    ASSUME ReplaySound, LogOK, NoBatch, NEW n \in 0..Len(log)
    PROVE  LET L == SubSeq(log, 1, n)
           IN  /\ AbortedBatches(L) = {}
               /\ Replayed(L) = {i \in Puts : i <= n /\ \A k \in i..n : log[k].kind # "ckpt"}
<1> DEFINE L == SubSeq(log, 1, n)
<1>1. /\ L \in Seq(LogRecord) /\ Len(L) = n /\ DOMAIN L = 1..n
      /\ \A i \in 1..n : L[i] = log[i]
  BY LogPrefix
<1>2. Len(log) \in Nat /\ DOMAIN log = 1..Len(log) /\ \A i \in 1..n : i \in DOMAIN log
  BY DEF LogOK
<1>3. \A i \in DOMAIN L : L[i].kind = "put" \/ (L[i].kind = "ckpt" /\ L[i].batch = 0)
  BY <1>1, <1>2 DEF NoBatch
<1> HIDE DEF L
<1>4. Scanned(L) \subseteq DOMAIN L
  BY <1>1, ScanFacts
<1>5. AbortedBatches(L) = {}
  <2>1. Sentinels(L, "abort") = {} /\ Sentinels(L, "begin") = {}
    BY <1>3, <1>4 DEF Sentinels
  <2>2. CheckpointBatch(L) = 0
    <3>1. LastCheckpoint(L) # 0 =>
            LastCheckpoint(L) \in DOMAIN L /\ L[LastCheckpoint(L)].kind = "ckpt"
      BY <1>1, ScanFacts
    <3> QED  BY <1>3, <3>1 DEF CheckpointBatch
  <2> QED  BY <2>1, <2>2 DEF AbortedBatches, BatchOpened
<1>6. ASSUME NEW i \in DOMAIN L, L[i].kind = "put"
      PROVE  i \in Scanned(L) <=> \A k \in i..n : L[k].kind # "ckpt"
  <2>1. \A k \in DOMAIN L : L[k].kind \in {"put", "ckpt"}
    BY <1>3
  <2> QED  BY <1>1, <1>6, <2>1, Zenon DEF ReplaySound
<1>7. ASSUME NEW i \in 1..n
      PROVE  (\A k \in i..n : L[k].kind # "ckpt") <=> (\A k \in i..n : log[k].kind # "ckpt")
  <2>1. \A k \in i..n : k \in 1..n
    OBVIOUS
  <2> QED  BY <1>1, <2>1
<1>8. Replayed(L) = {i \in Puts : i <= n /\ \A k \in i..n : log[k].kind # "ckpt"}
  <2>1. ASSUME NEW i \in Replayed(L)
        PROVE  i \in Puts /\ i <= n /\ \A k \in i..n : log[k].kind # "ckpt"
    <3>1. i \in 1..n /\ L[i].kind = "put" /\ i \in Scanned(L)
      BY <1>1, <1>4, <2>1, Zenon DEF Replayed
    <3>2. i \in Puts /\ i <= n
      BY <1>1, <1>2, <3>1 DEF Puts
    <3> QED  BY <1>1, <1>6, <1>7, <3>1, <3>2, Zenon
  <2>2. ASSUME NEW i \in Puts, i <= n, \A k \in i..n : log[k].kind # "ckpt"
        PROVE  i \in Replayed(L)
    <3>1. i \in 1..n
      BY <1>2, <2>2 DEF Puts
    <3>2. L[i].kind = "put"
      BY <1>1, <3>1 DEF Puts
    <3>3. i \in Scanned(L)
      BY <1>1, <1>6, <1>7, <2>2, <3>1, <3>2, Zenon
    <3> QED  BY <3>2, <3>3 DEF Replayed
  <2> QED  BY <2>1, <2>2
<1> QED  BY <1>5, <1>8 DEF L

LEMMA CrashFacts ==
    ASSUME TypeInv, NoBatch, Crash
    PROVE  \E n \in 0..Len(log) :
             /\ durable <= n /\ durable' = n /\ (~Running => n = durable)
             /\ Len(log') = n /\ DOMAIN log' = 1..n
             /\ \A i \in 1..n : i \in DOMAIN log /\ log'[i] = log[i]
             /\ Puts' = {i \in Puts : i <= n}
             /\ replay' = {i \in Puts : i <= n /\ \A k \in i..n : log[k].kind # "ckpt"}
             /\ recovering' = (replay' # {})
             /\ mem' = <<Empty>>
             /\ promised' = {[key |-> log[i].key, id |-> log[i].id] : i \in Puts'}
             /\ \A f \in DOMAIN manifest.adds : files'[f] = files[f]
             /\ \A f \in DOMAIN manifest.adds : f \in DOMAIN tables' /\ tables'[f].seq = f
<1>0. ReplaySound /\ LogOK /\ TablesOK /\ Len(log) \in Nat /\ DOMAIN log = 1..Len(log)
  BY DEF TypeInv, LogOK
<1>1. PICK n \in 0..Len(log) :
        LET L == SubSeq(log, 1, n)
            T == RecoverTables
            A == AbortedBatches(L)
            P == Replayed(L)
        IN  /\ durable <= n
            /\ log' = L
            /\ durable' = n
            /\ mem' = <<[Empty EXCEPT !.aborted = A]>>
            /\ tables' = [i \in DOMAIN T |-> [T[i] EXCEPT !.aborted = @ \cup A]]
            /\ files' = SubSeq(files, 1, Len(T))
            /\ replay' = P
            /\ recovering' = (P # {})
            /\ promised' = {[key |-> L[i].key, id |-> L[i].id] :
                              i \in {j \in 1..n : L[j].kind = "put"}}
            /\ ~Running => n = durable
  BY <1>0, CrashPick
<1> DEFINE L == SubSeq(log, 1, n)
           T == RecoverTables
           c == Len(manifest.adds)
<1>2. /\ Len(L) = n /\ DOMAIN L = 1..n
      /\ \A i \in 1..n : i \in DOMAIN log /\ L[i] = log[i]
  BY <1>0, LogPrefix
<1>3. /\ AbortedBatches(L) = {}
      /\ Replayed(L) = {i \in Puts : i <= n /\ \A k \in i..n : log[k].kind # "ckpt"}
  BY <1>0, PrefixReplay, Zenon
<1>4. /\ DOMAIN T = 1..c /\ Len(T) = c /\ c \in Nat /\ c <= Len(files)
      /\ \A i \in DOMAIN T : i \in DOMAIN files
                           /\ T[i] = [seq |-> i, source_table_id |-> 1, aborted |-> files[i].aborted]
  BY <1>0, RecoveredTables, Zenon
<1>5. DOMAIN manifest.adds = 1..c /\ files \in Seq(SSTable)
  BY <1>0 DEF TablesOK
<1> HIDE DEF L, T, c
<1>6. /\ log' = L /\ mem' = <<[Empty EXCEPT !.aborted = {}]>>
      /\ tables' = [i \in DOMAIN T |-> [T[i] EXCEPT !.aborted = @ \cup {}]]
      /\ files' = SubSeq(files, 1, c)
      /\ promised' = {[key |-> L[i].key, id |-> L[i].id] : i \in {j \in 1..n : L[j].kind = "put"}}
  BY <1>1, <1>3, <1>4, Zenon DEF L, T
<1>7. mem' = <<Empty>>
  <2>1. [Empty EXCEPT !.aborted = {}] = Empty
    BY DEF Empty
  <2> QED  BY <1>6, <2>1
<1>8. Puts' = {i \in Puts : i <= n} /\ Puts' = {j \in 1..n : L[j].kind = "put"}
  <2>1. \A i \in DOMAIN log : i <= n => i \in 1..n
    BY <1>0
  <2>2. \A i \in 1..n : i <= n
    BY <1>0
  <2> QED  BY <1>2, <1>6, <2>1, <2>2 DEF Puts
<1>9. promised' = {[key |-> log[i].key, id |-> log[i].id] : i \in Puts'}
  BY <1>2, <1>6, <1>8, Zenon
<1>10. \A f \in DOMAIN manifest.adds : files'[f] = files[f]
  BY <1>4, <1>5, <1>6
<1>11. \A f \in DOMAIN manifest.adds : f \in DOMAIN tables' /\ tables'[f].seq = f
  BY <1>4, <1>5, <1>6
<1>12. /\ durable <= n /\ durable' = n /\ (~Running => n = durable)
       /\ replay' = Replayed(L) /\ recovering' = (Replayed(L) # {})
  BY <1>1 DEF L
<1> QED  BY <1>2, <1>3, <1>6, <1>7, <1>8, <1>9, <1>10, <1>11, <1>12, Zenon

\* The records of writes.
LEMMA PutFields ==
    ASSUME LogOK, NEW i \in Puts
    PROVE  /\ i \in DOMAIN log /\ i \in Nat /\ i <= Len(log)
           /\ log[i].id \in Nat /\ log[i].ts \in Nat /\ log[i].key \in Keys
           /\ Recovered(log[i]) \in Entry
           /\ Recovered(log[i]).id = log[i].id /\ Recovered(log[i]).ts = log[i].ts
           /\ Recovered(log[i]).key = log[i].key
<1>1. log \in Seq(LogRecord) /\ i \in DOMAIN log /\ log[i].kind = "put"
  BY DEF LogOK, Puts
<1>2. log[i] \in LogRecord /\ i \in Nat /\ i <= Len(log)
  BY <1>1
<1>3. Recovered(log[i]) \in Entry
  BY <1>1, <1>2, RecordFields, Zenon
<1>4. /\ Recovered(log[i]).id = log[i].id /\ Recovered(log[i]).ts = log[i].ts
      /\ Recovered(log[i]).key = log[i].key
  BY DEF Recovered
<1>5. /\ Recovered(log[i]).id \in Nat /\ Recovered(log[i]).ts \in Nat
      /\ Recovered(log[i]).key \in Keys
  BY <1>3, Zenon DEF Entry
<1> QED  BY <1>1, <1>2, <1>3, <1>4, <1>5, Zenon

OtherStep ==
    \/ Apply \/ Flush
    \/ FlushPop \/ FlushWrite \/ FlushPublish \/ FlushManifest \/ FlushCheckpoint \/ FlushDone
    \/ RecoverInsert \/ RecoverEnd
    \/ Quiet

\* Between writes and crashes the log grows by checkpoints only.
LEMMA OtherSteps ==
    ASSUME TypeInv, NoBatch, OtherStep
    PROVE  /\ UNCHANGED <<writes, exposed, batch_in_progress>>
           /\ \/ log' = log
              \/ \E r : r.kind = "ckpt" /\ r.batch = 0 /\ log' = Append(log, r)
           /\ Puts' = Puts
           /\ \A i \in DOMAIN log : i \in DOMAIN log' /\ log'[i] = log[i]
           /\ UNCHANGED <<replay, global_ts>> \/ RecoverInsert
           /\ promised' = promised \/ Apply
           /\ op' = op \/ op'.pc \in {"idle", "flush"}
<1>0. LogOK
  BY Zenon DEF TypeInv
<1>1. \A t : CheckpointRecord(t).kind = "ckpt" /\ CheckpointRecord(t).batch = 0
  BY Zenon DEF CheckpointRecord, NoBatch
<1> DEFINE Rest == /\ UNCHANGED <<writes, exposed, batch_in_progress>>
                   /\ UNCHANGED <<replay, global_ts>> \/ RecoverInsert
                   /\ promised' = promised \/ Apply
                   /\ op' = op \/ op'.pc \in {"idle", "flush"}
                   /\ log' = log \/ \E t : log' = Append(log, CheckpointRecord(t))
<1>2. Rest
  <2>1. CASE Apply \/ Flush
    BY <2>1 DEF Apply, Flush, Idle, bvars, cvars, hvars, rvars
  <2>2. CASE FlushPop \/ FlushWrite \/ FlushPublish
    BY <2>2 DEF FlushPop, FlushWrite, FlushPublish, bvars, cvars, hvars, rvars
  <2>3. CASE FlushManifest \/ FlushDone
    BY <2>3 DEF FlushManifest, FlushDone, bvars, cvars, hvars, rvars
  <2>4. CASE FlushCheckpoint
    BY <2>4 DEF FlushCheckpoint, Log, bvars, cvars, hvars, rvars
  <2>5. CASE RecoverInsert
    <3>1. log' = log \/ log' = Append(log, CheckpointRecord(global_ts'))
      BY <2>5, Zenon DEF RecoverInsert, Log
    <3>2. UNCHANGED <<writes, exposed, batch_in_progress, promised, op>>
      BY <2>5 DEF RecoverInsert, bvars, cvars, hvars
    <3> QED  BY <2>5, <3>1, <3>2, Zenon
  <2>6. CASE RecoverEnd
    BY <2>6 DEF RecoverEnd, Log, bvars, cvars, hvars
  <2>7. CASE Quiet
    BY <2>7 DEF Quiet, rvars
  <2> QED  BY <2>1, <2>2, <2>3, <2>4, <2>5, <2>6, <2>7, Zenon DEF OtherStep
<1> HIDE DEF Rest
<1>3. CASE log' = log
  BY <1>2, <1>3, Zenon DEF Puts, Rest
<1>4. CASE \E t : log' = Append(log, CheckpointRecord(t))
  <2>1. PICK t : log' = Append(log, CheckpointRecord(t))
    BY <1>4
  <2>2. PICK r : r = CheckpointRecord(t)
    OBVIOUS
  <2>3. r.kind = "ckpt" /\ r.batch = 0 /\ log' = Append(log, r)
    BY <1>1, <2>1, <2>2
  <2>4. /\ \A i \in DOMAIN log : i \in DOMAIN log' /\ i < Len(log) + 1 /\ log'[i] = log[i]
        /\ Puts' = IF r.kind = "put" THEN Puts \cup {Len(log) + 1} ELSE Puts
    BY <1>0, <2>3, LogAfter, Zenon
  <2>5. Puts' = Puts
    BY <2>3, <2>4, Zenon
  <2> QED  BY <1>2, <2>3, <2>4, <2>5, Zenon DEF Rest
<1> QED  BY <1>2, <1>3, <1>4 DEF Rest

\* What recovery inserts.
LEMMA InsertFacts ==
    ASSUME TypeInv, RecoverInsert
    PROVE  LET e == Recovered(log[NextReplayed])
               m == TreeInsert(mem[active], e)
           IN  /\ ~Running /\ op = Idle /\ fl.pc = "idle" /\ frozen = << >>
               /\ NextReplayed \in replay /\ \A j \in replay : NextReplayed <= j
               /\ NextReplayed \in Puts /\ replay \subseteq Puts
               /\ e \in Entry /\ m \in MemTable
               /\ e.id = log[NextReplayed].id /\ e.ts = log[NextReplayed].ts
               /\ e.key = log[NextReplayed].key
               /\ global_ts' \in Nat /\ global_ts <= global_ts' /\ e.ts <= global_ts'
               /\ replay' = replay \ {NextReplayed}
               /\ \/ /\ mem' = Append([mem EXCEPT ![active] = m], Empty)
                     /\ RecoverFlush(m) /\ log' = Append(log, CheckpointRecord(global_ts'))
                  \/ /\ mem' = [mem EXCEPT ![active] = m]
                     /\ UNCHANGED <<tvars, log>>
               /\ UNCHANGED <<recovering, durable, frozen, pending, fl, op, promised>>
<1> DEFINE e == Recovered(log[NextReplayed])
           m == TreeInsert(mem[active], e)
<1>1. ReplaySound /\ LogOK /\ MemOK /\ global_ts \in Nat /\ RecoveryOK
  BY DEF TypeInv, ClockOK
<1>2. NextReplayed \in replay /\ (\A j \in replay : NextReplayed <= j) /\ e \in Entry
  BY <1>1, NextReplayedEntry, Zenon
<1>3. replay \subseteq Puts
  BY <1>1, Zenon DEF LogOK, Puts
<1>4. e.id = log[NextReplayed].id /\ e.ts = log[NextReplayed].ts /\ e.key = log[NextReplayed].key
  BY DEF Recovered
<1>5. m \in MemTable
  <2>1. mem[active] \in MemTable
    BY <1>1 DEF MemOK, active
  <2> QED  BY <1>2, <2>1, TreeInsertType, Zenon
<1>6. global_ts' = Later(global_ts, e.ts) /\ e.ts \in Nat
  BY <1>2 DEF RecoverInsert, Entry
<1>7. global_ts' \in Nat /\ global_ts <= global_ts' /\ e.ts <= global_ts'
  BY <1>1, <1>6 DEF Later
<1>8. /\ ~Running /\ replay' = replay \ {NextReplayed}
      /\ \/ /\ mem' = Append([mem EXCEPT ![active] = m], Empty)
            /\ RecoverFlush(m) /\ log' = Append(log, CheckpointRecord(global_ts'))
         \/ /\ mem' = [mem EXCEPT ![active] = m]
            /\ UNCHANGED <<tvars, log>>
      /\ UNCHANGED <<recovering, durable, frozen, pending, fl, op, promised>>
  BY DEF RecoverInsert, Log, hvars
<1>9. op = Idle /\ fl.pc = "idle" /\ frozen = << >>
  BY <1>1, <1>8 DEF RecoveryOK, Running
<1> QED  BY <1>2, <1>3, <1>4, <1>5, <1>7, <1>8, <1>9, Zenon

-----------------------------------------------------------------------------
(* The log stays in order.                                                 *)

PlainStep == NormalWrite \/ Crash \/ OtherStep

LEMMA NoBatchStep ==
    ASSUME TypeInv, NoBatch, PlainStep
    PROVE  NoBatch'
<1>0. LogOK /\ MemOK
  BY Zenon DEF TypeInv
<1> DEFINE LogPlain == \A i \in DOMAIN log : log[i].kind = "put" \/ (log[i].kind = "ckpt" /\ log[i].batch = 0)
           MemPlain == \A n \in DOMAIN mem : mem[n].aborted = {}
<1>1. CASE NormalWrite
  <2>1. /\ op'.pc = "logged" /\ batch_in_progress' = batch_in_progress /\ mem' = mem
        /\ log' = Append(log, PutRecord(op'.ent)) /\ PutRecord(op'.ent).kind = "put"
    BY <1>1, WriteFacts, Zenon DEF mvars
  <2>2. LogPlain'
    <3>1. PICK r : r = PutRecord(op'.ent)
      OBVIOUS
    <3>2. /\ DOMAIN log = 1..Len(log) /\ DOMAIN log' = 1..(Len(log) + 1) /\ Len(log) \in Nat
          /\ log'[Len(log) + 1] = r
          /\ \A i \in DOMAIN log : log'[i] = log[i]
      BY <1>0, <2>1, <3>1, LogAfter, Zenon
    <3>3. \A i \in DOMAIN log' : i \in DOMAIN log \/ i = Len(log) + 1
      BY <3>2
    <3> QED  BY <2>1, <3>1, <3>2, <3>3, Zenon DEF NoBatch
  <2> QED  BY <2>1, <2>2, Zenon DEF NoBatch
<1>2. CASE Crash
  <2>1. PICK n \in 0..Len(log) :
          /\ DOMAIN log' = 1..n
          /\ \A i \in 1..n : i \in DOMAIN log /\ log'[i] = log[i]
          /\ mem' = <<Empty>>
    BY <1>2, CrashFacts, Zenon
  <2>2. op' = Idle /\ batch_in_progress' = FALSE
    BY <1>2 DEF Crash
  <2>3. \A k \in DOMAIN mem' : mem'[k].aborted = {}
    BY <2>1 DEF Empty
  <2> QED  BY <2>1, <2>2, <2>3, Zenon DEF NoBatch, Idle
<1>3. CASE OtherStep
  <2>1. /\ batch_in_progress' = batch_in_progress
        /\ \/ log' = log
           \/ \E r : r.kind = "ckpt" /\ r.batch = 0 /\ log' = Append(log, r)
        /\ op' = op \/ op'.pc \in {"idle", "flush"}
    BY <1>3, OtherSteps, Zenon
  <2>2. LogPlain'
    <3>1. CASE log' = log
      BY <3>1, Zenon DEF NoBatch
    <3>2. CASE \E r : r.kind = "ckpt" /\ r.batch = 0 /\ log' = Append(log, r)
      <4>1. PICK r : r.kind = "ckpt" /\ r.batch = 0 /\ log' = Append(log, r)
        BY <3>2, Zenon
      <4>2. /\ DOMAIN log = 1..Len(log) /\ DOMAIN log' = 1..(Len(log) + 1) /\ Len(log) \in Nat
            /\ log'[Len(log) + 1] = r
            /\ \A i \in DOMAIN log : log'[i] = log[i]
        BY <1>0, <4>1, LogAfter, Zenon
      <4>3. \A i \in DOMAIN log' : i \in DOMAIN log \/ i = Len(log) + 1
        BY <4>2
      <4> QED  BY <4>1, <4>2, <4>3, Zenon DEF NoBatch
    <3> QED  BY <2>1, <3>1, <3>2, Zenon
  <2>3. ASSUME NEW m \in MemTable, m.aborted = {},
               \/ mem' = [mem EXCEPT ![active] = m]
               \/ mem' = Append([mem EXCEPT ![active] = m], Empty)
        PROVE  MemPlain'
    <3>1. /\ active \in DOMAIN mem' /\ mem'[active] = m
          /\ \A n \in DOMAIN mem : n \in DOMAIN mem' /\ (n # active => mem'[n] = mem[n])
          /\ \A n \in DOMAIN mem' : n \in DOMAIN mem \/ (n = active + 1 /\ mem'[n] = Empty)
      BY <1>0, <2>3, MemCases, Zenon
    <3>2. Empty.aborted = {}
      BY Zenon DEF Empty
    <3>3. ASSUME NEW n \in DOMAIN mem' PROVE mem'[n].aborted = {}
      BY <2>3, <3>1, <3>2, Zenon DEF NoBatch
    <3> QED  BY <3>3, Zenon
  <2>4. mem[active] \in MemTable /\ mem[active].aborted = {} /\ active \in DOMAIN mem
        /\ mem = [mem EXCEPT ![active] = mem[active]]
    <3>1. active \in DOMAIN mem /\ mem[active] \in MemTable
      BY <1>0 DEF MemOK, active
    <3> QED  BY <1>0, <3>1 DEF NoBatch, MemOK
  <2>5. MemPlain'
    <3>1. CASE Apply
      <4>1. op.ent \in Entry
        BY <3>1, Zenon DEF Apply, TypeInv, WriterState
      <4>2. PICK m : m = TreeInsert(mem[active], op.ent)
        BY Zenon
      <4>3. m \in MemTable /\ m.aborted = {}
        BY <2>4, <4>1, <4>2, TreeInsertType, TreeInsertEntries, Zenon
      <4>4. \/ mem' = [mem EXCEPT ![active] = m]
            \/ mem' = Append([mem EXCEPT ![active] = m], Empty)
        BY <3>1, <4>2, Zenon DEF Apply, Freeze
      <4> QED  BY <2>3, <4>3, <4>4, Zenon
    <3>2. CASE Flush
      <4>1. mem' = Append([mem EXCEPT ![active] = mem[active]], Empty)
        BY <3>2, Zenon DEF Flush, Freeze
      <4> QED  BY <2>3, <2>4, <4>1, Zenon
    <3>3. CASE RecoverInsert
      <4>1. PICK m : m = TreeInsert(mem[active], Recovered(log[NextReplayed]))
        BY Zenon
      <4>2. /\ Recovered(log[NextReplayed]) \in Entry /\ m \in MemTable
            /\ \/ mem' = Append([mem EXCEPT ![active] = m], Empty)
               \/ mem' = [mem EXCEPT ![active] = m]
        BY <3>3, <4>1, InsertFacts, Zenon
      <4>3. m.aborted = {}
        BY <2>4, <4>1, <4>2, TreeInsertEntries, Zenon
      <4> QED  BY <2>3, <4>2, <4>3, Zenon
    <3>4. CASE RecoverEnd
      <4>1. mem' = mem \/ mem' = Append(mem, Empty)
        BY <3>4 DEF RecoverEnd
      <4>2. CASE mem' = mem
        BY <4>2 DEF NoBatch
      <4>3. CASE mem' = Append(mem, Empty)
        <5>1. mem' = Append([mem EXCEPT ![active] = mem[active]], Empty)
          BY <2>4, <4>3, Zenon
        <5> QED  BY <2>3, <2>4, <5>1
      <4> QED  BY <4>1, <4>2, <4>3, Zenon
    <3>5. CASE mem' = mem
      BY <3>5 DEF NoBatch
    <3>6. CASE FlushPop \/ FlushWrite \/ FlushPublish \/ FlushManifest \/ FlushCheckpoint \/ FlushDone
      BY <3>5, <3>6, Zenon DEF FlushPop, FlushWrite, FlushPublish, FlushManifest, FlushCheckpoint, FlushDone, mvars
    <3>7. CASE Quiet
      BY <3>5, <3>7 DEF Quiet, mvars
    <3> QED  BY <1>3, <3>1, <3>2, <3>3, <3>4, <3>6, <3>7, Zenon DEF OtherStep
  <2> QED  BY <2>1, <2>2, <2>5, Zenon DEF NoBatch
<1> QED  BY <1>1, <1>2, <1>3 DEF PlainStep

LEMMA NumberedStep ==
    ASSUME TypeInv, NoBatch, Numbered, PlainStep
    PROVE  Numbered'
<1>0. LogOK /\ \A i \in Puts : i \in Nat /\ i <= Len(log) /\ log[i].id \in Nat
  BY PutFields, Zenon DEF TypeInv
<1>1. CASE NormalWrite
  <2>1. PICK r : r = PutRecord(op'.ent)
    OBVIOUS
  <2>2. /\ op'.pc = "logged" /\ op'.ent.id = writes + 1 /\ writes' = writes + 1 /\ writes \in Nat
        /\ log' = Append(log, r) /\ r.kind = "put" /\ r.key = op'.ent.key /\ r.id = writes + 1
        /\ promised' = promised
    BY <1>1, <2>1, WriteFacts, Zenon
  <2>3. /\ Len(log) \in Nat /\ log'[Len(log) + 1] = r
        /\ \A i \in DOMAIN log : log'[i] = log[i]
        /\ Puts' = Puts \cup {Len(log) + 1}
    BY <1>0, <2>2, LogAfter
  <2>4. \A i \in Puts : log'[i] = log[i]
    BY <2>3, Zenon DEF Puts
  <2>5. \A i \in Puts : log[i].id <= writes /\ log[i].id < writes + 1 /\ log[i].id # writes + 1
    BY <1>0, <2>2 DEF Numbered
  <2>6. ASSUME NEW i \in Puts', NEW j \in Puts', i < j PROVE log'[i].id < log'[j].id
    <3>1. i \in Puts
      BY <1>0, <2>3, <2>6
    <3>2. CASE j \in Puts
      BY <2>4, <2>6, <3>1, <3>2, Zenon DEF Numbered
    <3>3. CASE j = Len(log) + 1
      BY <2>2, <2>3, <2>4, <2>5, <3>1, <3>3, Zenon
    <3> QED  BY <2>3, <3>2, <3>3, Zenon
  <2>7. ASSUME NEW i \in Puts' PROVE log'[i].id <= writes'
    <3>1. CASE i \in Puts
      <4>1. log[i].id <= writes /\ log[i].id \in Nat /\ log'[i] = log[i]
        BY <1>0, <2>4, <2>5, <3>1, Zenon
      <4> QED  BY <2>2, <4>1
    <3>2. CASE i = Len(log) + 1
      BY <2>2, <2>3, <3>2
    <3> QED  BY <2>3, <3>1, <3>2, Zenon
  <2>8. ASSUME NEW p \in promised'
        PROVE  /\ \E i \in Puts' : log'[i].key = p.key /\ log'[i].id = p.id
               /\ p.id # op'.ent.id
    <3>1. PICK i \in Puts : log[i].key = p.key /\ log[i].id = p.id
      BY <2>2, <2>8, Zenon DEF Numbered
    <3> QED  BY <2>2, <2>3, <2>4, <2>5, <3>1, Zenon
  <2>9. \E i \in Puts' : log'[i].key = op'.ent.key /\ log'[i].id = op'.ent.id
    BY <2>2, <2>3
  <2>10. op'.ent.id = writes'
    BY <2>2, Zenon
  <2> QED  BY <2>6, <2>7, <2>8, <2>9, <2>10, Zenon DEF Numbered
<1>2. CASE Crash
  <2>1. PICK n \in 0..Len(log) :
          /\ \A i \in 1..n : i \in DOMAIN log /\ log'[i] = log[i]
          /\ DOMAIN log' = 1..n
          /\ Puts' = {i \in Puts : i <= n}
          /\ promised' = {[key |-> log[i].key, id |-> log[i].id] : i \in Puts'}
    BY <1>2, CrashFacts, Zenon
  <2>2. op'.pc = "idle" /\ writes' = writes
    BY <1>2, Zenon DEF Crash, Idle
  <2>3. \A i \in Puts' : i \in Puts /\ log'[i] = log[i]
    BY <2>1, Zenon DEF Puts
  <2> QED  BY <2>1, <2>2, <2>3 DEF Numbered
<1>3. CASE OtherStep
  <2>1. /\ writes' = writes /\ Puts' = Puts
        /\ \A i \in Puts : log'[i] = log[i]
        /\ promised' = promised \/ Apply
        /\ op' = op \/ op'.pc \in {"idle", "flush"}
    BY <1>3, OtherSteps, Zenon DEF Puts
  <2>2. CASE promised' = promised
    BY <2>1, <2>2 DEF Numbered
  <2>3. CASE Apply
    <3>1. /\ op.pc = "logged" /\ op'.pc = "idle"
          /\ promised' = promised \cup {[key |-> op.ent.key, id |-> op.ent.id]}
      BY <2>3, Zenon DEF Apply, Idle
    <3>2. \A p \in promised' : \E i \in Puts : log[i].key = p.key /\ log[i].id = p.id
      BY <3>1 DEF Numbered
    <3> QED  BY <2>1, <3>1, <3>2 DEF Numbered
  <2> QED  BY <2>1, <2>2, <2>3, Zenon
<1> QED  BY <1>1, <1>2, <1>3, Zenon DEF PlainStep

LEMMA LogSortedStep ==
    ASSUME TypeInv, NoBatch, LogSorted, PlainStep
    PROVE  LogSorted'
<1>0. /\ LogOK /\ DOMAIN log = 1..Len(log) /\ Len(log) \in Nat /\ global_ts \in Nat
      /\ replay \subseteq Puts
      /\ \A i \in Puts : i \in DOMAIN log /\ i \in Nat /\ i <= Len(log) /\ log[i].ts \in Nat
  BY PutFields DEF TypeInv, LogOK, ClockOK, Puts
<1> DEFINE Free(i, j) == \A k \in i..j : log[k].kind # "ckpt"
<1>1. CASE NormalWrite
  <2>1. PICK r : r = PutRecord(op'.ent)
    OBVIOUS
  <2>2. /\ Running /\ global_ts' = global_ts + 1
        /\ log' = Append(log, r) /\ r.kind = "put" /\ r.ts = global_ts + 1
        /\ replay' = replay /\ recovering' = recovering
    BY <1>1, <2>1, WriteFacts, Zenon DEF rvars
  <2>3. /\ log'[Len(log) + 1] = r /\ Len(log') = Len(log) + 1
        /\ \A i \in DOMAIN log : log'[i] = log[i]
        /\ Puts' = Puts \cup {Len(log) + 1}
    BY <1>0, <2>2, LogAfter, Zenon
  <2>4. replay = {} /\ replay' = {}
    BY <2>2, Zenon DEF LogSorted
  <2>5. ASSUME NEW i \in Puts, NEW j \in Nat, j <= Len(log) + 1, \A k \in i..j : log'[k].kind # "ckpt"
        PROVE  \A k \in i..j : k <= Len(log) => log[k].kind # "ckpt"
    <3>1. ASSUME NEW k \in i..j, k <= Len(log) PROVE log'[k] = log[k]
      <4>1. k \in 1..Len(log)
        BY <1>0, <3>1
      <4> QED  BY <1>0, <2>3, <4>1, Zenon
    <3> QED  BY <2>5, <3>1, Zenon
  <2>6. ASSUME NEW i \in Puts, \A k \in i..(Len(log) + 1) : log'[k].kind # "ckpt"
        PROVE  log'[i].ts <= global_ts /\ log'[i].ts \in Nat
    <3>1. \A k \in i..(Len(log) + 1) : k <= Len(log) => log[k].kind # "ckpt"
      BY <1>0, <2>5, <2>6
    <3>2. \A k \in i..Len(log) : k \in i..(Len(log) + 1) /\ k <= Len(log)
      BY <1>0
    <3>3. log[i].ts <= global_ts
      BY <2>4, <3>1, <3>2, Zenon DEF LogSorted
    <3> QED  BY <1>0, <2>3, <3>3, Zenon
  <2>7. ASSUME NEW i \in Puts', NEW j \in Puts', i < j, \A k \in i..j : log'[k].kind # "ckpt"
        PROVE  log'[i].ts < log'[j].ts
    <3>1. i \in Puts
      BY <1>0, <2>3, <2>7
    <3>2. CASE j \in Puts
      <4>1. j \in Nat /\ j <= Len(log) + 1 /\ \A k \in i..j : k <= Len(log)
        BY <1>0, <3>1, <3>2
      <4>2. Free(i, j)
        BY <2>5, <2>7, <3>1, <4>1, Zenon
      <4>3. log[i].ts < log[j].ts
        BY <2>7, <3>1, <3>2, <4>2, Zenon DEF LogSorted
      <4> QED  BY <1>0, <2>3, <3>1, <3>2, <4>3, Zenon
    <3>3. CASE j = Len(log) + 1
      <4>1. log'[i].ts <= global_ts /\ log'[i].ts \in Nat
        BY <2>6, <2>7, <3>1, <3>3, Zenon
      <4>2. log'[j].ts = global_ts + 1
        BY <2>2, <2>3, <3>3, Zenon
      <4> QED  BY <1>0, <4>1, <4>2
    <3> QED  BY <2>3, <3>2, <3>3, Zenon
  <2>8. ASSUME NEW i \in Puts', \A k \in i..Len(log') : log'[k].kind # "ckpt"
        PROVE  log'[i].ts <= global_ts'
    <3>1. CASE i \in Puts
      <4>1. log'[i].ts <= global_ts /\ log'[i].ts \in Nat
        BY <2>3, <2>6, <2>8, <3>1, Zenon
      <4>2. global_ts \in Nat /\ global_ts' = global_ts + 1
        BY <1>0, <2>2, Zenon
      <4> QED  BY <4>1, <4>2
    <3>2. CASE i = Len(log) + 1
      BY <1>0, <2>2, <2>3, <3>2
    <3> QED  BY <2>3, <3>1, <3>2
  <2> QED  BY <2>4, <2>7, <2>8 DEF LogSorted
<1>2. CASE Crash
  <2>1. PICK n \in 0..Len(log) :
          /\ Len(log') = n
          /\ \A i \in 1..n : i \in DOMAIN log /\ log'[i] = log[i]
          /\ Puts' = {i \in Puts : i <= n}
          /\ replay' = {i \in Puts : i <= n /\ \A k \in i..n : log[k].kind # "ckpt"}
          /\ recovering' = (replay' # {})
    BY <1>2, CrashFacts
  <2>2. n \in Nat /\ n <= Len(log)
    BY <1>0
  <2>3. \A i \in Puts' : i \in Puts /\ i \in 1..n /\ log'[i] = log[i]
    BY <1>0, <2>1, <2>2
  <2>4. ASSUME NEW i \in Puts', NEW j \in Nat, j <= n
        PROVE  (\A k \in i..j : log'[k].kind # "ckpt") => Free(i, j)
    <3>1. \A k \in i..j : k \in 1..n
      BY <1>0, <2>2, <2>3, <2>4
    <3> QED  BY <2>1, <3>1
  <2>5. ASSUME NEW i \in Puts', NEW j \in Puts', i < j, \A k \in i..j : log'[k].kind # "ckpt"
        PROVE  log'[i].ts < log'[j].ts
    <3>1. j \in Nat /\ j <= n
      BY <1>0, <2>1, <2>3, Zenon
    <3>2. Free(i, j)
      BY <2>4, <2>5, <3>1, Zenon
    <3> QED  BY <2>3, <2>5, <3>2, Zenon DEF LogSorted
  <2>6. ASSUME NEW i \in Puts', \A k \in i..Len(log') : log'[k].kind # "ckpt"
        PROVE  i \in replay'
    <3>1. Free(i, n)
      BY <2>1, <2>2, <2>4, <2>6
    <3> QED  BY <2>1, <2>3, <3>1, Zenon
  <2>7. ASSUME NEW i \in replay', NEW j \in replay', i < j PROVE log'[i].ts < log'[j].ts
    <3>1. i \in Puts /\ j \in Puts /\ i \in Puts' /\ j \in Puts' /\ Free(i, n) /\ j <= n
      BY <2>1, Zenon
    <3>2. \A k \in i..j : k \in i..n
      BY <1>0, <2>2, <3>1
    <3>3. log[i].ts < log[j].ts
      BY <2>7, <3>1, <3>2, Zenon DEF LogSorted
    <3> QED  BY <2>3, <3>1, <3>3, Zenon
  <2>8. Running' => replay' = {}
    BY <2>1, Zenon DEF Running
  <2> QED  BY <2>5, <2>6, <2>7, <2>8, Zenon DEF LogSorted
<1>3. CASE OtherStep
  <2>1. /\ \/ log' = log
           \/ \E r : r.kind = "ckpt" /\ log' = Append(log, r)
        /\ Puts' = Puts
        /\ \A i \in DOMAIN log : i \in DOMAIN log' /\ log'[i] = log[i]
        /\ UNCHANGED <<replay, global_ts>> \/ RecoverInsert
    BY <1>3, OtherSteps
  <2>2. ASSUME NEW i \in Puts, NEW j \in Nat, j <= Len(log), \A k \in i..j : log'[k].kind # "ckpt"
        PROVE  Free(i, j)
    <3>1. \A k \in i..j : k \in DOMAIN log
      BY <1>0, <2>2
    <3> QED  BY <2>1, <2>2, <3>1, Zenon
  <2>3. ASSUME NEW i \in Puts', NEW j \in Puts', i < j, \A k \in i..j : log'[k].kind # "ckpt"
        PROVE  log'[i].ts < log'[j].ts
    <3>1. i \in Puts /\ j \in Puts /\ j \in Nat /\ j <= Len(log)
      BY <1>0, <2>1, <2>3, Zenon
    <3>2. Free(i, j)
      BY <2>2, <2>3, <3>1, Zenon
    <3>3. log[i].ts < log[j].ts
      BY <2>3, <3>1, <3>2, Zenon DEF LogSorted
    <3> QED  BY <1>0, <2>1, <3>1, <3>3, Zenon
  <2>4. replay' \subseteq replay /\ global_ts' \in Nat /\ global_ts <= global_ts'
        /\ \A i \in replay : i \in replay' \/ log[i].ts <= global_ts'
    <3>1. CASE UNCHANGED <<replay, global_ts>>
      BY <1>0, <3>1
    <3>2. CASE RecoverInsert
      <4>1. /\ replay' = replay \ {NextReplayed}
            /\ global_ts' \in Nat /\ global_ts <= global_ts'
            /\ Recovered(log[NextReplayed]).ts <= global_ts'
            /\ Recovered(log[NextReplayed]).ts = log[NextReplayed].ts
        BY <3>2, InsertFacts, Zenon
      <4> QED  BY <4>1, Zenon
    <3> QED  BY <2>1, <3>1, <3>2, Zenon
  <2>5. ASSUME NEW i \in Puts', \A k \in i..Len(log') : log'[k].kind # "ckpt", i \notin replay'
        PROVE  log'[i].ts <= global_ts'
    <3>1. i \in Puts /\ i \in DOMAIN log /\ log'[i] = log[i]
      BY <1>0, <2>1, Zenon
    <3>2. log' = log
      <4>1. SUFFICES ASSUME NEW r, r.kind = "ckpt", log' = Append(log, r) PROVE FALSE
        BY <2>1, Zenon
      <4>2. Len(log') = Len(log) + 1 /\ log'[Len(log) + 1] = r
        BY <1>0, <4>1, LogAfter, Zenon
      <4>3. Len(log) + 1 \in i..Len(log')
        BY <1>0, <3>1, <4>2
      <4> QED  BY <2>5, <4>1, <4>2, <4>3
    <3>3. i \in replay \/ log[i].ts <= global_ts
      BY <2>5, <3>1, <3>2, Zenon DEF LogSorted
    <3>4. log[i].ts \in Nat
      BY <1>0, <3>1, Zenon
    <3> QED  BY <1>0, <2>4, <2>5, <3>1, <3>3, <3>4
  <2>6. ASSUME NEW i \in replay', NEW j \in replay', i < j PROVE log'[i].ts < log'[j].ts
    <3>1. i \in replay /\ j \in replay /\ log'[i] = log[i] /\ log'[j] = log[j]
      BY <1>0, <2>1, <2>4
    <3> QED  BY <2>6, <3>1, Zenon DEF LogSorted
  <2>7. Running' => replay' = {}
    <3>1. CASE recovering' = recovering
      BY <2>4, <3>1, Zenon DEF LogSorted, Running
    <3>2. CASE RecoverEnd
      BY <3>2, Zenon DEF RecoverEnd
    <3>3. CASE RecoverInsert
      BY <3>1, <3>3, Zenon DEF RecoverInsert
    <3>4. CASE Apply \/ Flush \/ Quiet
      BY <3>1, <3>4, Zenon DEF Apply, Flush, Quiet, rvars
    <3>5. CASE FlushPop \/ FlushWrite \/ FlushPublish \/ FlushManifest \/ FlushCheckpoint \/ FlushDone
      BY <3>1, <3>5 DEF FlushPop, FlushWrite, FlushPublish, FlushManifest, FlushCheckpoint, FlushDone, rvars
    <3> QED  BY <1>3, <3>2, <3>3, <3>4, <3>5, Zenon DEF OtherStep
  <2> QED  BY <2>3, <2>5, <2>6, <2>7, Zenon DEF LogSorted
<1> QED  BY <1>1, <1>2, <1>3 DEF PlainStep

-----------------------------------------------------------------------------
(* The memtables stay in order.                                            *)

LEMMA DescendingInsert ==
    ASSUME NEW m \in MemTable, NEW e \in Entry, Descending(m.ents),
           \A i \in DOMAIN m.ents : m.ents[i].id < e.id /\ m.ents[i].ts < e.ts
    PROVE  Descending(TreeInsert(m, e).ents)
<1> DEFINE t == TreeInsert(m, e)
<1>1. /\ DOMAIN t.ents = 1..(Len(m.ents) + 1) /\ DOMAIN m.ents = 1..Len(m.ents)
      /\ Len(m.ents) \in Nat /\ t.ents[1] = e
      /\ \A i \in 1..Len(m.ents) : t.ents[i + 1] = m.ents[i]
  BY TreeInsertEntries, Zenon
<1> HIDE DEF t
<1>2. ASSUME NEW i \in DOMAIN t.ents, NEW j \in DOMAIN t.ents, i < j
      PROVE  t.ents[j].id < t.ents[i].id /\ t.ents[j].ts < t.ents[i].ts
  <2>1. j - 1 \in 1..Len(m.ents) /\ (j - 1) + 1 = j
    BY <1>1, <1>2
  <2>2. t.ents[j] = m.ents[j - 1]
    BY <1>1, <2>1, Zenon
  <2>3. CASE i = 1
    BY <1>1, <2>1, <2>2, <2>3
  <2>4. CASE i # 1
    <3>1. i - 1 \in 1..Len(m.ents) /\ (i - 1) + 1 = i /\ i - 1 < j - 1
      BY <1>1, <1>2, <2>4
    <3>2. t.ents[i] = m.ents[i - 1]
      BY <1>1, <3>1, Zenon
    <3> QED  BY <1>1, <2>1, <2>2, <3>1, <3>2, Zenon DEF Descending
  <2> QED  BY <2>3, <2>4, Zenon
<1> QED  BY <1>2, Zenon DEF Descending, t

\* The three fields of MemSorted about the active memtable, with the marks they are
\* measured by.
Bounded(m, w, g) == \A i \in DOMAIN m.ents : m.ents[i].id <= w /\ m.ents[i].ts <= g

LEMMA MemSortedReplace ==
    ASSUME MemOK, MemSorted, NEW m \in MemTable, Descending(m.ents),
           \/ mem' = [mem EXCEPT ![active] = m]
           \/ mem' = Append([mem EXCEPT ![active] = m], Empty),
           Bounded(m, writes', global_ts'), op'.pc # "logged",
           \A i \in DOMAIN m.ents : \A r \in replay' :
              m.ents[i].id < log'[r].id /\ m.ents[i].ts < log'[r].ts
    PROVE  MemSorted'
<1>1. /\ active \in DOMAIN mem' /\ mem'[active] = m
      /\ \A n \in DOMAIN mem : n \in DOMAIN mem' /\ (n # active => mem'[n] = mem[n])
      /\ \A n \in DOMAIN mem' : n \in DOMAIN mem \/ (n = active + 1 /\ mem'[n] = Empty)
  BY MemCases, Zenon
<1>2. DOMAIN Empty.ents = {}
  BY DEF Empty
<1>3. \A n \in DOMAIN mem' : Descending(mem'[n].ents)
  <2>1. Descending(Empty.ents)
    BY <1>2, Zenon DEF Descending
  <2> QED  BY <1>1, <2>1, Zenon DEF MemSorted
<1>4. mem'[active'] = m \/ mem'[active'] = Empty
  <2>1. /\ active \in Nat
        /\ [mem EXCEPT ![active] = m] \in Seq(MemTable) /\ Len([mem EXCEPT ![active] = m]) = active
        /\ Append([mem EXCEPT ![active] = m], Empty) \in Seq(MemTable)
        /\ Len(Append([mem EXCEPT ![active] = m], Empty)) = active + 1
    BY MemReplace, Zenon
  <2>2. CASE mem' = [mem EXCEPT ![active] = m]
    <3>1. active' = active
      BY <2>1, <2>2, Zenon DEF active
    <3> QED  BY <1>1, <3>1, Zenon
  <2>3. CASE mem' = Append([mem EXCEPT ![active] = m], Empty)
    <3>1. active' = active + 1 /\ active' \in DOMAIN mem' /\ active + 1 \notin DOMAIN mem
      <4>1. active' = active + 1 /\ mem' \in Seq(MemTable) /\ Len(mem') = active + 1
        BY <2>1, <2>3, Zenon DEF active
      <4>2. DOMAIN mem = 1..active
        BY MemReplace, Zenon
      <4> QED  BY <2>1, <4>1, <4>2
    <3> QED  BY <1>1, <3>1, Zenon
  <2> QED  BY <2>2, <2>3, Zenon
<1>5. \A i \in DOMAIN mem'[active'].ents :
        /\ mem'[active'].ents[i].id <= writes'
        /\ mem'[active'].ents[i].ts <= global_ts'
        /\ \A r \in replay' : /\ mem'[active'].ents[i].id < log'[r].id
                              /\ mem'[active'].ents[i].ts < log'[r].ts
  BY <1>2, <1>4 DEF Bounded
<1> QED  BY <1>3, <1>5, Zenon DEF MemSorted

LEMMA MemSortedStep ==
    ASSUME TypeInv, NoBatch, Numbered, LogSorted, MemSorted, PlainStep
    PROVE  MemSorted'
<1>0. /\ LogOK /\ MemOK /\ RecoveryOK /\ global_ts \in Nat /\ writes \in Nat
      /\ replay \subseteq Puts
      /\ active \in DOMAIN mem /\ mem[active] \in MemTable
  BY DEF TypeInv, LogOK, ClockOK, Puts, MemOK, active
<1>1. \A i \in DOMAIN mem[active].ents : mem[active].ents[i].id \in Nat /\ mem[active].ents[i].ts \in Nat
  BY <1>0, MemEntry, Zenon DEF Entry
<1>2. Descending(mem[active].ents) /\ mem = [mem EXCEPT ![active] = mem[active]]
      /\ Bounded(mem[active], writes, global_ts)
  BY <1>0 DEF MemSorted, MemOK, Bounded
<1>3. CASE NormalWrite
  <2>1. /\ op'.pc = "logged" /\ Running
        /\ op'.ent.id = writes + 1 /\ op'.ent.ts = global_ts + 1
        /\ writes' = writes + 1 /\ global_ts' = global_ts + 1
        /\ mem' = mem /\ replay' = replay
    BY <1>3, WriteFacts, Zenon DEF mvars, rvars
  <2>2. replay' = {}
    BY <2>1 DEF LogSorted
  <2>3. active' = active
    BY <2>1, Zenon DEF active
  <2>4. ASSUME NEW i \in DOMAIN mem[active].ents
        PROVE  /\ mem[active].ents[i].id <= writes' /\ mem[active].ents[i].ts <= global_ts'
               /\ mem[active].ents[i].id < op'.ent.id /\ mem[active].ents[i].ts < op'.ent.ts
    <3>1. mem[active].ents[i].id <= writes /\ mem[active].ents[i].ts <= global_ts
      BY Zenon DEF MemSorted
    <3>2. mem[active].ents[i].id \in Nat /\ mem[active].ents[i].ts \in Nat /\ writes \in Nat /\ global_ts \in Nat
      BY <1>0, <1>1, Zenon
    <3> QED  BY <2>1, <3>1, <3>2
  <2>5. op'.ent.ts <= global_ts'
    BY <1>0, <2>1
  <2> QED  BY <2>1, <2>2, <2>3, <2>4, <2>5, Zenon DEF MemSorted
<1>4. CASE Crash
  <2>1. mem' = <<Empty>>
    BY <1>4, CrashFacts, Zenon
  <2>2. op'.pc = "idle"
    BY <1>4, Zenon DEF Crash, Idle
  <2>3. active' = 1 /\ DOMAIN mem' = {1} /\ mem'[1] = Empty /\ DOMAIN Empty.ents = {}
    BY <2>1 DEF active, Empty
  <2> QED  BY <2>2, <2>3, Zenon DEF MemSorted, Descending
<1>5. CASE Apply
  <2>1. /\ op.pc = "logged" /\ op' = Idle /\ op.ent \in Entry
        /\ UNCHANGED <<writes, global_ts, log, replay>>
    BY <1>5, Zenon DEF Apply, TypeInv, WriterState, cvars, rvars
  <2>2. replay = {}
    BY <1>0, <2>1 DEF RecoveryOK, LogSorted, Running, Idle
  <2>3. PICK m : m = TreeInsert(mem[active], op.ent)
    OBVIOUS
  <2>4. m \in MemTable
    BY <1>0, <2>1, <2>3, TreeInsertType, Zenon
  <2>5. Descending(m.ents)
    BY <1>0, <1>2, <2>1, <2>3, DescendingInsert, Zenon DEF MemSorted
  <2>6. Bounded(m, writes', global_ts')
    <3>1. \A i \in DOMAIN m.ents :
             m.ents[i] = op.ent \/ (i - 1 \in DOMAIN mem[active].ents /\ m.ents[i] = mem[active].ents[i - 1])
      BY <1>0, <2>1, <2>3, TreeInsertEntries, Zenon
    <3>2. op.ent.id <= writes /\ op.ent.ts <= global_ts
      BY <1>0, <2>1, Zenon DEF Numbered, MemSorted
    <3> QED  BY <1>2, <2>1, <3>1, <3>2, Zenon DEF Bounded
  <2>7. \/ mem' = [mem EXCEPT ![active] = m]
        \/ mem' = Append([mem EXCEPT ![active] = m], Empty)
    BY <1>5, <2>3, Zenon DEF Apply, Freeze
  <2>8. op'.pc # "logged" /\ replay' = {}
    BY <2>1, <2>2, Zenon DEF Idle
  <2> QED  BY <1>0, <2>4, <2>5, <2>6, <2>7, <2>8, MemSortedReplace, Zenon
<1>6. CASE Flush
  <2>1. /\ Running /\ op'.pc = "flush" /\ UNCHANGED <<writes, global_ts, replay>>
        /\ mem' = Append([mem EXCEPT ![active] = mem[active]], Empty)
    BY <1>6, Zenon DEF Flush, Freeze, cvars, rvars
  <2>2. replay' = {} /\ Bounded(mem[active], writes', global_ts') /\ op'.pc # "logged"
    BY <1>2, <2>1 DEF LogSorted
  <2>3. PICK m \in MemTable : m = mem[active]
    BY <1>0, Zenon
  <2> QED  BY <1>0, <1>2, <2>1, <2>2, <2>3, MemSortedReplace, Zenon
<1>7. CASE RecoverInsert
  <2>1. PICK e : e = Recovered(log[NextReplayed])
    OBVIOUS
  <2>2. PICK m : m = TreeInsert(mem[active], e)
    OBVIOUS
  <2>3. /\ op = Idle /\ op' = op
        /\ NextReplayed \in replay /\ \A j \in replay : NextReplayed <= j
        /\ NextReplayed \in Puts
        /\ e \in Entry /\ m \in MemTable
        /\ e.id = log[NextReplayed].id /\ e.ts = log[NextReplayed].ts
        /\ global_ts' \in Nat /\ global_ts <= global_ts' /\ e.ts <= global_ts'
        /\ replay' = replay \ {NextReplayed}
        /\ \/ mem' = Append([mem EXCEPT ![active] = m], Empty)
           \/ mem' = [mem EXCEPT ![active] = m]
    BY <1>7, <2>1, <2>2, InsertFacts, Zenon
  <2>4. /\ writes' = writes /\ \A i \in DOMAIN log : log'[i] = log[i]
    BY <1>7, OtherSteps, Zenon DEF OtherStep
  <2>5. \A i \in DOMAIN m.ents :
           m.ents[i] = e \/ (i - 1 \in DOMAIN mem[active].ents /\ m.ents[i] = mem[active].ents[i - 1])
    BY <1>0, <2>2, <2>3, TreeInsertEntries
  <2>6. Descending(m.ents)
    BY <1>0, <1>2, <2>2, <2>3, DescendingInsert, Zenon DEF MemSorted
  <2>7. Bounded(m, writes', global_ts')
    <3>1. e.id <= writes
      BY <2>3, Zenon DEF Numbered
    <3>2. ASSUME NEW i \in DOMAIN mem[active].ents
          PROVE  mem[active].ents[i].id <= writes /\ mem[active].ents[i].ts <= global_ts'
      <4>1. mem[active].ents[i].ts <= global_ts /\ mem[active].ents[i].id <= writes
        BY Zenon DEF MemSorted
      <4>2. mem[active].ents[i].ts \in Nat /\ global_ts \in Nat
        BY <1>0, <1>1, Zenon
      <4>3. global_ts' \in Nat /\ global_ts <= global_ts'
        BY <2>3, Zenon
      <4>4. mem[active].ents[i].ts <= global_ts'
        BY <4>1, <4>2, <4>3
      <4> QED  BY <4>1, <4>4, Zenon
    <3> QED  BY <2>3, <2>4, <2>5, <3>1, <3>2, Zenon DEF Bounded
  <2>8. ASSUME NEW i \in DOMAIN m.ents, NEW r \in replay'
        PROVE  m.ents[i].id < log'[r].id /\ m.ents[i].ts < log'[r].ts
    <3>1. r \in replay /\ r \in Puts /\ log'[r] = log[r] /\ NextReplayed < r
      <4>1. r \in replay /\ r \in Puts /\ r # NextReplayed
        BY <1>0, <2>3, Zenon
      <4>2. r \in DOMAIN log /\ r \in Nat /\ NextReplayed \in Nat /\ NextReplayed <= r
        BY <1>0, <2>3, <4>1, PutFields, Zenon
      <4>3. NextReplayed < r
        BY <4>1, <4>2
      <4> QED  BY <2>4, <4>1, <4>2, <4>3, Zenon
    <3>2. CASE m.ents[i] = e
      <4>1. log[NextReplayed].id < log[r].id
        BY <2>3, <3>1, Zenon DEF Numbered
      <4>2. log[NextReplayed].ts < log[r].ts
        BY <2>3, <3>1, Zenon DEF LogSorted
      <4> QED  BY <2>3, <3>1, <3>2, <4>1, <4>2, Zenon
    <3>3. CASE i - 1 \in DOMAIN mem[active].ents /\ m.ents[i] = mem[active].ents[i - 1]
      BY <3>1, <3>3, Zenon DEF MemSorted
    <3> QED  BY <2>5, <3>2, <3>3, Zenon
  <2>9. op'.pc # "logged"
    BY <2>3, Zenon DEF Idle
  <2> QED  BY <1>0, <2>3, <2>6, <2>7, <2>8, <2>9, MemSortedReplace, Zenon
<1>8. CASE RecoverEnd
  <2>1. /\ replay' = {} /\ UNCHANGED <<writes, global_ts, op>> /\ op = Idle
        /\ mem' = mem \/ mem' = Append(mem, Empty)
    BY <1>0, <1>8, Zenon DEF RecoverEnd, cvars, RecoveryOK, Running
  <2>2. PICK m \in MemTable : m = mem[active]
    BY <1>0
  <2>3. \/ mem' = [mem EXCEPT ![active] = m]
        \/ mem' = Append([mem EXCEPT ![active] = m], Empty)
    BY <1>2, <2>1, <2>2, Zenon
  <2>4. op'.pc # "logged" /\ Bounded(m, writes', global_ts') /\ Descending(m.ents)
    BY <1>2, <2>1, <2>2 DEF Idle
  <2> QED  BY <1>0, <2>1, <2>3, <2>4, MemSortedReplace, Zenon
<1>9. ASSUME UNCHANGED <<mem, replay, writes, global_ts>>,
             op' = op \/ op'.pc # "logged",
             \A i \in DOMAIN log : log'[i] = log[i]
      PROVE  MemSorted'
  <2>1. active' = active /\ \A r \in replay : log'[r] = log[r]
    BY <1>0, <1>9 DEF active, Puts
  <2> QED  BY <1>9, <2>1, Zenon DEF MemSorted
<1>10. CASE FlushPop \/ FlushWrite \/ FlushPublish \/ FlushManifest \/ FlushCheckpoint \/ FlushDone
  <2>1. UNCHANGED <<mem, replay, writes, global_ts, op>>
    BY <1>10, Zenon DEF FlushPop, FlushWrite, FlushPublish, FlushManifest, FlushCheckpoint, FlushDone,
                 mvars, rvars, cvars
  <2>2. \A i \in DOMAIN log : log'[i] = log[i]
    BY <1>10, OtherSteps, Zenon DEF OtherStep
  <2> QED  BY <1>9, <2>1, <2>2, Zenon
<1>11. CASE Quiet
  BY <1>9, <1>11 DEF Quiet, mvars, rvars
<1> QED
  BY <1>3, <1>4, <1>5, <1>6, <1>7, <1>8, <1>10, <1>11, Zenon DEF PlainStep, OtherStep

-----------------------------------------------------------------------------
(* Files.                                                                  *)

\* SSTable::WriteFromWalk keeps of every key an entry at least as new as any.
LEMMA WalkKeeps ==
    ASSUME ReplaySound,
           NEW m \in MemTable, m.aborted = {}, Descending(m.ents), NEW r, r.id \in Nat, InMem(m, r)
    PROVE  \E e \in File(m).ents : e.key = r.key /\ e.id >= r.id
<1>1. PICK i \in DOMAIN m.ents : m.ents[i].key = r.key /\ m.ents[i].id >= r.id
  BY DEF InMem
<1>2. /\ m.ents \in Seq(Entry) /\ DOMAIN m.ents \subseteq Nat
      /\ \A k \in DOMAIN m.ents : m.ents[k] \in Entry
  BY DEF MemTable
<1>3. \A k \in DOMAIN m.ents : m.ents[k].id \in Nat /\ m.ents[k].ts \in Nat
  BY <1>2, Zenon DEF Entry
<1> DEFINE S == {k \in DOMAIN m.ents : m.ents[k].key = r.key}
<1>4. PICK j \in S : \A k \in S : j <= k
  <2>1. S \in SUBSET Nat /\ S # {}
    BY <1>1, <1>2
  <2> HIDE DEF S
  <2> QED  BY <2>1, LeastOf
<1>5. m.ents[j] \in WriteFromWalk(m)
  <2>1. ASSUME NEW k \in DOMAIN m.ents, m.ents[k].key = m.ents[j].key
        PROVE  m.ents[k].ts < m.ents[j].ts \/ (m.ents[k].ts = m.ents[j].ts /\ j <= k)
    <3>1. k \in S /\ j <= k
      BY <1>4, <2>1, Zenon
    <3>2. CASE k = j
      BY <1>2, <3>1, <3>2, Zenon
    <3>3. CASE k # j
      <4>1. j < k
        BY <1>2, <3>1, <3>3
      <4> QED  BY <1>4, <4>1, Zenon DEF Descending
    <3> QED  BY <3>2, <3>3, Zenon
  <2>2. {k \in DOMAIN m.ents : m.ents[k].ts \notin m.aborted} = DOMAIN m.ents
    BY Zenon
  <2> QED  BY <1>4, <2>1, <2>2, Zenon DEF WriteFromWalk
<1>6. m.ents[j].id >= r.id
  <2>1. i \in S /\ j <= i
    BY <1>1, <1>4, Zenon
  <2>2. CASE i = j
    BY <1>1, <2>2, Zenon
  <2>3. CASE i # j
    <3>1. j < i
      BY <1>2, <2>1, <2>3
    <3>2. m.ents[i].id < m.ents[j].id
      BY <1>4, <3>1 DEF Descending
    <3> QED  BY <1>1, <1>3, <1>4, <3>2
  <2> QED  BY <2>2, <2>3, Zenon
<1> QED  BY <1>4, <1>5, <1>6, Zenon DEF File

\* A flush during recovery.
LEMMA RecoverFlushFiles ==
    ASSUME TypeInv, NEW m \in MemTable, RecoverFlush(m), fl.pc = "idle", fl' = fl
    PROVE  /\ \A f \in DOMAIN manifest.adds : f \in DOMAIN manifest'.adds /\ files'[f] = files[f]
           /\ \A f \in DOMAIN manifest'.adds : f \in DOMAIN manifest.adds \/ f = Len(files)'
           /\ Len(files)' \in DOMAIN manifest'.adds /\ files'[Len(files)'] = File(m)
           /\ \A t \in DOMAIN tables : t \in DOMAIN tables' /\ tables'[t] = tables[t]
           /\ \E t \in DOMAIN tables' : tables'[t].seq = Len(files)'
<1>1. /\ TablesOK /\ active \in Nat
  BY DEF TypeInv, MemOK, active
<1>2. /\ Len(files') = Len(files) + 1
      /\ \A n \in DOMAIN tables : n \in DOMAIN tables' /\ tables'[n] = tables[n]
      /\ \A n \in DOMAIN files : n \in DOMAIN files' /\ files'[n] = files[n]
      /\ Len(tables') \in DOMAIN tables'
      /\ tables'[Len(tables')] = [seq |-> Len(files'), source_table_id |-> active,
                                  aborted |-> m.aborted]
      /\ files'[Len(files')] = File(m)
  BY <1>1, RecoverFlushTables, Zenon
<1>3. /\ manifest.adds \in Seq(Nat) /\ manifest \in [adds : Seq(Nat), aborts : SUBSET [ts : Nat, fence : Nat]]
      /\ Len(files) = Len(manifest.adds) /\ Len(files) \in Nat
      /\ DOMAIN files = 1..Len(files) /\ DOMAIN manifest.adds = 1..Len(files)
  <2>1. /\ files \in Seq(SSTable)
        /\ manifest \in [adds : Seq(Nat), aborts : SUBSET [ts : Nat, fence : Nat]]
        /\ Len(files) = Len(manifest.adds) + (IF fl.pc \in {"written", "published"} THEN 1 ELSE 0)
    BY <1>1, Zenon DEF TablesOK
  <2>2. Len(files) \in Nat /\ DOMAIN files = 1..Len(files)
    BY <2>1
  <2>3. manifest.adds \in Seq(Nat) /\ Len(manifest.adds) \in Nat
        /\ DOMAIN manifest.adds = 1..Len(manifest.adds)
    BY <2>1
  <2>4. Len(files) = Len(manifest.adds)
    BY <2>1, <2>3
  <2> QED  BY <2>1, <2>2, <2>3, <2>4, Zenon
<1>4. manifest'.adds = Append(manifest.adds, Len(files) + 1)
  <2>1. manifest' = [manifest EXCEPT !.adds = Append(@, Len(files) + 1)]
    BY Zenon DEF RecoverFlush
  <2> QED  BY <1>3, <2>1
<1>5. DOMAIN manifest'.adds = 1..(Len(files) + 1)
  BY <1>3, <1>4
<1>6. \A f \in DOMAIN manifest'.adds : f \in DOMAIN manifest.adds \/ f = Len(files) + 1
  BY <1>3, <1>5
<1>7. Len(files) + 1 \in DOMAIN manifest'.adds /\ \A f \in DOMAIN manifest.adds : f \in DOMAIN manifest'.adds
  BY <1>3, <1>5
<1>8. \E t \in DOMAIN tables' : tables'[t].seq = Len(files')
  BY <1>2
<1> QED  BY <1>2, <1>3, <1>6, <1>7, <1>8, Zenon

\* A recovery's flushes, if it makes one.
LEMMA RecoverFiles ==
    ASSUME TypeInv, RecoverInsert \/ RecoverEnd
    PROVE  /\ fl' = fl /\ fl.pc = "idle"
           /\ UNCHANGED tvars \/ \E m \in MemTable : RecoverFlush(m)
<1>0. RecoveryOK /\ MemOK
  BY DEF TypeInv
<1>1. CASE RecoverInsert
  BY <1>1, InsertFacts, Zenon
<1>2. CASE RecoverEnd
  <2>1. mem[active] \in MemTable
    BY <1>0 DEF MemOK, active
  <2> QED  BY <1>0, <1>2, <2>1, Zenon DEF RecoverEnd, RecoveryOK, Running
<1> QED  BY <1>1, <1>2

\* Only files not in the manifest are dropped, by a crash.
LEMMA FilesKept ==
    ASSUME TypeInv, NoBatch, PlainStep
    PROVE  \A f \in DOMAIN manifest.adds : f \in DOMAIN manifest'.adds /\ files'[f] = files[f]
<1>0. /\ files \in Seq(SSTable) /\ manifest.adds \in Seq(Nat) /\ Len(files) \in Nat
      /\ Len(manifest.adds) \in Nat /\ Len(manifest.adds) <= Len(files)
      /\ manifest \in [adds : Seq(Nat), aborts : SUBSET [ts : Nat, fence : Nat]]
  BY DEF TypeInv, TablesOK
<1>1. CASE UNCHANGED <<files, manifest>>
  BY <1>1, Zenon
<1>2. CASE NormalWrite
  BY <1>1, <1>2, WriteFacts DEF tvars
<1>3. CASE Crash
  BY <1>3, CrashFacts, Zenon DEF Crash
<1>4. CASE Apply \/ Flush \/ Quiet
  BY <1>1, <1>4, Zenon DEF Apply, Flush, Quiet, tvars
<1>5. CASE FlushPop \/ FlushPublish \/ FlushCheckpoint \/ FlushDone
  BY <1>1, <1>5, Zenon DEF FlushPop, FlushPublish, FlushCheckpoint, FlushDone, tvars
<1>6. CASE FlushWrite
  <2>1. files' = Append(files, File(mem[fl.mt])) /\ manifest' = manifest
    BY <1>6, Zenon DEF FlushWrite
  <2> QED  BY <1>0, <2>1
<1>7. CASE FlushManifest
  <2>1. manifest'.adds = Append(manifest.adds, Len(files)) /\ files' = files
    BY <1>0, <1>7 DEF FlushManifest
  <2> QED  BY <1>0, <2>1
<1>8. CASE RecoverInsert \/ RecoverEnd
  BY <1>1, <1>8, RecoverFiles, RecoverFlushFiles, Zenon DEF tvars
<1> QED
  BY <1>2, <1>3, <1>4, <1>5, <1>6, <1>7, <1>8, Zenon DEF PlainStep, OtherStep

LEMMA InFilesKept ==
    ASSUME TypeInv, NoBatch, PlainStep, NEW r, InFiles(r)
    PROVE  InFiles(r)'
  BY FilesKept, Zenon DEF InFiles

LEMMA PublishedStep ==
    ASSUME TypeInv, NoBatch, Published, PlainStep
    PROVE  Published'
<1>0. /\ tables \in Seq(Metadata) /\ manifest.adds \in Seq(Nat) /\ fl \in FlushWorker
      /\ manifest \in [adds : Seq(Nat), aborts : SUBSET [ts : Nat, fence : Nat]]
  BY Zenon DEF TypeInv, TablesOK, MemOK
<1>1. CASE UNCHANGED <<tvars, fl>>
  BY <1>1, Zenon DEF Published, tvars
<1>2. CASE NormalWrite
  BY <1>1, <1>2, WriteFacts, Zenon
<1>3. CASE Crash
  <2>1. \A f \in DOMAIN manifest.adds : f \in DOMAIN tables' /\ tables'[f].seq = f
    BY <1>3, CrashFacts
  <2>2. manifest' = manifest /\ fl'.pc = "idle"
    BY <1>3 DEF Crash
  <2> QED  BY <2>1, <2>2, Zenon DEF Published
<1>4. CASE Apply \/ Flush \/ Quiet
  BY <1>1, <1>4, Zenon DEF Apply, Flush, Quiet
<1>5. CASE FlushPop \/ FlushWrite \/ FlushCheckpoint \/ FlushDone
  <2>1. UNCHANGED <<tables, manifest>> /\ fl'.pc # "published"
    BY <1>0, <1>5 DEF FlushPop, FlushWrite, FlushCheckpoint, FlushDone, FlushWorker, tvars
  <2> QED  BY <2>1 DEF Published
<1>6. CASE FlushPublish
  <2>1. PICK t : tables' = Append(tables, t) /\ UNCHANGED <<manifest, files>> /\ t.seq = Len(files)
    BY <1>6 DEF FlushPublish
  <2>2. /\ \A n \in DOMAIN tables : n \in DOMAIN tables' /\ tables'[n] = tables[n]
        /\ Len(tables) + 1 \in DOMAIN tables' /\ tables'[Len(tables) + 1] = t
    BY <1>0, <2>1
  <2> QED  BY <2>1, <2>2 DEF Published
<1>7. CASE FlushManifest
  <2>1. /\ manifest'.adds = Append(manifest.adds, Len(files)) /\ tables' = tables
        /\ fl.pc = "published" /\ fl'.pc = "recorded"
    BY <1>0, <1>7 DEF FlushManifest, FlushWorker
  <2>2. Len(files) = Len(manifest.adds) + 1
    BY <2>1, Zenon DEF TypeInv, TablesOK
  <2>3. \A f \in DOMAIN manifest'.adds : f \in DOMAIN manifest.adds \/ f = Len(files)
    BY <1>0, <2>1, <2>2
  <2> QED  BY <2>1, <2>3, Zenon DEF Published
<1>8. CASE RecoverInsert \/ RecoverEnd
  <2>0. fl' = fl /\ fl.pc = "idle"
    BY <1>8, Zenon DEF RecoverInsert, RecoverEnd, Running, TypeInv, RecoveryOK
  <2>1. CASE UNCHANGED tvars
    BY <1>1, <2>0, <2>1, Zenon
  <2>2. CASE \E m \in MemTable : RecoverFlush(m)
    <3>1. PICK m \in MemTable : RecoverFlush(m)
      BY <2>2, Zenon
    <3>2. /\ \A f \in DOMAIN manifest'.adds : f \in DOMAIN manifest.adds \/ f = Len(files)'
          /\ \A t \in DOMAIN tables : t \in DOMAIN tables' /\ tables'[t] = tables[t]
          /\ \E t \in DOMAIN tables' : tables'[t].seq = Len(files)'
      BY <1>8, <3>1, RecoverFiles, RecoverFlushFiles
    <3> QED  BY <2>0, <3>2 DEF Published
  <2> QED  BY <1>8, <2>1, <2>2, RecoverFiles
<1> QED
  BY <1>2, <1>3, <1>4, <1>5, <1>6, <1>7, <1>8, Zenon DEF PlainStep, OtherStep

\* What the writer does to the memtables: the active one becomes m, and may be frozen.
LEMMA WriterMem ==
    ASSUME TypeInv, Apply \/ Flush
    PROVE  /\ UNCHANGED <<fl, files, manifest, log, recovering, replay, durable>>
           /\ op.pc = "idle" \/ op.pc = "logged"
           /\ op'.pc # "logged"
           /\ \E m \in MemTable :
                /\ \/ mem' = [mem EXCEPT ![active] = m] /\ frozen' = frozen
                   \/ /\ mem' = Append([mem EXCEPT ![active] = m], Empty)
                      /\ frozen' = Append(frozen, active)
                /\ \A r : InMem(mem[active], r) => InMem(m, r)
                /\ op.pc = "logged" => \E i \in DOMAIN m.ents : m.ents[i] = op.ent
<1>0. mem[active] \in MemTable /\ op \in WriterState
  BY DEF TypeInv, MemOK, active
<1>1. CASE Apply
  <2>1. op.ent \in Entry /\ op.pc = "logged" /\ op'.pc = "idle"
    BY <1>0, <1>1, Zenon DEF Apply, WriterState, Idle
  <2>2. PICK m : m = TreeInsert(mem[active], op.ent)
    OBVIOUS
  <2>3. m \in MemTable
    BY <1>0, <2>1, <2>2, TreeInsertType, Zenon
  <2>4. /\ DOMAIN m.ents = 1..(Len(mem[active].ents) + 1)
        /\ DOMAIN mem[active].ents = 1..Len(mem[active].ents)
        /\ Len(mem[active].ents) \in Nat /\ m.ents[1] = op.ent
        /\ \A i \in 1..Len(mem[active].ents) : m.ents[i + 1] = mem[active].ents[i]
    BY <1>0, <2>1, <2>2, TreeInsertEntries, Zenon
  <2>5. 1 \in DOMAIN m.ents /\ \A i \in DOMAIN mem[active].ents : i + 1 \in DOMAIN m.ents
    BY <2>4
  <2>6. \A r : InMem(mem[active], r) => InMem(m, r)
    BY <2>4, <2>5, Zenon DEF InMem
  <2>7. \/ mem' = [mem EXCEPT ![active] = m] /\ frozen' = frozen
        \/ /\ mem' = Append([mem EXCEPT ![active] = m], Empty)
           /\ frozen' = Append(frozen, active)
    BY <1>1, <2>2, Zenon DEF Apply, Freeze
  <2>8. UNCHANGED <<fl, files, manifest, log, recovering, replay, durable>>
    BY <1>1 DEF Apply, tvars, rvars
  <2>9. \E i \in DOMAIN m.ents : m.ents[i] = op.ent
    BY <2>4, <2>5, Zenon
  <2>10. op'.pc # "logged"
    BY <2>1
  <2> QED  BY <2>1, <2>3, <2>6, <2>7, <2>8, <2>9, <2>10, Zenon
<1>2. CASE Flush
  <2>1. /\ op.pc = "idle" /\ op'.pc = "flush"
        /\ UNCHANGED <<fl, files, manifest, log, recovering, replay, durable>>
        /\ mem' = Append([mem EXCEPT ![active] = mem[active]], Empty)
        /\ frozen' = Append(frozen, active)
    BY <1>2, Zenon DEF Flush, Freeze, tvars, rvars, Idle
  <2> QED  BY <1>0, <2>1, Zenon
<1> QED  BY <1>1, <1>2, Zenon

LEMMA FileWrittenStep ==
    ASSUME TypeInv, OrderInv, FileWritten, PlainStep
    PROVE  FileWritten'
<1>0. MemOK /\ files \in Seq(SSTable) /\ fl \in FlushWorker
  BY Zenon DEF TypeInv, TablesOK, MemOK
<1>1. CASE UNCHANGED <<fl, files, mem>>
  BY <1>1 DEF FileWritten
<1>2. CASE NormalWrite
  BY <1>1, <1>2, WriteFacts, Zenon DEF tvars, mvars
<1>3. CASE fl'.pc \notin {"written", "published"}
  BY <1>3 DEF FileWritten
<1>4. CASE Crash \/ FlushPop \/ FlushManifest \/ FlushCheckpoint \/ FlushDone
  <2>1. fl'.pc \in {"idle", "popped", "recorded", "logged"}
    BY <1>0, <1>4 DEF Crash, FlushPop, FlushManifest, FlushCheckpoint, FlushDone, FlushWorker
  <2> QED  BY <1>3, <2>1, Zenon
<1>5. CASE RecoverInsert \/ RecoverEnd
  BY <1>3, <1>5, RecoverFiles, Zenon
<1>6. CASE Apply \/ Flush
  <2>1. PICK m \in MemTable : \/ mem' = [mem EXCEPT ![active] = m]
                             \/ mem' = Append([mem EXCEPT ![active] = m], Empty)
    BY <1>6, WriterMem, Zenon
  <2>2. fl' = fl /\ files' = files
    BY <1>6, WriterMem, Zenon
  <2>3. CASE fl.pc \in {"written", "published"}
    <3>1. fl.mt \in DOMAIN mem /\ fl.mt # active
      <4>1. fl.mt \in DOMAIN mem /\ fl.mt < active /\ fl.mt \in Nat /\ active \in Nat
        BY <1>0, <2>3 DEF MemOK, OrderInv, Holding, FlushWorker, active
      <4> QED  BY <4>1
    <3>2. mem'[fl.mt] = mem[fl.mt]
      BY <1>0, <2>1, <3>1, MemCases, Zenon
    <3> QED  BY <2>2, <3>2 DEF FileWritten
  <2> QED  BY <1>3, <2>2, <2>3, Zenon
<1>7. CASE FlushWrite
  <2>1. files' = Append(files, File(mem[fl.mt])) /\ mem' = mem /\ fl'.mt = fl.mt
    BY <1>0, <1>7, Zenon DEF FlushWrite, mvars, FlushWorker
  <2>2. files'[Len(files')] = File(mem[fl.mt])
    BY <1>0, <2>1
  <2> QED  BY <2>1, <2>2 DEF FileWritten
<1>8. CASE FlushPublish
  <2>1. fl.pc = "written" /\ files' = files /\ mem' = mem /\ fl'.mt = fl.mt
    BY <1>0, <1>8, Zenon DEF FlushPublish, mvars, FlushWorker
  <2> QED  BY <2>1 DEF FileWritten
<1>9. CASE Quiet
  BY <1>1, <1>9, Zenon DEF Quiet, mvars, tvars
<1> QED
  BY <1>2, <1>4, <1>5, <1>6, <1>7, <1>8, <1>9, Zenon DEF PlainStep, OtherStep

-----------------------------------------------------------------------------
(* Where the records are.                                                  *)

LEMMA OldestMem ==
    ASSUME TypeInv
    PROVE  Oldest \in DOMAIN mem
<1>1. active \in DOMAIN mem
  BY DEF TypeInv, MemOK, active
<1>2. frozen # << >> => Head(frozen) \in DOMAIN mem
  BY PopFrozen, Zenon DEF TypeInv
<1>3. fl.pc \in Holding => fl.mt \in DOMAIN mem
  BY Zenon DEF TypeInv, MemOK, Holding
<1> QED  BY <1>1, <1>2, <1>3, Zenon DEF Oldest

\* The writer leaves the oldest memtable the oldest, with all it holds.
LEMMA OldestStays ==
    ASSUME TypeInv, OrderInv, Apply \/ Flush
    PROVE  /\ Oldest' = Oldest
           /\ \A r : InMem(mem[Oldest], r) => InMem(mem'[Oldest], r)
           /\ op.pc = "logged" /\ Oldest = active =>
                \E i \in DOMAIN mem'[Oldest].ents : mem'[Oldest].ents[i] = op.ent
<1>0. MemOK /\ fl' = fl
  BY WriterMem, Zenon DEF TypeInv
<1>1. PICK m \in MemTable :
        /\ \/ mem' = [mem EXCEPT ![active] = m] /\ frozen' = frozen
           \/ /\ mem' = Append([mem EXCEPT ![active] = m], Empty)
              /\ frozen' = Append(frozen, active)
        /\ \A r : InMem(mem[active], r) => InMem(m, r)
        /\ op.pc = "logged" => \E i \in DOMAIN m.ents : m.ents[i] = op.ent
  BY WriterMem, Zenon
<1>2. /\ mem'[active] = m
      /\ \A n \in DOMAIN mem : n # active => mem'[n] = mem[n]
  BY <1>0, <1>1, MemCases
<1>3. Oldest \in DOMAIN mem
  BY OldestMem
<1>4. Oldest' = Oldest
  <2>1. CASE mem' = [mem EXCEPT ![active] = m] /\ frozen' = frozen
    <3>1. active' = active
      BY <1>0, <2>1, MemReplace, Zenon DEF active
    <3> QED  BY <1>0, <2>1, <3>1, Zenon DEF Oldest
  <2>2. CASE frozen' = Append(frozen, active)
    <3>1. frozen \in Seq(DOMAIN mem)
      BY <1>0 DEF MemOK
    <3>2. /\ frozen' # << >>
          /\ Head(frozen') = IF frozen = << >> THEN active ELSE Head(frozen)
      <4>1. CASE frozen = << >>
        BY <2>2, <4>1
      <4>2. CASE frozen # << >>
        <5>1. Head(frozen) = frozen[1] /\ 1 \in DOMAIN frozen /\ Len(frozen) \in Nat /\ DOMAIN frozen = 1..Len(frozen)
          BY <1>0, <4>2, PopFrozen, Zenon
        <5>2. /\ DOMAIN frozen' = 1..(Len(frozen) + 1)
              /\ \A i \in 1..Len(frozen) : frozen'[i] = frozen[i]
          BY <1>0, <2>2, FreezeFrozen, Zenon
        <5>3. frozen'[1] = frozen[1] /\ Len(frozen') = Len(frozen) + 1 /\ frozen' # << >>
          BY <2>2, <3>1, <5>1, <5>2
        <5>4. Head(frozen') = frozen'[1]
          OBVIOUS
        <5> QED  BY <4>2, <5>1, <5>3, <5>4, Zenon
      <4> QED  BY <4>1, <4>2, Zenon
    <3> QED  BY <1>0, <3>2, Zenon DEF Oldest
  <2> QED  BY <1>1, <2>1, <2>2, Zenon
<1> QED  BY <1>1, <1>2, <1>3, <1>4, Zenon

\* A flush puts what a memtable held in the files.
LEMMA FlushedIn ==
    ASSUME ReplaySound, NEW m \in MemTable, m.aborted = {}, Descending(m.ents),
           NEW r, r.id \in Nat, InMem(m, r),
           NEW f \in DOMAIN manifest'.adds, files'[f] = File(m)
    PROVE  InFiles(r)'
<1>1. PICK e \in File(m).ents : e.key = r.key /\ e.id >= r.id
  BY WalkKeeps, Zenon
<1>2. e \in files'[f].ents
  BY <1>1
<1> QED  BY <1>1, <1>2, Zenon DEF InFiles

LEMMA PlacedStep ==
    ASSUME TypeInv, OrderInv, NoBatch, NoBatch', MemSorted, MemSorted', Placed, Covered, FileWritten,
           PlainStep
    PROVE  Placed'
<1>s. ReplaySound
  BY Zenon DEF TypeInv
<1>0. /\ LogOK /\ MemOK /\ TablesOK /\ RecoveryOK /\ fl \in FlushWorker
      /\ active \in DOMAIN mem /\ mem[active] \in MemTable
  BY DEF TypeInv, MemOK, active
<1>1. ASSUME NEW i \in Puts', log'[i].id \notin exposed'
      PROVE  \/ InFiles(log[i])'
             \/ fl'.pc \notin {"recorded", "logged"} /\ InMem(mem[Oldest], log[i])'
             \/ /\ pending' = 0 /\ op'.pc = "logged"
                /\ op'.ent.key = log'[i].key /\ op'.ent.id = log'[i].id
             \/ i \in replay'
  <2>1. PICK r : r = log'[i]
    BY Zenon
  <2> DEFINE Goal == \/ InFiles(r)'
                     \/ fl'.pc \notin {"recorded", "logged"} /\ InMem(mem'[Oldest'], r)
                     \/ /\ pending' = 0 /\ op'.pc = "logged"
                        /\ op'.ent.key = r.key /\ op'.ent.id = r.id
                     \/ i \in replay'
  <2>2. SUFFICES Goal
    BY <2>1 DEF InFiles, InMem
  <2>3. CASE NormalWrite
    <3>1. PICK q : q = PutRecord(op'.ent)
      OBVIOUS
    <3>2. /\ op.pc = "idle" /\ op'.pc = "logged" /\ op'.ent.id = writes + 1
          /\ exposed' = IF pending > 0 THEN exposed \cup {writes + 1} ELSE exposed
          /\ log' = Append(log, q) /\ q.kind = "put" /\ q.key = op'.ent.key /\ q.id = writes + 1
          /\ UNCHANGED <<mem, frozen, pending, fl, replay>>
      BY <2>3, <3>1, WriteFacts, Zenon DEF mvars, rvars
    <3>3. /\ Puts' = Puts \cup {Len(log) + 1} /\ log'[Len(log) + 1] = q
          /\ \A k \in DOMAIN log : log'[k] = log[k]
      BY <1>0, <3>2, LogAfter, Zenon
    <3>4. CASE i \in Puts
      <4>1. r = log[i] /\ log[i].id \notin exposed
        BY <1>1, <2>1, <3>2, <3>3, <3>4, Zenon DEF Puts
      <4>2. \/ InFiles(r)
            \/ fl.pc \notin {"recorded", "logged"} /\ InMem(mem[Oldest], r)
            \/ i \in replay
        BY <3>2, <3>4, <4>1, Zenon DEF Placed
      <4>3. Oldest' = Oldest
        BY <3>2 DEF Oldest, active
      <4>4. InFiles(r) => InFiles(r)'
        BY InFilesKept, Zenon
      <4> QED  BY <3>2, <4>2, <4>3, <4>4, Zenon
    <3>5. CASE i = Len(log) + 1
      <4>1. r = q /\ writes + 1 \notin exposed'
        BY <1>1, <2>1, <3>2, <3>3, <3>5, Zenon
      <4>2. ~(pending > 0)
        BY <3>2, <4>1
      <4>3. pending = 0
        <5>1. pending \in Nat
          BY <1>0 DEF MemOK
        <5> QED  BY <4>2, <5>1
      <4> QED  BY <3>2, <4>1, <4>3, Zenon
    <3> QED  BY <3>3, <3>4, <3>5, Zenon
  <2>4. CASE Crash
    <3>1. PICK n \in 0..Len(log) :
            /\ durable <= n /\ (~Running => n = durable)
            /\ \A k \in 1..n : k \in DOMAIN log /\ log'[k] = log[k]
            /\ Puts' = {k \in Puts : k <= n}
            /\ replay' = {k \in Puts : k <= n /\ \A j \in k..n : log[j].kind # "ckpt"}
      BY <2>4, CrashFacts, Zenon
    <3>2. i \in Puts /\ i <= n /\ i \in Nat /\ i \in 1..n
      <4>1. i \in Puts /\ i <= n
        BY <3>1, Zenon
      <4>2. i \in DOMAIN log /\ i \in Nat
        BY <1>0, <4>1, PutFields, Zenon
      <4> QED  BY <1>0, <4>1, <4>2 DEF LogOK
    <3>3. r = log[i] /\ log[i].id \notin exposed
      BY <1>1, <2>1, <2>4, <3>1, <3>2, Zenon DEF Crash
    <3>4. CASE \A j \in i..n : log[j].kind # "ckpt"
      BY <3>1, <3>2, <3>4, Zenon
    <3>5. CASE \E j \in i..n : log[j].kind = "ckpt"
      <4>1. PICK j \in i..n : log[j].kind = "ckpt"
        BY <3>5
      <4>2. j \in 1..n /\ j <= n
        BY <3>2
      <4>3. j \in DOMAIN log /\ j # i
        BY <3>1, <3>2, <4>1, <4>2, Zenon DEF Puts
      <4>4. i < j
        BY <3>2, <4>2, <4>3
      <4>5. Running \/ j <= durable
        BY <3>1, <4>2, Zenon
      <4>6. InFiles(r)
        BY <3>2, <3>3, <4>1, <4>3, <4>4, <4>5, Zenon DEF Covered
      <4> QED  BY <4>6, InFilesKept, Zenon
    <3> QED  BY <3>4, <3>5, Zenon
  <2>5. CASE OtherStep
    <3>1. i \in Puts /\ r = log[i] /\ log[i].id \notin exposed /\ r.id \in Nat
      <4>1. /\ exposed' = exposed /\ Puts' = Puts
            /\ \A k \in DOMAIN log : log'[k] = log[k]
        BY <2>5, OtherSteps, Zenon
      <4>2. i \in Puts /\ i \in DOMAIN log /\ log[i].id \in Nat
        BY <1>0, <4>1, PutFields, Zenon
      <4> QED  BY <1>1, <2>1, <4>1, <4>2, Zenon
    <3>2. \/ InFiles(r)
          \/ fl.pc \notin {"recorded", "logged"} /\ InMem(mem[Oldest], r)
          \/ /\ pending = 0 /\ op.pc = "logged"
             /\ op.ent.key = r.key /\ op.ent.id = r.id
          \/ i \in replay
      BY <3>1, Zenon DEF Placed
    <3>3. CASE InFiles(r)
      BY <3>3, InFilesKept, Zenon
    <3>4. /\ fl.pc # "idle" => pending # 0
          /\ pending = 0 => frozen = << >> /\ fl.pc = "idle"
          /\ pending # 0 /\ fl.pc = "idle" => frozen # << >>
      <4>1. /\ Len(frozen) \in Nat /\ (Len(frozen) = 0 <=> frozen = << >>)
            /\ pending = Len(frozen) + (IF fl.pc = "idle" THEN 0 ELSE 1)
        BY <1>0 DEF MemOK
      <4> QED  BY <4>1
    <3>5. CASE Apply \/ Flush
      <4>1. /\ Oldest' = Oldest
            /\ \A q : InMem(mem[Oldest], q) => InMem(mem'[Oldest], q)
            /\ op.pc = "logged" /\ Oldest = active =>
                 \E k \in DOMAIN mem'[Oldest].ents : mem'[Oldest].ents[k] = op.ent
        BY <3>5, OldestStays, Zenon
      <4>2. fl' = fl /\ replay' = replay
        BY <3>5, WriterMem, Zenon
      <4>3. CASE /\ pending = 0 /\ op.pc = "logged"
                 /\ op.ent.key = r.key /\ op.ent.id = r.id
        <5>1. Oldest = active /\ fl.pc = "idle"
          BY <3>4, <4>3, Zenon DEF Oldest, Holding
        <5>2. PICK k \in DOMAIN mem'[Oldest].ents : mem'[Oldest].ents[k] = op.ent
          BY <4>1, <4>3, <5>1, Zenon
        <5>3. op.ent.id >= r.id
          BY <3>1, <4>3
        <5>4. InMem(mem'[Oldest], r)
          BY <4>3, <5>2, <5>3, Zenon DEF InMem
        <5> QED  BY <4>1, <4>2, <5>1, <5>4, Zenon
      <4> QED  BY <3>2, <3>3, <4>1, <4>2, <4>3, Zenon
    <3>6. CASE FlushPop
      <4>1. fl.pc = "idle" /\ pending > 0 /\ mem' = mem /\ replay' = replay
        BY <3>6, Zenon DEF FlushPop, rvars
      <4>2. pending # 0 /\ frozen # << >>
        <5>1. pending # 0
          BY <4>1
        <5> QED  BY <3>4, <4>1, <5>1, Zenon
      <4>3. fl' = [pc |-> "popped", mt |-> Head(frozen)]
        BY <3>6, <4>2, Zenon DEF FlushPop
      <4>4. Oldest' = Oldest /\ fl'.pc = "popped"
        BY <4>1, <4>2, <4>3, Zenon DEF Oldest, Holding
      <4> QED  BY <3>2, <3>3, <4>1, <4>2, <4>4, Zenon
    <3>7. CASE FlushWrite \/ FlushPublish
      <4>1. /\ fl.pc \in {"popped", "written"} /\ fl'.pc \in {"written", "published"}
            /\ fl'.mt = fl.mt /\ mem' = mem /\ replay' = replay
        BY <1>0, <3>7, Zenon DEF FlushWrite, FlushPublish, mvars, rvars, FlushWorker
      <4>2. Oldest' = Oldest
        BY <4>1 DEF Oldest, Holding
      <4> QED  BY <3>2, <3>3, <3>4, <4>1, <4>2, Zenon
    <3>8. CASE FlushManifest
      <4>1. /\ fl.pc = "published" /\ files' = files /\ replay' = replay
            /\ manifest' = [manifest EXCEPT !.adds = Append(manifest.adds, Len(files))]
        BY <3>8 DEF FlushManifest, rvars
      <4>2. /\ manifest.adds \in Seq(Nat) /\ Len(files) = Len(manifest.adds) + 1
            /\ manifest \in [adds : Seq(Nat), aborts : SUBSET [ts : Nat, fence : Nat]]
        BY <1>0, <4>1 DEF TablesOK
      <4>3. manifest'.adds = Append(manifest.adds, Len(files))
        BY <4>1, <4>2, Zenon
      <4>4. Len(files) \in DOMAIN manifest'.adds
        BY <4>2, <4>3
      <4>5. fl.mt \in DOMAIN mem /\ Oldest = fl.mt
        BY <1>0, <4>1, Zenon DEF MemOK, Oldest, Holding
      <4>6. mem[fl.mt] \in MemTable /\ mem[fl.mt].aborted = {} /\ Descending(mem[fl.mt].ents)
        <5>1. mem[fl.mt] \in MemTable
          BY <1>0, <4>5 DEF MemOK
        <5>2. mem[fl.mt].aborted = {}
          BY <1>0, <4>5, Zenon DEF NoBatch
        <5>3. Descending(mem[fl.mt].ents)
          BY <1>0, <4>5, Zenon DEF MemSorted
        <5> QED  BY <5>1, <5>2, <5>3, Zenon
      <4>7. files'[Len(files)] = File(mem[fl.mt])
        BY <4>1, Zenon DEF FileWritten
      <4>8. PICK m \in MemTable : m = mem[fl.mt]
        BY <4>6
      <4>9. PICK f \in DOMAIN manifest'.adds : f = Len(files)
        BY <4>4
      <4>10. InMem(m, r) => InFiles(r)'
        BY <1>s, <3>1, <4>6, <4>7, <4>8, <4>9, FlushedIn, Zenon
      <4> QED  BY <3>2, <3>3, <3>4, <4>1, <4>5, <4>8, <4>10, Zenon
    <3>9. CASE FlushCheckpoint \/ FlushDone
      <4>1. fl.pc \in {"recorded", "logged"} /\ replay' = replay
        BY <3>9 DEF FlushCheckpoint, FlushDone, rvars
      <4> QED  BY <3>2, <3>3, <3>4, <4>1, Zenon
    <3>10. CASE RecoverInsert
      <4>1. PICK e : e = Recovered(log[NextReplayed])
        OBVIOUS
      <4>2. PICK m : m = TreeInsert(mem[active], e)
        OBVIOUS
      <4>3. /\ op = Idle /\ fl.pc = "idle" /\ frozen = << >> /\ fl' = fl /\ frozen' = frozen
            /\ e \in Entry /\ m \in MemTable
            /\ e.id = log[NextReplayed].id /\ e.key = log[NextReplayed].key
            /\ replay' = replay \ {NextReplayed}
            /\ \/ mem' = Append([mem EXCEPT ![active] = m], Empty) /\ RecoverFlush(m)
               \/ mem' = [mem EXCEPT ![active] = m]
        BY <3>10, <4>1, <4>2, InsertFacts, Zenon
      <4>4. Oldest = active /\ op.pc # "logged"
        BY <4>3, Zenon DEF Oldest, Holding, Idle
      <4>5. InMem(mem[active], r) \/ i = NextReplayed => InMem(m, r)
        <5>1. /\ DOMAIN m.ents = 1..(Len(mem[active].ents) + 1)
              /\ DOMAIN mem[active].ents = 1..Len(mem[active].ents)
              /\ Len(mem[active].ents) \in Nat /\ m.ents[1] = e
              /\ \A k \in 1..Len(mem[active].ents) : m.ents[k + 1] = mem[active].ents[k]
          BY <1>0, <4>2, <4>3, TreeInsertEntries
        <5>2. 1 \in DOMAIN m.ents /\ \A k \in DOMAIN mem[active].ents : k + 1 \in DOMAIN m.ents
          BY <5>1, NextPosition, Zenon
        <5>3. i = NextReplayed => e.key = r.key /\ e.id >= r.id
          <6>1. \A x \in Nat : x >= x
            OBVIOUS
          <6> QED  BY <3>1, <4>3, <6>1, Zenon
        <5> QED  BY <5>1, <5>2, <5>3, Zenon DEF InMem
      <4>6. active \in DOMAIN mem' /\ mem'[active] = m
        BY <1>0, <4>3, MemCases
      <4>7. m.aborted = {} /\ Descending(m.ents)
        BY <4>6, Zenon DEF NoBatch, MemSorted
      <4>8. InMem(m, r) => Goal
        <5>1. CASE RecoverFlush(m)
          <6>1. Len(files)' \in DOMAIN manifest'.adds /\ files'[Len(files)'] = File(m)
            BY <4>3, <5>1, RecoverFlushFiles, Zenon
          <6>2. PICK f \in DOMAIN manifest'.adds : files'[f] = File(m)
            BY <6>1, Zenon
          <6> QED  BY <1>s, <3>1, <4>3, <4>7, <6>2, FlushedIn, Zenon
        <5>2. CASE mem' = [mem EXCEPT ![active] = m]
          <6>1. active' = active
            BY <1>0, <4>3, <5>2, MemReplace, Zenon DEF active
          <6>2. Oldest' = active
            BY <4>3, <6>1 DEF Oldest, Holding
          <6> QED  BY <4>3, <4>6, <6>2, Zenon
        <5> QED  BY <4>3, <5>1, <5>2, Zenon
      <4> QED  BY <3>2, <3>3, <4>3, <4>4, <4>5, <4>8, Zenon
    <3>11. CASE RecoverEnd
      <4>1. /\ ~Running /\ replay = {}
            /\ mem[active].ents # << >> => RecoverFlush(mem[active])
        BY <3>11, Zenon DEF RecoverEnd
      <4>2. /\ fl.pc = "idle" /\ frozen = << >> /\ op = Idle
            /\ Oldest = active /\ op.pc # "logged" /\ fl' = fl
        BY <1>0, <3>11, <4>1, RecoverFiles DEF RecoveryOK, Running, Oldest, Holding, Idle
      <4>3. CASE InMem(mem[active], r)
        <5>1. mem[active].ents # << >>
          BY <4>3 DEF InMem
        <5>2. PICK m \in MemTable : m = mem[active]
          BY <1>0
        <5>3. m.aborted = {} /\ Descending(m.ents)
          BY <1>0, <5>2, Zenon DEF NoBatch, MemSorted
        <5>4. Len(files)' \in DOMAIN manifest'.adds /\ files'[Len(files)'] = File(m)
          BY <4>1, <4>2, <5>1, <5>2, RecoverFlushFiles, Zenon
        <5>5. PICK f \in DOMAIN manifest'.adds : files'[f] = File(m)
          BY <5>4
        <5> QED  BY <1>s, <3>1, <4>3, <5>2, <5>3, <5>5, FlushedIn, Zenon
      <4> QED  BY <3>2, <3>3, <4>1, <4>2, <4>3, Zenon
    <3>12. CASE Quiet
      <4>1. /\ UNCHANGED <<mem, frozen, pending, fl, replay>>
            /\ op' = op \/ op.pc # "logged"
        BY <3>12, Zenon DEF Quiet, mvars, rvars
      <4>2. Oldest' = Oldest
        BY <4>1, Zenon DEF Oldest, active
      <4> QED  BY <3>2, <3>3, <4>1, <4>2, Zenon
    <3> QED
      BY <2>5, <3>5, <3>6, <3>7, <3>8, <3>9, <3>10, <3>11, <3>12, Zenon DEF OtherStep
  <2> QED  BY <2>3, <2>4, <2>5, Zenon DEF PlainStep
<1> QED  BY <1>1, Zenon DEF Placed

LEMMA CoveredStep ==
    ASSUME TypeInv, NoBatch, LogSorted, Placed, Placed', Covered, PlainStep
    PROVE  Covered'
<1>0. /\ LogOK /\ MemOK /\ RecoveryOK /\ DOMAIN log = 1..Len(log) /\ Len(log) \in Nat
      /\ durable \in Nat /\ durable <= Len(log)
  BY DEF TypeInv, LogOK
<1>1. ASSUME NEW i \in Puts', NEW j \in DOMAIN log', i < j, log'[j].kind = "ckpt",
             Running' \/ j <= durable', log'[i].id \notin exposed'
      PROVE  InFiles(log[i])'
  <2>1. PICK r : r = log'[i]
    BY Zenon
  <2>2. SUFFICES InFiles(r)'
    BY <2>1 DEF InFiles
  <2>3. ASSUME i \in Puts, j \in DOMAIN log, log'[i] = log[i], log'[j] = log[j],
               log[i].id \notin exposed, Running \/ j <= durable
        PROVE  InFiles(r)'
    <3>1. InFiles(r)
      BY <1>1, <2>1, <2>3, Zenon DEF Covered
    <3> QED  BY <3>1, InFilesKept, Zenon
  <2>4. CASE NormalWrite
    <3>1. PICK q : q = PutRecord(op'.ent)
      BY Zenon
    <3>2. /\ Running /\ log' = Append(log, q) /\ q.kind = "put"
          /\ exposed' = IF pending > 0 THEN exposed \cup {writes + 1} ELSE exposed
      BY <2>4, <3>1, WriteFacts, Zenon
    <3>3. /\ Puts' = Puts \cup {Len(log) + 1} /\ DOMAIN log' = 1..(Len(log) + 1)
          /\ log'[Len(log) + 1] = q
          /\ \A k \in DOMAIN log : log'[k] = log[k]
      BY <1>0, <3>2, LogAfter, Zenon
    <3>4. j # Len(log) + 1
      BY <1>1, <3>2, <3>3, Zenon
    <3>5. j \in DOMAIN log
      BY <1>0, <3>3, <3>4
    <3>6. i \in Puts
      <4>1. i # Len(log) + 1
        BY <1>0, <1>1, <3>5
      <4> QED  BY <3>3, <4>1, Zenon
    <3>7. log'[i] = log[i] /\ log'[j] = log[j] /\ log[i].id \notin exposed
      BY <1>1, <3>2, <3>3, <3>5, <3>6, Zenon DEF Puts
    <3> QED  BY <2>3, <3>2, <3>5, <3>6, <3>7, Zenon
  <2>5. CASE Crash
    <3>1. PICK n \in 0..Len(log) :
            /\ durable <= n /\ (~Running => n = durable)
            /\ DOMAIN log' = 1..n
            /\ \A k \in 1..n : k \in DOMAIN log /\ log'[k] = log[k]
            /\ Puts' = {k \in Puts : k <= n}
      BY <2>5, CrashFacts, Zenon
    <3>2. exposed' = exposed
      BY <2>5, Zenon DEF Crash
    <3>3. j \in DOMAIN log /\ log'[j] = log[j] /\ j <= n
      BY <1>0, <3>1
    <3>4. i \in Puts /\ i \in DOMAIN log'
      BY <3>1, Zenon DEF Puts
    <3>5. log'[i] = log[i]
      BY <3>1, <3>4, Zenon
    <3>6. log[i].id \notin exposed
      BY <1>1, <3>2, <3>5, Zenon
    <3>7. Running \/ j <= durable
      BY <3>1, <3>3, Zenon
    <3> QED  BY <2>3, <3>3, <3>4, <3>5, <3>6, <3>7, Zenon
  <2>6. CASE OtherStep
    <3>1. /\ exposed' = exposed /\ Puts' = Puts
          /\ \A k \in DOMAIN log : log'[k] = log[k]
          /\ log' = log \/ \E q : log' = Append(log, q)
      BY <2>6, OtherSteps, Zenon
    <3>2. /\ i \in Puts /\ log'[i] = log[i] /\ log[i].id \notin exposed
      BY <1>1, <3>1, Zenon DEF Puts
    <3>3. j \in DOMAIN log \/ j = Len(log) + 1
      <4>1. CASE log' = log
        BY <4>1
      <4>2. CASE \E q : log' = Append(log, q)
        <5>1. DOMAIN log' = 1..(Len(log) + 1)
          BY <1>0, <4>2, LogAfter, Zenon
        <5> QED  BY <1>0, <5>1
      <4> QED  BY <3>1, <4>1, <4>2
    <3>4. ASSUME log' = log, recovering' = recovering, Running \/ durable' = durable
          PROVE  InFiles(r)'
      BY <1>1, <2>3, <3>1, <3>2, <3>4, Zenon DEF Running
    <3>5. CASE Apply \/ Flush
      <4>1. UNCHANGED <<log, recovering, durable>>
        BY <3>5, WriterMem, Zenon
      <4> QED  BY <3>4, <4>1, Zenon
    <3>6. CASE FlushPop \/ FlushWrite \/ FlushPublish \/ FlushManifest \/ FlushDone
      <4>1. UNCHANGED <<log, recovering, durable>>
        BY <3>6 DEF FlushPop, FlushWrite, FlushPublish, FlushManifest, FlushDone, rvars
      <4> QED  BY <3>4, <4>1
    <3>7. CASE Quiet
      <4>1. log' = log /\ recovering' = recovering /\ (Running \/ durable' = durable)
        BY <3>7 DEF Quiet, rvars
      <4> QED  BY <3>4, <4>1, Zenon
    <3>8. CASE FlushCheckpoint
      <4>1. fl.pc = "recorded"
        BY <3>8, Zenon DEF FlushCheckpoint
      <4>2. replay = {}
        BY <1>0, <4>1 DEF RecoveryOK, LogSorted, Running
      <4>3. pending # 0
        <5>1. Len(frozen) \in Nat /\ pending = Len(frozen) + 1
          BY <1>0, <4>1 DEF MemOK
        <5> QED  BY <5>1
      <4>4. InFiles(r)
        BY <2>1, <3>2, <4>1, <4>2, <4>3, Zenon DEF Placed
      <4> QED  BY <4>4, InFilesKept
    <3>9. CASE RecoverInsert
      <4>1. ~Running /\ recovering' = recovering /\ durable' = durable
        BY <3>9, InsertFacts, Zenon
      <4>2. j <= durable
        BY <1>1, <4>1, Zenon DEF Running
      <4>3. j \in DOMAIN log
        BY <1>0, <3>3, <4>2
      <4> QED  BY <2>3, <3>1, <3>2, <4>2, <4>3, Zenon
    <3>10. CASE RecoverEnd
      <4>1. /\ ~Running /\ replay' = {} /\ UNCHANGED <<op, fl, frozen>>
            /\ \/ mem[active].ents = << >> /\ mem' = mem
               \/ mem' = Append(mem, Empty)
        BY <3>10, Zenon DEF RecoverEnd
      <4>2. op'.pc # "logged" /\ fl'.pc = "idle" /\ frozen' = << >>
        BY <1>0, <4>1 DEF RecoveryOK, Running, Idle
      <4>3. Oldest' = active'
        BY <4>2, Zenon DEF Oldest, Holding
      <4>4. mem'[active'].ents = << >>
        <5>1. CASE mem[active].ents = << >> /\ mem' = mem
          BY <5>1, Zenon DEF active
        <5>2. CASE mem' = Append(mem, Empty)
          <6>1. mem'[Len(mem')] = Empty
            BY <1>0, <5>2 DEF MemOK
          <6> QED  BY <6>1 DEF active, Empty
        <5> QED  BY <4>1, <5>1, <5>2, Zenon
      <4>5. ~InMem(mem'[Oldest'], r)
        BY <4>3, <4>4 DEF InMem
      <4>6. ~InMem(mem[Oldest], log[i])'
        BY <2>1, <4>5 DEF InMem
      <4>7. InFiles(log[i])'
        BY <1>1, <4>1, <4>2, <4>6, Zenon DEF Placed
      <4> QED  BY <2>1, <4>7, Zenon DEF InFiles
    <3> QED  BY <2>6, <3>5, <3>6, <3>7, <3>8, <3>9, <3>10, Zenon DEF OtherStep
  <2> QED  BY <2>4, <2>5, <2>6, Zenon DEF PlainStep
<1> QED  BY <1>1, Zenon DEF Covered

-----------------------------------------------------------------------------
(* The theorem.                                                            *)

LEMMA InitCrash == Init => CrashInv
<1> SUFFICES ASSUME Init PROVE CrashInv
  BY Zenon
<1>1. /\ log = << >> /\ mem = <<Empty>> /\ op.pc = "idle" /\ fl.pc = "idle" /\ ~batch_in_progress
      /\ promised = {} /\ replay = {} /\ manifest.adds = << >>
  BY Zenon DEF Init, Idle
<1>e. \A s : s = << >> => DOMAIN s = {}
  OBVIOUS
<1>2. DOMAIN log = {} /\ Puts = {} /\ DOMAIN manifest.adds = {}
  BY <1>1, <1>e, Zenon DEF Puts
<1>3. DOMAIN mem = {1} /\ active = 1 /\ mem[1] = Empty
  BY <1>1 DEF active
<1>4. DOMAIN Empty.ents = {} /\ Empty.aborted = {}
  BY DEF Empty
<1>5. NoBatch /\ Numbered /\ LogSorted
  BY <1>1, <1>2, <1>3, <1>4, Zenon DEF NoBatch, Numbered, LogSorted
<1>6. MemSorted
  BY <1>1, <1>3, <1>4, Zenon DEF MemSorted, Descending
<1>7. Placed /\ Covered /\ FileWritten /\ Published
  BY <1>1, <1>2, Zenon DEF Placed, Covered, FileWritten, Published
<1> QED  BY <1>5, <1>6, <1>7 DEF CrashInv

LEMMA CrashStep == TypeInv /\ OrderInv /\ CrashInv /\ [Next]_vars => CrashInv'
<1> SUFFICES ASSUME TypeInv, OrderInv, CrashInv, [Next]_vars, batches' = 0
             PROVE  /\ NoBatch' /\ Numbered' /\ LogSorted' /\ MemSorted'
                    /\ Placed' /\ Covered' /\ FileWritten' /\ Published'
  BY DEF CrashInv
<1>1. batches = 0 /\ PlainStep
  BY PlainSteps DEF CrashInv, PlainStep, OtherStep
<1>2. /\ NoBatch /\ Numbered /\ LogSorted /\ MemSorted
      /\ Placed /\ Covered /\ FileWritten /\ Published
  BY <1>1 DEF CrashInv
<1>3. NoBatch' /\ Numbered' /\ LogSorted' /\ MemSorted'
  BY <1>1, <1>2, NoBatchStep, NumberedStep, LogSortedStep, MemSortedStep, Zenon
<1>4. FileWritten' /\ Published'
  BY <1>1, <1>2, FileWrittenStep, PublishedStep, Zenon
<1>5. Placed'
  BY <1>1, <1>2, <1>3, PlacedStep, Zenon
<1>6. Covered'
  BY <1>1, <1>2, <1>5, CoveredStep, Zenon
<1> QED  BY <1>3, <1>4, <1>5, <1>6, Zenon

LEMMA CrashInvHolds ==
    ASSUME TypeInv, CrashInv, batches = 0
    PROVE  RetainedUnlessExposed
<1>0. /\ NoBatch /\ Numbered /\ Placed /\ Published /\ LogOK
  BY DEF CrashInv, TypeInv
<1>1. ASSUME NEW p \in promised, p.id \notin exposed PROVE Held(p)
  <2>1. /\ op.pc = "logged" => p.id # op.ent.id
        /\ \E i \in Puts : log[i].key = p.key /\ log[i].id = p.id
    BY <1>0, Zenon DEF Numbered
  <2>2. PICK i \in Puts : log[i].key = p.key /\ log[i].id = p.id
    BY <2>1
  <2>3. \/ InFiles(log[i])
        \/ InMem(mem[Oldest], log[i])
        \/ i \in replay
    BY <1>0, <1>1, <2>1, <2>2, Zenon DEF Placed
  <2>4. CASE InFiles(log[i])
    <3>1. PICK f \in DOMAIN manifest.adds : \E e \in files[f].ents : e.key = p.key /\ e.id >= p.id
      BY <2>2, <2>4, Zenon DEF InFiles
    <3>2. PICK t \in DOMAIN tables : tables[t].seq = f
      BY <1>0, Zenon DEF Published
    <3>3. files[f].ents \subseteq Stored
      BY <3>2, Zenon DEF Stored
    <3> QED  BY <3>1, <3>3, Zenon DEF Held
  <2>5. CASE InMem(mem[Oldest], log[i])
    <3>1. PICK k \in DOMAIN mem[Oldest].ents : mem[Oldest].ents[k].key = p.key /\ mem[Oldest].ents[k].id >= p.id
      BY <2>2, <2>5, Zenon DEF InMem
    <3>2. Oldest \in (Bag(frozen) \cup {active, fl.mt}) \ {NoTable}
      <4>1. Oldest # NoTable
        BY OldestMem DEF TypeInv, MemOK, NoTable
      <4>2. frozen # << >> => Head(frozen) \in Bag(frozen)
        BY PopFrozen, Zenon DEF TypeInv, Bag
      <4> QED  BY <4>1, <4>2, Zenon DEF Oldest
    <3>3. Bag(mem[Oldest].ents) \subseteq Stored
      BY <3>2 DEF Stored
    <3>4. mem[Oldest].ents[k] \in Bag(mem[Oldest].ents)
      BY Zenon DEF Bag
    <3> QED  BY <3>1, <3>3, <3>4, Zenon DEF Held
  <2>6. CASE i \in replay
    <3>1. Recovered(log[i]) \in Stored
      BY <2>6, Zenon DEF Stored
    <3>2. /\ Recovered(log[i]).key = p.key /\ Recovered(log[i]).id = p.id
          /\ log[i].id \in Nat
      BY <1>0, <2>2, PutFields, Zenon
    <3>3. Recovered(log[i]).id >= p.id
      BY <2>2, <3>2
    <3> QED  BY <3>1, <3>2, <3>3, Zenon DEF Held
  <2> QED  BY <2>3, <2>4, <2>5, <2>6, Zenon
<1> QED  BY <1>1 DEF RetainedUnlessExposed

============================================================================
