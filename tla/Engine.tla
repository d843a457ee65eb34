------------------------------- MODULE Engine -------------------------------
(***************************************************************************)
(* LSMTreeEngine as one writer, one reader and the flush worker use it:    *)
(* memtables, their flush to SSTables, the manifest, batches, and a crash  *)
(* of the process at any moment followed by recovery.                      *)
(*                                                                         *)
(* Memtables are objects, found by their id (here from 1) in mem; the last *)
(* is the active one.  An entry carries the number of the write it comes   *)
(* from in place of a value.  Group commit is the business of WritePath:   *)
(* here a Sync simply makes the log, up to its end, survive a crash.  Left *)
(* out: the KV cache (the lookups here miss it) and compaction (all tables *)
(* are on level 0).                                                        *)
(***************************************************************************)
EXTENDS WalFormat, FiniteSets

CONSTANTS
    Keys,
    Cap,         \* memtable_max_bytes_, in entries
    Gap,         \* batch_increment_gap_
    MaxWrites, MaxBatches, MaxCrashes,   \* bounds on the environment
    Deletes,             \* where the environment deletes: in "normal" writes, in a "batch"
    Aborts, Reader       \* whether it aborts, and looks up, at all

ASSUME EngineAssumption ==
    /\ Keys # {}
    /\ {Cap, Gap} \subseteq Nat \ {0}
    /\ {MaxWrites, MaxBatches, MaxCrashes} \subseteq Nat
    /\ Deletes \subseteq {"normal", "batch"}
    /\ {Aborts, Reader} \subseteq BOOLEAN

VARIABLES
    global_ts,
    batch_in_progress, batch_ts, batch_touched,
    log,        \* the WAL: the records in the file and, behind them, the buffered ones
    durable,    \* how many of them a Sync has written to the file
    mem,        \* the memtables of this run of the program, by id
    frozen,     \* frozen_memtables_: ids, oldest first
    pending,    \* flush_->pending
    fl,         \* the flush worker: its step, its memtable, the file it wrote
    files,      \* the SSTable files; the n-th has sequence number n
    tables,     \* sstable_metadata_: the published tables, oldest first
    manifest,   \* the MANIFEST, each record fsynced as it is written: the tables added, in
                \* order, and the batches aborted
    op,         \* the writer: its step and the entry it is writing
    rd,         \* the reader's lookup
    recovering, \* RecoverFromWAL runs
    replay,     \* the log positions of the entries it has still to insert
    writes, batches, crashes,   \* how often (bounds); writes numbers the entries
    applied,    \* the entries inserted so far, of normal writes and of batches
    committed,  \* the batches committed, by their number
    spilled,    \* the batches with an entry in a memtable popped before they ended
    exposed,    \* the entries logged while a flush was pending
    promised    \* the entries that reached the memtable, or a file before a crash

rvars == <<recovering, replay>>
mvars == <<mem, frozen, pending>>
bvars == <<batch_in_progress, batch_ts, batch_touched>>
tvars == <<files, tables, manifest>>
hvars == <<applied, committed, spilled, exposed, promised>>
cvars == <<writes, batches, crashes>>
vars == <<global_ts, bvars, log, durable, mvars, fl, tvars, op, rd, rvars, cvars, hvars>>

\* bat is 0 for a normal write and the batch's number otherwise.
Entry == [key : Keys, ts : Nat, form : {"val", "tomb", "empty"}, id : Nat, bat : Nat]

MemTable == [ents : Seq(Entry), aborted : SUBSET Nat]

LogRecord ==
    [kind : {"put"}, key : Keys, ts : Nat, form : {"val", "empty"}, id : Nat, bat : Nat]
        \cup [kind : {"begin", "commit", "abort"}, ts : Nat]
        \cup [kind : {"ckpt"}, ts : Nat, batch : Nat]

SSTable == [ents : SUBSET Entry, aborted : SUBSET Nat]

Metadata == [seq : Nat, source_table_id : Nat, aborted : SUBSET Nat]

FlushWorker ==
    [pc : {"idle", "popped", "written", "published", "recorded", "logged"}, mt : Nat]

WriterState ==
    [pc : {"idle", "flush", "abort1", "abort2", "abort3"}]
        \cup [pc : {"logged"}, ent : Entry]
        \cup [pc : {"commit"}, rec : Nat]

\* (due, open, listed, lost and gap are history: see ReadStart.)
ReaderState ==
    [pc : {"idle"}]
        \cup [pc : {"started"}, key : Keys, ts : Nat, open : Nat, listed : SUBSET Nat,
              due : SUBSET Entry]
        \cup [pc : {"snapshot", "tables"}, key : Keys, ts : Nat, open : Nat, due : SUBSET Entry,
              active : Nat, frozen : Seq(Nat), lost : SUBSET Nat, gap : SUBSET Nat]
        \cup [pc : {"done"}, open : Nat, due : SUBSET Entry, hit : SUBSET Entry,
              lost : SUBSET Nat, gap : SUBSET Nat]

Empty == [ents |-> << >>, aborted |-> {}]
NoTable == 0
Idle == [pc |-> "idle"]

active == Len(mem)

Bag(s) == {s[i] : i \in DOMAIN s}

Init ==
    /\ global_ts = 0
    /\ batch_in_progress = FALSE /\ batch_ts = 0 /\ batch_touched = FALSE
    /\ log = << >> /\ durable = 0
    /\ mem = <<Empty>> /\ frozen = << >> /\ pending = 0
    /\ fl = [pc |-> "idle", mt |-> NoTable]
    /\ files = << >> /\ tables = << >> /\ manifest = [adds |-> << >>, aborts |-> {}]
    /\ op = Idle /\ rd = Idle
    /\ recovering = FALSE /\ replay = {}
    /\ writes = 0 /\ batches = 0 /\ crashes = 0
    /\ applied = {} /\ committed = {} /\ spilled = {} /\ exposed = {} /\ promised = {}

Running == ~recovering
-----------------------------------------------------------------------------
(* The memtable and the SSTable, as the engine uses them.                  *)

\* BPlusTree::Insert puts an entry in front of the others of its key.
TreeInsert(m, e) == [m EXCEPT !.ents = <<e>> \o @]

\* The entries of key k a lookup at read_ts may return, by position.
Visible(ents, aborted, k, read_ts) ==
    {i \in DOMAIN ents : ents[i].key = k /\ ents[i].ts <= read_ts /\ ents[i].ts \notin aborted}

\* BPlusTree::Lookup: the version inserted last, a tombstone counting as no hit.
MemLookup(m, k, read_ts) ==
    LET S == Visible(m.ents, m.aborted, k, read_ts)
    IN  {m.ents[i] : i \in {j \in S : (\A n \in S : j <= n) /\ m.ents[j].form # "tomb"}}


\* SSTable::WriteFromWalk: of each key the entry with the largest timestamp, of two
\* such the one inserted last; aborted entries are skipped.
WriteFromWalk(m) ==
    LET live == {i \in DOMAIN m.ents : m.ents[i].ts \notin m.aborted}
    IN  {m.ents[i] : i \in {j \in live :
            \A n \in live : m.ents[n].key = m.ents[j].key =>
                \/ m.ents[n].ts < m.ents[j].ts
                \/ m.ents[n].ts = m.ents[j].ts /\ j <= n}}

\* SSTable::LookupKey: filters with the aborted set stored in the file.
LookupKey(f, k, read_ts) ==
    {e \in f.ents : e.key = k /\ e.ts <= read_ts /\ e.ts \notin f.aborted}

-----------------------------------------------------------------------------
(* Insert, Delete, BatchInsert and BatchDelete: stamp and log, then insert *)
(* into the active memtable and freeze it when it is full.                 *)

Log(r) == log' = Append(log, r)

\* A delete is logged as an empty value.
PutRecord(e) == [kind |-> "put", key |-> e.key, ts |-> e.ts, id |-> e.id, bat |-> e.bat,
                 form |-> IF e.form = "tomb" THEN "empty" ELSE e.form]

Write(k, form, bat) ==
    /\ Running
    /\ op = Idle
    /\ writes < MaxWrites
    /\ IF bat THEN /\ batch_in_progress
                   /\ batch_touched' = TRUE
                   /\ UNCHANGED global_ts
              ELSE /\ batch_in_progress => global_ts + 1 <= batch_ts
                   /\ global_ts' = global_ts + 1
                   /\ UNCHANGED batch_touched
    /\ writes' = writes + 1
    /\ op' = [pc |-> "logged",
              ent |-> [key |-> k, form |-> form, id |-> writes + 1,
                       ts |-> IF bat THEN batch_ts ELSE global_ts + 1,
                       bat |-> IF bat THEN batches ELSE 0]]
    /\ Log(PutRecord(op'.ent))
    /\ exposed' = IF pending > 0 THEN exposed \cup {writes + 1} ELSE exposed
    /\ UNCHANGED <<batch_in_progress, batch_ts, durable, mvars, fl, tvars, rd, rvars,
                   batches, crashes, applied, committed, spilled, promised>>

Insert(k) == Write(k, "val", FALSE)

Delete(k) == "normal" \in Deletes /\ Write(k, "tomb", FALSE)

BatchInsert(k) == Write(k, "val", TRUE)

BatchDelete(k) == "batch" \in Deletes /\ Write(k, "tomb", TRUE)

IsFull(m) == Len(m.ents) >= Cap

Freeze(m) ==
    /\ frozen' = Append(frozen, active)
    /\ pending' = pending + 1
    /\ mem' = Append([mem EXCEPT ![active] = m], Empty)

Apply ==
    /\ op.pc = "logged"
    /\ LET m == TreeInsert(mem[active], op.ent)
       IN  IF IsFull(m) THEN Freeze(m)
                        ELSE mem' = [mem EXCEPT ![active] = m] /\ UNCHANGED <<frozen, pending>>
    /\ applied' = applied \cup {op.ent}
    /\ promised' = promised \cup {[key |-> op.ent.key, id |-> op.ent.id]}
    /\ op' = Idle
    /\ UNCHANGED <<global_ts, bvars, log, durable, fl, tvars, rd, rvars, cvars,
                   committed, spilled, exposed>>

\* Flush: freeze the active memtable and wait until no flush is pending.
Flush ==
    /\ Running
    /\ op = Idle
    /\ mem[active].ents # << >>
    /\ Freeze(mem[active])
    /\ op' = [pc |-> "flush"]
    /\ UNCHANGED <<global_ts, bvars, log, durable, fl, tvars, rd, rvars, cvars, hvars>>

WaitForPendingFlushes ==
    /\ op.pc = "flush"
    /\ pending = 0
    /\ op' = Idle
    /\ UNCHANGED <<global_ts, bvars, log, durable, mvars, fl, tvars, rd, rvars, cvars, hvars>>

\* The sync worker, or any forced Sync.
Sync ==
    /\ Running
    /\ durable < Len(log)
    /\ durable' = Len(log)
    /\ UNCHANGED <<global_ts, bvars, log, mvars, fl, tvars, op, rd, rvars, cvars, hvars>>

-----------------------------------------------------------------------------
(* FlushWorkerLoop.  While the worker holds a memtable it is in none of    *)
(* the engine's lists until the table is published.                        *)

\* Mutant: the flush stops being pending when it starts.
FlushPopDone ==
    /\ Running
    /\ fl.pc = "idle"
    /\ pending > 0
    /\ fl' = [pc |-> "popped", mt |-> Head(frozen)]
    /\ frozen' = Tail(frozen)
    /\ pending' = pending - 1
    /\ UNCHANGED <<global_ts, bvars, log, durable, mem, tvars, op, rd, rvars, cvars, hvars>>

FlushPop ==
    /\ Running
    /\ fl.pc = "idle"
    /\ pending > 0
    /\ IF frozen = << >>
       THEN /\ fl' = [pc |-> "logged", mt |-> NoTable]
            /\ UNCHANGED <<frozen, spilled>>
       ELSE /\ fl' = [pc |-> "popped", mt |-> Head(frozen)]
            /\ frozen' = Tail(frozen)
            /\ spilled' = IF /\ batch_in_progress
                             /\ \E e \in Bag(mem[Head(frozen)].ents) : e.bat = batches
                          THEN spilled \cup {batches} ELSE spilled
    /\ UNCHANGED <<global_ts, bvars, log, durable, mem, pending, tvars, op, rd, rvars,
                   cvars, applied, committed, exposed, promised>>

Unpublished == IF fl.pc \in {"popped", "written"} THEN {fl.mt} ELSE {}

File(m) == [ents |-> WriteFromWalk(m), aborted |-> m.aborted]

\* DoFlush, in its three effects: the file, the metadata, the manifest.
FlushWrite ==
    /\ fl.pc = "popped"
    /\ files' = Append(files, File(mem[fl.mt]))
    /\ fl' = [fl EXCEPT !.pc = "written"]
    /\ UNCHANGED <<global_ts, bvars, log, durable, mvars, tables, manifest, op, rd, rvars,
                   cvars, hvars>>

FlushPublish ==
    /\ fl.pc = "written"
    /\ tables' = Append(tables, [seq |-> Len(files), source_table_id |-> fl.mt,
                                 aborted |-> files[Len(files)].aborted])
    /\ fl' = [fl EXCEPT !.pc = "published"]
    /\ UNCHANGED <<global_ts, bvars, log, durable, mvars, files, manifest, op, rd, rvars,
                   cvars, hvars>>

FlushManifest ==
    /\ fl.pc = "published"
    /\ manifest' = [manifest EXCEPT !.adds = Append(@, Len(files))]
    /\ fl' = [fl EXCEPT !.pc = "recorded"]
    /\ UNCHANGED <<global_ts, bvars, log, durable, mvars, files, tables, op, rd, rvars,
                   cvars, hvars>>

CheckpointRecord(ts) ==
    [kind |-> "ckpt", ts |-> ts, batch |-> IF batch_in_progress THEN batch_ts ELSE 0]

\* DeferRecycle and DrainRecyclePending find nothing to erase: the memtable left
\* frozen_memtables_ when it was popped.
FlushCheckpoint ==
    /\ fl.pc = "recorded"
    /\ Log(CheckpointRecord(global_ts))
    /\ fl' = [fl EXCEPT !.pc = "logged"]
    /\ UNCHANGED <<global_ts, bvars, durable, mvars, tvars, op, rd, rvars, cvars, hvars>>

\* Mutant: pending is not counted down.
FlushDonePending ==
    /\ fl.pc = "logged"
    /\ fl' = [pc |-> "idle", mt |-> NoTable]
    /\ UNCHANGED <<global_ts, bvars, log, durable, mvars, tvars, op, rd, rvars, cvars, hvars>>

FlushDone ==
    /\ fl.pc = "logged"
    /\ pending' = IF pending > 0 THEN pending - 1 ELSE 0
    /\ fl' = [pc |-> "idle", mt |-> NoTable]
    /\ UNCHANGED <<global_ts, bvars, log, durable, mem, frozen, tvars, op, rd, rvars,
                   cvars, hvars>>

-----------------------------------------------------------------------------
(* Batches.                                                                *)

StartBatch ==
    /\ Running
    /\ op = Idle
    /\ ~batch_in_progress
    /\ batches < MaxBatches
    /\ batches' = batches + 1
    /\ batch_ts' = global_ts + Gap
    /\ batch_in_progress' = TRUE
    /\ batch_touched' = FALSE
    /\ Log([kind |-> "begin", ts |-> global_ts + Gap])
    /\ UNCHANGED <<global_ts, durable, mvars, fl, tvars, op, rd, rvars, writes, crashes, hvars>>

CommitBatch ==
    /\ Running
    /\ op = Idle
    /\ batch_in_progress
    /\ Log([kind |-> "commit", ts |-> batch_ts])
    /\ op' = [pc |-> "commit", rec |-> Len(log) + 1]
    /\ UNCHANGED <<global_ts, bvars, durable, mvars, fl, tvars, rd, rvars, cvars, hvars>>

\* CommitBatch has waited until its record is synced.
CommitDone ==
    /\ op.pc = "commit"
    /\ durable >= op.rec
    /\ global_ts' = batch_ts + 1
    /\ batch_in_progress' = FALSE
    /\ committed' = committed \cup {batches}
    /\ op' = Idle
    /\ UNCHANGED <<batch_ts, batch_touched, log, durable, mvars, fl, tvars, rd, rvars,
                   cvars, applied, spilled, exposed, promised>>

\* AbortBatch: the abort record, synced; the manifest record; the marks on the
\* memtables; the marks on the metadata.
AbortLog ==
    /\ Running
    /\ Aborts
    /\ op = Idle
    /\ batch_in_progress
    /\ IF batch_touched
       THEN /\ Log([kind |-> "abort", ts |-> batch_ts])
            /\ durable' = Len(log')
            /\ op' = [pc |-> "abort1"]
            /\ UNCHANGED batch_in_progress
       ELSE /\ batch_in_progress' = FALSE
            /\ UNCHANGED <<log, durable, op>>
    /\ UNCHANGED <<global_ts, batch_ts, batch_touched, mvars, fl, tvars, rd, rvars, cvars, hvars>>

AbortManifest ==
    /\ op.pc = "abort1"
    /\ manifest' = [manifest EXCEPT !.aborts = @ \cup {[ts |-> batch_ts, fence |-> Len(files)]}]
    /\ op' = [pc |-> "abort2"]
    /\ UNCHANGED <<global_ts, bvars, log, durable, mvars, fl, files, tables, rd, rvars,
                   cvars, hvars>>

\* Mutant: the frozen memtables are forgotten.
AbortActive ==
    /\ op.pc = "abort2"
    /\ mem' = [mem EXCEPT ![active].aborted = @ \cup {batch_ts}]
    /\ op' = [pc |-> "abort3"]
    /\ UNCHANGED <<global_ts, bvars, log, durable, frozen, pending, fl, tvars, rd, rvars,
                   cvars, hvars>>

AbortMemTables ==
    /\ op.pc = "abort2"
    /\ mem' = [n \in DOMAIN mem |->
                 IF n \in Bag(frozen) \cup {active}
                 THEN [mem[n] EXCEPT !.aborted = @ \cup {batch_ts}] ELSE mem[n]]
    /\ op' = [pc |-> "abort3"]
    /\ UNCHANGED <<global_ts, bvars, log, durable, frozen, pending, fl, tvars, rd, rvars,
                   cvars, hvars>>

AbortTables ==
    /\ op.pc = "abort3"
    /\ tables' = [n \in DOMAIN tables |-> [tables[n] EXCEPT !.aborted = @ \cup {batch_ts}]]
    /\ batch_in_progress' = FALSE
    /\ op' = Idle
    /\ UNCHANGED <<global_ts, batch_ts, batch_touched, log, durable, mvars, fl, files,
                   manifest, rd, rvars, cvars, hvars>>

-----------------------------------------------------------------------------
(* Lookup, when the KV cache misses.                                       *)

\* The memtables a reader can find.
Listed == Bag(frozen) \cup {active}

\* (due, open, listed, lost and gap are history: what a correct answer must cover,
\* the open batch, the memtables at the start, those popped since, and whether
\* the flush worker holds one that is not published yet.)
ReadStart(k) ==
    /\ Running
    /\ Reader
    /\ rd = Idle
    /\ rd' = [pc |-> "started", key |-> k, ts |-> global_ts,
              open |-> IF batch_in_progress THEN batches ELSE 0, listed |-> Listed,
              due |-> {e \in applied : /\ e.key = k /\ e.ts <= global_ts
                                       /\ e.bat \in committed \cup {0}}]
    /\ UNCHANGED <<global_ts, bvars, log, durable, mvars, fl, tvars, op, rvars, cvars, hvars>>

\* The memtables, under memtable_mutex_.
ReadSnapshot ==
    /\ rd.pc = "started"
    /\ rd' = [pc |-> "snapshot", key |-> rd.key, ts |-> rd.ts, open |-> rd.open, due |-> rd.due,
              active |-> active, frozen |-> frozen,
              lost |-> rd.listed \ Listed, gap |-> Unpublished]
    /\ UNCHANGED <<global_ts, bvars, log, durable, mvars, fl, tvars, op, rvars, cvars, hvars>>

Done(hit, gap) ==
    rd' = [pc |-> "done", open |-> rd.open, due |-> rd.due, hit |-> hit,
           lost |-> rd.lost, gap |-> gap]

\* The first of a sequence of results that is a hit.
FirstHit(results) ==
    LET S == {i \in DOMAIN results : results[i] # {}}
    IN  UNION {results[i] : i \in {j \in S : \A n \in S : j <= n}}

\* Active first, then the frozen ones from the newest.
SearchMemTables ==
    LET n == Len(rd.frozen)
        order == [i \in 1..(n + 1) |-> IF i = 1 THEN rd.active ELSE rd.frozen[n + 2 - i]]
    IN  FirstHit([i \in DOMAIN order |-> MemLookup(mem[order[i]], rd.key, rd.ts)])

ReadMemTables ==
    /\ rd.pc = "snapshot"
    /\ IF SearchMemTables # {} THEN Done(SearchMemTables, {})
                               ELSE rd' = [rd EXCEPT !.pc = "tables"]
    /\ UNCHANGED <<global_ts, bvars, log, durable, mvars, fl, tvars, op, rvars, cvars, hvars>>

\* The tables from the newest, without those of the memtables just searched.
SearchTables ==
    LET n == Len(tables)
    IN  FirstHit([i \in 1..n |->
            IF tables[n + 1 - i].source_table_id \in Bag(rd.frozen) THEN {}
            ELSE LookupKey(files[tables[n + 1 - i].seq], rd.key, rd.ts)])

ReadTables ==
    /\ rd.pc = "tables"
    /\ Done(SearchTables, rd.gap \cap Unpublished)
    /\ UNCHANGED <<global_ts, bvars, log, durable, mvars, fl, tvars, op, rvars, cvars, hvars>>

ReadReturn ==
    /\ rd.pc = "done"
    /\ rd' = Idle
    /\ UNCHANGED <<global_ts, bvars, log, durable, mvars, fl, tvars, op, rvars, cvars, hvars>>

-----------------------------------------------------------------------------
(* A crash of the process: the buffered records are lost, and of a Sync in *)
(* progress any part may have been written.  Then the constructor and      *)
(* RecoverFromWAL.                                                         *)

\* Manifest::Recover and ReadMetadata: the tables in the order of their records; the
\* aborted set is the file's, the manifest's is overwritten.  source_table_id is
\* not stored: it is 0, the first memtable's id.
RecoverTables ==
    [i \in DOMAIN manifest.adds |-> [seq |-> manifest.adds[i], source_table_id |-> 1,
                                     aborted |-> files[manifest.adds[i]].aborted]]

Recovered(r) == [key |-> r.key, ts |-> r.ts, form |-> r.form, id |-> r.id, bat |-> r.bat]

Crash ==
    /\ crashes < MaxCrashes
    /\ crashes' = crashes + 1
    /\ \E n \in IF Running THEN durable..Len(log) ELSE {durable} :
         LET L == SubSeq(log, 1, n)
             T == RecoverTables
             A == AbortedBatches(L)
             P == Replayed(L)
         IN  /\ log' = L
             /\ durable' = n
             /\ global_ts' = CheckpointTs(L)
             /\ mem' = <<[Empty EXCEPT !.aborted = A]>>
             /\ tables' = [i \in DOMAIN T |-> [T[i] EXCEPT !.aborted = @ \cup A]]
             /\ files' = SubSeq(files, 1, Len(T))
             /\ replay' = P
             /\ recovering' = (P # {})
             /\ promised' = {[key |-> L[i].key, id |-> L[i].id] :
                               i \in {j \in 1..n : L[j].kind = "put"}}
             /\ applied' = {Recovered(L[i]) : i \in P} \cup UNION {files[T[i].seq].ents : i \in DOMAIN T}
    /\ frozen' = << >> /\ pending' = 0
    /\ fl' = [pc |-> "idle", mt |-> NoTable]
    /\ op' = Idle /\ rd' = Idle
    /\ batch_in_progress' = FALSE /\ batch_ts' = 0 /\ batch_touched' = FALSE
    /\ UNCHANGED <<manifest, writes, batches, committed, spilled, exposed>>

\* DoFlush of the memtable m during recovery, when nothing else runs.
RecoverFlush(m) ==
    /\ files' = Append(files, File(m))
    /\ tables' = Append(tables, [seq |-> Len(files) + 1, source_table_id |-> active,
                                 aborted |-> m.aborted])
    /\ manifest' = [manifest EXCEPT !.adds = Append(@, Len(files) + 1)]

Later(a, b) == IF a < b THEN b ELSE a

NextReplayed == CHOOSE i \in replay : \A j \in replay : i <= j

RecoverInsert ==
    /\ ~Running
    /\ replay # {}
    /\ LET e == Recovered(log[NextReplayed])
           m == TreeInsert(mem[active], e)
       IN  /\ global_ts' = Later(global_ts, e.ts)
           /\ IF IsFull(m)
              THEN /\ mem' = Append([mem EXCEPT ![active] = m], Empty)
                   /\ RecoverFlush(m)
                   /\ Log(CheckpointRecord(global_ts'))
              ELSE /\ mem' = [mem EXCEPT ![active] = m]
                   /\ UNCHANGED <<tvars, log>>
    /\ replay' = replay \ {NextReplayed}
    /\ UNCHANGED <<recovering, bvars, durable, frozen, pending, fl, op, rd, cvars, hvars>>

\* Mutant: a checkpoint without the last flush.
RecoverEndUnflushed ==
    /\ ~Running
    /\ replay = {}
    /\ Log(CheckpointRecord(global_ts))
    /\ durable' \in {durable, Len(log')}
    /\ recovering' = FALSE
    /\ UNCHANGED <<replay, global_ts, bvars, mvars, tvars, fl, op, rd, cvars, hvars>>

\* The last flush, the checkpoint, and a Sync that is not forced and may do nothing.
RecoverEnd ==
    /\ ~Running
    /\ replay = {}
    /\ IF mem[active].ents = << >> THEN UNCHANGED <<mem, tvars>>
       ELSE /\ mem' = Append(mem, Empty)
            /\ RecoverFlush(mem[active])
    /\ Log(CheckpointRecord(global_ts))
    /\ durable' \in {durable, Len(log')}
    /\ recovering' = FALSE
    /\ UNCHANGED <<replay, global_ts, bvars, frozen, pending, fl, op, rd, cvars, hvars>>

-----------------------------------------------------------------------------
WriterStep ==
    \/ \E k \in Keys : Insert(k) \/ Delete(k) \/ BatchInsert(k) \/ BatchDelete(k)
    \/ Apply \/ Flush \/ WaitForPendingFlushes
    \/ StartBatch \/ CommitBatch \/ CommitDone
    \/ AbortLog \/ AbortManifest \/ AbortMemTables \/ AbortTables

FlushWorkerStep ==
    FlushPop \/ FlushWrite \/ FlushPublish \/ FlushManifest \/ FlushCheckpoint \/ FlushDone

ReaderStep ==
    (\E k \in Keys : ReadStart(k)) \/ ReadSnapshot \/ ReadMemTables \/ ReadTables \/ ReadReturn

Next ==
    WriterStep \/ Sync \/ FlushWorkerStep \/ ReaderStep \/ Crash \/ RecoverInsert \/ RecoverEnd

Spec == Init /\ [][Next]_vars

\* The worker threads run; the writer finishes the operation it is in.
Fairness ==
    /\ WF_vars(FlushWorkerStep)
    /\ WF_vars(Sync)
    /\ WF_vars(Apply \/ WaitForPendingFlushes \/ CommitDone)
    /\ WF_vars(AbortManifest \/ AbortMemTables \/ AbortTables)

FairSpec == Spec /\ Fairness

-----------------------------------------------------------------------------
(* Properties.                                                             *)

\* Every list names objects that exist: published tables and the manifest their files,
\* frozen_memtables_, the flush worker and the reader's snapshot their memtables,
\* the replay its log records.
TypeOK ==
    /\ {global_ts, batch_ts, pending, writes, batches, crashes} \subseteq Nat
    /\ {batch_in_progress, batch_touched, recovering} \subseteq BOOLEAN
    /\ log \in Seq(LogRecord) /\ durable \in 0..Len(log)
    /\ replay \subseteq {i \in DOMAIN log : log[i].kind = "put"}
    /\ mem \in Seq(MemTable) /\ mem # << >>
    /\ frozen \in Seq(DOMAIN mem)
    /\ fl \in FlushWorker /\ fl.mt \in DOMAIN mem \cup {NoTable}
    /\ files \in Seq(SSTable)
    /\ tables \in Seq(Metadata) /\ \A n \in DOMAIN tables : tables[n].seq \in DOMAIN files
    /\ manifest \in [adds : Seq(DOMAIN files), aborts : SUBSET [ts : Nat, fence : Nat]]
    /\ op \in WriterState
    /\ rd \in ReaderState
    /\ rd.pc \in {"snapshot", "tables"} => rd.frozen \in Seq(DOMAIN mem) /\ rd.active \in DOMAIN mem
    /\ applied \subseteq Entry
    /\ {committed, spilled, exposed} \subseteq SUBSET Nat
    /\ promised \subseteq [key : Keys, id : Nat]

\* A lookup never returns a version that is older, by write order and by timestamp
\* both, than one of its key whose write was complete, and committed, when the lookup
\* took its timestamp; nor misses the key then.
ReadFresh ==
    rd.pc = "done" =>
        \A e \in rd.due :
            \/ \E h \in rd.hit : h.id >= e.id \/ h.ts > e.ts
            \/ /\ rd.hit = {}
               /\ \E d \in applied : d.form = "tomb" /\ d.key = e.key /\ d.id >= e.id

\* The same for the lookups that had not to do without a memtable the flush worker
\* held, in none of the engine's lists.
ReadFreshUnlessPopped == rd.pc = "done" /\ rd.gap = {} => ReadFresh

\* A normal write has the timestamp of a batch that is not committed: the last write
\* the gap admits gets it, and an abort of the batch then hides the write as well.
Collided ==
    \E e, b \in applied : e.bat = 0 /\ b.bat \notin committed \cup {0} /\ e.ts = b.ts


\* When no flush is pending, the frozen memtables are all in tables the manifest
\* lists, and their checkpoints in the log: what Flush and the waiters for
\* pending flushes rely on.
QuiescentMeansFlushed ==
    Running /\ pending = 0 =>
        /\ frozen = << >> /\ fl.pc = "idle"
        /\ \A n \in 1..(active - 1) :
             \E t \in DOMAIN tables :
                /\ tables[t].source_table_id = n
                /\ tables[t].seq \in Bag(manifest.adds)
        /\ Cardinality({i \in DOMAIN log : log[i].kind = "ckpt"}) >= active - 1

\* Everything the engine holds in memory or in a table.
Stored ==
    (UNION ({Bag(mem[n].ents) : n \in (Bag(frozen) \cup {active, fl.mt}) \ {NoTable}}
            \cup {files[tables[t].seq].ents : t \in DOMAIN tables}))
    \cup {Recovered(log[i]) : i \in replay}

Held(p) == \E e \in Stored : e.key = p.key /\ e.id >= p.id

\* A write whose log record a Sync wrote survives a crash, in memory or in a table,
\* unless a newer one of its key does.
Retained == \A p \in promised : Held(p)

\* The same for the writes logged while no flush was pending.
RetainedUnlessExposed == \A p \in promised : p.id \notin exposed => Held(p)

\* After recovery every entry of a recovered table is at or below the clock, so that
\* lookups see it.
TablesVisible ==
    Running /\ crashes > 0 /\ ~batch_in_progress =>
        \A t \in DOMAIN tables : \A e \in files[tables[t].seq].ents : e.ts <= global_ts

\* No lookup that starts after an abort returns an entry of the aborted batch.
AbortHidden ==
    rd.pc = "done" => \A h \in rd.hit : h.bat \in committed \cup {0, rd.open}

\* The same for a batch whose entries were all still in memory lists at the abort.
AbortHiddenUnlessSpilled ==
    rd.pc = "done" => \A h \in rd.hit : h.bat \in committed \cup spilled \cup {0, rd.open}

\* A value that a complete delete supersedes is not returned.
DeletedStaysDeleted ==
    rd.pc = "done" =>
        \A h \in rd.hit, d \in rd.due : d.form = "tomb" /\ h.form = "val" => h.id > d.id

\* A call of Flush returns.
FlushReturns == op.pc = "flush" ~> op = Idle
=============================================================================
