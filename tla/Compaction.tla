----------------------------- MODULE Compaction -----------------------------
(***************************************************************************)
(* The tables of the engine once they are written: DoFlush publishing      *)
(* them, CompactionWorkerLoop and ManualCompact merging them level by      *)
(* level, the MANIFEST that records both, the block cache that all readers *)
(* share, the deletion of merged files, and a restart.                     *)
(*                                                                         *)
(* A table is named by the number in its file name; its manifest_seq is    *)
(* what the metadata in memory holds, 0 for the output of a compaction.    *)
(* Memtables and the WAL are in Engine.tla; a flush here takes a memtable  *)
(* with one of Contents.  Readers that overlap a swap are in Reclaim.tla;  *)
(* a lookup or a scan here is one step.  The merge is one step as well:    *)
(* files do not change under it.                                           *)
(***************************************************************************)
EXTENDS SSTables

CONSTANTS
    Contents,    \* what a memtable may hold: functions from keys to Forms
    kMaxLevel,   \* Config::kMaxLevel
    Threshold,   \* Config::kDefaultCompactionThreshold
    OutCap,      \* max_sst, in entries
    SeqBlock,    \* the numbers a compaction reserves (64)
    Gap,         \* batch_increment_gap_
    MaxFlushes,  \* bound on flushes
    MaxManual,   \* bound on calls of ManualCompact
    MaxReads,    \* bound on the reads that change the cache
    MaxEvents,   \* bound on evictions and batches, together
    MaxCrashes   \* bound on restarts

Forms == {"put", "del", "batch"}

ASSUME CompactionAssumption ==
    /\ {kMaxLevel, OutCap, SeqBlock} \subseteq Nat \ {0}
    /\ Threshold \in Nat \ {0, 1}
    /\ \A c \in Contents : c # << >> /\ DOMAIN c \subseteq Keys /\ \A k \in DOMAIN c : c[k] \in Forms

VARIABLES
    global_ts, sstable_seq,
    disk,        \* the files, by the number in their names
    tables,      \* sstable_metadata_
    manifest,    \* the records of the MANIFEST file
    tmp,         \* the records of MANIFEST.tmp
    cache,       \* the block cache
    pending_gc,  \* pending_gc_
    fl,          \* DoFlush in progress
    wk,          \* the top level the worker found, or none
    comp,        \* CompactLevel in progress, under compaction_mutex_
    batch,       \* batch_ts_ while a batch is open, else 0
    mode,        \* "up", "down", or "opening": Manifest::Compact is replacing the file
    bounds,      \* the counters of the bounds
    aborted,     \* the timestamps of aborted batches, as the WAL has them
    batches,     \* history: the timestamps of all batches
    poisoned,    \* history: the numbers a scan cached blocks under while partly cached
    expect,      \* history: the names of the recorded tables when the engine went down
    excused      \* history: why a restart may not find or keep its tables

tvars == <<global_ts, sstable_seq, disk, tables, manifest, tmp, mode>>
hvars == <<aborted, batches, poisoned, expect, excused>>
vars == <<tvars, cache, pending_gc, fl, wk, comp, batch, bounds, hvars>>

None == -1
IdleFlush == [pc |-> "idle"]
IdleComp == [pc |-> "idle"]

Table(name, seq, level, marks) == [name |-> name, seq |-> seq, level |-> level, aborted |-> marks]

NoFile == [ents |-> << >>, aborted |-> {}]

\* A file that is gone is skipped: the readers swallow the exception.
File(name) == IF name \in DOMAIN disk THEN disk[name] ELSE NoFile

Write(d, name, f) == [n \in DOMAIN d \cup {name} |-> IF n = name THEN f ELSE d[n]]

Count(T, l) == Cardinality({i \in DOMAIN T : T[i].level = l})

MaxTs == global_ts + Gap

-----------------------------------------------------------------------------
(* Reference: what a table holds, read without index and cache.            *)

Versions(t, k, read_ts) ==
    {e \in {File(t.name).ents[i] : i \in DOMAIN File(t.name).ents} :
        e.key = k /\ e.ts <= read_ts /\ e.ts \notin t.aborted}

Newest(T, k, read_ts) ==
    LET V == UNION {Versions(T[i], k, read_ts) : i \in DOMAIN T}
    IN  {e \in V : \A d \in V : d.ts <= e.ts}

Holds(t, k) == k \in KeysOf(File(t.name))

-----------------------------------------------------------------------------
(* DoFlush: the file and its blocks in the cache, then the metadata, then  *)
(* the MANIFEST record.                                                    *)

\* The entries of a memtable: the plain writes take the next timestamps, in the order
\* of their keys, the batch's all have batch_ts_.
Plain(c) == {k \in DOMAIN c : c[k] # "batch"}

Memtable(c) ==
    LET ks == SetToSortSeq(DOMAIN c, <)
    IN  [i \in DOMAIN ks |->
            [key  |-> ks[i],
             ts   |-> IF c[ks[i]] = "batch" THEN batch
                      ELSE global_ts + Cardinality({k \in Plain(c) : k <= ks[i]}),
             tomb |-> c[ks[i]] = "del"]]

\* WriteFromWalk and UpdateSSTableMetadata; no other thread knows the file in between.
FlushWrite(c) ==
    /\ mode = "up" /\ fl = IdleFlush
    /\ bounds.flushes < MaxFlushes
    /\ (\E k \in DOMAIN c : c[k] = "batch") => batch # 0
    /\ batch # 0 => global_ts + Cardinality(Plain(c)) <= batch
    /\ LET f == [ents |-> Memtable(c), aborted |-> {}]
           t == Table(sstable_seq, sstable_seq, 0, {})
       IN  /\ disk' = Write(disk, sstable_seq, f)
           /\ cache' = FillAll(cache, sstable_seq, f)
           /\ tables' = Append(tables, t)
           /\ fl' = [pc |-> "published", table |-> t]
    /\ global_ts' = global_ts + Cardinality(Plain(c))
    /\ sstable_seq' = sstable_seq + 1
    /\ bounds' = [bounds EXCEPT !.flushes = @ + 1]
    /\ UNCHANGED <<manifest, tmp, mode, pending_gc, wk, comp, batch, hvars>>

AddRecord(seq, t) == [type |-> "add", seq |-> seq, name |-> t.name, level |-> t.level]
RemoveRecord(seq) == [type |-> "remove", seq |-> seq]
AbortRecord(ts, seq) == [type |-> "abort", ts |-> ts, seq |-> seq]

FlushManifest ==
    /\ mode = "up" /\ fl.pc = "published"
    /\ manifest' = Append(manifest, AddRecord(fl.table.seq, fl.table))
    /\ fl' = IdleFlush
    /\ UNCHANGED <<global_ts, sstable_seq, disk, tables, tmp, mode, cache, pending_gc, wk, comp,
                   batch, bounds, hvars>>

-----------------------------------------------------------------------------
(* CompactLevel, called under compaction_mutex_.                           *)

Inputs(from, top) == SelectSeq(tables, LAMBDA t : from <= t.level /\ t.level <= top)

\* The order of the sources: the tables of level 0, then those of each level.
SourceOrder(ins) ==
    FlattenSeq([l \in 1..(kMaxLevel + 1) |-> SelectSeq(ins, LAMBDA t : t.level = l - 1)])

Marks(ins) == UNION {ins[i].aborted : i \in DOMAIN ins}

Sources(ins) ==
    LET o == SourceOrder(ins)
    IN  [i \in DOMAIN o |-> Yield(File(o[i].name), o[i].seq, cache, Marks(ins))]

\* Why the outputs may not hold what the inputs did: an input is read past a gap in its
\* cached blocks; a tombstone is dropped and ends the merge; an aborted entry of a block
\* of aborted ones is merged; a plain write that took batch_ts_ meets another input's mark.
Flawed(ins, to) ==
    \E i \in DOMAIN ins :
        LET f == File(ins[i].name)
        IN  \/ PartlyCached(f, ins[i].seq, cache) \/ ins[i].seq \in poisoned
            \/ to = kMaxLevel /\ \E j \in DOMAIN f.ents : f.ents[j].tomb
            \/ BlockAborted(f, Marks(ins))
            \/ \E j \in DOMAIN f.ents : f.ents[j].ts \in Marks(ins) \ ins[i].aborted


Reserved == SeqBlock

\* The snapshot, the reserved numbers, the merge and the files it writes.  visible_ts
\* is global_ts_; the tables of the level written to are not among the inputs.  Without
\* any entry to merge the inputs are not listed as garbage.
CompactLevel(from, top) ==
    LET ins == Inputs(from, top)
        to == top + 1
        is_last == to = kMaxLevel
        marks == IF is_last THEN {} ELSE Marks(ins)
        outs == Split(Merge(Sources(ins), global_ts, is_last), OutCap)
        names == sstable_seq..(sstable_seq + Len(outs) - 1)
    IN  IF to > kMaxLevel \/ ins = << >>
        THEN UNCHANGED <<comp, sstable_seq, disk>>
        ELSE /\ sstable_seq' = sstable_seq + Reserved
             /\ disk' = [n \in DOMAIN disk \cup names |->
                            IF n \in names
                            THEN [ents |-> outs[n - sstable_seq + 1], aborted |-> marks]
                            ELSE disk[n]]
             /\ comp' = [pc      |-> "merged",
                         ins     |-> ins,
                         outs    |-> [i \in DOMAIN outs |-> Table(sstable_seq + i - 1, 0, to, marks)],
                         garbage |-> IF AllRead(Sources(ins)) THEN << >> ELSE ins,
                         vts     |-> global_ts,
                         flawed  |-> Flawed(ins, to)]

\* UpdateSSTableMetadata: the inputs leave by their file names, the outputs go to the end.
CompactSwap ==
    /\ mode = "up" /\ comp.pc = "merged"
    /\ LET gone == {comp.ins[i].name : i \in DOMAIN comp.ins}
       IN  tables' = SelectSeq(tables, LAMBDA t : t.name \notin gone) \o comp.outs
    /\ comp' = [pc |-> "removing", left |-> Len(comp.ins), outs |-> comp.outs, garbage |-> comp.garbage]
    /\ UNCHANGED <<global_ts, sstable_seq, disk, manifest, tmp, mode, cache, pending_gc, fl, wk,
                   batch, bounds, hvars>>

\* One record for each input; the number in it is the counter's.
CompactRemove ==
    /\ mode = "up" /\ comp.pc = "removing"
    /\ manifest' = Append(manifest, RemoveRecord(sstable_seq))
    /\ comp' = IF comp.left > 1 THEN [comp EXCEPT !.left = @ - 1]
               ELSE [pc |-> "adding", outs |-> comp.outs, garbage |-> comp.garbage]
    /\ UNCHANGED <<global_ts, sstable_seq, disk, tables, tmp, mode, cache, pending_gc, fl, wk,
                   batch, bounds, hvars>>

CompactAdd ==
    /\ mode = "up" /\ comp.pc = "adding" /\ comp.outs # << >>
    /\ manifest' = Append(manifest, AddRecord(sstable_seq, Head(comp.outs)))
    /\ sstable_seq' = sstable_seq + 1
    /\ comp' = [comp EXCEPT !.outs = Tail(@)]
    /\ UNCHANGED <<global_ts, disk, tables, tmp, mode, cache, pending_gc, fl, wk, batch, bounds, hvars>>

\* Manifest::Sync, Invalidate and DeferFileGC for each merged file, and the unlock.
CompactEnd ==
    /\ mode = "up" /\ comp.pc = "adding" /\ comp.outs = << >>
    /\ LET G == {comp.garbage[i] : i \in DOMAIN comp.garbage}
       IN  /\ cache' = FoldSet(LAMBDA t, c : Invalidate(c, t.seq), cache, G)
           /\ pending_gc' = pending_gc \cup {[name |-> t.name, seq |-> t.seq] : t \in G}
    /\ comp' = IdleComp
    /\ UNCHANGED <<tvars, fl, wk, batch, bounds, hvars>>


\* DrainFileGC with no reader registered.
DrainFileGC ==
    /\ mode = "up" /\ pending_gc # {}
    /\ cache' = FoldSet(LAMBDA g, c : Invalidate(c, g.seq), cache, pending_gc)
    /\ disk' = Restrict(disk, DOMAIN disk \ {g.name : g \in pending_gc})
    /\ pending_gc' = {}
    /\ UNCHANGED <<global_ts, sstable_seq, tables, manifest, tmp, mode, fl, wk, comp, batch, bounds, hvars>>

\* The last of the levels from l on that are full without a gap, or l - 1.
FullRun(l, n) == Max({m \in (l - 1)..kMaxLevel : \A j \in l..m : Count(tables, j) >= n})

\* Mutant: the worker takes the level below the full ones.
WorkerCountNext ==
    /\ mode = "up" /\ wk = None
    /\ Count(tables, 0) >= Threshold
    /\ wk' = FullRun(1, Threshold) + 1
    /\ UNCHANGED <<tvars, cache, pending_gc, fl, comp, batch, bounds, hvars>>

\* CompactionWorkerLoop counts the tables; the lock and the merge come later.
WorkerCount ==
    /\ mode = "up" /\ wk = None
    /\ Count(tables, 0) >= Threshold
    /\ wk' = FullRun(1, Threshold)
    /\ UNCHANGED <<tvars, cache, pending_gc, fl, comp, batch, bounds, hvars>>

WorkerCompact ==
    /\ mode = "up" /\ wk # None
    /\ wk' = None
    /\ IF comp = IdleComp THEN CompactLevel(0, wk) ELSE UNCHANGED <<comp, sstable_seq, disk>>
    /\ UNCHANGED <<global_ts, tables, manifest, tmp, mode, cache, pending_gc, fl, batch, bounds, hvars>>

\* The counts are taken under the lock.
ManualCompact(min_sstables, from_level, cascade) ==
    /\ mode = "up" /\ comp = IdleComp
    /\ bounds.manual < MaxManual
    /\ min_sstables >= 2
    /\ LET full == {l \in from_level..kMaxLevel : Count(tables, l) >= min_sstables}
           trigger == Min(full)
           top == IF cascade THEN FullRun(trigger, min_sstables) ELSE trigger
       IN  full # {} /\ CompactLevel(trigger, top)
    /\ bounds' = [bounds EXCEPT !.manual = @ + 1]
    /\ UNCHANGED <<global_ts, tables, manifest, tmp, mode, cache, pending_gc, fl, wk, batch, hvars>>

-----------------------------------------------------------------------------
(* Lookup and RangeScan, over the tables.                                  *)


\* The tables in the order Lookup tries them: level 0 from the newest, then the rest.
LookupOrder ==
    Reverse(SelectSeq(tables, LAMBDA t : t.level = 0)) \o SelectSeq(tables, LAMBDA t : t.level # 0)

\* The answer and the cache afterwards; the bloom filter in the metadata is the table's.
Lookup(k) ==
    LET try(acc, t) ==
            IF acc.hit # {} \/ ~Holds(t, k) THEN acc
            ELSE LookupKey(File(t.name), t.seq, acc.cache, k, global_ts)
    IN  FoldLeft(try, [hit |-> {}, cache |-> cache], LookupOrder)

LookupFill(k) ==
    /\ mode = "up"
    /\ bounds.reads < MaxReads
    /\ cache' = Lookup(k).cache /\ cache' # cache
    /\ bounds' = [bounds EXCEPT !.reads = @ + 1]
    /\ UNCHANGED <<tvars, pending_gc, fl, wk, comp, batch, hvars>>

\* LevelIterator: the tables of a level one after the other, by their smallest key.
LevelChain(l) ==
    LET T == {t \in {tables[i] : i \in DOMAIN tables} : t.level = l /\ File(t.name).ents # << >>}
    IN  SetToSortSeq(T, LAMBDA a, b :
            \/ File(a.name).ents[1].key < File(b.name).ents[1].key
            \/ (File(a.name).ents[1].key = File(b.name).ents[1].key /\ a.name < b.name))

YieldOf(t) == Yield(File(t.name), t.seq, cache, t.aborted)

ScanSources ==
    LET l0 == SelectSeq(tables, LAMBDA t : t.level = 0)
    IN  [i \in DOMAIN l0 |-> YieldOf(l0[i])]
        \o [l \in 1..kMaxLevel |->
                FlattenSeq([i \in DOMAIN LevelChain(l) |-> YieldOf(LevelChain(l)[i])])]

Scan == RangeScan(ScanSources, global_ts)

\* A whole scan caches every block it reads from the files.
ScanFill ==
    /\ mode = "up"
    /\ bounds.reads < MaxReads
    /\ bounds' = [bounds EXCEPT !.reads = @ + 1]
    /\ cache' = FoldLeft(LAMBDA c, t : Populated(File(t.name), t.seq, c), cache, tables)
    /\ cache' # cache
    /\ poisoned' = poisoned \cup {t.seq : t \in {u \in {tables[i] : i \in DOMAIN tables} :
                                                   PartlyCached(File(u.name), u.seq, cache)}}
    /\ UNCHANGED <<tvars, pending_gc, fl, wk, comp, batch, aborted, batches, expect, excused>>

\* The LRU of the block cache drops a block or the metadata of a table.
Evict ==
    /\ mode = "up"
    /\ bounds.events < MaxEvents
    /\ \E c \in cache : cache' = cache \ {c}
    /\ bounds' = [bounds EXCEPT !.events = @ + 1]
    /\ UNCHANGED <<tvars, pending_gc, fl, wk, comp, batch, hvars>>
-----------------------------------------------------------------------------
(* Batches, as far as the tables see them.                                 *)

StartBatch ==
    /\ mode = "up" /\ batch = 0
    /\ bounds.events < MaxEvents
    /\ batch' = global_ts + Gap
    /\ batches' = batches \cup {batch'}
    /\ bounds' = [bounds EXCEPT !.events = @ + 1]
    /\ UNCHANGED <<tvars, cache, pending_gc, fl, wk, comp, aborted, poisoned, expect, excused>>

CommitBatch ==
    /\ mode = "up" /\ batch # 0
    /\ global_ts' = batch + 1
    /\ batch' = 0
    /\ UNCHANGED <<sstable_seq, disk, tables, manifest, tmp, mode, cache, pending_gc, fl, wk, comp,
                   bounds, hvars>>

\* The tables published so far are marked in memory, and the MANIFEST with them.  A
\* merge that runs has its marks already.
AbortBatch ==
    /\ mode = "up" /\ batch # 0
    /\ manifest' = Append(manifest, AbortRecord(batch, sstable_seq))
    /\ tables' = [i \in DOMAIN tables |-> [tables[i] EXCEPT !.aborted = @ \cup {batch}]]
    /\ aborted' = aborted \cup {batch}
    /\ batch' = 0
    /\ comp' = IF comp.pc = "merged" THEN [comp EXCEPT !.flawed = TRUE] ELSE comp
    /\ UNCHANGED <<global_ts, sstable_seq, disk, tmp, mode, cache, pending_gc, fl, wk, bounds,
                   batches, poisoned, expect, excused>>

-----------------------------------------------------------------------------
(* A restart.                                                              *)

Removed == {manifest[i].seq : i \in {j \in DOMAIN manifest : manifest[j].type = "remove"}}

\* Mutant: the last record is taken for a torn one.
CatalogShort ==
    SelectSeq(SubSeq(manifest, 1, Len(manifest) - 1), LAMBDA r : r.type = "add" /\ r.seq \notin Removed)

\* Manifest::Recover: the added tables but the removed ones, wherever the record stands.
Catalog == SelectSeq(manifest, LAMBDA r : r.type = "add" /\ r.seq \notin Removed)

\* What Manifest::Compact writes: the catalog and the aborts some table still needs.
Compacted ==
    Catalog \o SelectSeq(manifest, LAMBDA r : r.type = "abort" /\ \E i \in DOMAIN Catalog : Catalog[i].seq <= r.seq)

\* The process dies.  A restart has to find the tables that are recorded; between the
\* swap and the last record of a compaction nothing is asked of it.
Crash ==
    /\ mode # "down"
    /\ bounds.crashes < MaxCrashes
    /\ bounds' = [bounds EXCEPT !.crashes = @ + 1]
    /\ expect' = IF mode = "opening" THEN expect
                 ELSE IF comp.pc \in {"removing", "adding"} THEN {}
                 ELSE {tables[i].name : i \in DOMAIN tables} \ (IF fl = IdleFlush THEN {} ELSE {fl.table.name})
    /\ excused' = excused \cup (IF mode = "opening" THEN {"replacing"} ELSE {})
                          \cup (IF Removed # {} THEN {"removals"} ELSE {})
    /\ mode' = "down"
    /\ tables' = << >> /\ cache' = {} /\ pending_gc' = {} /\ fl' = IdleFlush /\ wk' = None
    /\ comp' = IdleComp /\ batch' = 0 /\ poisoned' = {}
    /\ UNCHANGED <<global_ts, sstable_seq, disk, manifest, tmp, aborted, batches>>

\* The constructor: Recover, the metadata of each table from its file, the WAL's aborts
\* or, after a checkpoint, none of them; the MANIFEST is written anew and removed.
\* The counter is the number of tables.
Open ==
    /\ mode = "down"
    /\ \E A \in {{}, aborted} :
         tables' = [i \in DOMAIN Catalog |->
                      Table(Catalog[i].name, Catalog[i].seq, Catalog[i].level,
                            File(Catalog[i].name).aborted \cup A)]
    /\ sstable_seq' = Len(Catalog)
    /\ excused' = excused \cup (IF \E i \in DOMAIN Catalog :
                                     Catalog[i].name >= Len(Catalog) \/ Catalog[i].seq >= Len(Catalog)
                                     \/ Catalog[i].name \notin DOMAIN disk
                                THEN {"reuse"} ELSE {})
    /\ tmp' = Compacted
    /\ manifest' = << >>
    /\ mode' = "opening"
    /\ UNCHANGED <<global_ts, disk, cache, pending_gc, fl, wk, comp, batch, bounds,
                   aborted, batches, poisoned, expect>>

Rename ==
    /\ mode = "opening"
    /\ manifest' = tmp /\ tmp' = << >>
    /\ mode' = "up"
    /\ UNCHANGED <<global_ts, sstable_seq, disk, tables, cache, pending_gc, fl, wk, comp, batch, bounds, hvars>>

-----------------------------------------------------------------------------
Init ==
    /\ global_ts = 0 /\ sstable_seq = 0
    /\ disk = << >> /\ tables = << >> /\ manifest = << >> /\ tmp = << >>
    /\ cache = {} /\ pending_gc = {}
    /\ fl = IdleFlush /\ wk = None /\ comp = IdleComp
    /\ batch = 0 /\ mode = "up"
    /\ bounds = [flushes |-> 0, manual |-> 0, reads |-> 0, events |-> 0, crashes |-> 0]
    /\ aborted = {} /\ batches = {} /\ poisoned = {} /\ expect = {} /\ excused = {}

FlushStep == (\E c \in Contents : FlushWrite(c)) \/ FlushManifest

CompactStep == CompactSwap \/ CompactRemove \/ CompactAdd \/ CompactEnd

Next ==
    \/ FlushStep \/ CompactStep
    \/ WorkerCount \/ WorkerCompact \/ DrainFileGC
    \/ \E l \in 0..kMaxLevel, b \in BOOLEAN : ManualCompact(2, l, b)
    \/ (\E k \in Keys : LookupFill(k)) \/ ScanFill \/ Evict
    \/ StartBatch \/ CommitBatch \/ AbortBatch
    \/ Crash \/ Open \/ Rename

Spec == Init /\ [][Next]_vars

\* No loop stops: the flush worker, the constructor and a compaction come to their end,
\* the compaction worker counts again, takes up what it counted, and deletes files.
\* Each of these steps is possible until it is taken, so that the places the loops
\* come back to state the weak fairness of the steps.
FairSpec ==
    /\ Spec
    /\ []<>(fl = IdleFlush) /\ []<>(mode = "up") /\ []<>(comp = IdleComp) /\ []<>(wk = None)
    /\ WF_vars(WorkerCount)
    /\ WF_vars(DrainFileGC)

-----------------------------------------------------------------------------
TypeOK ==
    /\ {global_ts, sstable_seq, batch} \subseteq Nat
    /\ \A n \in DOMAIN disk : \A i \in DOMAIN disk[n].ents : disk[n].ents[i] \in Entry
    /\ \A i \in DOMAIN tables : tables[i].level \in 0..kMaxLevel /\ tables[i].seq \in Nat
    /\ wk \in {None} \cup 0..kMaxLevel
    /\ comp.pc \in {"idle", "merged", "removing", "adding"}
    /\ comp.pc = "removing" => comp.left \in Nat \ {0}
    /\ mode \in {"up", "down", "opening"}

\* The newest version of T and of U, at any timestamp from the first one on, is the same.
SameNewest(T, U, from) ==
    \A k \in Keys, t \in from..(MaxTs + 1) :
        /\ Newest(U, k, t) \subseteq Newest(T, k, t)
        /\ Newest(U, k, t) = {} => Newest(T, k, t) = {}

\* Replacing the inputs of a compaction by its outputs changes no read at visible_ts or
\* later, for committed and for open batches, unless the merge was flawed: it read a
\* partly cached table, dropped a tombstone, or missed the mark of an aborted batch.
SwapKeepsNewest ==
    [][(comp.pc = "merged" /\ comp'.pc = "removing" /\ ~comp.flawed /\ excused = {})
        => SameNewest(tables, tables', comp.vts)]_vars

LiveTables == {tables[i] : i \in DOMAIN tables}

\* Two tables, or a table and one just merged, share a number in the cache.
SharedSeq(s) ==
    \/ \E i, j \in DOMAIN tables : i # j /\ tables[i].seq = s /\ tables[j].seq = s
    \/ comp.pc \in {"removing", "adding"} /\ \E i \in DOMAIN comp.garbage : comp.garbage[i].seq = s

Batched(k) == \E t \in LiveTables : \E i \in DOMAIN File(t.name).ents :
                 File(t.name).ents[i].key = k /\ File(t.name).ents[i].ts \in batches

Overlapped(k) == Cardinality({t \in LiveTables : t.level > 0 /\ Holds(t, k)}) > 1


Reference == {e \in UNION {Newest(tables, k, global_ts) : k \in Keys} : TRUE}

\* A scan yields the newest visible version of every key, once and in key order, unless
\* merged tables of a level overlap, a table is cached in part, or a batch wrote keys.
ScanReadsNewest ==
    (mode = "up" /\ excused = {}) =>
    \/ \E k \in Keys : Overlapped(k) \/ Batched(k)
    \/ \E t \in LiveTables : \/ PartlyCached(File(t.name), t.seq, cache) \/ t.seq \in poisoned
                             \/ t.seq # 0 /\ SharedSeq(t.seq)
    \/ Scan = SetToSortSeq(Reference, LAMBDA a, b : a.key < b.key)


\* A restart finds every table that was live and recorded when the process died, unless
\* a compaction had written removals, or the process died while the MANIFEST was replaced.
RestartKeepsUnlessRemovals ==
    mode = "opening" =>
        excused \cap {"removals", "replacing"} # {} \/ expect \subseteq {t.name : t \in LiveTables}

\* A restart finds every table that was live and recorded when the process died between
\* compactions.
RestartKeeps ==
    mode = "opening" => expect \subseteq {t.name : t \in LiveTables}

AllFull == \A l \in 0..kMaxLevel : Count(tables, l) >= Threshold

\* Level 0 does not stay over the threshold, unless every level is full: then no level
\* is left to merge into and the worker never compacts again.
LevelZeroDrains == (Count(tables, 0) >= Threshold) ~> (Count(tables, 0) < Threshold \/ AllFull)

=============================================================================
