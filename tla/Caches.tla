------------------------------- MODULE Caches -------------------------------
(***************************************************************************)
(* The engine's caches in use: the KV cache by Insert, Delete and Lookup    *)
(* (engine.cpp), and the two partitions of SSTableCache (block_cache.hpp),  *)
(* heavy_ and blocks_, by the readers of tables and by Invalidate.          *)
(*                                                                         *)
(* A behaviour is about one shard of one of the three, chosen by Init: the  *)
(* operations of a shard run under its mutex, and keys of other shards do   *)
(* not meet.  For the KV cache the model has the steps an operation takes   *)
(* outside the mutex too: a write becomes readable in the memtable before   *)
(* it reaches the cache, and a lookup reads the clock, the cache and the    *)
(* store, and fills the cache, one after the other.  The store itself is    *)
(* the set of versions of each key; Engine models how it is kept.           *)
(***************************************************************************)
EXTENDS CacheShard, TLC

CONSTANTS Setups,     \* [kind, per_e, per_b, home, seq]: a shard, the bucket each key hashes to,
                      \* and the table each key belongs to
          Sizes,      \* sizes of cached values
          Big,        \* the size of a value above kPageSize / 2
          Gap,        \* batch_increment_gap
          Readers,    \* threads in Lookup
          MaxTs,      \* bound on the clock
          MaxReads    \* bound on the lookups of a thread

ASSUME CachesAssumption ==
    /\ Sizes \subseteq Nat \ {0} /\ Big \in Nat /\ \A n \in Sizes : n < Big
    /\ Gap \in Nat \ {0} /\ MaxTs \in Nat /\ MaxReads \in Nat

VARIABLES
    setup,      \* fixed by Init
    shard,
    want,       \* key -> version last put and not invalidated since, 0 for none (SSTableCache)
    store,      \* key -> versions [ts, size], size 0 for a tombstone (KV cache)
    global_ts,
    wr,         \* the write between the memtable and the cache
    rd, reads,  \* reader -> its lookup, and how many it has started
    \* history
    cut,        \* a removal has left an entry that its own key does not find
    leaky,      \* an entry number has been given up without being used again
    suspect     \* keys cached before a write that did not touch the cache

vars == <<setup, shard, want, store, global_ts, wr, rd, reads, cut, leaky, suspect>>
kvvars == <<store, global_ts, wr, rd, reads, suspect>>

Keys == DOMAIN setup.home
NoWrite == [pc |-> "idle", key |-> 0, ts |-> 0, size |-> 0]
NoRead  == [pc |-> "idle", key |-> 0, read_ts |-> 0, found |-> 0, excused |-> FALSE]

Init ==
    /\ setup \in Setups
    /\ shard = ShardInit(setup.kind, setup.per_e, setup.per_b, setup.home)
    /\ want = [k \in Keys |-> 0]
    /\ store = [k \in Keys |-> {}]
    /\ global_ts = 0
    /\ wr = NoWrite
    /\ rd = [r \in Readers |-> NoRead] /\ reads = [r \in Readers |-> 0]
    /\ cut = FALSE /\ leaky = FALSE /\ suspect = {}

\* Entries their own key does not lead to.
Lost(s) == \E i \in DOMAIN s.buckets : s.buckets[i].idx >= 0 /\ FindSlot(s, s.buckets[i].hash) # i

\* A Put that evicts more than it uses, or an Erase of what is there, gives up an
\* entry number.
PutLeaks(k, size) ==
    LET room == MakeRoom(shard, size, kEmpty, 0)
    IN  ~Found(shard, k) /\ (room.n > 1 \/ room.full)

Update(s, leaks) ==
    /\ shard' = s
    /\ leaky' = (leaky \/ leaks)
    /\ cut' = (cut \/ Lost(s))

----------------------------------------------------------------------------
(* SSTableCache *)

\* PutHeavy and PutBlock.  All entries of blocks_ count with the same size, and a
\* block put twice is the same block; heavy_ may get new content under an old key.
PutTable(k, size) ==
    /\ setup.kind # "kv" /\ (setup.kind = "blocks" => size = 1)
    /\ PutPlaced(shard, k, size)
    /\ LET v == IF want[k] = 1 /\ setup.kind = "heavy" THEN 2 ELSE 1
       IN  /\ want' = [want EXCEPT ![k] = v]
           /\ Update(Put(shard, k, v, size, 0), PutLeaks(k, size))
    /\ UNCHANGED <<setup, kvvars>>

\* GetHeavy and GetBlock.
GetTable(k) ==
    /\ setup.kind # "kv"
    /\ Update(Get(shard, k, 0), FALSE)
    /\ UNCHANGED <<setup, want, kvvars>>

\* Invalidate, when a merged file has been deleted: heavy_.Erase or blocks_.EraseIf.
Invalidate(q) ==
    LET keys == {k \in Keys : setup.seq[k] = q}
    IN  /\ setup.kind # "kv"
        /\ want' = [k \in Keys |-> IF k \in keys THEN 0 ELSE want[k]]
        /\ IF setup.kind = "blocks" THEN Update(EraseIf(shard, keys), FALSE)
           ELSE \E k \in keys : Update(Erase(shard, k), Found(shard, k))
        /\ UNCHANGED <<setup, kvvars>>

----------------------------------------------------------------------------
(* The KV cache *)

\* The newest version of k a reader at ts sees, 0 for none or a tombstone.
Newest(k, ts) ==
    LET seen == {v \in store[k] : v.ts <= ts}
        top  == CHOOSE v \in seen : \A u \in seen : u.ts <= v.ts
    IN  IF seen = {} THEN 0 ELSE IF top.size = 0 THEN 0 ELSE top.ts

SizeOf(k, ts) == (CHOOSE v \in store[k] : v.ts = ts).size

\* Insert and Delete (size 0) up to the cache: the version is in the memtable.
WriteStore(k, size) ==
    /\ setup.kind = "kv" /\ wr.pc = "idle" /\ global_ts < MaxTs
    /\ global_ts' = global_ts + 1
    /\ store' = [store EXCEPT ![k] = @ \cup {[ts |-> global_ts + 1, size |-> size]}]
    /\ wr' = [pc |-> "cache", key |-> k, ts |-> global_ts + 1, size |-> size]
    /\ UNCHANGED <<setup, shard, want, rd, reads, cut, leaky, suspect>>

\* The last steps of Insert, kv_cache_->Put, and Delete, kv_cache_->Erase.  Put
\* returns at once on a value of more than half a page.
WriteCache ==
    /\ wr.pc = "cache" /\ wr' = NoWrite
    /\ CASE wr.size = 0    -> Update(Erase(shard, wr.key), Found(shard, wr.key))
         [] wr.size >= Big -> UNCHANGED <<shard, leaky, cut>>
         [] OTHER          -> Update(Put(shard, wr.key, wr.ts, wr.size, wr.ts),
                                     PutLeaks(wr.key, wr.size))
    /\ suspect' = IF wr.size >= Big THEN suspect \cup {wr.key} ELSE suspect \ {wr.key}
    /\ UNCHANGED <<setup, want, store, global_ts, rd, reads>>

\* A batch that writes k, from StartBatch to CommitBatch: its version is above every
\* read timestamp until the clock jumps past it, and no step of it uses the cache.
Batch(k, size) ==
    LET ts == global_ts + Gap
    IN  /\ setup.kind = "kv" /\ wr.pc = "idle" /\ ts < MaxTs
        /\ store' = [store EXCEPT ![k] = @ \cup {[ts |-> ts, size |-> size]}]
        /\ global_ts' = ts + 1
        /\ suspect' = suspect \cup {k}
        /\ UNCHANGED <<setup, shard, want, wr, rd, reads, cut, leaky>>

LookupBegin(r, k) ==
    /\ setup.kind = "kv" /\ rd[r].pc = "idle" /\ reads[r] < MaxReads
    /\ rd' = [rd EXCEPT ![r] = [NoRead EXCEPT !.pc = "get", !.key = k, !.read_ts = global_ts]]
    /\ reads' = [reads EXCEPT ![r] = @ + 1]
    /\ UNCHANGED <<setup, shard, want, store, global_ts, wr, cut, leaky, suspect>>

\* The cache answers, or the store does; only a value found there goes into the
\* cache.  What the store has at read_ts does not depend on when it is read.
LookupGet(r) ==
    LET k   == rd[r].key
        ts  == rd[r].read_ts
        hit == Hit(shard, k, ts)
        val == IF hit THEN Entry(shard, k).value ELSE Newest(k, ts)
    IN  /\ rd[r].pc = "get"
        /\ Update(Get(shard, k, ts), FALSE)
        /\ rd' = [rd EXCEPT ![r].pc = IF ~hit /\ val # 0 THEN "fill" ELSE "done",
                            ![r].found = val,
                            ![r].excused = hit /\ (cut \/ k \in suspect \/ wr.key = k)]
        /\ UNCHANGED <<setup, want, store, global_ts, wr, reads, suspect>>

\* Lookup's kv_cache_->Put, with its own timestamp.  The key becomes suspect if a
\* version newer than the lookup exists by now.
LookupFill(r) ==
    LET k    == rd[r].key
        size == SizeOf(k, rd[r].found)
        late == \E v \in store[k] : v.ts > rd[r].read_ts
    IN  /\ rd[r].pc = "fill"
        /\ IF size >= Big THEN UNCHANGED <<shard, leaky, cut, suspect>>
           ELSE /\ Update(Put(shard, k, rd[r].found, size, rd[r].read_ts), PutLeaks(k, size))
                /\ suspect' = IF late THEN suspect \cup {k} ELSE suspect \ {k}
        /\ rd' = [rd EXCEPT ![r].pc = "done"]
        /\ UNCHANGED <<setup, want, store, global_ts, wr, reads>>

LookupEnd(r) ==
    /\ rd[r].pc = "done"
    /\ rd' = [rd EXCEPT ![r] = NoRead]
    /\ UNCHANGED <<setup, shard, want, store, global_ts, wr, reads, cut, leaky, suspect>>

Next ==
    \/ \E k \in Keys : \/ GetTable(k)
                       \/ \E n \in Sizes : PutTable(k, n)
                       \/ \E n \in Sizes \cup {0, Big} : WriteStore(k, n)
                       \/ \E n \in Sizes \cup {0} : Batch(k, n)
                       \/ \E r \in Readers : LookupBegin(r, k)
    \/ \E q \in {setup.seq[k] : k \in Keys} : Invalidate(q)
    \/ WriteCache
    \/ \E r \in Readers : LookupGet(r) \/ LookupFill(r) \/ LookupEnd(r)

Spec == Init /\ [][Next]_vars

----------------------------------------------------------------------------
(* Properties *)

\* The counters stay in range: entry_count never wraps below zero and never passes
\* max_entries, and buckets name entries of the array.
TypeOK ==
    /\ setup \in Setups /\ global_ts \in 0..MaxTs
    /\ shard.entry_count \in 0..setup.per_e
    /\ \A i \in DOMAIN shard.buckets : shard.buckets[i].idx \in {kEmpty, kTombstone} \cup DOMAIN shard.entries
    /\ {shard.lru_head, shard.lru_tail} \subseteq DOMAIN shard.entries \cup {nullptr}
    /\ want \in [Keys -> 0..2] /\ suspect \subseteq Keys
    /\ reads \in [Readers -> 0..MaxReads] /\ cut \in BOOLEAN /\ leaky \in BOOLEAN

\* SSTableCache returns what was last put under a key, and nothing that was put
\* before the key's table was invalidated, whatever was evicted, erased or moved
\* within the array in between, until a Put that evicted several entries has led a
\* later one to an entry number still in use.
TableHitsCurrentUnlessCut ==
    setup.kind # "kv" /\ ~cut => \A k \in Keys : Found(shard, k) =>
        want[k] # 0 /\ Entry(shard, k).value = want[k]

\* The list holds exactly the entries the buckets lead to, these fill the array from
\* the start (EraseIf_nolock relies on it), and current_bytes is their size: always
\* in blocks_, and in the other caches until an entry number has been given up.
ShardSoundUnlessLeaky ==
    setup.kind = "blocks" \/ (~leaky /\ ~cut) =>
        /\ ListSound(shard) /\ BytesSound(shard)
        /\ Reachable(shard) = 0..(shard.entry_count - 1)


============================================================================
