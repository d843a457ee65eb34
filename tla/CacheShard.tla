----------------------------- MODULE CacheShard -----------------------------
(***************************************************************************)
(* One shard of a cache: an array of entries, an open-addressing table of   *)
(* buckets that hold entry numbers, and a doubly linked list of entries in  *)
(* order of use, threaded through the array.                                *)
(*                                                                         *)
(* KVCache (kv_cache.hpp) and FlatCache (internal/flat_cache.hpp) are the   *)
(* same design written twice.  They differ where the operators below ask    *)
(* for s.kind: what a removal leaves in the bucket, how many entries a Put  *)
(* evicts, and the timestamps that only KVCache has.                        *)
(*                                                                         *)
(* A shard is a record, and each operation of the code an operator that     *)
(* returns the next shard.  The pointers are entry numbers, so that a list  *)
(* an operation corrupts is corrupt here too.  Rehash is left out: it runs  *)
(* when entry_count * 2 >= buckets.size(), and at that point entry_count is *)
(* below max_entries, which is at most half the number of buckets.          *)
(***************************************************************************)
EXTENDS Integers, FiniteSets, FiniteSetsExt

kEmpty     == -1
kTombstone == -2
nullptr    == -1

\* A bucket: the hash of a key (here the key; hashes of different keys differ) and an
\* entry number.
Unused(mark) == [hash |-> 0, idx |-> mark]

NoEntry == [key |-> 0, value |-> 0, size |-> 0, timestamp |-> 0,
            prev |-> nullptr, next |-> nullptr]

\* Init.  home gives the bucket a key hashes to.  The number of buckets is the
\* least power of two that leaves half of them free.
ShardInit(kind, per_e, per_b, home) ==
    LET bc == Min({2^n : n \in 0..5} \cap {n \in 1..32 : n >= 2 * per_e})
    IN  [kind |-> kind, home |-> home, max_entries |-> per_e, max_bytes |-> per_b,
         size |-> bc, buckets |-> [i \in 0..(bc - 1) |-> Unused(kEmpty)],
         entries |-> [i \in 0..(per_e - 1) |-> NoEntry],
         lru_head |-> nullptr, lru_tail |-> nullptr,
         entry_count |-> 0, current_bytes |-> 0]

\* What Erase and Evict_nolock leave in the bucket.
Vacated(s) == IF s.kind = "kv" THEN kEmpty ELSE kTombstone

----------------------------------------------------------------------------
(* The table of buckets *)

\* The bucket tried after n others.
Probe(s, key, n) == (s.home[key] + n) % s.size

Matches(s, key, i) ==
    /\ s.buckets[i].idx >= 0 /\ s.buckets[i].hash = key
    /\ s.entries[s.buckets[i].idx].key = key

\* FindSlot: walk to the first empty bucket or the key.  (A walk that meets neither
\* ends after a round in FlatCache, by its step counter.)
FindSlot(s, key) ==
    LET stops == {n \in 0..(s.size - 1) :
                    LET i == Probe(s, key, n)
                    IN  s.buckets[i].idx = kEmpty \/ Matches(s, key, i)}
    IN  IF stops = {} \/ s.buckets[Probe(s, key, Min(stops))].idx = kEmpty
        THEN kEmpty ELSE Probe(s, key, Min(stops))

Found(s, key) == FindSlot(s, key) # kEmpty
Entry(s, key) == s.entries[s.buckets[FindSlot(s, key)].idx]

\* The buckets Put may take for a new entry.
Free(s, key) == {n \in 0..(s.size - 1) : s.buckets[Probe(s, key, n)].idx \in {kEmpty, Vacated(s)}}

----------------------------------------------------------------------------
(* The list *)

LruRemove(s, e) ==
    LET p  == s.entries[e].prev
        s1 == IF p # nullptr THEN [s EXCEPT !.entries[p].next = s.entries[e].next]
              ELSE [s EXCEPT !.lru_head = s.entries[e].next]
        n  == s1.entries[e].next
    IN  IF n # nullptr THEN [s1 EXCEPT !.entries[n].prev = s1.entries[e].prev]
        ELSE [s1 EXCEPT !.lru_tail = s1.entries[e].prev]

LruPushFront(s, e) ==
    LET s1 == [s EXCEPT !.entries[e].prev = nullptr, !.entries[e].next = s.lru_head]
        s2 == IF s.lru_head # nullptr THEN [s1 EXCEPT !.entries[s.lru_head].prev = e]
              ELSE [s1 EXCEPT !.lru_tail = e]
    IN  [s2 EXCEPT !.lru_head = e]

----------------------------------------------------------------------------
(* Get, Put, Erase *)


\* Get_nolock: is it a hit, and the shard with the entry moved to the front.  A KVCache
\* entry newer than the reader is a miss.
Hit(s, key, read_ts) ==
    Found(s, key) /\ (s.kind = "kv" => Entry(s, key).timestamp <= read_ts)

Get(s, key, read_ts) ==
    IF Hit(s, key, read_ts)
    THEN LET e == s.buckets[FindSlot(s, key)].idx IN LruPushFront(LruRemove(s, e), e)
    ELSE s

\* Evict_nolock: unlink the entry used least recently, and give up its bucket if
\* FindSlot finds it.  The entry number comes from the bucket.
Evict(s) ==
    LET tail == s.lru_tail
        slot == FindSlot(s, s.entries[tail].key)
        left == IF slot = kEmpty THEN s
                ELSE [s EXCEPT !.current_bytes = @ - s.entries[tail].size,
                               !.buckets[slot] = Unused(Vacated(s))]
    IN  IF tail = nullptr THEN [s |-> s, idx |-> kEmpty]
        ELSE [s |-> LruRemove(left, tail),
              idx |-> IF slot = kEmpty THEN kEmpty ELSE s.buckets[slot].idx]

\* Sizes are unsigned: a negative current_bytes is a huge one.
NoRoom(s, size) == s.entry_count >= s.max_entries \/ s.current_bytes + size \notin 0..s.max_bytes

\* The eviction loop of Put_nolock, after n evictions of which the last freed entry
\* idx.  KVCache leaves it after one.  full: Put gives up.
RECURSIVE MakeRoom(_, _, _, _)
MakeRoom(s, size, idx, n) ==
    IF ~NoRoom(s, size) \/ (s.kind = "kv" /\ idx # kEmpty)
    THEN [s |-> s, idx |-> idx, n |-> n, full |-> FALSE]
    ELSE LET ev == Evict(s)
         IN  IF ev.idx = kEmpty THEN [s |-> ev.s, idx |-> idx, n |-> n, full |-> TRUE]
             ELSE MakeRoom([ev.s EXCEPT !.entry_count = @ - 1], size, ev.idx, n + 1)

\* Put_nolock: overwrite the entry the key has, or make room, take the freed entry
\* or the next unused one, and the first bucket of the walk that is free.
Put(s, key, value, size, ts) ==
    LET e     == s.buckets[FindSlot(s, key)].idx
        new   == [s EXCEPT !.entries[e].value = value, !.entries[e].size = size,
                           !.entries[e].timestamp = ts,
                           !.current_bytes = @ - s.entries[e].size + size]
        room  == MakeRoom(s, size, kEmpty, 0)
        idx   == IF room.idx = kEmpty THEN room.s.entry_count ELSE room.idx
        where == Probe(s, key, Min(Free(room.s, key)))
        st    == [room.s EXCEPT
                    !.entries[idx] = [key |-> key, value |-> value, size |-> size,
                                      timestamp |-> ts, prev |-> nullptr, next |-> nullptr],
                    !.buckets[where] = [hash |-> key, idx |-> idx],
                    !.entry_count = @ + 1,
                    !.current_bytes = @ + size]
    IN  IF Found(s, key) THEN LruPushFront(LruRemove(new, e), e)
        ELSE IF room.full THEN room.s
        ELSE LruPushFront(st, idx)

\* Put_nolock of a new key finds a bucket (FlatCache exits the process otherwise).
PutPlaced(s, key, size) ==
    LET room == MakeRoom(s, size, kEmpty, 0)
    IN  Found(s, key) \/ room.full \/ Free(room.s, key) # {}

\* Erase_nolock gives up the bucket and the place in the list; entry_count stays.
Erase(s, key) ==
    LET slot == FindSlot(s, key)
        e    == s.buckets[slot].idx
    IN  IF slot = kEmpty THEN s
        ELSE [LruRemove([s EXCEPT !.current_bytes = @ - s.entries[e].size], e)
                EXCEPT !.buckets[slot] = Unused(Vacated(s))]

----------------------------------------------------------------------------
(* EraseIf *)

\* The bucket of the entry that moves is forgotten.
MoveLastOnly(s, i, l) ==
    LET last == s.entries[l]
        s2   == IF last.prev # nullptr THEN [s EXCEPT !.entries[last.prev].next = i]
                ELSE [s EXCEPT !.lru_head = i]
        s3   == IF last.next # nullptr THEN [s2 EXCEPT !.entries[last.next].prev = i]
                ELSE [s2 EXCEPT !.lru_tail = i]
    IN  [s3 EXCEPT !.entries[i] = s3.entries[l]]

\* The last entry, number l, moves into place i: its bucket, its neighbours in the
\* list and its content follow.
MoveLast(s, i, l) ==
    LET last == s.entries[l]
        slot == FindSlot(s, last.key)
        s1   == IF slot # kEmpty THEN [s EXCEPT !.buckets[slot].idx = i] ELSE s
        s2   == IF last.prev # nullptr THEN [s1 EXCEPT !.entries[last.prev].next = i]
                ELSE [s1 EXCEPT !.lru_head = i]
        s3   == IF last.next # nullptr THEN [s2 EXCEPT !.entries[last.next].prev = i]
                ELSE [s2 EXCEPT !.lru_tail = i]
    IN  [s3 EXCEPT !.entries[i] = s3.entries[l]]

\* The entry that moved in is not looked at.
RECURSIVE EraseFromSkips(_, _, _)
EraseFromSkips(s, keys, i) ==
    IF i >= s.entry_count THEN s
    ELSE IF s.entries[i].key \notin keys THEN EraseFromSkips(s, keys, i + 1)
    ELSE LET slot == FindSlot(s, s.entries[i].key)
             s1   == IF slot # kEmpty THEN [s EXCEPT !.buckets[slot] = Unused(kTombstone)] ELSE s
             s2   == LruRemove([s1 EXCEPT !.current_bytes = @ - s.entries[i].size], i)
             l    == s.entry_count - 1
             s3   == IF i # l THEN MoveLast(s2, i, l) ELSE s2
         IN  EraseFromSkips([s3 EXCEPT !.entry_count = @ - 1], keys, i + 1)

\* EraseIf_nolock from entry i on: a matching entry is unlinked and the last one
\* takes its place, to be looked at next.
RECURSIVE EraseFrom(_, _, _)
EraseFrom(s, keys, i) ==
    IF i >= s.entry_count THEN s
    ELSE IF s.entries[i].key \notin keys THEN EraseFrom(s, keys, i + 1)
    ELSE LET slot == FindSlot(s, s.entries[i].key)
             s1   == IF slot # kEmpty THEN [s EXCEPT !.buckets[slot] = Unused(kTombstone)] ELSE s
             s2   == LruRemove([s1 EXCEPT !.current_bytes = @ - s.entries[i].size], i)
             l    == s.entry_count - 1
             s3   == IF i # l THEN MoveLast(s2, i, l) ELSE s2
         IN  EraseFrom([s3 EXCEPT !.entry_count = @ - 1], keys, i)

EraseIf(s, keys) == EraseFrom(s, keys, 0)

----------------------------------------------------------------------------
(* What a shard should look like *)

\* The entries some bucket leads to under their own key.
Reachable(s) == {e \in DOMAIN s.entries : s.entries[e].key # 0 /\
                    LET slot == FindSlot(s, s.entries[e].key)
                    IN  slot # kEmpty /\ s.buckets[slot].idx = e}

\* The list runs through exactly the reachable entries, in both directions.
RECURSIVE Walk(_, _, _)
Walk(s, e, seen) == IF e = nullptr \/ e \in seen THEN seen
                    ELSE Walk(s, s.entries[e].next, seen \cup {e})

ListSound(s) ==
    LET live == Reachable(s)
    IN  /\ Walk(s, s.lru_head, {}) = live
        /\ \A e \in live : LET n == s.entries[e].next
                           IN  IF n = nullptr THEN s.lru_tail = e ELSE s.entries[n].prev = e
        /\ live = {} => s.lru_tail = nullptr

\* current_bytes is the size of the reachable entries.
BytesSound(s) == s.current_bytes = MapThenSumSet(LAMBDA e : s.entries[e].size, Reachable(s))

============================================================================
