------------------------------ MODULE SSTables ------------------------------
(***************************************************************************)
(* SSTable files and what reads them: the point lookup, the iterators, the *)
(* merge of a compaction and the range scan.  All are pure functions of    *)
(* the files and of the block cache; the modules that own the state call   *)
(* them.                                                                   *)
(*                                                                         *)
(* Keys are numbers, for their order.  A file is the sequence of its       *)
(* entries, in blocks of BlockCap entries, with the aborted timestamps of  *)
(* its footer.  The cache is a set of records: idx 0 stands for the bloom  *)
(* filter, the index and the marks of the file (CachedHeavy), idx i for    *)
(* its i-th block.  Bloom filters are taken to give no false positive: one *)
(* costs a search and changes no answer.                                   *)
(***************************************************************************)
EXTENDS Integers, Sequences, FiniteSets, FiniteSetsExt, SequencesExt

CONSTANTS
    NKeys,       \* the keys are 1..NKeys
    BlockCap     \* kSSTableBlockSize, in entries

ASSUME SSTablesAssumption == {NKeys, BlockCap} \subseteq Nat \ {0}

Keys == 1..NKeys

Entry == [key : Keys, ts : Nat, tomb : BOOLEAN]

\* The sequence of the blocks of a file.
Blocks(f) ==
    [b \in 1..((Len(f.ents) + BlockCap - 1) \div BlockCap) |->
        SubSeq(f.ents, (b - 1) * BlockCap + 1, Min({b * BlockCap, Len(f.ents)}))]

\* The b-th block as the cache keeps it; none past the end of the file.
CachedForm(f, b) == [ents |-> IF b \in DOMAIN Blocks(f) THEN Blocks(f)[b] ELSE << >>, aborted |-> {}]

KeysOf(f) == {f.ents[i].key : i \in DOMAIN f.ents}

-----------------------------------------------------------------------------
(* The block cache as its users see it.                                    *)

Cached(cache, seq, idx) == {c \in cache : c.seq = seq /\ c.idx = idx}

\* GetHeavy or GetBlock, and what the caller reads and puts when they miss.
Through(cache, seq, idx, data) ==
    IF Cached(cache, seq, idx) # {} THEN (CHOOSE c \in Cached(cache, seq, idx) : TRUE).data
                                    ELSE data

Put(cache, seq, idx, data) ==
    IF Cached(cache, seq, idx) # {} THEN cache
                                    ELSE cache \cup {[seq |-> seq, idx |-> idx, data |-> data]}

Invalidate(cache, seq) == {c \in cache : c.seq # seq}

\* WriteFromWalk and ReadMetadata after it leave all of a new file in the cache.
FillAll(cache, seq, f) ==
    Invalidate(cache, seq)
        \cup {[seq |-> seq, idx |-> 0, data |-> f]}
        \cup {[seq |-> seq, idx |-> b, data |-> CachedForm(f, b)] : b \in DOMAIN Blocks(f)}

-----------------------------------------------------------------------------
(* SSTable::LookupKey.                                                     *)

\* scanBlock: the first entry that matches.
ScanBlock(block, aborted, k, read_ts) ==
    LET S == {i \in DOMAIN block :
                block[i].key = k /\ block[i].ts <= read_ts /\ block[i].ts \notin aborted}
    IN  IF S = {} THEN {} ELSE {block[Min(S)]}

\* The block to search first: the last whose first key is not above k.
Target(blocks, k) == Max({1} \cup {b \in DOMAIN blocks : blocks[b][1].key <= k})

\* The blocks searched, in their order.
SearchOrder(blocks, k) ==
    LET t == Target(blocks, k)
    IN  SelectSeq(<<t, t - 1, t + 1>>, LAMBDA b : b \in DOMAIN blocks)

\* The file f of a table with number seq, read through the cache: the hit, as a set,
\* and the cache afterwards.
LookupKey(f, seq, cache, k, read_ts) ==
    LET heavy == Through(cache, seq, 0, f)
        order == SearchOrder(Blocks(heavy), k)
        found(i) == ScanBlock(Through(cache, seq, order[i], CachedForm(f, order[i])).ents,
                              heavy.aborted, k, read_ts)
        hits == {i \in DOMAIN order : found(i) # {}}
        last == IF hits = {} THEN Len(order) ELSE Min(hits)
        base == Put(cache, seq, 0, f)
    IN  IF k \notin KeysOf(heavy) THEN [hit |-> {}, cache |-> base]
        ELSE [hit |-> IF hits = {} THEN {} ELSE found(last),
              cache |-> base \cup UNION {Put(cache, seq, order[i], CachedForm(f, order[i])) : i \in 1..last}]

-----------------------------------------------------------------------------
(* SSTableIterator.                                                        *)

\* The blocks ReadNextBlock delivers.  A cached block does not move the file on: the
\* n-th block that is not cached is read from where the file has the n-th of all.
Delivered(f, seq, cache) ==
    [b \in DOMAIN Blocks(f) |->
        IF seq # 0 /\ Cached(cache, seq, b) # {}
        THEN (CHOOSE c \in Cached(cache, seq, b) : TRUE).data.ents
        ELSE Blocks(f)[Cardinality({a \in 1..b : seq = 0 \/ Cached(cache, seq, a) = {}})]]

\* The entries the iterator yields.  Aborted ones are skipped within a block; a block
\* with no other, unless it is the last, still yields its last entry.
Yield(f, seq, cache, aborted) ==
    LET bs == Delivered(f, seq, cache)
        live(b) == SelectSeq(bs[b], LAMBDA e : e.ts \notin aborted)
    IN  FlattenSeq([b \in DOMAIN bs |->
            IF live(b) = << >> /\ b < Len(bs) THEN <<bs[b][Len(bs[b])]>> ELSE live(b)])

\* The cache after an iterator that populates it has run to the end.
Populated(f, seq, cache) ==
    IF seq = 0 THEN cache
    ELSE cache \cup UNION {Put(cache, seq, b, [ents |-> Delivered(f, seq, cache)[b], aborted |-> {}]) :
                            b \in DOMAIN Blocks(f)}

\* Some block is cached and a later one is not.
PartlyCached(f, seq, cache) ==
    /\ seq # 0
    /\ \E a, b \in DOMAIN Blocks(f) :
         a < b /\ Cached(cache, seq, a) # {} /\ Cached(cache, seq, b) = {}

\* A block that is not the last holds aborted entries only.
BlockAborted(f, aborted) ==
    \E b \in DOMAIN Blocks(f) :
        b < Len(Blocks(f)) /\ \A i \in DOMAIN Blocks(f)[b] : Blocks(f)[b][i].ts \in aborted

-----------------------------------------------------------------------------
(* SSTable::Compact: the merge of its sources.                             *)

\* The index of the first entry of vs with the largest timestamp at or below visible_ts.
Winner(vs, visible_ts) ==
    LET V == {i \in DOMAIN vs : vs[i].ts <= visible_ts}
    IN  {i \in V : \A j \in V : vs[j].ts <= vs[i].ts /\ (vs[j].ts = vs[i].ts => i <= j)}

\* Mutant: the versions above visible_ts are lost.
KeptVisible(vs, visible_ts, is_last) ==
    LET W == Winner(vs, visible_ts)
    IN  IF W = {} \/ \E i \in W : vs[i].tomb /\ is_last THEN << >>
        ELSE <<vs[CHOOSE i \in W : TRUE]>>

\* What nextKey keeps of the versions vs of one key, in the order of the sources.
Kept(vs, visible_ts, is_last) ==
    LET W == Winner(vs, visible_ts)
    IN  (IF W = {} \/ \E i \in W : vs[i].tomb /\ is_last THEN << >>
         ELSE <<vs[CHOOSE i \in W : TRUE]>>)
        \o SelectSeq(vs, LAMBDA e : e.ts > visible_ts)

\* The entries at the front of a source that have key k.
FrontRun(s, k) == SubSeq(s, 1, Max({0} \cup {n \in DOMAIN s : \A i \in 1..n : s[i].key = k}))

\* What is left of a source after n entries.
Suffix(s, n) == SubSeq(s, n + 1, Len(s))

SmallestKey(srcs) == Min({srcs[i][1].key : i \in {j \in DOMAIN srcs : srcs[j] # << >>}})

AllRead(srcs) == \A i \in DOMAIN srcs : srcs[i] = << >>

\* The loop over nextKey.  It ends at the first key of which nothing is kept, also
\* when the sources hold more.
Merge(srcs, visible_ts, is_last) ==
    LET from[s \in Seq(Seq(Entry))] ==
            IF AllRead(s) THEN << >>
            ELSE LET k == SmallestKey(s)
                     kvs == Kept(FlattenSeq([i \in DOMAIN s |-> FrontRun(s[i], k)]), visible_ts, is_last)
                 IN  IF kvs = << >> THEN << >>
                     ELSE kvs \o from[[i \in DOMAIN s |-> Suffix(s[i], Len(FrontRun(s[i], k)))]]
    IN  from[srcs]

\* The output files: a new one when the size limit, here n entries, is reached.
Split(ents, n) ==
    [i \in 1..((Len(ents) + n - 1) \div n) |-> SubSeq(ents, (i - 1) * n + 1, Min({i * n, Len(ents)}))]

-----------------------------------------------------------------------------
(* RangeIterator.                                                          *)

\* Mutant: the oldest version wins.
BestOldest(S, read_ts) ==
    {e \in S : e.ts <= read_ts /\ \A d \in S : d.ts <= read_ts => e.ts <= d.ts}

\* Of the current entries S of the sources at one key the newest the reader may see.
Best(S, read_ts) ==
    {e \in S : e.ts <= read_ts /\ \A d \in S : d.ts <= read_ts => d.ts <= e.ts}

\* FindNext until the heap is empty: the sources whose current entry has the smallest
\* key are each moved on by one entry.
RangeScan(srcs, read_ts) ==
    LET from[s \in Seq(Seq(Entry))] ==
            IF AllRead(s) THEN << >>
            ELSE LET k == SmallestKey(s)
                     same == {i \in DOMAIN s : s[i] # << >> /\ s[i][1].key = k}
                     best == Best({s[i][1] : i \in same}, read_ts)
                 IN  (IF best = {} THEN << >> ELSE <<CHOOSE e \in best : TRUE>>)
                     \o from[[i \in DOMAIN s |-> IF i \in same THEN Tail(s[i]) ELSE s[i]]]
    IN  from[srcs]
=============================================================================
