----------------------------- MODULE BPlusTree -----------------------------
(***************************************************************************)
(* The copy-on-write B+-tree of a memtable (bptree.hpp) under one writer    *)
(* (the server's writer thread) and readers that hold no lock.  A leaf page *)
(* is never changed once it is published, except for its next pointer: an   *)
(* insertion copies the page (or splits it into two), links the copy into   *)
(* the leaf chain, then swaps one pointer in the parent, and retires what   *)
(* it replaced.  Lookups descend the index; range scans walk the chain.     *)
(* Retired pages are handed to a pool, and reused, once no registered       *)
(* reader is as old as their fence.                                         *)
(*                                                                         *)
(* Abstractions.  A value is the timestamp of its write; deletions and      *)
(* marks of aborted batches are in Engine.  A version lock makes reading a  *)
(* child pointer atomic, so a reader's step through a node is one action.   *)
(* Registration is exact here; SnapshotTracker itself is in Reclaim.        *)
(***************************************************************************)
EXTENDS Integers, Sequences, FiniteSets, FiniteSetsExt, SequencesExt

CONSTANTS
          Shapes,         \* [cap, size, seed, inserts]: the room in a page, the size of
                          \* each key's records, the keys inserted first, and the bound on
                          \* insertions; size has the keys of the instance as its domain
          ReadKeys,       \* the keys that are looked up
          Fanout,         \* kInternalFanout
          Threshold,      \* kRetiredDrainThreshold
          HasFence,       \* FALSE for the engine's first memtable: no fence_source
          Readers,
          MaxReads        \* bound on lookups and scans

ASSUME BPlusTreeAssumption ==
    /\ \A sh \in Shapes : /\ ReadKeys \subseteq DOMAIN sh.size
                          /\ \A k \in DOMAIN sh.size : k \in Nat /\ sh.size[k] \in 1..sh.cap
    /\ Fanout \in Nat /\ Fanout >= 3 /\ Threshold \in Nat /\ Threshold > 2
    /\ HasFence \in BOOLEAN /\ MaxReads \in Nat

NULL == 0

VARIABLES
    shape,            \* the instance, fixed by Init
    leaf,             \* page id -> [ents, next, free]
    node,             \* node id -> [keys, kids, free]; a kid is a node or a leaf
    root_, first_leaf_,
    pending_retired_, \* sequence of [leaf, node, fence_ts]
    leaf_pool_,       \* sequence of page ids
    global_ts,
    ins,              \* the insertion in progress
    rd,               \* reader -> its lookup or scan in progress
    reads,            \* operations started (bound)
    done,             \* ghost: versions whose insertion has returned
    hidden            \* ghost: keys a split has made unreliable (Torn)
vars == <<shape, leaf, node, root_, first_leaf_, pending_retired_, leaf_pool_, global_ts,
          ins, rd, reads, done, hidden>>

Keys == DOMAIN shape.size
Seeded == global_ts >= Len(shape.seed)

NoInsert == [pc |-> "idle"]
NoRead   == [pc |-> "idle"]

----------------------------------------------------------------------------
(* Searching *)

\* LeafPage::Find: the first position whose key is not below k, by bisection.
Find(ents, k) ==
    LET s[lo \in 1..(Len(ents) + 1), hi \in 0..Len(ents)] ==
            IF lo > hi THEN lo
            ELSE LET mid == (lo + hi) \div 2
                 IN  IF k <= ents[mid].k THEN s[lo, mid - 1] ELSE s[mid + 1, hi]
    IN  s[1, Len(ents)]

\* FindChild with the separator's own key sent left.
FindChildLeft(keys, k) == Cardinality({i \in DOMAIN keys : keys[i] < k}) + 1

\* InternalNode::FindChild: the child after the last separator not above k.
FindChild(keys, k) ==
    LET s[lo \in 0..Len(keys), hi \in 0..Len(keys)] ==
            IF lo >= hi THEN lo
            ELSE LET mid == (lo + hi) \div 2
                 IN  IF keys[mid + 1] > k THEN s[lo, mid] ELSE s[mid + 1, hi]
    IN  s[0, Len(keys)] + 1

KidOf(n, k) == node[n].kids[FindChild(node[n].keys, k)]

\* FindLeafForWrite: the nodes on the way to k's page, with the child taken in each.
FindLeafForWrite(k) ==
    LET path[n \in DOMAIN node] ==
            LET i == FindChild(node[n].keys, k)
                c == node[n].kids[i]
            IN  <<[n |-> n, i |-> i]>> \o (IF c.node = NULL THEN <<>> ELSE path[c.node])
    IN  path[root_]

\* The predecessor is looked for in the lowest node only.
FindPredecessorNear(path) ==
    LET at == Last(path) IN IF at.i = 1 THEN NULL ELSE node[at.n].kids[at.i - 1].leaf

\* FindPredecessor: the page before the one the path ends in, or NULL.
FindPredecessor(path) ==
    LET right[n \in DOMAIN node] ==
            LET c == Last(node[n].kids) IN IF c.node = NULL THEN c.leaf ELSE right[c.node]
        turns == {lv \in DOMAIN path : path[lv].i > 1}
    IN  IF turns = {} THEN NULL
        ELSE LET at == path[Max(turns)]
                 c  == node[at.n].kids[at.i - 1]
             IN  IF c.node = NULL THEN c.leaf ELSE right[c.node]

----------------------------------------------------------------------------
(* Pages *)

Used(ents) == FoldLeft(LAMBDA n, e : n + e.sz, 0, ents)
Fits(ents, e) == Used(ents) + e.sz <= shape.cap

\* NewLeaf, n times: pooled pages first, the last pooled one before the others.
NewLeaf(n) ==
    [i \in 1..n |-> IF i <= Len(leaf_pool_) THEN leaf_pool_[Len(leaf_pool_) + 1 - i]
                    ELSE Cardinality(DOMAIN leaf) + i - Min({Len(leaf_pool_), n})]
PoolAfter(n) == SubSeq(leaf_pool_, 1, Max({0, Len(leaf_pool_) - n}))

Page(ents, next) == [ents |-> ents, next |-> next, free |-> FALSE]

\* The two pages of a split.  The halves are by number of entries, not by size:
\* when the half the new entry belongs to has no room, the entry is appended to
\* the other half.
Halves(ents, pos, e) ==
    LET mid    == Len(ents) \div 2
        l      == SubSeq(ents, 1, mid)
        r      == SubSeq(ents, mid + 1, Len(ents))
        toLeft == pos <= mid
    IN  [left  |-> IF toLeft /\ Fits(l, e) THEN InsertAt(l, pos, e)
                   ELSE IF ~toLeft /\ ~Fits(r, e) /\ Fits(l, e) THEN Append(l, e) ELSE l,
         right |-> IF ~toLeft /\ Fits(r, e) THEN InsertAt(r, pos - mid, e)
                   ELSE IF toLeft /\ ~Fits(l, e) /\ Fits(r, e) THEN Append(r, e) ELSE r]

\* The keys a split makes unreliable: the one whose versions lie on both sides of
\* the separator (FindChild goes right, the newer ones are left), or any key once
\* an entry was appended out of order (bisection and separators no longer agree).
Torn(l, r) ==
    LET s == l \o r
    IN  IF \E i, j \in DOMAIN s : i < j /\ s[i].k > s[j].k THEN Keys
        ELSE {l[i].k : i \in DOMAIN l} \cap {r[i].k : i \in DOMAIN r}

LeafKid(p) == [node |-> NULL, leaf |-> p]
NodeKid(n) == [node |-> n, leaf |-> NULL]

\* The ascent of SplitCoW: rebuild the nodes of the path from level lv up, with
\* the pair (l, r) in place of the child taken, until one has room.  Level 0: the
\* root itself overflowed.
RECURSIVE Ascend(_, _, _, _, _, _)
Ascend(path, lv, l, r, sep, nd) ==
    LET id == Cardinality(DOMAIN nd) + 1 IN
    IF lv = 0
    THEN [nd |-> nd @@ (id :> [keys |-> <<sep>>, kids |-> <<l, r>>, free |-> FALSE]),
          top |-> id, lv |-> 0]
    ELSE LET cp   == nd[path[lv].n]
             i    == path[lv].i
             keys == InsertAt(cp.keys, i, sep)
             kids == InsertAt([cp.kids EXCEPT ![i] = l], i + 1, r)
             mid  == Len(keys) \div 2
         IN  IF Len(keys) < Fanout
             THEN [nd |-> nd @@ (id :> [keys |-> keys, kids |-> kids, free |-> FALSE]),
                   top |-> id, lv |-> lv]
             ELSE Ascend(path, lv - 1, NodeKid(id), NodeKid(id + 1), keys[mid + 1],
                     nd @@ (id :> [keys |-> SubSeq(keys, 1, mid),
                                   kids |-> SubSeq(kids, 1, mid + 1), free |-> FALSE])
                        @@ ((id + 1) :> [keys |-> SubSeq(keys, mid + 2, Len(keys)),
                                         kids |-> SubSeq(kids, mid + 2, Len(kids)),
                                         free |-> FALSE]))

----------------------------------------------------------------------------
(* Retired pages and nodes *)

Registered == {r \in Readers : rd[r].pc \in {"root", "node", "leaf", "page"}}
NoneActive == shape.inserts + 1     \* stands for UINT64_MAX
MinActiveTS == Min({rd[r].read_ts : r \in Registered} \cup {NoneActive})

\* RetireLeaf and RetireNode: the fence is the clock, or a counter of the tree.
Retire(p, n) ==
    LET f == IF HasFence THEN global_ts ELSE NULL
    IN  (IF n = NULL THEN <<>> ELSE <<[leaf |-> NULL, node |-> n, fence_ts |-> f]>>)
        \o <<[leaf |-> p, node |-> NULL, fence_ts |-> f]>>

\* The fence also passes for a reader as old as the fence.
PassedAt(r, min_ts) == min_ts >= r.fence_ts
Passed(r, min_ts) == min_ts > r.fence_ts

\* DrainRetired: nothing below the threshold; then whatever the fence has passed
\* is freed, nodes at once, pages into the pool.
DrainRetired(pending, pool, min_ts) ==
    IF Len(pending) < Threshold THEN [pending |-> pending, pool |-> pool, freed |-> <<>>]
    ELSE LET freed == SelectSeq(pending, LAMBDA r : Passed(r, min_ts))
             pages == SelectSeq(freed, LAMBDA r : r.leaf # NULL)
         IN  [pending |-> SelectSeq(pending, LAMBDA r : ~Passed(r, min_ts)),
              pool    |-> pool \o [i \in DOMAIN pages |-> pages[i].leaf],
              freed   |-> freed]

Free(lf, freed) ==
    [p \in DOMAIN lf |-> IF \E i \in DOMAIN freed : freed[i].leaf = p
                         THEN [lf[p] EXCEPT !.free = TRUE] ELSE lf[p]]
FreeNodes(nd, freed) ==
    [n \in DOMAIN nd |-> IF \E i \in DOMAIN freed : freed[i].node = n
                         THEN [nd[n] EXCEPT !.free = TRUE] ELSE nd[n]]

----------------------------------------------------------------------------
(* The writer: BPlusTree::Insert, and the drain loop of the engine's Insert *)

Init ==
    /\ shape \in Shapes
    /\ leaf = <<Page(<<>>, NULL)>>
    /\ node = <<[keys |-> <<>>, kids |-> <<LeafKid(1)>>, free |-> FALSE]>>
    /\ root_ = 1 /\ first_leaf_ = 1
    /\ pending_retired_ = <<>> /\ leaf_pool_ = <<>>
    /\ global_ts = 0
    /\ ins = NoInsert
    /\ rd = [r \in Readers |-> NoRead]
    /\ reads = 0
    /\ done = {} /\ hidden = {}

\* The engine takes a timestamp.  The tree copies the page with the entry, or
\* builds the two halves and the nodes above them; then it links the result into
\* the chain, before the index knows of it.
InsertLink(k) ==
    /\ ins.pc = "idle" /\ global_ts < shape.inserts
    /\ IF Seeded THEN TRUE ELSE k = shape.seed[global_ts + 1]
    /\ global_ts' = global_ts + 1
    /\ LET e     == [k |-> k, ts |-> global_ts + 1, sz |-> shape.size[k]]
           path  == FindLeafForWrite(k)
           old   == KidOf(Last(path).n, k).leaf
           ents  == leaf[old].ents
           pos   == Find(ents, k)
           pred  == FindPredecessor(path)
           split == ~Fits(ents, e)
           new   == NewLeaf(IF split THEN 3 ELSE 1)
           h     == Halves(ents, pos, e)
           made  == IF split
                    THEN (new[2] :> Page(h.left, new[3])) @@ (new[3] :> Page(h.right, leaf[old].next))
                         @@ (new[1] :> Page(ents, leaf[old].next))
                    ELSE new[1] :> Page(InsertAt(ents, pos, e), leaf[old].next)
           first == IF split THEN new[2] ELSE new[1]
           up    == Ascend(path, Len(path), LeafKid(new[2]), LeafKid(new[3]),
                           h.right[1].k, node)
       IN  /\ leaf' = LET lf == made @@ leaf
                      IN  IF pred = NULL THEN lf ELSE [lf EXCEPT ![pred].next = first]
           /\ first_leaf_' = IF pred = NULL THEN first ELSE first_leaf_
           /\ leaf_pool_' = PoolAfter(Len(new))
           /\ node' = IF split THEN up.nd ELSE node
           /\ ins' = [pc |-> "swap", e |-> e, old |-> old, path |-> path, split |-> split,
                      new |-> first, top |-> IF split THEN up.top ELSE NULL,
                      lv |-> IF split THEN up.lv ELSE Len(path)]
           /\ hidden' = IF split THEN hidden \cup Torn(h.left, h.right) ELSE hidden
    /\ UNCHANGED <<shape, root_, pending_retired_, rd, reads, done>>

\* One pointer changes under one version lock: the parent's leaf pointer, the
\* pointer to the highest rebuilt node, or root_.  A root that overflowed is not
\* retired.  Without fence_source the tree drains at once, for any reader.
InsertSwap ==
    /\ ins.pc = "swap"
    /\ LET at      == ins.path[ins.lv]
           above   == ins.path[ins.lv - 1]
           retired == Retire(ins.old, IF ins.split /\ ins.lv > 0 THEN at.n ELSE NULL)
           pend    == pending_retired_ \o retired
           d       == IF HasFence THEN [pending |-> pend, pool |-> leaf_pool_, freed |-> <<>>]
                      ELSE DrainRetired(pend, leaf_pool_, NoneActive)
           nd      == IF ~ins.split THEN [node EXCEPT ![at.n].kids[at.i].leaf = ins.new]
                      ELSE IF ins.lv > 1 THEN [node EXCEPT ![above.n].kids[above.i].node = ins.top]
                      ELSE node
       IN  /\ node' = FreeNodes(nd, d.freed)
           /\ leaf' = Free(leaf, d.freed)
           /\ root_' = IF ins.split /\ ins.lv <= 1 THEN ins.top ELSE root_
           /\ pending_retired_' = d.pending
           /\ leaf_pool_' = d.pool
    /\ ins' = [pc |-> "drain", e |-> ins.e]
    /\ UNCHANGED <<shape, first_leaf_, global_ts, rd, reads, done, hidden>>

\* The drain loop gives up after one attempt.
InsertDrainOnce ==
    /\ ins.pc = "drain"
    /\ LET d == DrainRetired(pending_retired_, leaf_pool_, MinActiveTS)
       IN  /\ pending_retired_' = d.pending
           /\ leaf_pool_' = d.pool
           /\ leaf' = Free(leaf, d.freed)
           /\ node' = FreeNodes(node, d.freed)
           /\ ins' = NoInsert
           /\ done' = done \cup {[k |-> ins.e.k, ts |-> ins.e.ts]}
    /\ UNCHANGED <<shape, root_, first_leaf_, global_ts, rd, reads, hidden>>

\* The engine drains with the oldest registered reader, and spins while the list
\* is still at the threshold.
InsertDrain ==
    /\ ins.pc = "drain"
    /\ LET d == DrainRetired(pending_retired_, leaf_pool_, MinActiveTS)
       IN  /\ pending_retired_' = d.pending
           /\ leaf_pool_' = d.pool
           /\ leaf' = Free(leaf, d.freed)
           /\ node' = FreeNodes(node, d.freed)
           /\ IF Len(d.pending) >= Threshold
              THEN UNCHANGED <<ins, done>>
              ELSE /\ ins' = NoInsert
                   /\ done' = done \cup {[k |-> ins.e.k, ts |-> ins.e.ts]}
    /\ UNCHANGED <<shape, root_, first_leaf_, global_ts, rd, reads, hidden>>

----------------------------------------------------------------------------
(* The readers *)

\* Engine::Lookup and RangeScan read the clock, then register it.
ReadBegin(r, k, kind) ==
    /\ rd[r].pc = "idle" /\ reads < MaxReads /\ Seeded
    /\ reads' = reads + 1
    /\ rd' = [rd EXCEPT ![r] = [pc |-> "clock", kind |-> kind, k |-> k,
                                read_ts |-> global_ts, before |-> done]]
    /\ UNCHANGED <<shape, leaf, node, root_, first_leaf_, pending_retired_, leaf_pool_, global_ts,
                   ins, done, hidden>>

ReadAcquire(r) ==
    /\ rd[r].pc = "clock"
    /\ rd' = [rd EXCEPT ![r].pc = "root"]
    /\ UNCHANGED <<shape, leaf, node, root_, first_leaf_, pending_retired_, leaf_pool_, global_ts,
                   ins, reads, done, hidden>>

At(r, pc, at, seen) ==
    [pc |-> pc, kind |-> rd[r].kind, k |-> rd[r].k, read_ts |-> rd[r].read_ts,
     before |-> rd[r].before, at |-> at, seen |-> seen]

\* FindLeaf: from root_, one node per step.
LookupStep(r) ==
    /\ rd[r].pc \in {"root", "node"} /\ rd[r].kind = "lookup"
    /\ rd' = [rd EXCEPT ![r] =
               IF rd[r].pc = "root" THEN At(r, "node", root_, <<>>)
               ELSE LET c == KidOf(rd[r].at, rd[r].k)
                    IN  IF c.node # NULL THEN At(r, "node", c.node, <<>>)
                        ELSE At(r, "leaf", c.leaf, <<>>)]
    /\ UNCHANGED <<shape, leaf, node, root_, first_leaf_, pending_retired_, leaf_pool_, global_ts,
                   ins, reads, done, hidden>>

\* Lookup in the page: the first version of the key at or below read_ts.
Versions(ents, k, read_ts) ==
    LET from == Find(ents, k)
        upto == {i \in from..Len(ents) : \A j \in from..i : ents[j].k = k}
    IN  SelectSeq(SubSeq(ents, from, from + Cardinality(upto) - 1),
                  LAMBDA e : e.ts <= read_ts)

LookupLeaf(r) ==
    /\ rd[r].pc = "leaf"
    /\ rd' = [rd EXCEPT ![r] =
               LET v == Versions(leaf[rd[r].at].ents, rd[r].k, rd[r].read_ts)
               IN  At(r, "done", NULL, IF v = <<>> THEN <<>> ELSE <<v[1]>>)]
    /\ UNCHANGED <<shape, leaf, node, root_, first_leaf_, pending_retired_, leaf_pool_, global_ts,
                   ins, reads, done, hidden>>

\* The leaf walk of a scan: copy a page, follow its next pointer.
ScanStep(r) ==
    /\ rd[r].pc \in {"root", "page"} /\ rd[r].kind = "scan"
    /\ rd' = [rd EXCEPT ![r] =
               IF rd[r].pc = "root" THEN At(r, "page", first_leaf_, <<>>)
               ELSE LET pg   == leaf[rd[r].at]
                        seen == rd[r].seen \o SelectSeq(pg.ents, LAMBDA e : e.ts <= rd[r].read_ts)
                    IN  IF pg.next = NULL THEN At(r, "done", NULL, seen)
                        ELSE At(r, "page", pg.next, seen)]
    /\ UNCHANGED <<shape, leaf, node, root_, first_leaf_, pending_retired_, leaf_pool_, global_ts,
                   ins, reads, done, hidden>>

ReadEnd(r) ==
    /\ rd[r].pc = "done"
    /\ rd' = [rd EXCEPT ![r] = NoRead]
    /\ UNCHANGED <<shape, leaf, node, root_, first_leaf_, pending_retired_, leaf_pool_, global_ts,
                   ins, reads, done, hidden>>

ReadStep(r) == ReadAcquire(r) \/ LookupStep(r) \/ LookupLeaf(r) \/ ScanStep(r) \/ ReadEnd(r)
Next == \/ \E k \in Keys : InsertLink(k)
        \/ InsertSwap
        \/ InsertDrain
        \/ \E r \in Readers : \/ \E k \in ReadKeys : ReadBegin(r, k, "lookup")
                              \/ ReadBegin(r, 1, "scan")
                              \/ ReadStep(r)

Spec == Init /\ [][Next]_vars

----------------------------------------------------------------------------
(* Properties *)

Entry == [k : Keys, ts : 1..shape.inserts, sz : 1..shape.cap]
PageRef == DOMAIN leaf \cup {NULL}

\* Every pointer of the tree, the chain, the pool and the retired list leads to a
\* page or node that exists, and a node has one child more than it has separators.
TypeOK ==
    /\ \A p \in DOMAIN leaf : /\ leaf[p].ents \in Seq(Entry) /\ Used(leaf[p].ents) <= shape.cap
                              /\ leaf[p].next \in PageRef /\ leaf[p].free \in BOOLEAN
    /\ \A n \in DOMAIN node :
          /\ Len(node[n].kids) = Len(node[n].keys) + 1
          /\ \A i \in DOMAIN node[n].kids :
                LET c == node[n].kids[i]
                IN  (c.node \in DOMAIN node /\ c.leaf = NULL) \/ (c.node = NULL /\ c.leaf \in DOMAIN leaf)
    /\ root_ \in DOMAIN node /\ first_leaf_ \in DOMAIN leaf
    /\ Range(leaf_pool_) \subseteq DOMAIN leaf
    /\ global_ts \in 0..shape.inserts /\ hidden \subseteq Keys

\* A reader that holds a page or a node never holds one that was freed: whatever
\* it can still reach was retired at a fence no older than its own timestamp, and
\* DrainRetiredWithFence waits for it (bptree.hpp:465).
PagesHeld ==
    HasFence => \A r \in Readers :
        /\ rd[r].pc = "node" => ~node[rd[r].at].free
        /\ rd[r].pc \in {"leaf", "page"} => ~leaf[rd[r].at].free

\* A lookup that races insertions and splits returns a version at least as new as
\* every insertion that had returned when it read the clock (and none newer than
\* its timestamp), unless a split tore the versions of the key apart or put its
\* entry into the wrong half.
LookupFreshUnlessTorn ==
    \A r \in Readers : rd[r].pc = "done" /\ rd[r].kind = "lookup" /\ rd[r].k \notin hidden =>
        LET old == {v.ts : v \in {w \in rd[r].before : w.k = rd[r].k}}
        IN  IF rd[r].seen = <<>> THEN old = {}
            ELSE \A t \in old : rd[r].seen[1].ts >= t

\* A scan that walks the chain while pages are copied, split and retired under it
\* meets every version that was there when it read the clock exactly once, in key
\* order, unless a split misplaced an entry.
ScanCompleteUnlessTorn ==
    \A r \in Readers : rd[r].pc = "done" /\ rd[r].kind = "scan" /\ hidden = {} =>
        LET s == rd[r].seen
        IN  /\ \A v \in rd[r].before :
                  Cardinality({i \in DOMAIN s : s[i].k = v.k /\ s[i].ts = v.ts}) = 1
            /\ \A i, j \in DOMAIN s : i < j =>
                  s[i].k < s[j].k \/ (s[i].k = s[j].k /\ s[i].ts > s[j].ts)

\* The retired list never outgrows the buffers of DrainRetiredWithFence (64 = the
\* threshold plus kMaxBTreeDepth), and the pool with the pages still to come never
\* outgrows leaf_pool_, which is filled before it is cut back (bptree.hpp:481).
BuffersFit ==
    /\ Len(pending_retired_) <= Threshold + 1
    /\ Len(leaf_pool_) + Cardinality({i \in DOMAIN pending_retired_ : pending_retired_[i].leaf # NULL})
          <= Threshold

============================================================================
