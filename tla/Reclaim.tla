------------------------------ MODULE Reclaim ------------------------------
(***************************************************************************)
(* Who may still be reading, and when a merged file may be deleted          *)
(* (snp_tracker.hpp; Lookup, RangeScan, CompactLevel, DeferFileGC and       *)
(* DrainFileGC of engine.cpp).                                              *)
(*                                                                         *)
(* The engine has two SnapshotTrackers: tracker_ ("mt") for the memtable    *)
(* part of a read, tracker_sst_ ("sst") for the file part.  A tracker is an *)
(* array of slots that hold read timestamps, 0 meaning free, and a multiset *)
(* for readers that found no free slot.  Which slot a thread used is kept   *)
(* in slot_, a thread_local that both trackers share.                       *)
(*                                                                         *)
(* A reader's memtable work and the contents of files are left out: what    *)
(* matters is which registrations it holds at each step, and whether the    *)
(* files of its snapshot are on disk when it opens them.                    *)
(***************************************************************************)
EXTENDS Integers

CONSTANTS Threads,        \* reading threads
          Layouts,        \* [n, start]: a number of slots, and the slot each thread's id
                          \* hashes to
          Files,          \* table files
          MaxTs,          \* bound on the clock
          MaxReads        \* bound on the reads a thread starts

Trackers == {"mt", "sst"}

ASSUME ReclaimAssumption ==
    /\ MaxTs \in Nat /\ MaxReads \in Nat
    /\ \A l \in Layouts : l.n \in Nat \ {0} /\ l.start \in [Threads -> 0..(l.n - 1)]

VARIABLES
    layout,         \* the instance, fixed by Init
    sst_first,      \* the build evaluates the arguments of std::min right to left
    global_ts,
    slots,          \* tracker -> slot -> timestamp, 0 when free
    active,         \* tracker -> timestamp -> multiplicity (the fallback multiset)
    fallback_used,  \* tracker -> BOOLEAN
    slot_,          \* thread -> slot, -1 for the multiset, -2 at first
    pc, kind, probe, read_ts, snap,   \* thread -> the read in progress
    status,         \* file -> none, live, swapped, pending, deleted
    fence_ts,       \* file -> its fence, once pending
    gc,             \* DrainFileGC: the file under test and what was read so far
    reads           \* thread -> reads started (bound)
rdvars == <<pc, kind, probe, read_ts, snap>>
trvars == <<slots, active, fallback_used, slot_>>
flvars == <<status, fence_ts>>
vars == <<layout, sst_first, global_ts, trvars, rdvars, flvars, gc, reads>>

kSlots == layout.n
Slots  == 0..(kSlots - 1)
start  == layout.start

NoTest == [pc |-> "idle"]

First == CHOOSE f \in Files : TRUE    \* the one table at first

Init ==
    /\ layout \in Layouts /\ sst_first \in BOOLEAN
    /\ global_ts = 0
    /\ slots = [t \in Trackers |-> [i \in Slots |-> 0]]
    /\ active = [t \in Trackers |-> [ts \in 0..MaxTs |-> 0]]
    /\ fallback_used = [t \in Trackers |-> FALSE]
    /\ slot_ = [th \in Threads |-> -2]
    /\ pc = [th \in Threads |-> "idle"]
    /\ kind = [th \in Threads |-> "lookup"]
    /\ probe = [th \in Threads |-> 0]
    /\ read_ts = [th \in Threads |-> 0]
    /\ snap = [th \in Threads |-> {}]
    /\ status = [f \in Files |-> IF f = First THEN "live" ELSE "none"]
    /\ fence_ts = [f \in Files |-> 0]
    /\ gc = NoTest
    /\ reads = [th \in Threads |-> 0]

Live == {f \in Files : status[f] = "live"}

----------------------------------------------------------------------------
(* SnapshotTracker *)

\* The slot tried after n others, starting from the thread's own.
SlotAt(th, n) == IF start[th] + n < kSlots THEN start[th] + n ELSE start[th] + n - kSlots

\* One turn of Acquire's loop: take the slot by compare-and-swap from 0, or go on to
\* the next one; past the last one, join the multiset.
AcquireStep(th, t, next) ==
    \/ /\ probe[th] < kSlots /\ slots[t][SlotAt(th, probe[th])] = 0
       /\ slots' = [slots EXCEPT ![t][SlotAt(th, probe[th])] = read_ts[th]]
       /\ slot_' = [slot_ EXCEPT ![th] = SlotAt(th, probe[th])]
       /\ probe' = [probe EXCEPT ![th] = 0]
       /\ pc' = [pc EXCEPT ![th] = next]
       /\ UNCHANGED <<active, fallback_used>>
    \/ /\ probe[th] < kSlots /\ slots[t][SlotAt(th, probe[th])] # 0
       /\ probe' = [probe EXCEPT ![th] = @ + 1]
       /\ UNCHANGED <<slots, slot_, pc, active, fallback_used>>
    \/ /\ probe[th] = kSlots
       /\ fallback_used' = [fallback_used EXCEPT ![t] = TRUE]
       /\ active' = [active EXCEPT ![t][read_ts[th]] = @ + 1]
       /\ slot_' = [slot_ EXCEPT ![th] = -1]
       /\ probe' = [probe EXCEPT ![th] = 0]
       /\ pc' = [pc EXCEPT ![th] = next]
       /\ UNCHANGED slots

\* A Release that forgets the slot and only looks in the multiset.
ReleaseNothing(th, t) == UNCHANGED <<slots, active, fallback_used>>

\* Release: clear the slot the thread used last, in whichever tracker that was; or
\* take one equal timestamp out of the multiset.
Release(th, t) ==
    IF slot_[th] >= 0
    THEN /\ slots' = [slots EXCEPT ![t][slot_[th]] = 0]
         /\ UNCHANGED <<active, fallback_used>>
    ELSE LET left == [active[t] EXCEPT ![read_ts[th]] = IF @ > 0 THEN @ - 1 ELSE 0]
         IN  /\ active' = [active EXCEPT ![t] = left]
             /\ fallback_used' = [fallback_used EXCEPT
                    ![t] = IF \A ts \in 0..MaxTs : left[ts] = 0 THEN FALSE ELSE @]
             /\ UNCHANGED slots

\* MinActiveTS ignores the multiset and stops before the last slot.
PassedShort(t, fence) ==
    \A i \in Slots : i + 1 < kSlots /\ slots[t][i] # 0 => slots[t][i] >= fence

\* MinActiveTS() >= fence: no slot in use and, while the flag is up, no member of
\* the multiset is below the fence.
Passed(t, fence) ==
    /\ \A i \in Slots : slots[t][i] # 0 => slots[t][i] >= fence
    /\ fallback_used[t] => \A ts \in 0..MaxTs : active[t][ts] > 0 => ts >= fence

----------------------------------------------------------------------------
(* Readers *)

Goto(th, p) == pc' = [pc EXCEPT ![th] = p]

\* Lookup and RangeScan start by reading the clock.
ReadBegin(th, k) ==
    /\ pc[th] = "idle" /\ reads[th] < MaxReads
    /\ reads' = [reads EXCEPT ![th] = @ + 1]
    /\ kind' = [kind EXCEPT ![th] = k]
    /\ read_ts' = [read_ts EXCEPT ![th] = global_ts]
    /\ Goto(th, "acquire_mt")
    /\ UNCHANGED <<layout, sst_first, global_ts, trvars, probe, snap, flvars, gc>>

AcquireMt(th) ==
    /\ pc[th] = "acquire_mt"
    /\ AcquireStep(th, "mt", IF kind[th] = "scan" THEN "snap" ELSE "acquire_sst")
    /\ UNCHANGED <<layout, sst_first, global_ts, kind, read_ts, snap, flvars, gc, reads>>

\* RangeScan takes its snapshot of the tables first, Lookup only after the
\* transition to tracker_sst_; a lookup answered by a memtable takes none.
Snapshot(th) ==
    /\ pc[th] = "snap"
    /\ snap' = [snap EXCEPT ![th] = Live]
    /\ Goto(th, IF kind[th] = "scan" THEN "acquire_sst" ELSE "read")
    /\ UNCHANGED <<layout, sst_first, global_ts, trvars, kind, probe, read_ts, flvars, gc, reads>>

MemtableHit(th) ==
    /\ pc[th] = "snap" /\ kind[th] = "lookup"
    /\ Goto(th, "read")
    /\ UNCHANGED <<layout, sst_first, global_ts, trvars, kind, probe, read_ts, snap, flvars, gc, reads>>

AcquireSst(th) ==
    /\ pc[th] = "acquire_sst"
    /\ AcquireStep(th, "sst", "release_mt")
    /\ UNCHANGED <<layout, sst_first, global_ts, kind, read_ts, snap, flvars, gc, reads>>

ReleaseMt(th) ==
    /\ pc[th] = "release_mt"
    /\ Release(th, "mt")
    /\ Goto(th, IF kind[th] = "scan" THEN "read" ELSE "snap")
    /\ UNCHANGED <<layout, sst_first, global_ts, slot_, kind, probe, read_ts, snap, flvars, gc, reads>>

\* A lookup has read the files it needs; a scan has opened its level-0 files and the
\* first file of each other level, and returns an iterator that opens the others
\* later, unregistered.
ReleaseSst(th) ==
    /\ pc[th] = "read"
    /\ Release(th, "sst")
    /\ Goto(th, IF kind[th] = "scan" THEN "idle" ELSE "guard_mt")
    /\ snap' = [snap EXCEPT ![th] = {}]
    /\ read_ts' = [read_ts EXCEPT ![th] = IF kind[th] = "scan" THEN 0 ELSE @]
    /\ UNCHANGED <<layout, sst_first, global_ts, slot_, kind, probe, flvars, gc, reads>>

\* The guard on tracker_ runs at the end of a lookup, after the explicit release.
GuardMt(th) ==
    /\ pc[th] = "guard_mt"
    /\ Release(th, "mt")
    /\ Goto(th, "idle")
    /\ read_ts' = [read_ts EXCEPT ![th] = 0]
    /\ UNCHANGED <<layout, sst_first, global_ts, slot_, kind, probe, snap, flvars, gc, reads>>

ReadStep(th) ==
    \/ AcquireMt(th) \/ Snapshot(th) \/ MemtableHit(th) \/ AcquireSst(th)
    \/ ReleaseMt(th) \/ ReleaseSst(th) \/ GuardMt(th)

----------------------------------------------------------------------------
(* Writes, compaction and file collection *)

Write ==
    /\ global_ts < MaxTs
    /\ global_ts' = global_ts + 1
    /\ UNCHANGED <<layout, sst_first, trvars, rdvars, flvars, gc, reads>>

\* CompactLevel, the swap of sstable_metadata_: f is merged into g.
Swap(f, g) ==
    /\ \A h \in Files : status[h] # "swapped"
    /\ status[f] = "live" /\ status[g] = "none"
    /\ status' = [status EXCEPT ![f] = "swapped", ![g] = "live"]
    /\ UNCHANGED <<layout, sst_first, global_ts, trvars, rdvars, fence_ts, gc, reads>>

\* CompactLevel, after the manifest is synced: gc_fence and DeferFileGC.
Fence(f) ==
    /\ status[f] = "swapped"
    /\ status' = [status EXCEPT ![f] = "pending"]
    /\ fence_ts' = [fence_ts EXCEPT ![f] = global_ts]
    /\ UNCHANGED <<layout, sst_first, global_ts, trvars, rdvars, gc, reads>>

\* tracker_ is not compared when it is read first.
DrainFirstSst(f) ==
    /\ gc.pc = "idle" /\ status[f] = "pending"
    /\ gc' = [pc |-> "second", f |-> f, ok |-> sst_first => Passed("sst", fence_ts[f])]
    /\ UNCHANGED <<layout, sst_first, global_ts, trvars, rdvars, flvars, reads>>

\* DrainFileGC for one pending file: std::min of the two trackers, read one after
\* the other in an order C++ leaves to the build, against the fence.
DrainFirst(f) ==
    /\ gc.pc = "idle" /\ status[f] = "pending"
    /\ gc' = [pc |-> "second", f |-> f,
              ok |-> Passed(IF sst_first THEN "sst" ELSE "mt", fence_ts[f])]
    /\ UNCHANGED <<layout, sst_first, global_ts, trvars, rdvars, flvars, reads>>

\* The tracker that is read second is not compared.
DrainSecondOk ==
    /\ gc.pc = "second"
    /\ status' = [status EXCEPT ![gc.f] = IF gc.ok THEN "deleted" ELSE @]
    /\ gc' = NoTest
    /\ UNCHANGED <<layout, sst_first, global_ts, trvars, rdvars, fence_ts, reads>>

DrainSecond ==
    /\ gc.pc = "second"
    /\ status' = [status EXCEPT ![gc.f] =
                    IF gc.ok /\ Passed(IF sst_first THEN "mt" ELSE "sst", fence_ts[gc.f])
                    THEN "deleted" ELSE @]
    /\ gc' = NoTest
    /\ UNCHANGED <<layout, sst_first, global_ts, trvars, rdvars, fence_ts, reads>>

Drain == DrainSecond \/ \E f \in Files : DrainFirst(f)

Next == \/ \E th \in Threads : ReadStep(th) \/ \E k \in {"lookup", "scan"} : ReadBegin(th, k)
        \/ Write
        \/ \E f \in Files : Fence(f) \/ \E g \in Files : Swap(f, g)
        \/ Drain

Spec == Init /\ [][Next]_vars

----------------------------------------------------------------------------
(* Properties *)

Phases == {"idle", "acquire_mt", "snap", "acquire_sst", "release_mt", "read", "guard_mt"}

\* Slots and the multiset hold timestamps the clock has reached.
TypeOK ==
    /\ layout \in Layouts /\ sst_first \in BOOLEAN
    /\ global_ts \in 0..MaxTs /\ reads \in [Threads -> 0..MaxReads]
    /\ slots \in [Trackers -> [Slots -> 0..MaxTs]]
    /\ active \in [Trackers -> [0..MaxTs -> Nat]]
    /\ fallback_used \in [Trackers -> BOOLEAN]
    /\ slot_ \in [Threads -> Slots \cup {-1, -2}]
    /\ pc \in [Threads -> Phases] /\ kind \in [Threads -> {"lookup", "scan"}]
    /\ probe \in [Threads -> 0..kSlots] /\ read_ts \in [Threads -> 0..MaxTs]
    /\ snap \in [Threads -> SUBSET Files]
    /\ status \in [Files -> {"none", "live", "swapped", "pending", "deleted"}]
    /\ fence_ts \in [Files -> 0..MaxTs]
    /\ gc = NoTest \/ gc \in [pc : {"second"}, f : Files, ok : BOOLEAN]

\* No two threads that have read so far hash to the same slot.
Readers == {th \in Threads : pc[th] # "idle" \/ slot_[th] # -2}
Distinct == \A th, ot \in Readers : th # ot => start[th] # start[ot]

\* The steps between a tracker's Acquire and its Release.
HoldsMt(th) == \/ pc[th] \in {"acquire_sst", "release_mt"}
               \/ pc[th] = "snap" /\ kind[th] = "scan"
HoldsSst(th) == \/ pc[th] \in {"release_mt", "read"}
                \/ pc[th] = "snap" /\ kind[th] = "lookup"

\* While reading threads hash to different slots, a reader with a non-zero timestamp is
\* counted from Acquire to Release: MinActiveTS of that tracker stays at or below
\* it, whatever the other threads acquire and release.  This is what keeps retired
\* pages and merged files for it.
CountedUnlessHashesMeet ==
    Distinct => \A th \in Threads : read_ts[th] > 0 =>
        /\ HoldsMt(th)  => ~Passed("mt", read_ts[th] + 1)
        /\ HoldsSst(th) => ~Passed("sst", read_ts[th] + 1)

\* While reading threads hash to different slots, nothing stays registered once every read
\* has ended: the writer's drain loop (engine.cpp:343) and the collection of files
\* are never held up by a read that is over.
NothingLeaksUnlessHashesMeet ==
    Distinct /\ (\A th \in Threads : pc[th] = "idle") =>
        \A t \in Trackers : (\A i \in Slots : slots[t][i] = 0) /\ ~fallback_used[t]

\* A lookup that took its snapshot before a compaction's swap finds the merged
\* files on disk as long as it reads them, if its timestamp lies strictly between
\* zero and the fence and reading threads hash to different slots.
LookupFilesHeld ==
    Distinct => \A th \in Threads : kind[th] = "lookup" /\ pc[th] = "read" =>
        \A f \in snap[th] : 0 < read_ts[th] /\ read_ts[th] < fence_ts[f] => status[f] # "deleted"

\* The files a scan opens inside RangeScan are on disk under the same conditions, and
\* only where the build reads tracker_ before tracker_sst_: the scan moves its
\* registration from the first to the second while it holds an old snapshot.
ScanFilesHeldUnlessSstFirst ==
    Distinct /\ ~sst_first => \A th \in Threads : kind[th] = "scan" /\ pc[th] = "read" =>
        \A f \in snap[th] : 0 < read_ts[th] /\ read_ts[th] < fence_ts[f] => status[f] # "deleted"

\* design.md: old files are deleted only after all readers that started before the
\* swap have released their snapshots.  The fence comparison (engine.cpp:840) lets a
\* reader as old as the fence through.
PreSwapReadersKeepFiles ==
    Distinct => \A th \in Threads : kind[th] = "lookup" /\ pc[th] = "read" /\ read_ts[th] > 0 =>
        \A f \in snap[th] : status[f] # "deleted"

============================================================================
