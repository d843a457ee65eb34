--------------------------- MODULE ReclaimProofs ---------------------------
(***************************************************************************)
(* Proofs about Reclaim for any threads, any number of slots, any hash      *)
(* layout, any files and any bounds.                                        *)
(*                                                                         *)
(* The argument: while reading threads hash to different slots, a thread's  *)
(* own slot is the only one it ever touches, so it holds read_ts exactly    *)
(* between Acquire and Release (SlotInv).  A file test that reads the       *)
(* trackers in two steps then meets every reader with an old snapshot in    *)
(* the one it reads first or in the one it reads second (FileInv).          *)
(***************************************************************************)
EXTENDS Reclaim, TLAPS

Holds(th, t) == IF t = "mt" THEN HoldsMt(th) ELSE HoldsSst(th)

\* A read past Acquire has used a slot or the multiset; a snapshot is held only
\* while its files are read (by a scan, from before the move to tracker_sst_); a
\* fence is set when a file becomes pending, and only pending files are tested.
StageInv ==
    /\ \A th \in Threads : pc[th] \notin {"idle", "acquire_mt"} => slot_[th] # -2
    /\ \A th \in Threads : snap[th] # {} =>
           \/ pc[th] = "read"
           \/ kind[th] = "scan" /\ pc[th] \in {"acquire_sst", "release_mt"}
    /\ \A f \in Files : status[f] \in {"none", "live", "swapped"} => fence_ts[f] = 0
    /\ gc.pc = "second" => status[gc.f] = "pending"

\* While hashes do not meet, a thread finds its own slot at the first try, and the
\* slot holds its timestamp exactly as long as the thread is registered.
SlotInv ==
    Distinct =>
        /\ \A th \in Threads : probe[th] = 0
        /\ \A th \in Threads : slot_[th] \in {start[th], -2}
        /\ \A t \in Trackers : ~fallback_used[t]
        /\ \A th \in Readers : \A t \in Trackers :
               slots[t][start[th]] = IF Holds(th, t) THEN read_ts[th] ELSE 0
        /\ \A i \in Slots : (\A th \in Readers : start[th] # i) =>
               \A t \in Trackers : slots[t][i] = 0

\* th took its snapshot of f, which was merged away since, below f's fence.
Claim(th, f) == f \in snap[th] /\ 0 < read_ts[th] /\ read_ts[th] < fence_ts[f]

\* A claimed file is on disk, and a test under way that has passed its first half has
\* not yet read the tracker in which the claiming reader is registered.
FileInv ==
    Distinct => \A th \in Threads : \A f \in Files : Claim(th, f) =>
        /\ kind[th] = "lookup" \/ ~sst_first => status[f] # "deleted"
        /\ gc.pc = "second" /\ gc.f = f /\ gc.ok =>
               IF sst_first THEN kind[th] = "scan" ELSE pc[th] = "read"

IInv == TypeOK /\ StageInv /\ SlotInv /\ FileInv

-----------------------------------------------------------------------------
(* Types.                                                                   *)

\* The slots a thread tries, from its own on, are slots of the table.
LEMMA SlotAtType ==
    ASSUME TypeOK, NEW th \in Threads, NEW n \in 0..(kSlots - 1)
    PROVE  SlotAt(th, n) \in Slots
<1>1. kSlots \in Nat \ {0} /\ start[th] \in 0..(kSlots - 1)
  BY ReclaimAssumption DEF TypeOK, kSlots, start
<1>2. CASE start[th] + n < kSlots
  BY <1>1, <1>2 DEF SlotAt, Slots
<1>3. CASE ~(start[th] + n < kSlots)
  BY <1>1, <1>3 DEF SlotAt, Slots
<1> QED  BY <1>2, <1>3

\* A thread's own slot is the first it tries.
LEMMA OwnSlot ==
    ASSUME TypeOK, NEW th \in Threads
    PROVE  /\ kSlots \in Nat \ {0}
           /\ start[th] \in Slots /\ SlotAt(th, 0) = start[th]
  BY ReclaimAssumption DEF TypeOK, SlotAt, Slots, kSlots, start

\* One turn of Acquire keeps the types of the tracker and of the thread.
LEMMA AcquireType ==
    ASSUME TypeOK, NEW th \in Threads, NEW t \in Trackers, NEW next \in Phases,
           AcquireStep(th, t, next), UNCHANGED <<layout, read_ts>>
    PROVE  /\ slots' \in [Trackers -> [Slots -> 0..MaxTs]]
           /\ active' \in [Trackers -> [0..MaxTs -> Nat]]
           /\ fallback_used' \in [Trackers -> BOOLEAN]
           /\ slot_' \in [Threads -> Slots \cup {-1, -2}]
           /\ pc' \in [Threads -> Phases]
           /\ probe' \in [Threads -> 0..kSlots]
<1>0. probe[th] \in 0..kSlots /\ read_ts[th] \in 0..MaxTs /\ kSlots \in Nat \ {0}
  BY OwnSlot DEF TypeOK
<1>1. CASE /\ probe[th] < kSlots
           /\ slots' = [slots EXCEPT ![t][SlotAt(th, probe[th])] = read_ts[th]]
           /\ slot_' = [slot_ EXCEPT ![th] = SlotAt(th, probe[th])]
           /\ probe' = [probe EXCEPT ![th] = 0]
           /\ pc' = [pc EXCEPT ![th] = next]
           /\ UNCHANGED <<active, fallback_used>>
  <2>1. SlotAt(th, probe[th]) \in Slots
    BY <1>0, <1>1, SlotAtType
  <2> QED  BY <1>0, <1>1, <2>1 DEF TypeOK
<1>2. CASE /\ probe[th] < kSlots
           /\ probe' = [probe EXCEPT ![th] = @ + 1]
           /\ UNCHANGED <<slots, slot_, pc, active, fallback_used>>
  BY <1>0, <1>2 DEF TypeOK
<1>3. CASE /\ fallback_used' = [fallback_used EXCEPT ![t] = TRUE]
           /\ active' = [active EXCEPT ![t][read_ts[th]] = @ + 1]
           /\ slot_' = [slot_ EXCEPT ![th] = -1]
           /\ probe' = [probe EXCEPT ![th] = 0]
           /\ pc' = [pc EXCEPT ![th] = next]
           /\ UNCHANGED slots
  <2>1. [active[t] EXCEPT ![read_ts[th]] = @ + 1] \in [0..MaxTs -> Nat]
    <3>1. active[t] \in [0..MaxTs -> Nat]
      BY DEF TypeOK
    <3>2. PICK x \in Nat : active[t][read_ts[th]] = x
      BY <1>0, <3>1, Zenon
    <3> QED  BY <1>0, <3>1, <3>2
  <2>2. active' \in [Trackers -> [0..MaxTs -> Nat]]
    BY <1>3, <2>1 DEF TypeOK
  <2> QED  BY <1>0, <1>3, <2>2 DEF TypeOK
<1> QED  BY <1>1, <1>2, <1>3 DEF AcquireStep

\* Release keeps the types of the tracker.
LEMMA ReleaseType ==
    ASSUME TypeOK, NEW th \in Threads, NEW t \in Trackers, Release(th, t)
    PROVE  /\ slots' \in [Trackers -> [Slots -> 0..MaxTs]]
           /\ active' \in [Trackers -> [0..MaxTs -> Nat]]
           /\ fallback_used' \in [Trackers -> BOOLEAN]
<1>0. read_ts[th] \in 0..MaxTs /\ 0 \in 0..MaxTs /\ slot_[th] \in Slots \cup {-1, -2}
  BY ReclaimAssumption DEF TypeOK
<1>1. CASE slot_[th] >= 0
  <2>1. slot_[th] \in Slots
    BY <1>0, <1>1
  <2>2. [slots[t] EXCEPT ![slot_[th]] = 0] \in [Slots -> 0..MaxTs]
    BY <1>0, <2>1 DEF TypeOK
  <2> QED  BY <1>1, <2>2 DEF TypeOK, Release
<1>2. CASE ~(slot_[th] >= 0)
  <2> DEFINE left == [active[t] EXCEPT ![read_ts[th]] = IF @ > 0 THEN @ - 1 ELSE 0]
  <2>1. left \in [0..MaxTs -> Nat]
    <3>1. active[t] \in [0..MaxTs -> Nat]
      BY DEF TypeOK
    <3>2. PICK x \in Nat : active[t][read_ts[th]] = x
      BY <1>0, <3>1, Zenon
    <3>3. left = [active[t] EXCEPT ![read_ts[th]] = IF x > 0 THEN x - 1 ELSE 0]
      BY <3>2
    <3>4. (IF x > 0 THEN x - 1 ELSE 0) \in Nat
      OBVIOUS
    <3> QED  BY <1>0, <3>1, <3>3, <3>4, Zenon
  <2>2. /\ active' = [active EXCEPT ![t] = left]
        /\ fallback_used' = [fallback_used EXCEPT
               ![t] = IF \A ts \in 0..MaxTs : left[ts] = 0 THEN FALSE ELSE @]
        /\ slots' = slots
    BY <1>2, Zenon DEF Release
  <2> HIDE DEF left
  <2> QED  BY <2>1, <2>2, Zenon DEF TypeOK
<1> QED  BY <1>1, <1>2

\* Every step keeps the types.
LEMMA TypeStep == TypeOK /\ [Next]_vars => TypeOK'
<1> SUFFICES ASSUME TypeOK, [Next]_vars PROVE TypeOK'
  OBVIOUS
<1> USE DEF Goto, rdvars, trvars, flvars
<1>1. ASSUME NEW th \in Threads, NEW k \in {"lookup", "scan"}, ReadBegin(th, k) PROVE TypeOK'
  <2>1. reads' \in [Threads -> 0..MaxReads]
    BY <1>1, ReclaimAssumption DEF TypeOK, ReadBegin
  <2>2. read_ts' \in [Threads -> 0..MaxTs]
    BY <1>1 DEF TypeOK, ReadBegin
  <2> QED  BY <1>1, <2>1, <2>2 DEF TypeOK, ReadBegin, Phases, Slots, kSlots
<1>2. ASSUME NEW th \in Threads, AcquireMt(th) PROVE TypeOK'
  <2> DEFINE next == IF kind[th] = "scan" THEN "snap" ELSE "acquire_sst"
  <2>1. next \in Phases /\ "mt" \in Trackers
    BY DEF Phases, Trackers
  <2>2. AcquireStep(th, "mt", next) /\ UNCHANGED <<layout, read_ts>>
    BY <1>2 DEF AcquireMt
  <2> HIDE DEF next
  <2> QED  BY <1>2, <2>1, <2>2, AcquireType, Zenon DEF TypeOK, AcquireMt, Slots, kSlots
<1>3. ASSUME NEW th \in Threads, Snapshot(th) PROVE TypeOK'
  BY <1>3 DEF TypeOK, Snapshot, Phases, Live, Slots, kSlots
<1>4. ASSUME NEW th \in Threads, MemtableHit(th) PROVE TypeOK'
  BY <1>4 DEF TypeOK, MemtableHit, Phases, Slots, kSlots
<1>5. ASSUME NEW th \in Threads, AcquireSst(th) PROVE TypeOK'
  <2>1. "release_mt" \in Phases /\ "sst" \in Trackers
    BY DEF Phases, Trackers
  <2>2. AcquireStep(th, "sst", "release_mt") /\ UNCHANGED <<layout, read_ts>>
    BY <1>5 DEF AcquireSst
  <2> QED  BY <1>5, <2>1, <2>2, AcquireType, Zenon DEF TypeOK, AcquireSst, Slots, kSlots
<1>6. ASSUME NEW th \in Threads, ReleaseMt(th) PROVE TypeOK'
  <2>1. Release(th, "mt") /\ "mt" \in Trackers
    BY <1>6 DEF ReleaseMt, Trackers
  <2> QED  BY <1>6, <2>1, ReleaseType, Zenon DEF TypeOK, ReleaseMt, Phases, Slots, kSlots
<1>7. ASSUME NEW th \in Threads, ReleaseSst(th) PROVE TypeOK'
  <2>1. Release(th, "sst") /\ "sst" \in Trackers /\ 0 \in 0..MaxTs
    BY <1>7, ReclaimAssumption DEF ReleaseSst, Trackers
  <2> QED  BY <1>7, <2>1, ReleaseType, Zenon DEF TypeOK, ReleaseSst, Phases, Slots, kSlots
<1>8. ASSUME NEW th \in Threads, GuardMt(th) PROVE TypeOK'
  <2>1. Release(th, "mt") /\ "mt" \in Trackers /\ 0 \in 0..MaxTs
    BY <1>8, ReclaimAssumption DEF GuardMt, Trackers
  <2> QED  BY <1>8, <2>1, ReleaseType, Zenon DEF TypeOK, GuardMt, Phases, Slots, kSlots
<1>9. CASE Write
  BY <1>9, ReclaimAssumption DEF TypeOK, Write, Slots, kSlots
<1>10. ASSUME NEW f \in Files, NEW g \in Files, Swap(f, g) PROVE TypeOK'
  BY <1>10, Zenon DEF TypeOK, Swap, Slots, kSlots
<1>11. ASSUME NEW f \in Files, Fence(f) PROVE TypeOK'
  BY <1>11 DEF TypeOK, Fence, Slots, kSlots
<1>12. ASSUME NEW f \in Files, DrainFirst(f) PROVE TypeOK'
  BY <1>12, Zenon DEF TypeOK, DrainFirst, Passed, Slots, kSlots
<1>13. CASE DrainSecond
  BY <1>13, Zenon DEF TypeOK, DrainSecond, Slots, kSlots
<1>14. CASE UNCHANGED vars
  BY <1>14 DEF TypeOK, vars, Slots, kSlots
<1> QED
  BY <1>1, <1>2, <1>3, <1>4, <1>5, <1>6, <1>7, <1>8, <1>9, <1>10, <1>11, <1>12, <1>13, <1>14
     DEF Next, ReadStep, Drain

-----------------------------------------------------------------------------
(* The stages of a read and of a file.                                      *)

\* Acquire changes its own thread only, and ends with a slot or the multiset.
LEMMA AcquireFrame ==
    ASSUME TypeOK, NEW th \in Threads, NEW t \in Trackers, NEW next \in Phases,
           AcquireStep(th, t, next)
    PROVE  \/ pc' = pc /\ slot_' = slot_
           \/ /\ pc' = [pc EXCEPT ![th] = next]
              /\ \E i \in Slots \cup {-1} : slot_' = [slot_ EXCEPT ![th] = i]
<1>1. probe[th] \in 0..kSlots /\ kSlots \in Nat \ {0}
  BY OwnSlot DEF TypeOK
<1>2. probe[th] < kSlots => SlotAt(th, probe[th]) \in Slots
  BY <1>1, SlotAtType
<1> QED  BY <1>2 DEF AcquireStep

\* Every step keeps the stages.
LEMMA StageStep == TypeOK /\ StageInv /\ [Next]_vars => StageInv'
<1> SUFFICES ASSUME TypeOK, StageInv, [Next]_vars PROVE StageInv'
  OBVIOUS
<1> USE DEF Goto, rdvars, trvars, flvars
<1>0. \A i \in Slots \cup {-1} : i # -2
  BY DEF Slots
<1>1. ASSUME NEW th \in Threads, NEW k \in {"lookup", "scan"}, ReadBegin(th, k) PROVE StageInv'
  BY <1>1, Zenon DEF TypeOK, StageInv, ReadBegin
<1>2. ASSUME NEW th \in Threads, AcquireMt(th) PROVE StageInv'
  <2> DEFINE next == IF kind[th] = "scan" THEN "snap" ELSE "acquire_sst"
  <2>1. \/ pc' = pc /\ slot_' = slot_
        \/ /\ pc' = [pc EXCEPT ![th] = next]
           /\ \E i \in Slots \cup {-1} : slot_' = [slot_ EXCEPT ![th] = i]
    BY <1>2, AcquireFrame DEF AcquireMt, Trackers, Phases
  <2>2. /\ pc[th] = "acquire_mt"
        /\ UNCHANGED <<kind, snap, status, fence_ts, gc>>
    BY <1>2 DEF AcquireMt
  <2>3. snap[th] = {}
    BY <2>2 DEF StageInv
  <2>4. CASE pc' = pc /\ slot_' = slot_
    BY <2>2, <2>4 DEF StageInv
  <2>5. ASSUME NEW i \in Slots \cup {-1}, slot_' = [slot_ EXCEPT ![th] = i],
               pc' = [pc EXCEPT ![th] = next]
        PROVE  StageInv'
    <3>1. \A ot \in Threads : pc'[ot] \notin {"idle", "acquire_mt"} => slot_'[ot] # -2
      BY <1>0, <2>5 DEF TypeOK, StageInv
    <3>2. \A ot \in Threads : snap[ot] # {} =>
              \/ pc'[ot] = "read"
              \/ kind[ot] = "scan" /\ pc'[ot] \in {"acquire_sst", "release_mt"}
      BY <2>2, <2>3, <2>5 DEF TypeOK, StageInv
    <3> QED  BY <2>2, <3>1, <3>2 DEF StageInv
  <2> QED  BY <2>1, <2>4, <2>5
<1>3. ASSUME NEW th \in Threads, Snapshot(th) PROVE StageInv'
  BY <1>3 DEF TypeOK, StageInv, Snapshot
<1>4. ASSUME NEW th \in Threads, MemtableHit(th) PROVE StageInv'
  BY <1>4 DEF TypeOK, StageInv, MemtableHit
<1>5. ASSUME NEW th \in Threads, AcquireSst(th) PROVE StageInv'
  <2>1. \/ pc' = pc /\ slot_' = slot_
        \/ /\ pc' = [pc EXCEPT ![th] = "release_mt"]
           /\ \E i \in Slots \cup {-1} : slot_' = [slot_ EXCEPT ![th] = i]
    BY <1>5, AcquireFrame DEF AcquireSst, Trackers, Phases
  <2>2. /\ pc[th] = "acquire_sst"
        /\ UNCHANGED <<kind, snap, status, fence_ts, gc>>
    BY <1>5 DEF AcquireSst
  <2>4. CASE pc' = pc /\ slot_' = slot_
    BY <2>2, <2>4 DEF StageInv
  <2>5. ASSUME NEW i \in Slots \cup {-1}, slot_' = [slot_ EXCEPT ![th] = i],
               pc' = [pc EXCEPT ![th] = "release_mt"]
        PROVE  StageInv'
    <3>1. \A ot \in Threads : pc'[ot] \notin {"idle", "acquire_mt"} => slot_'[ot] # -2
      BY <1>0, <2>5 DEF TypeOK, StageInv
    <3>2. \A ot \in Threads : snap[ot] # {} =>
              \/ pc'[ot] = "read"
              \/ kind[ot] = "scan" /\ pc'[ot] \in {"acquire_sst", "release_mt"}
      BY <2>2, <2>5 DEF TypeOK, StageInv
    <3> QED  BY <2>2, <3>1, <3>2 DEF StageInv
  <2> QED  BY <2>1, <2>4, <2>5
<1>6. ASSUME NEW th \in Threads, ReleaseMt(th) PROVE StageInv'
  BY <1>6 DEF TypeOK, StageInv, ReleaseMt
<1>7. ASSUME NEW th \in Threads, ReleaseSst(th) PROVE StageInv'
  BY <1>7, Zenon DEF TypeOK, StageInv, ReleaseSst
<1>8. ASSUME NEW th \in Threads, GuardMt(th) PROVE StageInv'
  BY <1>8 DEF TypeOK, StageInv, GuardMt
<1>9. CASE Write
  BY <1>9 DEF StageInv, Write
<1>10. ASSUME NEW f \in Files, NEW g \in Files, Swap(f, g) PROVE StageInv'
  BY <1>10 DEF TypeOK, StageInv, Swap, NoTest
<1>11. ASSUME NEW f \in Files, Fence(f) PROVE StageInv'
  BY <1>11 DEF TypeOK, StageInv, Fence, NoTest
<1>12. ASSUME NEW f \in Files, DrainFirst(f) PROVE StageInv'
  BY <1>12 DEF StageInv, DrainFirst
<1>13. CASE DrainSecond
  BY <1>13 DEF TypeOK, StageInv, DrainSecond, NoTest
<1>14. CASE UNCHANGED vars
  BY <1>14 DEF StageInv, vars
<1> QED
  BY <1>1, <1>2, <1>3, <1>4, <1>5, <1>6, <1>7, <1>8, <1>9, <1>10, <1>11, <1>12, <1>13, <1>14
     DEF Next, ReadStep, Drain

\* A thread that has read stays one that has read, so hashes that met stay met.
LEMMA ReadersGrow ==
    ASSUME TypeOK, StageInv, [Next]_vars
    PROVE  layout' = layout /\ Readers \subseteq Readers' /\ (Distinct' => Distinct)
<1> USE DEF Goto, rdvars, trvars, flvars
<1>0. \A i \in Slots \cup {-1} : i # -2
  BY DEF Slots
<1> DEFINE Grow == layout' = layout /\ Readers \subseteq Readers'
<1>1. ASSUME NEW th \in Threads, NEW k \in {"lookup", "scan"}, ReadBegin(th, k) PROVE Grow
  BY <1>1 DEF TypeOK, ReadBegin, Readers
<1>2. ASSUME NEW th \in Threads, AcquireMt(th) PROVE Grow
  <2> DEFINE next == IF kind[th] = "scan" THEN "snap" ELSE "acquire_sst"
  <2>1. \/ pc' = pc /\ slot_' = slot_
        \/ /\ pc' = [pc EXCEPT ![th] = next]
           /\ \E i \in Slots \cup {-1} : slot_' = [slot_ EXCEPT ![th] = i]
    BY <1>2, AcquireFrame DEF AcquireMt, Trackers, Phases
  <2>2. layout' = layout
    BY <1>2 DEF AcquireMt
  <2> QED  BY <1>0, <2>1, <2>2 DEF TypeOK, Readers
<1>3. ASSUME NEW th \in Threads, Snapshot(th) \/ MemtableHit(th) PROVE Grow
  BY <1>3 DEF TypeOK, Snapshot, MemtableHit, Readers
<1>5. ASSUME NEW th \in Threads, AcquireSst(th) PROVE Grow
  <2>1. \/ pc' = pc /\ slot_' = slot_
        \/ /\ pc' = [pc EXCEPT ![th] = "release_mt"]
           /\ \E i \in Slots \cup {-1} : slot_' = [slot_ EXCEPT ![th] = i]
    BY <1>5, AcquireFrame DEF AcquireSst, Trackers, Phases
  <2>2. layout' = layout
    BY <1>5 DEF AcquireSst
  <2> QED  BY <1>0, <2>1, <2>2 DEF TypeOK, Readers
<1>6. ASSUME NEW th \in Threads, ReleaseMt(th) \/ ReleaseSst(th) \/ GuardMt(th) PROVE Grow
  BY <1>6 DEF TypeOK, StageInv, ReleaseMt, ReleaseSst, GuardMt, Readers
<1>9. ASSUME Write \/ DrainSecond \/ UNCHANGED vars PROVE Grow
  <2>1. layout' = layout /\ pc' = pc /\ slot_' = slot_
    BY <1>9 DEF Write, DrainSecond, vars
  <2>2. Readers' = Readers
    BY <2>1 DEF Readers
  <2> QED  BY <2>1, <2>2
<1>10. ASSUME NEW f \in Files, DrainFirst(f) \/ Fence(f) \/ \E g \in Files : Swap(f, g) PROVE Grow
  BY <1>10 DEF DrainFirst, Fence, Swap, Readers
<1>11. Grow
  BY <1>1, <1>2, <1>3, <1>5, <1>6, <1>9, <1>10 DEF Next, ReadStep, Drain
<1> QED  BY <1>11 DEF Distinct, start

-----------------------------------------------------------------------------
(* Own slots.                                                               *)

\* While hashes do not meet, Acquire takes the thread's own slot at once.
LEMMA AcquireOwn ==
    ASSUME TypeOK, SlotInv, Distinct, NEW th \in Readers, NEW t \in Trackers, ~Holds(th, t),
           NEW next, AcquireStep(th, t, next)
    PROVE  /\ slots' = [slots EXCEPT ![t][start[th]] = read_ts[th]]
           /\ slot_' = [slot_ EXCEPT ![th] = start[th]]
           /\ probe' = [probe EXCEPT ![th] = 0]
           /\ pc' = [pc EXCEPT ![th] = next]
           /\ fallback_used' = fallback_used
<1>1. th \in Threads
  BY DEF Readers
<1>2. probe[th] = 0 /\ slots[t][start[th]] = 0
  BY <1>1 DEF SlotInv
<1>3. SlotAt(th, probe[th]) = start[th] /\ 0 < kSlots /\ probe[th] # kSlots
  BY <1>1, <1>2, OwnSlot
<1> QED  BY <1>2, <1>3 DEF AcquireStep

\* While hashes do not meet, Release clears the thread's own slot.
LEMMA ReleaseOwn ==
    ASSUME TypeOK, StageInv, SlotInv, Distinct, NEW th \in Threads, NEW t \in Trackers,
           pc[th] \notin {"idle", "acquire_mt"}, Release(th, t)
    PROVE  slots' = [slots EXCEPT ![t][start[th]] = 0] /\ fallback_used' = fallback_used
<1>1. slot_[th] = start[th] /\ start[th] \in Slots
  BY OwnSlot DEF StageInv, SlotInv
<1>2. slot_[th] >= 0
  BY <1>1, OwnSlot DEF Slots
<1> QED  BY <1>1, <1>2, Zenon DEF Release

\* A step of one reader that writes only its own slot, and writes there what the
\* stage it reaches calls for, keeps SlotInv.
LEMMA SlotUpdate ==
    ASSUME TypeOK, SlotInv, Distinct, Distinct', layout' = layout,
           NEW th \in Readers, NEW t \in Trackers, NEW v,
           Readers \subseteq Readers',
           slots' = [slots EXCEPT ![t][start[th]] = v],
           v = IF Holds(th, t)' THEN read_ts'[th] ELSE 0,
           \A u \in Trackers : u # t =>
               (IF Holds(th, u)' THEN read_ts'[th] ELSE 0) =
               (IF Holds(th, u) THEN read_ts[th] ELSE 0),
           \A ot \in Threads : ot # th =>
               /\ pc'[ot] = pc[ot] /\ slot_'[ot] = slot_[ot]
               /\ kind'[ot] = kind[ot] /\ read_ts'[ot] = read_ts[ot],
           \A ot \in Threads : probe'[ot] = 0 /\ slot_'[ot] \in {start[ot], -2},
           fallback_used' = fallback_used
    PROVE  SlotInv'
<1>1. start' = start /\ Slots' = Slots
  BY DEF start, Slots, kSlots
<1>2. th \in Threads /\ \A ot \in Readers : ot \in Threads
  BY DEF Readers
<1>3. \A ot \in Threads : start[ot] \in Slots
  BY OwnSlot
<1>4. ASSUME NEW u \in Trackers, NEW i \in Slots, u # t \/ i # start[th]
      PROVE  slots'[u][i] = slots[u][i]
  BY <1>2, <1>3, <1>4, Zenon DEF TypeOK
<1>5. slots'[t][start[th]] = v
  BY <1>2, <1>3 DEF TypeOK
<1>6. ASSUME NEW ot \in Readers, NEW u \in Trackers
      PROVE  slots'[u][start[ot]] = IF Holds(ot, u)' THEN read_ts'[ot] ELSE 0
  <2>1. slots[u][start[ot]] = IF Holds(ot, u) THEN read_ts[ot] ELSE 0
    BY DEF SlotInv
  <2>2. CASE ot # th
    <3>1. start[ot] # start[th]
      BY <2>2 DEF Distinct
    <3>2. Holds(ot, u)' = Holds(ot, u) /\ read_ts'[ot] = read_ts[ot]
      BY <1>2, <2>2 DEF Holds, HoldsMt, HoldsSst
    <3> QED  BY <1>2, <1>3, <1>4, <2>1, <3>1, <3>2
  <2>3. CASE ot = th /\ u # t
    <3>1. slots'[u][start[ot]] = slots[u][start[ot]]
      BY <1>2, <1>3, <1>4, <2>3
    <3> QED  BY <2>1, <2>3, <3>1
  <2>4. CASE ot = th /\ u = t
    BY <1>5, <2>4
  <2> QED  BY <2>2, <2>3, <2>4
<1>7. ASSUME NEW i \in Slots, \A ot \in Readers : start[ot] # i, NEW u \in Trackers
      PROVE  slots'[u][i] = 0
  <2>1. slots'[u][i] = slots[u][i]
    BY <1>4, <1>7
  <2> QED  BY <1>7, <2>1 DEF SlotInv
<1>8. \A u \in Trackers : ~fallback_used'[u]
  BY DEF SlotInv
<1>9. Readers' = Readers
  BY <1>2 DEF Readers
<1> QED  BY <1>1, <1>6, <1>7, <1>8, <1>9 DEF SlotInv

\* Every step keeps own slots.
LEMMA SlotStep == TypeOK /\ StageInv /\ SlotInv /\ [Next]_vars => SlotInv'
<1> SUFFICES ASSUME TypeOK, StageInv, SlotInv, [Next]_vars, Distinct' PROVE SlotInv'
  BY DEF SlotInv
<1> USE DEF Goto, rdvars, trvars, flvars
<1>0. layout' = layout /\ Readers \subseteq Readers' /\ Distinct
  BY ReadersGrow
<1>m. "mt" \in Trackers /\ "sst" \in Trackers /\ \A u \in Trackers : u = "mt" \/ u = "sst"
  BY DEF Trackers
<1>p. \A ot \in Threads : probe[ot] = 0 /\ slot_[ot] \in {start[ot], -2}
  BY <1>0 DEF SlotInv
<1>1. ASSUME NEW th \in Threads, NEW k \in {"lookup", "scan"}, ReadBegin(th, k) PROVE SlotInv'
  <2>1. start' = start /\ Slots' = Slots
    BY <1>0 DEF start, Slots, kSlots
  <2>2. Readers' = Readers \cup {th}
    BY <1>0, <1>1 DEF TypeOK, ReadBegin, Readers
  <2>3. ASSUME NEW u \in Trackers PROVE slots[u][start[th]] = 0
    <3>1. CASE th \in Readers
      <4>1. ~Holds(th, u)
        BY <1>1 DEF ReadBegin, Holds, HoldsMt, HoldsSst
      <4> QED  BY <1>0, <3>1, <4>1 DEF SlotInv
    <3>2. CASE th \notin Readers
      <4>1. \A ot \in Readers : start[ot] # start[th]
        BY <2>1, <2>2, <3>2 DEF Distinct
      <4> QED  BY <1>0, <4>1, OwnSlot DEF SlotInv
    <3> QED  BY <3>1, <3>2
  <2>4. ASSUME NEW ot \in Readers', NEW u \in Trackers
        PROVE  slots[u][start[ot]] = IF Holds(ot, u)' THEN read_ts'[ot] ELSE 0
    <3>1. CASE ot = th
      <4>1. ~Holds(th, u)'
        BY <1>1, Zenon DEF TypeOK, ReadBegin, Holds, HoldsMt, HoldsSst
      <4> QED  BY <2>3, <3>1, <4>1
    <3>2. CASE ot # th
      <4>1. ot \in Readers /\ ot \in Threads
        BY <2>2, <3>2 DEF Readers
      <4>2. /\ pc'[ot] = pc[ot] /\ kind'[ot] = kind[ot] /\ read_ts'[ot] = read_ts[ot]
        BY <1>1, <3>2, <4>1 DEF TypeOK, ReadBegin
      <4>3. Holds(ot, u)' = Holds(ot, u)
        BY <4>2 DEF Holds, HoldsMt, HoldsSst
      <4> QED  BY <1>0, <4>1, <4>2, <4>3 DEF SlotInv
    <3> QED  BY <3>1, <3>2
  <2>5. UNCHANGED <<slots, probe, slot_, fallback_used>>
    BY <1>1 DEF ReadBegin
  <2>6. ASSUME NEW i \in Slots, \A ot \in Readers' : start[ot] # i, NEW u \in Trackers
        PROVE  slots[u][i] = 0
    BY <1>0, <2>6 DEF SlotInv
  <2> QED  BY <1>0, <1>p, <2>1, <2>4, <2>5, <2>6 DEF SlotInv
<1>2. ASSUME NEW th \in Threads, AcquireMt(th) PROVE SlotInv'
  <2> DEFINE next == IF kind[th] = "scan" THEN "snap" ELSE "acquire_sst"
  <2>1. th \in Readers /\ ~Holds(th, "mt") /\ ~Holds(th, "sst")
    BY <1>2 DEF AcquireMt, Readers, Holds, HoldsMt, HoldsSst
  <2>2. AcquireStep(th, "mt", next) /\ kind' = kind /\ read_ts' = read_ts
    BY <1>2 DEF AcquireMt
  <2>3. /\ slots' = [slots EXCEPT !["mt"][start[th]] = read_ts[th]]
        /\ slot_' = [slot_ EXCEPT ![th] = start[th]]
        /\ probe' = [probe EXCEPT ![th] = 0]
        /\ pc' = [pc EXCEPT ![th] = next]
        /\ fallback_used' = fallback_used
    BY <1>0, <1>m, <2>1, <2>2, AcquireOwn
  <2>4. Holds(th, "mt")' /\ ~Holds(th, "sst")'
    BY <2>2, <2>3 DEF TypeOK, Holds, HoldsMt, HoldsSst
  <2>5. \A ot \in Threads : ot # th =>
            /\ pc'[ot] = pc[ot] /\ slot_'[ot] = slot_[ot]
            /\ kind'[ot] = kind[ot] /\ read_ts'[ot] = read_ts[ot]
    BY <2>2, <2>3 DEF TypeOK
  <2>6. \A ot \in Threads : probe'[ot] = 0 /\ slot_'[ot] \in {start[ot], -2}
    BY <1>p, <2>3 DEF TypeOK
  <2>7. read_ts[th] = IF Holds(th, "mt")' THEN read_ts'[th] ELSE 0
    BY <2>2, <2>4, Zenon
  <2>8. \A u \in Trackers : u # "mt" =>
            (IF Holds(th, u)' THEN read_ts'[th] ELSE 0) = (IF Holds(th, u) THEN read_ts[th] ELSE 0)
    <3>1. (IF Holds(th, "sst")' THEN read_ts'[th] ELSE 0) =
          (IF Holds(th, "sst") THEN read_ts[th] ELSE 0)
      BY <2>1, <2>2, <2>4, Zenon
    <3> QED  BY <1>m, <3>1, Zenon
  <2> QED  BY <1>0, <1>m, <2>1, <2>3, <2>5, <2>6, <2>7, <2>8, SlotUpdate, Zenon
<1>3. ASSUME NEW th \in Threads, Snapshot(th) \/ MemtableHit(th) PROVE SlotInv'
  <2>1. th \in Readers /\ pc[th] = "snap"
    BY <1>3 DEF Snapshot, MemtableHit, Readers
  <2>2. UNCHANGED <<slots, kind, read_ts, probe, slot_, fallback_used>>
    BY <1>3 DEF Snapshot, MemtableHit
  <2>3. \/ kind[th] = "scan" /\ pc' = [pc EXCEPT ![th] = "acquire_sst"]
        \/ kind[th] = "lookup" /\ pc' = [pc EXCEPT ![th] = "read"]
    BY <1>3 DEF TypeOK, Snapshot, MemtableHit
  <2>4. \A u \in Trackers : Holds(th, u)' = Holds(th, u)
    BY <2>1, <2>2, <2>3 DEF TypeOK, Holds, HoldsMt, HoldsSst
  <2>5. \A ot \in Threads : ot # th =>
            /\ pc'[ot] = pc[ot] /\ slot_'[ot] = slot_[ot]
            /\ kind'[ot] = kind[ot] /\ read_ts'[ot] = read_ts[ot]
    BY <2>2, <2>3 DEF TypeOK
  <2> DEFINE v == slots["mt"][start[th]]
  <2>6. slots' = [slots EXCEPT !["mt"][start[th]] = v]
    BY <1>m, <2>2, OwnSlot DEF TypeOK
  <2>7. v = IF Holds(th, "mt")' THEN read_ts'[th] ELSE 0
    BY <1>0, <1>m, <2>1, <2>2, <2>4 DEF SlotInv
  <2> HIDE DEF v
  <2>8. \A u \in Trackers : (IF Holds(th, u)' THEN read_ts'[th] ELSE 0) =
                           (IF Holds(th, u) THEN read_ts[th] ELSE 0)
    BY <2>2, <2>4
  <2>9. \A ot \in Threads : probe'[ot] = 0 /\ slot_'[ot] \in {start[ot], -2}
    BY <1>p, <2>2
  <2>10. fallback_used' = fallback_used /\ "mt" \in Trackers
    BY <1>m, <2>2
  <2> QED  BY <1>0, <2>1, <2>5, <2>6, <2>7, <2>8, <2>9, <2>10, SlotUpdate, Zenon
<1>5. ASSUME NEW th \in Threads, AcquireSst(th) PROVE SlotInv'
  <2>1. th \in Readers /\ Holds(th, "mt") /\ ~Holds(th, "sst")
    BY <1>5 DEF AcquireSst, Readers, Holds, HoldsMt, HoldsSst
  <2>2. AcquireStep(th, "sst", "release_mt") /\ kind' = kind /\ read_ts' = read_ts
    BY <1>5 DEF AcquireSst
  <2>3. /\ slots' = [slots EXCEPT !["sst"][start[th]] = read_ts[th]]
        /\ slot_' = [slot_ EXCEPT ![th] = start[th]]
        /\ probe' = [probe EXCEPT ![th] = 0]
        /\ pc' = [pc EXCEPT ![th] = "release_mt"]
        /\ fallback_used' = fallback_used
    BY <1>0, <1>m, <2>1, <2>2, AcquireOwn
  <2>4. Holds(th, "mt")' /\ Holds(th, "sst")'
    BY <2>3 DEF TypeOK, Holds, HoldsMt, HoldsSst
  <2>5. \A ot \in Threads : ot # th =>
            /\ pc'[ot] = pc[ot] /\ slot_'[ot] = slot_[ot]
            /\ kind'[ot] = kind[ot] /\ read_ts'[ot] = read_ts[ot]
    BY <2>2, <2>3 DEF TypeOK
  <2>6. \A ot \in Threads : probe'[ot] = 0 /\ slot_'[ot] \in {start[ot], -2}
    BY <1>p, <2>3 DEF TypeOK
  <2>7. read_ts[th] = IF Holds(th, "sst")' THEN read_ts'[th] ELSE 0
    BY <2>2, <2>4, Zenon
  <2>8. \A u \in Trackers : u # "sst" =>
            (IF Holds(th, u)' THEN read_ts'[th] ELSE 0) = (IF Holds(th, u) THEN read_ts[th] ELSE 0)
    <3>1. (IF Holds(th, "mt")' THEN read_ts'[th] ELSE 0) =
          (IF Holds(th, "mt") THEN read_ts[th] ELSE 0)
      BY <2>1, <2>2, <2>4, Zenon
    <3> QED  BY <1>m, <3>1, Zenon
  <2> QED  BY <1>0, <1>m, <2>1, <2>3, <2>5, <2>6, <2>7, <2>8, SlotUpdate, Zenon
<1>6. ASSUME NEW th \in Threads, ReleaseMt(th) \/ GuardMt(th) PROVE SlotInv'
  <2>1. th \in Readers /\ pc[th] \in {"release_mt", "guard_mt"}
    BY <1>6 DEF ReleaseMt, GuardMt, Readers
  <2>2. Release(th, "mt") /\ UNCHANGED <<slot_, kind, probe>>
    BY <1>6 DEF ReleaseMt, GuardMt
  <2>3. slots' = [slots EXCEPT !["mt"][start[th]] = 0] /\ fallback_used' = fallback_used
    BY <1>0, <1>m, <2>1, <2>2, ReleaseOwn
  <2>4. /\ ~Holds(th, "mt")' /\ Holds(th, "sst")' = Holds(th, "sst")
        /\ Holds(th, "sst") => read_ts'[th] = read_ts[th]
    BY <1>6 DEF TypeOK, ReleaseMt, GuardMt, Holds, HoldsMt, HoldsSst
  <2>5. \A ot \in Threads : ot # th => pc'[ot] = pc[ot] /\ read_ts'[ot] = read_ts[ot]
    BY <1>6 DEF TypeOK, ReleaseMt, GuardMt
  <2>6. \A u \in Trackers : u # "mt" => (IF Holds(th, u)' THEN read_ts'[th] ELSE 0) =
                                       (IF Holds(th, u) THEN read_ts[th] ELSE 0)
    BY <1>m, <2>4
  <2>7. \A ot \in Threads : probe'[ot] = 0 /\ slot_'[ot] \in {start[ot], -2}
    BY <1>p, <2>2
  <2> QED  BY <1>0, <1>m, <2>1, <2>2, <2>3, <2>4, <2>5, <2>6, <2>7, SlotUpdate, Zenon
<1>7. ASSUME NEW th \in Threads, ReleaseSst(th) PROVE SlotInv'
  <2>1. th \in Readers /\ pc[th] = "read"
    BY <1>7 DEF ReleaseSst, Readers
  <2>2. Release(th, "sst") /\ UNCHANGED <<slot_, kind, probe>>
    BY <1>7 DEF ReleaseSst
  <2>3. slots' = [slots EXCEPT !["sst"][start[th]] = 0] /\ fallback_used' = fallback_used
    BY <1>0, <1>m, <2>1, <2>2, ReleaseOwn
  <2>4. ~Holds(th, "sst")' /\ ~Holds(th, "mt") /\ ~Holds(th, "mt")'
    BY <1>7 DEF TypeOK, ReleaseSst, Holds, HoldsMt, HoldsSst
  <2>5. \A ot \in Threads : ot # th => pc'[ot] = pc[ot] /\ read_ts'[ot] = read_ts[ot]
    BY <1>7 DEF TypeOK, ReleaseSst
  <2> QED  BY <1>0, <1>m, <1>p, <2>1, <2>2, <2>3, <2>4, <2>5, SlotUpdate
<1>9. ASSUME \/ Write \/ DrainSecond \/ UNCHANGED vars
             \/ \E f \in Files : DrainFirst(f) \/ Fence(f) \/ \E g \in Files : Swap(f, g)
      PROVE  SlotInv'
  <2>1. UNCHANGED <<layout, slots, fallback_used, slot_, pc, kind, probe, read_ts>>
    BY <1>9 DEF Write, DrainSecond, DrainFirst, Fence, Swap, vars
  <2>2. /\ start' = start /\ Slots' = Slots /\ Readers' = Readers
        /\ \A th \in Threads, u \in Trackers : Holds(th, u)' = Holds(th, u)
    BY <2>1 DEF start, Slots, kSlots, Readers, Holds, HoldsMt, HoldsSst
  <2>3. \A th \in Readers : th \in Threads
    BY DEF Readers
  <2> QED  BY <1>0, <2>1, <2>2, <2>3 DEF SlotInv
<1> QED
  BY <1>1, <1>2, <1>3, <1>5, <1>6, <1>7, <1>9 DEF Next, ReadStep, Drain

-----------------------------------------------------------------------------
(* Files.                                                                   *)

\* While hashes do not meet, a registered reader stops every test of its tracker
\* against a fence above its timestamp.
LEMMA RegisteredBlocks ==
    ASSUME TypeOK, SlotInv, Distinct, NEW th \in Threads, NEW t \in Trackers, Holds(th, t),
           0 < read_ts[th], NEW fence \in Nat, read_ts[th] < fence
    PROVE  ~Passed(t, fence)
<1>1. th \in Readers
  BY DEF Holds, HoldsMt, HoldsSst, Readers
<1>2. slots[t][start[th]] = read_ts[th]
  BY <1>1 DEF SlotInv
<1>3. read_ts[th] \in Nat /\ start[th] \in Slots
  BY OwnSlot DEF TypeOK
<1> QED  BY <1>2, <1>3 DEF Passed

\* A reader with a claim reads its files or, if a scan, is on the way there.
LEMMA ClaimStage ==
    ASSUME TypeOK, StageInv, NEW th \in Threads, NEW f \in Files, Claim(th, f)
    PROVE  /\ kind[th] = "lookup" => pc[th] = "read"
           /\ pc[th] # "read" => Holds(th, "mt")
           /\ pc[th] = "read" => Holds(th, "sst")
           /\ status[f] \in {"pending", "deleted"} /\ fence_ts[f] \in Nat
<1>1. snap[th] # {}
  BY DEF Claim
<1>2. \/ pc[th] = "read"
      \/ kind[th] = "scan" /\ pc[th] \in {"acquire_sst", "release_mt"}
  BY <1>1 DEF StageInv
<1>3. fence_ts[f] \in Nat /\ read_ts[th] \in Nat
  BY DEF TypeOK
<1>4. fence_ts[f] # 0
  BY <1>3 DEF Claim
<1> QED  BY <1>2, <1>3, <1>4 DEF TypeOK, StageInv, Holds, HoldsMt, HoldsSst

\* Every step keeps claimed files.
LEMMA FileStep == TypeOK /\ StageInv /\ SlotInv /\ FileInv /\ [Next]_vars => FileInv'
<1> SUFFICES ASSUME TypeOK, StageInv, SlotInv, FileInv, [Next]_vars, Distinct',
                    NEW rd \in Threads, NEW h \in Files, Claim(rd, h)'
             PROVE  /\ kind'[rd] = "lookup" \/ ~sst_first' => status'[h] # "deleted"
                    /\ gc'.pc = "second" /\ gc'.f = h /\ gc'.ok =>
                           IF sst_first' THEN kind'[rd] = "scan" ELSE pc'[rd] = "read"
  BY Zenon DEF FileInv
<1> USE DEF Goto, rdvars, trvars, flvars
<1> DEFINE Goal == /\ kind'[rd] = "lookup" \/ ~sst_first' => status'[h] # "deleted"
                   /\ gc'.pc = "second" /\ gc'.f = h /\ gc'.ok =>
                          IF sst_first' THEN kind'[rd] = "scan" ELSE pc'[rd] = "read"
<1>0. Distinct
  BY ReadersGrow, Zenon
<1>f. Claim(rd, h) => /\ kind[rd] = "lookup" \/ ~sst_first => status[h] # "deleted"
                      /\ gc.pc = "second" /\ gc.f = h /\ gc.ok =>
                             IF sst_first THEN kind[rd] = "scan" ELSE pc[rd] = "read"
  BY <1>0, Zenon DEF FileInv
<1>1. ASSUME NEW th \in Threads, NEW k \in {"lookup", "scan"}, ReadBegin(th, k) PROVE Goal
  <2>1. snap[th] = {}
    BY <1>1 DEF ReadBegin, StageInv
  <2>2. rd # th
    BY <1>1, <2>1 DEF ReadBegin, Claim
  <2> QED  BY <1>1, <1>f, <2>2, Zenon DEF TypeOK, ReadBegin, Claim
<1>2. ASSUME NEW th \in Threads, AcquireMt(th) \/ AcquireSst(th) PROVE Goal
  <2>1. /\ UNCHANGED <<sst_first, kind, read_ts, snap, status, fence_ts, gc>>
        /\ pc[th] # "read"
    BY <1>2 DEF AcquireMt, AcquireSst
  <2>2. \/ pc' = pc
        \/ \E next \in Phases : pc' = [pc EXCEPT ![th] = next]
    BY <1>2, AcquireFrame DEF AcquireMt, AcquireSst, Trackers, Phases
  <2>3. pc[rd] = "read" => pc'[rd] = "read"
    BY <2>1, <2>2 DEF TypeOK
  <2> QED  BY <1>f, <2>1, <2>3 DEF Claim
<1>3. ASSUME NEW th \in Threads, Snapshot(th) PROVE Goal
  <2>1. CASE rd = th
    <3>1. h \in Live
      BY <1>3, <2>1 DEF Snapshot, Claim, TypeOK
    <3>2. fence_ts'[h] = 0
      BY <1>3, <3>1 DEF Snapshot, Live, StageInv
    <3> QED  BY <1>3, <3>2 DEF Snapshot, TypeOK, Claim
  <2>2. CASE rd # th
    BY <1>3, <1>f, <2>2, Zenon DEF TypeOK, Snapshot, Claim
  <2> QED  BY <2>1, <2>2
<1>4. ASSUME NEW th \in Threads, MemtableHit(th) PROVE Goal
  BY <1>4, <1>f, Zenon DEF TypeOK, MemtableHit, Claim
<1>6. ASSUME NEW th \in Threads, ReleaseMt(th) PROVE Goal
  BY <1>6, <1>f, Zenon DEF TypeOK, ReleaseMt, Claim
<1>7. ASSUME NEW th \in Threads, ReleaseSst(th) PROVE Goal
  <2>1. rd # th
    BY <1>7 DEF TypeOK, ReleaseSst, Claim
  <2> QED  BY <1>7, <1>f, <2>1 DEF TypeOK, ReleaseSst, Claim
<1>8. ASSUME NEW th \in Threads, GuardMt(th) PROVE Goal
  <2>1. snap[th] = {}
    BY <1>8, Zenon DEF GuardMt, StageInv
  <2>2. rd # th
    BY <1>8, <2>1, Zenon DEF GuardMt, Claim
  <2> QED  BY <1>8, <1>f, <2>2, Zenon DEF TypeOK, GuardMt, Claim
<1>9. ASSUME Write \/ UNCHANGED vars PROVE Goal
  <2>1. UNCHANGED <<sst_first, kind, pc, read_ts, snap, status, fence_ts, gc>>
    BY <1>9, Zenon DEF Write, vars
  <2> QED  BY <1>f, <2>1 DEF Claim
<1>10. ASSUME NEW f \in Files, NEW g \in Files, Swap(f, g) PROVE Goal
  BY <1>10, <1>f, Zenon DEF TypeOK, Swap, Claim
<1>11. ASSUME NEW f \in Files, Fence(f) PROVE Goal
  <2>1. CASE h = f
    <3>1. gc.pc = "second" => gc.f # f
      BY <1>11, Zenon DEF Fence, StageInv
    <3> QED  BY <1>11, <2>1, <3>1, Zenon DEF TypeOK, Fence
  <2>2. CASE h # f
    BY <1>11, <1>f, <2>2, Zenon DEF TypeOK, Fence, Claim
  <2> QED  BY <2>1, <2>2, Zenon
<1>12. ASSUME NEW f \in Files, DrainFirst(f) PROVE Goal
  <2>1. UNCHANGED <<sst_first, kind, pc, read_ts, snap, status, fence_ts>>
    BY <1>12 DEF DrainFirst
  <2>2. Claim(rd, h)
    BY <2>1, Zenon DEF Claim
  <2>3. /\ kind[rd] = "lookup" => pc[rd] = "read"
        /\ pc[rd] # "read" => Holds(rd, "mt")
        /\ pc[rd] = "read" => Holds(rd, "sst")
        /\ fence_ts[h] \in Nat
    BY <2>2, ClaimStage
  <2>4. ASSUME NEW t \in Trackers, Holds(rd, t) PROVE ~Passed(t, fence_ts[h])
    BY <1>0, <2>2, <2>3, <2>4, RegisteredBlocks, Zenon DEF Claim
  <2>5. gc'.f = f /\ gc'.ok = Passed(IF sst_first THEN "sst" ELSE "mt", fence_ts[f])
    BY <1>12 DEF DrainFirst
  <2>6. CASE sst_first
    BY <1>f, <2>1, <2>2, <2>3, <2>4, <2>5, <2>6, Zenon DEF Trackers, TypeOK
  <2>7. CASE ~sst_first
    BY <1>f, <2>1, <2>2, <2>3, <2>4, <2>5, <2>7, Zenon DEF Trackers, TypeOK
  <2> QED  BY <2>6, <2>7
<1>13. ASSUME DrainSecond PROVE Goal
  <2>1. UNCHANGED <<sst_first, kind, pc, read_ts, snap, fence_ts>> /\ gc' = NoTest
    BY <1>13, Zenon DEF DrainSecond
  <2>2. Claim(rd, h)
    BY <2>1, Zenon DEF Claim
  <2>3. /\ kind[rd] = "lookup" => pc[rd] = "read"
        /\ pc[rd] = "read" => Holds(rd, "sst")
        /\ fence_ts[h] \in Nat
    BY <2>2, ClaimStage, Zenon
  <2>4. Holds(rd, "sst") => ~Passed("sst", fence_ts[h])
    BY <1>0, <2>2, <2>3, RegisteredBlocks DEF Claim, Trackers
  <2>5. gc'.pc # "second"
    BY <2>1 DEF NoTest
  <2>6. ASSUME kind[rd] = "lookup" \/ ~sst_first PROVE status'[h] # "deleted"
    <3>1. status[h] # "deleted"
      BY <1>f, <2>2, <2>6, Zenon
    <3>2. CASE gc.f # h \/ ~gc.ok
      BY <1>13, <3>1, <3>2, Zenon DEF TypeOK, DrainSecond, NoTest
    <3>3. CASE gc.f = h /\ gc.ok
      <4>1. gc.pc = "second"
        BY <1>13, Zenon DEF DrainSecond
      <4>2. ~sst_first /\ pc[rd] = "read"
        BY <1>f, <2>2, <2>6, <3>3, <4>1
      <4>3. ~Passed("sst", fence_ts[gc.f])
        BY <2>3, <2>4, <3>3, <4>2
      <4> QED  BY <1>13, <3>1, <3>3, <4>2, <4>3, Zenon DEF TypeOK, DrainSecond
    <3> QED  BY <3>2, <3>3
  <2> QED  BY <2>1, <2>5, <2>6, Zenon
<1> QED
  BY <1>1, <1>2, <1>3, <1>4, <1>6, <1>7, <1>8, <1>9, <1>10, <1>11, <1>12, <1>13, Zenon
     DEF Next, ReadStep, Drain

-----------------------------------------------------------------------------
(* The theorems.                                                            *)

\* The first state satisfies the inductive invariant.
LEMMA InitInv == Init => IInv
<1> SUFFICES ASSUME Init PROVE IInv
  OBVIOUS
<1>1. TypeOK
  <2>1. kSlots \in Nat \ {0} /\ 0 \in 0..MaxTs /\ 0 \in 0..MaxReads /\ 0 \in 0..kSlots
    BY ReclaimAssumption DEF Init, kSlots
  <2>2. active \in [Trackers -> [0..MaxTs -> Nat]]
    BY DEF Init
  <2>3. slots \in [Trackers -> [Slots -> 0..MaxTs]]
    BY <2>1 DEF Init
  <2> QED  BY <2>1, <2>2, <2>3 DEF Init, TypeOK, Phases
<1>2. StageInv
  BY DEF Init, StageInv, NoTest
<1>3. Readers = {}
  BY DEF Init, Readers
<1>4. SlotInv
  BY <1>3 DEF Init, SlotInv
<1>5. FileInv
  BY DEF Init, FileInv, Claim
<1> QED  BY <1>1, <1>2, <1>4, <1>5 DEF IInv

\* The inductive invariant holds in every reachable state.
THEOREM ReclaimInv == Spec => []IInv
<1>1. IInv /\ [Next]_vars => IInv'
  BY TypeStep, StageStep, SlotStep, FileStep DEF IInv
<1> QED  BY <1>1, InitInv, PTL DEF Spec

\* Slots, the multiset and the stages keep their types.
THEOREM TypeCorrect == Spec => []TypeOK
<1>1. IInv => TypeOK
  BY DEF IInv
<1> QED  BY <1>1, ReclaimInv, PTL

\* SnapshotTracker counts every reader with a non-zero timestamp from Acquire to
\* Release as long as the hashes of reading threads do not meet.
THEOREM Counted == Spec => []CountedUnlessHashesMeet
<1>1. IInv => CountedUnlessHashesMeet
  <2> SUFFICES ASSUME IInv, Distinct, NEW th \in Threads, read_ts[th] > 0
               PROVE  /\ HoldsMt(th)  => ~Passed("mt", read_ts[th] + 1)
                      /\ HoldsSst(th) => ~Passed("sst", read_ts[th] + 1)
    BY DEF CountedUnlessHashesMeet
  <2>1. read_ts[th] \in Nat
    BY DEF IInv, TypeOK
  <2>2. ASSUME NEW t \in Trackers, Holds(th, t) PROVE ~Passed(t, read_ts[th] + 1)
    BY <2>1, <2>2, RegisteredBlocks DEF IInv
  <2> QED  BY <2>2 DEF Holds, Trackers
<1> QED  BY <1>1, ReclaimInv, PTL

\* No registration outlives its read as long as hashes do not meet.
THEOREM NothingLeaks == Spec => []NothingLeaksUnlessHashesMeet
<1>1. IInv => NothingLeaksUnlessHashesMeet
  <2> SUFFICES ASSUME IInv, Distinct, \A th \in Threads : pc[th] = "idle",
                      NEW t \in Trackers
               PROVE  (\A i \in Slots : slots[t][i] = 0) /\ ~fallback_used[t]
    BY Zenon DEF NothingLeaksUnlessHashesMeet
  <2>1. \A th \in Readers : ~Holds(th, t)
    BY DEF Readers, Holds, HoldsMt, HoldsSst
  <2>2. /\ ~fallback_used[t]
        /\ \A th \in Readers : slots[t][start[th]] = IF Holds(th, t) THEN read_ts[th] ELSE 0
        /\ \A i \in Slots : (\A th \in Readers : start[th] # i) => slots[t][i] = 0
    BY Zenon DEF IInv, SlotInv
  <2>3. \A th \in Readers : slots[t][start[th]] = 0
    BY <2>1, <2>2, Zenon
  <2> QED  BY <2>2, <2>3, Zenon
<1> QED  BY <1>1, ReclaimInv, PTL

\* DrainFileGC deletes no file a lookup is reading below the file's fence, in
\* whichever order the build reads the two trackers.
THEOREM LookupKeepsFiles == Spec => []LookupFilesHeld
<1>1. IInv => LookupFilesHeld
  BY DEF IInv, TypeOK, FileInv, Claim, LookupFilesHeld
<1> QED  BY <1>1, ReclaimInv, PTL

\* DrainFileGC deletes no file RangeScan is opening below the file's fence, where the
\* build reads tracker_ first.
THEOREM ScanKeepsFiles == Spec => []ScanFilesHeldUnlessSstFirst
<1>1. IInv => ScanFilesHeldUnlessSstFirst
  BY DEF IInv, TypeOK, FileInv, Claim, ScanFilesHeldUnlessSstFirst
<1> QED  BY <1>1, ReclaimInv, PTL

============================================================================
