------------------------- MODULE EngineFlushProofs -------------------------
(***************************************************************************)
(* What waiting for pending flushes guarantees, and that an aborted batch  *)
(* stays hidden from lookups within one run of the program: the invariants *)
(* and their steps.                                                        *)
(***************************************************************************)
EXTENDS EngineProofs, FiniteSetTheorems

-----------------------------------------------------------------------------
(* The entries of a batch that was aborted.                                *)

Ended == committed \cup spilled \cup {0}

\* An entry of the batch in progress.
Open(e) == batch_in_progress /\ batch_touched /\ e.bat = batches /\ e.ts = batch_ts

\* What a memtable holds of a batch that is over, neither committed nor spilled, it also
\* marks as aborted; the open batch's entries are in a memtable that AbortBatch will
\* find.
MemHidden ==
    \A n \in DOMAIN mem : \A i \in DOMAIN mem[n].ents :
        \/ mem[n].ents[i].bat \in Ended
        \/ mem[n].ents[i].ts \in mem[n].aborted
        \/ Open(mem[n].ents[i]) /\ n \in Listed /\ op.pc # "abort3"

FilesEnded == \A f \in DOMAIN files : \A e \in files[f].ents : e.bat \in Ended

WriterOpen ==
    /\ op.pc = "logged" => op.ent.bat = 0 \/ Open(op.ent)
    /\ op.pc \in {"commit", "abort1", "abort2", "abort3"} => batch_in_progress
    /\ batch_in_progress => global_ts <= batch_ts

\* A batch that began after the lookup is above its timestamp.
ReaderBelow ==
    rd.pc \in {"started", "snapshot", "tables"} =>
        /\ rd.ts <= global_ts
        /\ batch_in_progress => rd.open = batches \/ rd.ts < batch_ts

AbortInv ==
    crashes = 0 =>
        Running /\ MemHidden /\ FilesEnded /\ WriterOpen /\ ReaderBelow /\ AbortHiddenUnlessSpilled

\* A run of the program is not recovering unless it follows a crash.
LEMMA NoCrash ==
    ASSUME TypeInv, [Next]_vars, crashes' = 0
    PROVE  crashes = 0 /\ ~Crash
<1>0. crashes \in Nat
  BY DEF TypeInv, ClockOK
<1>1. ~Crash
  <2>1. ASSUME Crash PROVE crashes' = crashes + 1
    BY <2>1 DEF Crash
  <2> QED  BY <1>0, <2>1
<1>2. CASE SomeWrite
  BY <1>1, <1>2, WriteFrame
<1>3. CASE Apply \/ Flush \/ WaitForPendingFlushes \/ Sync \/ StartBatch \/ CommitBatch \/ CommitDone
  BY <1>1, <1>3, Zenon DEF Apply, Flush, WaitForPendingFlushes, Sync, StartBatch, CommitBatch, CommitDone, cvars
<1>4. CASE AbortLog \/ AbortManifest \/ AbortMemTables \/ AbortTables
  BY <1>1, <1>4 DEF AbortLog, AbortManifest, AbortMemTables, AbortTables, cvars
<1>5. CASE FlushPop \/ FlushWrite \/ FlushPublish \/ FlushManifest \/ FlushCheckpoint \/ FlushDone
  BY <1>1, <1>5 DEF FlushPop, FlushWrite, FlushPublish, FlushManifest, FlushCheckpoint, FlushDone, cvars
<1>6. CASE (\E k \in Keys : ReadStart(k)) \/ ReadSnapshot \/ ReadMemTables \/ ReadTables \/ ReadReturn
  BY <1>1, <1>6 DEF ReadStart, ReadSnapshot, ReadMemTables, ReadTables, ReadReturn, cvars
<1>7. CASE RecoverInsert \/ RecoverEnd \/ UNCHANGED vars
  BY <1>1, <1>7, Zenon DEF RecoverInsert, RecoverEnd, vars, cvars
<1> QED  BY <1>1, <1>2, <1>3, <1>4, <1>5, <1>6, <1>7, Steps

\* The steps of such a run.
LEMMA RunSteps ==
    ASSUME [Next]_vars, ~Crash, Running
    PROVE  \/ SomeWrite \/ Apply \/ Flush \/ WaitForPendingFlushes
           \/ StartBatch \/ CommitBatch \/ CommitDone
           \/ AbortLog \/ AbortManifest \/ AbortMemTables \/ AbortTables
           \/ Sync
           \/ FlushPop \/ FlushWrite \/ FlushPublish \/ FlushManifest \/ FlushCheckpoint \/ FlushDone
           \/ (\E k \in Keys : ReadStart(k)) \/ ReadSnapshot \/ ReadMemTables \/ ReadTables \/ ReadReturn
           \/ UNCHANGED vars
<1>1. ~RecoverInsert /\ ~RecoverEnd
  BY Zenon DEF RecoverInsert, RecoverEnd, Running
<1> QED  BY <1>1, Steps

LEMMA RunningStep ==
    ASSUME [Next]_vars, ~Crash, Running
    PROVE  Running'
<1>2. CASE SomeWrite
  BY <1>2, WriteFrame DEF rvars, Running
<1>3. CASE Apply \/ Flush \/ WaitForPendingFlushes \/ Sync \/ StartBatch \/ CommitBatch \/ CommitDone
  BY <1>3, Zenon DEF Apply, Flush, WaitForPendingFlushes, Sync, StartBatch, CommitBatch, CommitDone, rvars, Running
<1>4. CASE AbortLog \/ AbortManifest \/ AbortMemTables \/ AbortTables
  BY <1>4 DEF AbortLog, AbortManifest, AbortMemTables, AbortTables, rvars, Running
<1>5. CASE FlushPop \/ FlushWrite \/ FlushPublish \/ FlushManifest \/ FlushCheckpoint \/ FlushDone
  BY <1>5 DEF FlushPop, FlushWrite, FlushPublish, FlushManifest, FlushCheckpoint, FlushDone, rvars, Running
<1>6. CASE (\E k \in Keys : ReadStart(k)) \/ ReadSnapshot \/ ReadMemTables \/ ReadTables \/ ReadReturn
  BY <1>6 DEF ReadStart, ReadSnapshot, ReadMemTables, ReadTables, ReadReturn, rvars, Running
<1>7. CASE UNCHANGED vars
  BY <1>7 DEF vars, rvars, Running
<1> QED  BY <1>2, <1>3, <1>4, <1>5, <1>6, <1>7, RunSteps

\* Batches once ended stay so.
LEMMA EndedGrows ==
    ASSUME [Next]_vars, ~Crash, Running
    PROVE  Ended \subseteq Ended'
<1>1. CASE UNCHANGED <<committed, spilled>>
  BY <1>1 DEF Ended
<1>2. CASE SomeWrite
  BY <1>1, <1>2, WriteFrame
<1>3. CASE Apply \/ Flush \/ WaitForPendingFlushes \/ Sync \/ StartBatch \/ CommitBatch
  BY <1>1, <1>3, Zenon DEF Apply, Flush, WaitForPendingFlushes, Sync, StartBatch, CommitBatch, hvars
<1>4. CASE AbortLog \/ AbortManifest \/ AbortMemTables \/ AbortTables
  BY <1>1, <1>4 DEF AbortLog, AbortManifest, AbortMemTables, AbortTables, hvars
<1>5. CASE CommitDone \/ FlushPop
  BY <1>5, Zenon DEF CommitDone, FlushPop, Ended
<1>6. CASE FlushWrite \/ FlushPublish \/ FlushManifest \/ FlushCheckpoint \/ FlushDone
  BY <1>1, <1>6 DEF FlushWrite, FlushPublish, FlushManifest, FlushCheckpoint, FlushDone, hvars
<1>7. CASE (\E k \in Keys : ReadStart(k)) \/ ReadSnapshot \/ ReadMemTables \/ ReadTables \/ ReadReturn
  BY <1>1, <1>7 DEF ReadStart, ReadSnapshot, ReadMemTables, ReadTables, ReadReturn, hvars
<1>8. CASE UNCHANGED vars
  BY <1>1, <1>8 DEF vars, hvars
<1> QED  BY <1>2, <1>3, <1>4, <1>5, <1>6, <1>7, <1>8, RunSteps

\* The steps that leave the memtables alone.
LEMMA HiddenFrame ==
    ASSUME TypeInv, MemHidden, Ended \subseteq Ended', UNCHANGED <<mem, frozen>>,
           op.pc # "abort3" =>
              \A e \in Entry : Open(e) => e.bat \in Ended' \/ (Open(e)' /\ op'.pc # "abort3")
    PROVE  MemHidden'
<1> SUFFICES ASSUME NEW n \in DOMAIN mem', NEW i \in DOMAIN mem'[n].ents
             PROVE  \/ mem'[n].ents[i].bat \in Ended'
                    \/ mem'[n].ents[i].ts \in mem'[n].aborted
                    \/ Open(mem[n].ents[i])' /\ n \in Listed' /\ op'.pc # "abort3"
  BY Zenon DEF MemHidden
<1>1. n \in DOMAIN mem /\ i \in DOMAIN mem[n].ents /\ mem'[n] = mem[n] /\ Listed' = Listed
  BY DEF Listed, active
<1>2. mem[n].ents[i] \in Entry
  BY <1>1, MemEntry DEF TypeInv
<1>3. PICK e \in Entry : e = mem[n].ents[i]
  BY <1>2
<1>4. e.bat \in Ended \/ e.ts \in mem[n].aborted \/ (Open(e) /\ n \in Listed /\ op.pc # "abort3")
  BY <1>1, <1>3 DEF MemHidden, Open
<1>5. Open(e)' <=> Open(mem[n].ents[i])'
  BY <1>1, <1>3 DEF Open
<1> QED  BY <1>1, <1>3, <1>4, <1>5, Zenon

LEMMA MemHiddenStep ==
    ASSUME TypeInv, OrderInv, MemHidden, WriterOpen, [Next]_vars, ~Crash, Running
    PROVE  MemHidden'
<1>0. /\ MemOK /\ op \in WriterState /\ Ended \subseteq Ended' /\ batch_ts \in Nat
      /\ active \in Nat /\ active \in DOMAIN mem /\ mem[active] \in MemTable
  BY EndedGrows DEF TypeInv, MemOK, active, ClockOK
<1>a. ASSUME UNCHANGED <<mem, frozen>>,
             op.pc # "abort3" =>
               \A e \in Entry : Open(e) => e.bat \in Ended' \/ (Open(e)' /\ op'.pc # "abort3")
      PROVE  MemHidden'
  BY <1>0, <1>a, HiddenFrame
<1>b. ASSUME UNCHANGED <<mem, frozen, batch_in_progress, batch_touched, batches, batch_ts>>,
             op' = op \/ op'.pc # "abort3"
      PROVE  MemHidden'
  <2>1. \A e : Open(e) => Open(e)'
    BY <1>b DEF Open
  <2> QED  BY <1>a, <1>b, <2>1
<1>1. CASE SomeWrite
  <2>1. PICK k \in Keys, form \in {"val", "tomb"}, bat \in BOOLEAN : Write(k, form, bat)
    BY <1>1 DEF SomeWrite
  <2>2. /\ UNCHANGED <<mem, frozen, batch_in_progress, batch_ts, batches>> /\ op'.pc = "logged"
        /\ batch_touched' = TRUE \/ batch_touched' = batch_touched
    BY <2>1 DEF Write, mvars
  <2>3. \A e : Open(e) => Open(e)'
    BY <2>2, Zenon DEF Open
  <2> QED  BY <1>a, <2>2, <2>3
<1>2. ASSUME NEW m \in MemTable, UNCHANGED <<bvars, batches, fl>>, op'.pc # "abort3",
             op.pc # "abort3",
             \/ Freeze(m)
             \/ mem' = [mem EXCEPT ![active] = m] /\ frozen' = frozen,
             \A i \in DOMAIN m.ents : \/ m.ents[i].bat \in Ended
                                      \/ m.ents[i].ts \in m.aborted
                                      \/ Open(m.ents[i])
      PROVE  MemHidden'
  <2>1. /\ active \in DOMAIN mem' /\ mem'[active] = m
        /\ \A n \in DOMAIN mem : n \in DOMAIN mem' /\ (n # active => mem'[n] = mem[n])
        /\ \A n \in DOMAIN mem' : n \in DOMAIN mem \/ (n = active + 1 /\ mem'[n] = Empty)
    BY <1>0, <1>2, MemCases DEF Freeze
  <2>2. Listed \subseteq Listed'
    <3>1. CASE Freeze(m)
      BY <1>0, <3>1, FreezeFrozen DEF Freeze, Listed
    <3>2. CASE mem' = [mem EXCEPT ![active] = m] /\ frozen' = frozen
      BY <1>0, <1>2, <3>2, MemReplace, Zenon DEF Listed, active
    <3> QED  BY <1>2, <3>1, <3>2, Zenon
  <2>3. \A e : Open(e) => Open(e)'
    BY <1>2 DEF Open, bvars
  <2>4. ASSUME NEW n \in DOMAIN mem', NEW i \in DOMAIN mem'[n].ents, NEW e, e = mem'[n].ents[i]
        PROVE  \/ e.bat \in Ended'
               \/ e.ts \in mem'[n].aborted
               \/ Open(e)' /\ n \in Listed' /\ op'.pc # "abort3"
    <3>1. CASE n = active
      <4>1. e.bat \in Ended \/ e.ts \in m.aborted \/ Open(e)
        BY <1>2, <2>1, <2>4, <3>1, Zenon
      <4>2. n \in Listed'
        BY <2>2, <3>1 DEF Listed
      <4> QED  BY <1>0, <1>2, <2>1, <2>3, <3>1, <4>1, <4>2, Zenon
    <3>2. CASE n \in DOMAIN mem /\ n # active
      <4>1. e.bat \in Ended \/ e.ts \in mem[n].aborted \/ (Open(e) /\ n \in Listed)
        BY <2>1, <2>4, <3>2, Zenon DEF MemHidden
      <4> QED  BY <1>0, <1>2, <2>1, <2>2, <2>3, <3>2, <4>1, Zenon
    <3>3. CASE mem'[n] = Empty
      BY <3>3 DEF Empty
    <3>4. n = active \/ (n \in DOMAIN mem /\ n # active) \/ mem'[n] = Empty
      BY <2>1, Zenon
    <3> QED  BY <3>1, <3>2, <3>3, <3>4, Zenon
  <2> QED  BY <2>4, Zenon DEF MemHidden
<1>3. ASSUME NEW i \in DOMAIN mem[active].ents, op.pc # "abort3"
      PROVE  \/ mem[active].ents[i].bat \in Ended
             \/ mem[active].ents[i].ts \in mem[active].aborted
             \/ Open(mem[active].ents[i])
  BY <1>0, <1>3, Zenon DEF MemHidden
<1>4. CASE Apply
  <2> DEFINE m == TreeInsert(mem[active], op.ent)
  <2>1. op.ent \in Entry /\ op.pc = "logged"
    BY <1>0, <1>4, Zenon DEF Apply, WriterState
  <2>2. m \in MemTable
    BY <1>0, <2>1, TreeInsertType
  <2>3. /\ m.aborted = mem[active].aborted
        /\ \A i \in DOMAIN m.ents :
              m.ents[i] = op.ent \/ (i - 1 \in DOMAIN mem[active].ents /\ m.ents[i] = mem[active].ents[i - 1])
    BY <1>0, <2>1, TreeInsertEntries, Zenon
  <2>4. /\ UNCHANGED <<bvars, batches, fl>> /\ op'.pc = "idle"
        /\ Freeze(m) \/ (mem' = [mem EXCEPT ![active] = m] /\ frozen' = frozen)
    BY <1>4 DEF Apply, cvars, Idle
  <2> HIDE DEF m
  <2>5. ASSUME NEW i \in DOMAIN m.ents
        PROVE  m.ents[i].bat \in Ended \/ m.ents[i].ts \in m.aborted \/ Open(m.ents[i])
    <3>1. CASE m.ents[i] = op.ent
      BY <2>1, <3>1, Zenon DEF WriterOpen, Ended
    <3>2. CASE i - 1 \in DOMAIN mem[active].ents /\ m.ents[i] = mem[active].ents[i - 1]
      BY <1>3, <2>1, <2>3, <3>2, Zenon
    <3> QED  BY <2>3, <3>1, <3>2, Zenon
  <2> QED  BY <1>2, <2>1, <2>2, <2>4, <2>5, Zenon
<1>5. CASE Flush
  <2>1. /\ UNCHANGED <<bvars, batches, fl>> /\ op'.pc = "flush" /\ Freeze(mem[active])
        /\ op.pc = "idle"
    BY <1>5 DEF Flush, cvars, Idle
  <2> QED  BY <1>0, <1>2, <1>3, <2>1
<1>6. CASE FlushPop
  <2>1. frozen # << >>
    BY <1>0, <1>6 DEF FlushPop, MemOK
  <2>2. /\ frozen' = Tail(frozen) /\ UNCHANGED <<mem, bvars, batches, op>>
        /\ spilled' = IF /\ batch_in_progress
                         /\ \E e \in Bag(mem[Head(frozen)].ents) : e.bat = batches
                      THEN spilled \cup {batches} ELSE spilled
    BY <1>6, <2>1, Zenon DEF FlushPop, cvars
  <2>3. Bag(frozen) \subseteq {Head(frozen)} \cup Bag(frozen')
    BY <1>0, <2>1, <2>2, PopFrozen, Zenon
  <2>4. \A e : Open(e) => Open(e)'
    BY <2>2, Zenon DEF Open, bvars
  <2>5. ASSUME NEW n \in DOMAIN mem', NEW i \in DOMAIN mem'[n].ents, NEW e, e = mem'[n].ents[i]
        PROVE  \/ e.bat \in Ended'
               \/ e.ts \in mem'[n].aborted
               \/ Open(e)' /\ n \in Listed' /\ op'.pc # "abort3"
    <3>1. \/ e.bat \in Ended \/ e.ts \in mem[n].aborted
          \/ Open(e) /\ n \in Listed /\ op.pc # "abort3"
      BY <2>2, <2>5, Zenon DEF MemHidden
    <3>2. CASE Open(e) /\ n \in Listed /\ op.pc # "abort3"
      <4>1. CASE n = Head(frozen)
        <5>1. e \in Bag(mem[Head(frozen)].ents)
          BY <2>2, <2>5, <4>1 DEF Bag
        <5>2. batches \in spilled'
          BY <2>2, <3>2, <5>1 DEF Open
        <5> QED  BY <3>2, <5>2 DEF Open, Ended
      <4>2. CASE n # Head(frozen)
        <5>1. n \in Listed'
          BY <2>2, <2>3, <3>2, <4>2, Zenon DEF Listed, active
        <5> QED  BY <2>2, <2>4, <3>2, <5>1
      <4> QED  BY <4>1, <4>2
    <3> QED  BY <1>0, <2>2, <3>1, <3>2, Zenon
  <2> QED  BY <2>5, Zenon DEF MemHidden
<1>7. CASE AbortMemTables
  <2>1. /\ mem' = [n \in DOMAIN mem |->
                     IF n \in Bag(frozen) \cup {active}
                     THEN [mem[n] EXCEPT !.aborted = @ \cup {batch_ts}] ELSE mem[n]]
        /\ op'.pc = "abort3" /\ op.pc = "abort2"
    BY <1>7 DEF AbortMemTables
  <2>2. ASSUME NEW n \in DOMAIN mem', NEW i \in DOMAIN mem'[n].ents
        PROVE  mem'[n].ents[i].bat \in Ended' \/ mem'[n].ents[i].ts \in mem'[n].aborted
    <3>1. n \in DOMAIN mem /\ mem[n] \in MemTable
      BY <1>0, <2>1 DEF MemOK
    <3>2. mem'[n].ents = mem[n].ents /\ mem[n].aborted \subseteq mem'[n].aborted
          /\ (n \in Listed => batch_ts \in mem'[n].aborted)
      BY <2>1, <3>1 DEF MemTable, Listed
    <3>3. \/ mem[n].ents[i].bat \in Ended \/ mem[n].ents[i].ts \in mem[n].aborted
          \/ mem[n].ents[i].ts = batch_ts /\ n \in Listed
      BY <3>1, <3>2, Zenon DEF MemHidden, Open
    <3> QED  BY <1>0, <3>2, <3>3
  <2> QED  BY <2>2 DEF MemHidden
<1>8. CASE StartBatch
  <2>1. UNCHANGED <<mem, frozen>> /\ ~batch_in_progress
    BY <1>8 DEF StartBatch, mvars
  <2> QED  BY <1>a, <2>1 DEF Open
<1>9. CASE CommitDone
  <2>1. UNCHANGED <<mem, frozen>> /\ batches \in Ended'
    BY <1>9 DEF CommitDone, mvars, Ended
  <2> QED  BY <1>a, <2>1 DEF Open
<1>10. CASE AbortLog
  <2>1. CASE batch_touched
    BY <1>10, <1>b, <2>1 DEF AbortLog, mvars, cvars
  <2>2. CASE ~batch_touched
    BY <1>10, <1>a, <2>2 DEF AbortLog, mvars, Open
  <2> QED  BY <2>1, <2>2
<1>11. CASE AbortTables
  BY <1>11, <1>a DEF AbortTables, mvars
<1>12. CASE WaitForPendingFlushes \/ Sync \/ CommitBatch \/ AbortManifest
  BY <1>12, <1>b DEF WaitForPendingFlushes, Sync, CommitBatch, AbortManifest, mvars, cvars, bvars, Idle
<1>13. CASE FlushWrite \/ FlushPublish \/ FlushManifest \/ FlushCheckpoint \/ FlushDone
  BY <1>13, <1>b, Zenon DEF FlushWrite, FlushPublish, FlushManifest, FlushCheckpoint, FlushDone, mvars, cvars, bvars
<1>14. CASE (\E k \in Keys : ReadStart(k)) \/ ReadSnapshot \/ ReadMemTables \/ ReadTables \/ ReadReturn
  BY <1>14, <1>b DEF ReadStart, ReadSnapshot, ReadMemTables, ReadTables, ReadReturn, mvars, cvars, bvars
<1>15. CASE UNCHANGED vars
  BY <1>15, <1>b DEF vars, mvars, cvars, bvars
<1> QED
  BY <1>1, <1>4, <1>5, <1>6, <1>7, <1>8, <1>9, <1>10, <1>11, <1>12, <1>13, <1>14, <1>15, RunSteps, Zenon

LEMMA FilesEndedStep ==
    ASSUME TypeInv, OrderInv, MemHidden, FilesEnded, [Next]_vars, ~Crash, Running
    PROVE  FilesEnded'
<1>0. /\ MemOK /\ TablesOK /\ Ended \subseteq Ended' /\ files \in Seq(SSTable)
  BY EndedGrows DEF TypeInv, TablesOK
<1>a. ASSUME UNCHANGED files PROVE FilesEnded'
  BY <1>0, <1>a DEF FilesEnded
<1>1. CASE FlushWrite
  <2> DEFINE m == mem[fl.mt]
  <2>1. fl.pc = "popped" /\ files' = Append(files, File(m))
    BY <1>1 DEF FlushWrite
  <2>2. fl.mt \in DOMAIN mem /\ m \in MemTable
    BY <1>0, <2>1 DEF MemOK
  <2>3. fl.mt \notin Listed
    <3>1. \A i \in DOMAIN frozen : frozen[i] \in Nat
      BY <1>0 DEF MemOK
    <3>2. fl.mt \in Nat /\ fl.mt < active /\ \A i \in DOMAIN frozen : fl.mt < frozen[i]
      BY <1>0, <2>1 DEF OrderInv, Holding, MemOK, FlushWorker
    <3>3. active \in Nat
      BY <1>0 DEF MemOK, active
    <3> QED  BY <3>1, <3>2, <3>3 DEF Listed, Bag
  <2>4. ASSUME NEW e \in File(m).ents PROVE e.bat \in Ended
    <3>1. PICK i \in DOMAIN m.ents : e = m.ents[i] /\ m.ents[i].ts \notin m.aborted
      BY <2>4, Zenon DEF File, WriteFromWalk
    <3> QED  BY <2>2, <2>3, <3>1, Zenon DEF MemHidden
  <2>5. File(m) \in SSTable
    BY <2>2, FileType
  <2> HIDE DEF m
  <2>6. /\ DOMAIN files = 1..Len(files) /\ DOMAIN files' = 1..(Len(files) + 1)
        /\ Len(files) \in Nat /\ files'[Len(files) + 1] = File(m)
        /\ \A i \in 1..Len(files) : files'[i] = files[i]
    BY <1>0, <2>1, <2>5, AppendTo
  <2>7. ASSUME NEW f \in DOMAIN files', NEW e \in files'[f].ents PROVE e.bat \in Ended'
    <3>1. CASE f \in DOMAIN files
      BY <1>0, <2>6, <2>7, <3>1 DEF FilesEnded
    <3>2. CASE f = Len(files) + 1
      BY <1>0, <2>4, <2>6, <2>7, <3>2
    <3> QED  BY <2>6, <3>1, <3>2
  <2> QED  BY <2>7 DEF FilesEnded
<1>2. CASE SomeWrite
  BY <1>a, <1>2, WriteFrame DEF tvars
<1>3. CASE Apply \/ Flush \/ WaitForPendingFlushes \/ Sync \/ StartBatch \/ CommitBatch \/ CommitDone
  BY <1>a, <1>3, Zenon DEF Apply, Flush, WaitForPendingFlushes, Sync, StartBatch, CommitBatch, CommitDone, tvars
<1>4. CASE AbortLog \/ AbortManifest \/ AbortMemTables \/ AbortTables
  BY <1>a, <1>4 DEF AbortLog, AbortManifest, AbortMemTables, AbortTables, tvars
<1>5. CASE FlushPop \/ FlushPublish \/ FlushManifest \/ FlushCheckpoint \/ FlushDone
  BY <1>a, <1>5 DEF FlushPop, FlushPublish, FlushManifest, FlushCheckpoint, FlushDone, tvars
<1>6. CASE (\E k \in Keys : ReadStart(k)) \/ ReadSnapshot \/ ReadMemTables \/ ReadTables \/ ReadReturn
  BY <1>a, <1>6 DEF ReadStart, ReadSnapshot, ReadMemTables, ReadTables, ReadReturn, tvars
<1>7. CASE UNCHANGED vars
  BY <1>a, <1>7 DEF vars, tvars
<1> QED  BY <1>1, <1>2, <1>3, <1>4, <1>5, <1>6, <1>7, RunSteps, Zenon

LEMMA WriterOpenStep ==
    ASSUME TypeInv, WriterOpen, [Next]_vars, ~Crash, Running
    PROVE  WriterOpen'
<1>0. /\ global_ts \in Nat /\ batch_ts \in Nat /\ Gap \in Nat /\ op \in WriterState
  BY EngineAssumption DEF TypeInv, ClockOK
<1>a. ASSUME UNCHANGED <<op, bvars, batches, global_ts>> PROVE WriterOpen'
  BY <1>a DEF WriterOpen, Open, bvars
<1>b. ASSUME op'.pc \in {"idle", "flush"}, UNCHANGED <<bvars, global_ts>> PROVE WriterOpen'
  BY <1>b DEF WriterOpen, bvars
<1>1. CASE SomeWrite
  <2>1. PICK k \in Keys, form \in {"val", "tomb"}, bat \in BOOLEAN : Write(k, form, bat)
    BY <1>1 DEF SomeWrite
  <2>2. /\ op'.pc = "logged" /\ UNCHANGED <<batch_in_progress, batch_ts, batches>>
        /\ op'.ent.ts = (IF bat THEN batch_ts ELSE global_ts + 1)
        /\ op'.ent.bat = (IF bat THEN batches ELSE 0)
    BY <2>1, Zenon DEF Write
  <2>3. CASE bat
    <3>1. batch_in_progress /\ batch_touched' /\ UNCHANGED global_ts
      BY <2>1, <2>3 DEF Write
    <3>2. Open(op.ent)'
      BY <2>2, <2>3, <3>1 DEF Open
    <3> QED  BY <2>2, <3>1, <3>2, Zenon DEF WriterOpen
  <2>4. CASE ~bat
    <3>1. global_ts' = global_ts + 1 /\ (batch_in_progress => global_ts + 1 <= batch_ts)
      BY <2>1, <2>4, Zenon DEF Write
    <3> QED  BY <2>2, <2>4, <3>1 DEF WriterOpen
  <2> QED  BY <2>3, <2>4
<1>2. CASE Apply \/ Flush \/ WaitForPendingFlushes
  <2>1. op' = Idle \/ op' = [pc |-> "flush"]
    BY <1>2, Zenon DEF Apply, Flush, WaitForPendingFlushes
  <2>2. op'.pc \in {"idle", "flush"}
    BY <2>1 DEF Idle
  <2>3. UNCHANGED <<bvars, global_ts>>
    BY <1>2, Zenon DEF Apply, Flush, WaitForPendingFlushes
  <2> QED  BY <1>b, <2>2, <2>3, Zenon
<1>3. CASE Sync
  BY <1>a, <1>3 DEF Sync, cvars
<1>4. CASE StartBatch
  <2>1. /\ op'.pc = "idle" /\ batch_ts' = global_ts + Gap /\ global_ts' = global_ts
    BY <1>4 DEF StartBatch, Idle
  <2> QED  BY <1>0, <2>1 DEF WriterOpen
<1>5. CASE CommitBatch
  <2>1. /\ op'.pc = "commit" /\ UNCHANGED <<bvars, global_ts>> /\ batch_in_progress
    BY <1>5 DEF CommitBatch
  <2> QED  BY <2>1 DEF WriterOpen, bvars
<1>6. CASE CommitDone \/ AbortTables
  BY <1>6 DEF CommitDone, AbortTables, WriterOpen, Idle
<1>7. CASE AbortLog
  <2>1. CASE batch_touched
    <3>1. op'.pc = "abort1" /\ UNCHANGED <<batch_in_progress, batch_ts, global_ts>> /\ batch_in_progress
      BY <1>7, <2>1 DEF AbortLog
    <3> QED  BY <3>1 DEF WriterOpen
  <2>2. CASE ~batch_touched
    <3>1. op'.pc = "idle" /\ ~batch_in_progress'
      BY <1>7, <2>2 DEF AbortLog, Idle
    <3> QED  BY <3>1 DEF WriterOpen
  <2> QED  BY <2>1, <2>2
<1>8. CASE AbortManifest \/ AbortMemTables
  <2>1. /\ op.pc \in {"abort1", "abort2"} /\ op'.pc \in {"abort2", "abort3"}
        /\ UNCHANGED <<bvars, global_ts>>
    BY <1>8 DEF AbortManifest, AbortMemTables
  <2> QED  BY <2>1 DEF WriterOpen, bvars
<1>9. CASE FlushPop \/ FlushWrite \/ FlushPublish \/ FlushManifest \/ FlushCheckpoint \/ FlushDone
  BY <1>a, <1>9 DEF FlushPop, FlushWrite, FlushPublish, FlushManifest, FlushCheckpoint, FlushDone, cvars
<1>10. CASE (\E k \in Keys : ReadStart(k)) \/ ReadSnapshot \/ ReadMemTables \/ ReadTables \/ ReadReturn
  BY <1>a, <1>10 DEF ReadStart, ReadSnapshot, ReadMemTables, ReadTables, ReadReturn, cvars
<1>11. CASE UNCHANGED vars
  BY <1>a, <1>11 DEF vars, cvars
<1> QED
  BY <1>1, <1>2, <1>3, <1>4, <1>5, <1>6, <1>7, <1>8, <1>9, <1>10, <1>11, RunSteps, Zenon

\* Within a run the clock does not go back.
LEMMA ClockForward ==
    ASSUME TypeInv, WriterOpen, [Next]_vars, ~Crash, Running
    PROVE  global_ts <= global_ts'
<1>0. global_ts \in Nat /\ batch_ts \in Nat /\ op \in WriterState
  BY DEF TypeInv, ClockOK
<1>a. ASSUME UNCHANGED global_ts PROVE global_ts <= global_ts'
  BY <1>0, <1>a
<1>1. CASE SomeWrite
  <2>1. global_ts' = global_ts \/ global_ts' = global_ts + 1
    BY <1>1, Zenon DEF SomeWrite, Write
  <2> QED  BY <1>0, <2>1
<1>2. CASE CommitDone
  <2>1. global_ts <= batch_ts /\ global_ts' = batch_ts + 1
    BY <1>2 DEF CommitDone, WriterOpen
  <2> QED  BY <1>0, <2>1
<1>3. CASE Apply \/ Flush \/ WaitForPendingFlushes \/ Sync \/ StartBatch \/ CommitBatch
  BY <1>a, <1>3, Zenon DEF Apply, Flush, WaitForPendingFlushes, Sync, StartBatch, CommitBatch
<1>4. CASE AbortLog \/ AbortManifest \/ AbortMemTables \/ AbortTables
  BY <1>a, <1>4, Zenon DEF AbortLog, AbortManifest, AbortMemTables, AbortTables
<1>5. CASE FlushPop \/ FlushWrite \/ FlushPublish \/ FlushManifest \/ FlushCheckpoint \/ FlushDone
  BY <1>a, <1>5 DEF FlushPop, FlushWrite, FlushPublish, FlushManifest, FlushCheckpoint, FlushDone
<1>6. CASE (\E k \in Keys : ReadStart(k)) \/ ReadSnapshot \/ ReadMemTables \/ ReadTables \/ ReadReturn
  BY <1>a, <1>6 DEF ReadStart, ReadSnapshot, ReadMemTables, ReadTables, ReadReturn
<1>7. CASE UNCHANGED vars
  BY <1>a, <1>7 DEF vars
<1> QED  BY <1>1, <1>2, <1>3, <1>4, <1>5, <1>6, <1>7, RunSteps, Zenon

LEMMA ReaderBelowStep ==
    ASSUME TypeInv, WriterOpen, ReaderBelow, [Next]_vars, ~Crash, Running
    PROVE  ReaderBelow'
<1>0. /\ global_ts \in Nat /\ global_ts' \in Nat /\ batch_ts \in Nat /\ Gap \in Nat \ {0}
      /\ rd \in ReaderState /\ global_ts <= global_ts'
  BY EngineAssumption, ClockStep, ClockForward, Zenon DEF TypeInv, ClockOK, ReaderOK
<1>1. ASSUME rd.pc \in {"started", "snapshot", "tables"} PROVE rd.ts \in Nat
  BY <1>0, <1>1 DEF ReaderState
<1>a. ASSUME \/ rd' = rd
             \/ /\ rd.pc \in {"started", "snapshot"} /\ rd'.ts = rd.ts /\ rd'.open = rd.open,
             batch_in_progress' => batch_in_progress /\ UNCHANGED <<batch_ts, batches>>
      PROVE  ReaderBelow'
  <2> SUFFICES ASSUME rd'.pc \in {"started", "snapshot", "tables"}
               PROVE  /\ rd'.ts <= global_ts'
                      /\ batch_in_progress' => rd'.open = batches' \/ rd'.ts < batch_ts'
    BY DEF ReaderBelow
  <2>1. rd.pc \in {"started", "snapshot", "tables"} /\ rd'.ts = rd.ts /\ rd'.open = rd.open
    BY <1>a
  <2>2. rd.ts \in Nat /\ rd.ts <= global_ts
    BY <1>1, <2>1 DEF ReaderBelow
  <2>3. rd'.ts <= global_ts'
    BY <1>0, <2>1, <2>2
  <2> QED  BY <1>a, <2>1, <2>3 DEF ReaderBelow
<1>2. CASE SomeWrite
  BY <1>a, <1>2, WriteFrame
<1>3. CASE StartBatch
  <2> SUFFICES ASSUME rd'.pc \in {"started", "snapshot", "tables"}
               PROVE  rd'.ts <= global_ts' /\ rd'.ts < batch_ts'
    BY DEF ReaderBelow
  <2>1. rd' = rd /\ batch_ts' = global_ts + Gap
    BY <1>3 DEF StartBatch
  <2>2. rd.ts \in Nat /\ rd.ts <= global_ts
    BY <1>1, <2>1 DEF ReaderBelow
  <2> QED  BY <1>0, <2>1, <2>2
<1>4. CASE Apply \/ Flush \/ WaitForPendingFlushes \/ Sync \/ CommitBatch \/ CommitDone
  BY <1>a, <1>4, Zenon DEF Apply, Flush, WaitForPendingFlushes, Sync, CommitBatch, CommitDone, bvars, cvars
<1>5. CASE AbortLog \/ AbortManifest \/ AbortMemTables \/ AbortTables
  BY <1>a, <1>5, Zenon DEF AbortLog, AbortManifest, AbortMemTables, AbortTables, bvars, cvars
<1>6. CASE FlushPop \/ FlushWrite \/ FlushPublish \/ FlushManifest \/ FlushCheckpoint \/ FlushDone
  BY <1>a, <1>6 DEF FlushPop, FlushWrite, FlushPublish, FlushManifest, FlushCheckpoint, FlushDone, bvars, cvars
<1>7. CASE \E k \in Keys : ReadStart(k)
  <2>1. /\ rd'.ts = global_ts /\ rd'.open = IF batch_in_progress THEN batches ELSE 0
        /\ UNCHANGED <<global_ts, bvars, cvars>>
    BY <1>7 DEF ReadStart
  <2> QED  BY <1>0, <2>1 DEF ReaderBelow, bvars, cvars
<1>8. CASE ReadSnapshot
  <2>1. /\ rd.pc = "started" /\ rd'.ts = rd.ts /\ rd'.open = rd.open
        /\ UNCHANGED <<bvars, cvars>>
    BY <1>8, Zenon DEF ReadSnapshot
  <2> QED  BY <1>a, <2>1 DEF bvars, cvars
<1>9. CASE ReadMemTables
  <2>1. rd.pc = "snapshot" /\ UNCHANGED <<bvars, cvars>>
    BY <1>9 DEF ReadMemTables
  <2>2. CASE rd' = [rd EXCEPT !.pc = "tables"]
    <3>1. rd'.ts = rd.ts /\ rd'.open = rd.open
      BY <1>0, <2>1, <2>2 DEF ReaderState
    <3> QED  BY <1>a, <2>1, <3>1 DEF bvars, cvars
  <2>3. CASE rd'.pc = "done"
    BY <2>3 DEF ReaderBelow
  <2>4. rd' = [rd EXCEPT !.pc = "tables"] \/ Done(SearchMemTables, {})
    BY <1>9, Zenon DEF ReadMemTables
  <2>5. Done(SearchMemTables, {}) => rd'.pc = "done"
    BY DEF Done
  <2> QED  BY <2>2, <2>3, <2>4, <2>5, Zenon
<1>10. CASE ReadTables \/ ReadReturn
  <2>1. rd'.pc \in {"done", "idle"}
    BY <1>10 DEF ReadTables, ReadReturn, Done, Idle
  <2> QED  BY <2>1, Zenon DEF ReaderBelow
<1>11. CASE UNCHANGED vars
  BY <1>a, <1>11 DEF vars, bvars, cvars
<1> QED
  BY <1>2, <1>3, <1>4, <1>5, <1>6, <1>7, <1>8, <1>9, <1>10, <1>11, RunSteps, Zenon

LEMMA HitsStep ==
    ASSUME TypeInv, MemHidden, FilesEnded, ReaderBelow, AbortHiddenUnlessSpilled,
           [Next]_vars, ~Crash, Running
    PROVE  AbortHiddenUnlessSpilled'
<1>0. /\ MemOK /\ TablesOK /\ ReaderOK /\ rd \in ReaderState /\ Ended \subseteq Ended' /\ batch_ts \in Nat
  BY EndedGrows, Zenon DEF TypeInv, ReaderOK, ClockOK
<1> DEFINE S == {e \in Entry : e.bat \in Ended \cup {rd.open}}
<1>a. ASSUME UNCHANGED rd PROVE AbortHiddenUnlessSpilled'
  BY <1>0, <1>a DEF AbortHiddenUnlessSpilled, Ended
<1>b. ASSUME rd'.pc # "done" PROVE AbortHiddenUnlessSpilled'
  BY <1>b DEF AbortHiddenUnlessSpilled
<1>c. ASSUME NEW H, NEW g, H \subseteq S, Done(H, g) PROVE AbortHiddenUnlessSpilled'
  <2>1. rd'.hit = H /\ rd'.open = rd.open
    BY <1>c, Zenon DEF Done
  <2> QED  BY <1>0, <1>c, <2>1 DEF AbortHiddenUnlessSpilled, Ended
<1>1. CASE ReadMemTables
  <2>1. /\ rd.pc = "snapshot" /\ rd.frozen \in Seq(DOMAIN mem) /\ rd.active \in DOMAIN mem
        /\ rd.ts \in Nat
    BY <1>0, <1>1 DEF ReadMemTables, ReaderOK, ReaderState
  <2>2. ASSUME NEW n \in DOMAIN mem, NEW h \in MemLookup(mem[n], rd.key, rd.ts)
        PROVE  h \in S
    <3>1. PICK i \in DOMAIN mem[n].ents :
            h = mem[n].ents[i] /\ h.ts <= rd.ts /\ h.ts \notin mem[n].aborted
      BY <2>2, Zenon DEF MemLookup, Visible
    <3>2. h \in Entry
      BY <1>0, <3>1, MemEntry
    <3>3. h.bat \in Ended \/ Open(h)
      BY <3>1, Zenon DEF MemHidden
    <3>4. ASSUME Open(h) PROVE h.bat = rd.open
      <4>1. rd.open = batches \/ rd.ts < batch_ts
        BY <2>1, <3>4 DEF ReaderBelow, Open
      <4>2. h.ts = batch_ts /\ h.bat = batches
        BY <3>4 DEF Open
      <4>3. rd.ts \in Nat /\ batch_ts \in Nat /\ h.ts <= rd.ts
        BY <1>0, <2>1, <3>1, Zenon
      <4> QED  BY <4>1, <4>2, <4>3
    <3> QED  BY <3>2, <3>3, <3>4
  <2>3. SearchMemTables \subseteq S
    BY <1>0, <2>1, <2>2, MemSearchIn, Zenon
  <2>4. CASE Done(SearchMemTables, {})
    BY <1>c, <2>3, <2>4, Zenon
  <2>5. CASE rd' = [rd EXCEPT !.pc = "tables"]
    <3>1. rd'.pc = "tables"
      BY <1>0, <2>1, <2>5 DEF ReaderState
    <3> QED  BY <1>b, <3>1
  <2> QED  BY <1>1, <2>4, <2>5 DEF ReadMemTables
<1>2. CASE ReadTables
  <2>1. ASSUME NEW f \in DOMAIN files, NEW h \in LookupKey(files[f], rd.key, rd.ts)
        PROVE  h \in S
    <3>1. files[f] \in SSTable
      BY <1>0 DEF TablesOK
    <3>2. h \in files[f].ents /\ h \in Entry
      BY <2>1, <3>1, Zenon DEF LookupKey, SSTable
    <3> QED  BY <3>2 DEF FilesEnded
  <2>2. SearchTables \subseteq S
    BY <1>0, <2>1, TableSearchIn, Zenon
  <2> QED  BY <1>2, <1>c, <2>2, Zenon DEF ReadTables
<1>3. CASE (\E k \in Keys : ReadStart(k)) \/ ReadSnapshot \/ ReadReturn
  <2>1. CASE \E k \in Keys : ReadStart(k)
    BY <1>b, <2>1 DEF ReadStart
  <2>2. CASE ReadSnapshot
    BY <1>b, <2>2, Zenon DEF ReadSnapshot
  <2>3. CASE ReadReturn
    BY <1>b, <2>3 DEF ReadReturn, Idle
  <2> QED  BY <1>3, <2>1, <2>2, <2>3, Zenon
<1>4. CASE SomeWrite
  BY <1>a, <1>4, WriteFrame
<1>5. CASE Apply \/ Flush \/ WaitForPendingFlushes \/ Sync \/ StartBatch \/ CommitBatch \/ CommitDone
  BY <1>a, <1>5, Zenon DEF Apply, Flush, WaitForPendingFlushes, Sync, StartBatch, CommitBatch, CommitDone
<1>6. CASE AbortLog \/ AbortManifest \/ AbortMemTables \/ AbortTables
  BY <1>a, <1>6, Zenon DEF AbortLog, AbortManifest, AbortMemTables, AbortTables
<1>7. CASE FlushPop \/ FlushWrite \/ FlushPublish \/ FlushManifest \/ FlushCheckpoint \/ FlushDone
  BY <1>a, <1>7 DEF FlushPop, FlushWrite, FlushPublish, FlushManifest, FlushCheckpoint, FlushDone
<1>8. CASE UNCHANGED vars
  BY <1>a, <1>8 DEF vars
<1> QED  BY <1>1, <1>2, <1>3, <1>4, <1>5, <1>6, <1>7, <1>8, RunSteps

LEMMA InitAbort == Init => AbortInv
<1> SUFFICES ASSUME Init PROVE AbortInv
  OBVIOUS
<1>1. mem = <<Empty>> /\ files = << >> /\ op.pc = "idle" /\ rd.pc = "idle"
      /\ ~recovering /\ ~batch_in_progress
  BY Zenon DEF Init, Idle
<1>2. \A n \in DOMAIN mem : DOMAIN mem[n].ents = {}
  BY <1>1 DEF Empty
<1>3. MemHidden
  BY <1>2, Zenon DEF MemHidden
<1>4. DOMAIN files = {}
  BY <1>1
<1>5. FilesEnded
  BY <1>4, Zenon DEF FilesEnded
<1>6. WriterOpen /\ ReaderBelow /\ AbortHiddenUnlessSpilled
  BY <1>1 DEF WriterOpen, ReaderBelow, AbortHiddenUnlessSpilled
<1> QED  BY <1>1, <1>3, <1>5, <1>6, Zenon DEF AbortInv, Running

LEMMA AbortStep == TypeInv /\ OrderInv /\ AbortInv /\ [Next]_vars => AbortInv'
<1> SUFFICES ASSUME TypeInv, OrderInv, AbortInv, [Next]_vars, crashes' = 0
             PROVE  /\ Running' /\ MemHidden' /\ FilesEnded' /\ WriterOpen' /\ ReaderBelow'
                    /\ AbortHiddenUnlessSpilled'
  BY DEF AbortInv
<1>1. crashes = 0 /\ ~Crash
  BY NoCrash
<1>2. Running /\ MemHidden /\ FilesEnded /\ WriterOpen /\ ReaderBelow /\ AbortHiddenUnlessSpilled
  BY <1>1 DEF AbortInv
<1> QED
  BY <1>1, <1>2, RunningStep, MemHiddenStep, FilesEndedStep, WriterOpenStep, ReaderBelowStep, HitsStep

-----------------------------------------------------------------------------
(* What waiting for pending flushes guarantees.                            *)

\* A table of memtable n is published and in the manifest.
Recorded(n) ==
    \E t \in DOMAIN tables :
        tables[t].source_table_id = n /\ tables[t].seq \in Bag(manifest.adds)

Checkpoints == {i \in DOMAIN log : log[i].kind = "ckpt"}

\* A memtable that is not active any more waits for the flush worker, is in its hands,
\* or is recorded; and the log is behind by the checkpoints of the first two kinds.
FlushInv ==
    /\ \A n \in 1..(active - 1) :
         \/ n \in Bag(frozen)
         \/ n = fl.mt /\ fl.pc \in {"popped", "written", "published"}
         \/ Recorded(n)
    /\ fl.pc = "published" =>
         \E t \in DOMAIN tables : tables[t].source_table_id = fl.mt /\ tables[t].seq = Len(files)
    /\ active - 1 <= Cardinality(Checkpoints) + Len(frozen)
                      + (IF fl.pc \in {"popped", "written", "published", "recorded"} THEN 1 ELSE 0)

\* Only a crash takes records out of the log.
LEMMA LogGrows ==
    ASSUME [Next]_vars, ~Crash
    PROVE  log' = log \/ \E r : log' = Append(log, r)
<1>1. CASE SomeWrite
  BY <1>1 DEF SomeWrite, Write, Log
<1>2. CASE Apply \/ Flush \/ WaitForPendingFlushes \/ Sync \/ CommitDone
  BY <1>2, Zenon DEF Apply, Flush, WaitForPendingFlushes, Sync, CommitDone
<1>3. CASE StartBatch \/ CommitBatch \/ AbortLog
  BY <1>3, Zenon DEF StartBatch, CommitBatch, AbortLog, Log
<1>4. CASE AbortManifest \/ AbortMemTables \/ AbortTables
  BY <1>4, Zenon DEF AbortManifest, AbortMemTables, AbortTables
<1>5. CASE FlushPop \/ FlushWrite \/ FlushPublish \/ FlushManifest \/ FlushCheckpoint \/ FlushDone
  BY <1>5 DEF FlushPop, FlushWrite, FlushPublish, FlushManifest, FlushCheckpoint, FlushDone, Log
<1>6. CASE (\E k \in Keys : ReadStart(k)) \/ ReadSnapshot \/ ReadMemTables \/ ReadTables \/ ReadReturn
  BY <1>6 DEF ReadStart, ReadSnapshot, ReadMemTables, ReadTables, ReadReturn
<1>7. CASE RecoverInsert \/ RecoverEnd
  BY <1>7, Zenon DEF RecoverInsert, RecoverEnd, Log
<1>8. CASE UNCHANGED vars
  BY <1>8 DEF vars
<1> QED  BY <1>1, <1>2, <1>3, <1>4, <1>5, <1>6, <1>7, <1>8, Steps, Zenon

LEMMA FiniteCheckpoints ==
    ASSUME NEW L \in Seq(LogRecord)
    PROVE  LET C == {i \in DOMAIN L : L[i].kind = "ckpt"}
           IN  IsFiniteSet(C) /\ Cardinality(C) \in Nat
<1> DEFINE C == {i \in DOMAIN L : L[i].kind = "ckpt"}
<1>1. Len(L) \in Nat /\ DOMAIN L = 1..Len(L)
  OBVIOUS
<1>2. IsFiniteSet(1..Len(L))
  BY <1>1, FS_Interval
<1>3. IsFiniteSet(C)
  BY <1>1, <1>2, FS_Subset, Zenon
<1> QED  BY <1>3, FS_CardinalityType, Zenon

LEMMA CheckpointsFinite ==
    ASSUME LogOK
    PROVE  IsFiniteSet(Checkpoints) /\ Cardinality(Checkpoints) \in Nat
  BY FiniteCheckpoints DEF LogOK, Checkpoints

LEMMA CheckpointAppend ==
    ASSUME LogOK, NEW r, log' = Append(log, r)
    PROVE  IF r.kind = "ckpt" THEN Cardinality(Checkpoints') = Cardinality(Checkpoints) + 1
                              ELSE Checkpoints' = Checkpoints
<1>1. log \in Seq(LogRecord) /\ Len(log) \in Nat /\ DOMAIN log = 1..Len(log)
  BY DEF LogOK
<1>2. /\ DOMAIN log' = 1..(Len(log) + 1) /\ log'[Len(log) + 1] = r
      /\ \A i \in 1..Len(log) : log'[i] = log[i]
  BY <1>1
<1>3. \A i : i \in DOMAIN log' <=> i \in DOMAIN log \/ i = Len(log) + 1
  BY <1>1, <1>2
<1>4. CASE r.kind = "ckpt"
  <2>1. Checkpoints' = Checkpoints \cup {Len(log) + 1} /\ Len(log) + 1 \notin Checkpoints
    BY <1>1, <1>2, <1>3, <1>4 DEF Checkpoints
  <2> QED  BY <1>4, <2>1, CheckpointsFinite, FS_AddElement, Zenon
<1>5. CASE r.kind # "ckpt"
  <2>1. Checkpoints' = Checkpoints
    BY <1>1, <1>2, <1>3, <1>5, Zenon DEF Checkpoints
  <2> QED  BY <1>5, <2>1, Zenon
<1> QED  BY <1>4, <1>5, Zenon

\* A step that is no crash leaves what is recorded recorded, and no fewer checkpoints.
LEMMA CheckpointsGrow ==
    ASSUME LogOK, [Next]_vars, ~Crash
    PROVE  Cardinality(Checkpoints') \in Nat /\ Cardinality(Checkpoints) <= Cardinality(Checkpoints')
<1>1. Cardinality(Checkpoints) \in Nat
  BY CheckpointsFinite
<1>2. CASE log' = log
  BY <1>1, <1>2 DEF Checkpoints
<1>3. CASE \E r : log' = Append(log, r)
  <2>1. PICK r : log' = Append(log, r)
    BY <1>3
  <2>2. \/ Cardinality(Checkpoints') = Cardinality(Checkpoints) + 1
        \/ Cardinality(Checkpoints') = Cardinality(Checkpoints)
    BY <2>1, CheckpointAppend, Zenon
  <2> QED  BY <1>1, <2>2
<1> QED  BY <1>2, <1>3, LogGrows, Zenon

LEMMA RecordedStays ==
    ASSUME \A t \in DOMAIN tables : /\ t \in DOMAIN tables'
                                   /\ tables'[t].source_table_id = tables[t].source_table_id
                                   /\ tables'[t].seq = tables[t].seq,
           Bag(manifest.adds) \subseteq Bag(manifest'.adds),
           NEW n, Recorded(n)
    PROVE  Recorded(n)'
  BY DEF Recorded

\* A memtable flushed by recovery.
LEMMA RecoverFlushInv ==
    ASSUME TypeInv, FlushInv, NEW m \in MemTable, RecoverFlush(m),
           recovering, UNCHANGED <<fl, frozen>>,
           active' = active + 1, NEW c \in Nat, log' = Append(log, CheckpointRecord(c))
    PROVE  FlushInv'
<1>0. /\ active \in Nat /\ fl.pc = "idle" /\ frozen = << >> /\ TablesOK /\ LogOK
  BY DEF TypeInv, RecoveryOK, MemOK, active
<1>1. /\ \A t \in DOMAIN tables : t \in DOMAIN tables' /\ tables'[t] = tables[t]
      /\ Len(tables') \in DOMAIN tables'
      /\ tables'[Len(tables')] = [seq |-> Len(files'), source_table_id |-> active,
                                  aborted |-> m.aborted]
      /\ Bag(manifest'.adds) = Bag(manifest.adds) \cup {Len(files')}
  BY <1>0, RecoverFlushTables, Zenon
<1>2. \A n : n = active => Recorded(n)'
  <2>1. tables'[Len(tables')] = [seq |-> Len(files'), source_table_id |-> active,
                                 aborted |-> m.aborted]
    BY <1>1, Zenon
  <2>2. tables'[Len(tables')].seq = Len(files') /\ tables'[Len(tables')].source_table_id = active
    BY <2>1
  <2>3. Len(tables') \in DOMAIN tables' /\ Len(files') \in Bag(manifest'.adds)
    BY <1>1, Zenon
  <2> QED  BY <2>2, <2>3, Zenon DEF Recorded
<1>3. ASSUME NEW n \in 1..(active' - 1) PROVE Recorded(n)'
  <2>1. CASE n = active
    BY <1>2, <2>1, Zenon
  <2>2. CASE n # active
    <3>1. n \in 1..(active - 1)
      BY <1>0, <2>2
    <3>2. Recorded(n)
      BY <1>0, <3>1 DEF FlushInv, Bag
    <3> QED  BY <1>1, <3>2, RecordedStays, Zenon
  <2> QED  BY <2>1, <2>2, Zenon
<1>4. Cardinality(Checkpoints') = Cardinality(Checkpoints) + 1
  <2>1. CheckpointRecord(c).kind = "ckpt"
    BY Zenon DEF CheckpointRecord
  <2> QED  BY <1>0, <2>1, CheckpointAppend, Zenon
<1>5. Len(frozen) = 0 /\ Cardinality(Checkpoints) \in Nat
  BY <1>0, CheckpointsFinite, Zenon
<1>6. active - 1 <= Cardinality(Checkpoints)
  <2>1. active - 1 <= Cardinality(Checkpoints) + Len(frozen)
                        + (IF fl.pc \in {"popped", "written", "published", "recorded"} THEN 1 ELSE 0)
    BY Zenon DEF FlushInv
  <2>2. active \in Nat /\ fl.pc = "idle"
    BY <1>0, Zenon
  <2> QED  BY <1>5, <2>1, <2>2
<1>7. active' - 1 <= Cardinality(Checkpoints') + Len(frozen') + 0
  BY <1>0, <1>4, <1>5, <1>6
<1> QED  BY <1>0, <1>3, <1>7, Zenon DEF FlushInv

LEMMA FreezeFlushInv ==
    ASSUME TypeInv, FlushInv, NEW m \in MemTable, Freeze(m), UNCHANGED <<fl, tvars, log>>
    PROVE  FlushInv'
<1>0. /\ active \in Nat /\ MemOK /\ LogOK /\ frozen \in Seq(DOMAIN mem) /\ Len(frozen) \in Nat
      /\ active \in DOMAIN mem
  BY DEF TypeInv, MemOK, active
<1>1. active' = active + 1
  BY <1>0, FreezeMem, Zenon DEF active
<1>2. frozen' = Append(frozen, active)
  BY DEF Freeze
<1>3. Bag(frozen') = Bag(frozen) \cup {active} /\ Len(frozen') = Len(frozen) + 1
  <2>1. /\ Len(frozen') = Len(frozen) + 1 /\ DOMAIN frozen' = 1..(Len(frozen) + 1)
        /\ DOMAIN frozen = 1..Len(frozen) /\ frozen'[Len(frozen) + 1] = active
        /\ \A i \in 1..Len(frozen) : frozen'[i] = frozen[i]
    BY <1>0, <1>2
  <2>2. \A i : i \in DOMAIN frozen' <=> i \in DOMAIN frozen \/ i = Len(frozen) + 1
    BY <1>0, <2>1
  <2> QED  BY <2>1, <2>2, Zenon DEF Bag
<1>4. ASSUME NEW n \in 1..(active' - 1)
      PROVE  \/ n \in Bag(frozen')
             \/ n = fl'.mt /\ fl'.pc \in {"popped", "written", "published"}
             \/ Recorded(n)'
  <2>1. CASE n = active
    BY <1>3, <2>1, Zenon
  <2>2. CASE n # active
    <3>1. n \in 1..(active - 1)
      BY <1>0, <1>1, <2>2
    <3>2. Recorded(n)' <=> Recorded(n)
      BY DEF Recorded, tvars
    <3> QED  BY <1>3, <3>1, <3>2, Zenon DEF FlushInv
  <2> QED  BY <2>1, <2>2, Zenon
<1>5. Cardinality(Checkpoints) \in Nat /\ Checkpoints' = Checkpoints
  BY <1>0, CheckpointsFinite, Zenon DEF Checkpoints
<1> DEFINE h == IF fl.pc \in {"popped", "written", "published", "recorded"} THEN 1 ELSE 0
<1>6. active - 1 <= Cardinality(Checkpoints) + Len(frozen) + h /\ h \in Nat
  BY DEF FlushInv
<1> HIDE DEF h
<1>7. active' - 1 <= Cardinality(Checkpoints') + Len(frozen') + h
  BY <1>0, <1>1, <1>3, <1>5, <1>6
<1> QED  BY <1>4, <1>7, Zenon DEF FlushInv, tvars, h

LEMMA FlushStep == TypeInv /\ FlushInv /\ [Next]_vars => FlushInv'
<1> SUFFICES ASSUME TypeInv, FlushInv, [Next]_vars PROVE FlushInv'
  OBVIOUS
<1>0. /\ ReplaySound /\ MemOK /\ LogOK /\ TablesOK /\ op \in WriterState /\ ClockOK /\ RecoveryOK
      /\ active \in Nat /\ active \in DOMAIN mem /\ mem[active] \in MemTable
      /\ frozen \in Seq(DOMAIN mem) /\ Len(frozen) \in Nat /\ fl \in FlushWorker
  BY DEF TypeInv, MemOK, active
<1>1. Cardinality(Checkpoints) \in Nat
  BY <1>0, CheckpointsFinite, Zenon
<1> DEFINE Busy == {"popped", "written", "published", "recorded"}
           h == IF fl.pc \in Busy THEN 1 ELSE 0
<1>2. active - 1 <= Cardinality(Checkpoints) + Len(frozen) + h /\ h \in Nat
  BY DEF FlushInv
<1> HIDE DEF h
<1>a. ASSUME UNCHANGED <<frozen, fl, tvars>>, active' = active, ~Crash
      PROVE  FlushInv'
  <2>1. Cardinality(Checkpoints') \in Nat /\ Cardinality(Checkpoints) <= Cardinality(Checkpoints')
    BY <1>0, <1>a, CheckpointsGrow, Zenon
  <2>2. active' - 1 <= Cardinality(Checkpoints') + Len(frozen') + h
    BY <1>0, <1>1, <1>2, <1>a, <2>1
  <2>3. \A n : Recorded(n)' <=> Recorded(n)
    BY <1>a DEF Recorded, tvars
  <2> QED  BY <1>a, <2>2, <2>3, Zenon DEF FlushInv, tvars, h
<1>b. ASSUME UNCHANGED mem PROVE active' = active
  BY <1>b, Zenon DEF active
<1>3. CASE Crash
  <2>1. PICK n \in 0..Len(log) :
          mem' = <<[Empty EXCEPT !.aborted = AbortedBatches(SubSeq(log, 1, n))]>>
    BY <1>0, <1>3, CrashPick, Zenon
  <2>2. Len(mem') = 1
    BY <2>1
  <2>3. active' = 1
    BY <2>2, Zenon DEF active
  <2>4. fl'.pc = "idle" /\ frozen' = << >> /\ Len(frozen') = 0
    BY <1>3, Zenon DEF Crash
  <2>5. Cardinality(Checkpoints') \in Nat
    <3>1. log' \in Seq(LogRecord)
      BY LogStep DEF LogOK
    <3> QED  BY <3>1, FiniteCheckpoints, Zenon DEF Checkpoints
  <2>6. active' - 1 <= Cardinality(Checkpoints') + Len(frozen') + 0
    BY <2>3, <2>4, <2>5
  <2>7. \A m : m \notin 1..(active' - 1)
    BY <2>3
  <2> QED  BY <2>4, <2>6, <2>7 DEF FlushInv
<1>4. CASE Apply /\ ~Crash
  <2> DEFINE m == TreeInsert(mem[active], op.ent)
  <2>1. m \in MemTable
    BY <1>0, <1>4, TreeInsertType, Zenon DEF Apply, WriterState
  <2>2. UNCHANGED <<fl, tvars, log>>
    BY <1>4, Zenon DEF Apply
  <2>3. CASE Freeze(m)
    BY <2>1, <2>2, <2>3, FreezeFlushInv, Zenon
  <2>4. CASE mem' = [mem EXCEPT ![active] = m] /\ UNCHANGED <<frozen, pending>>
    <3> HIDE DEF m
    <3>1. active' = active
      BY <1>0, <2>1, <2>4, MemReplace, Zenon DEF active
    <3> QED  BY <1>4, <1>a, <2>2, <2>4, <3>1, Zenon
  <2> QED  BY <1>4, <2>3, <2>4, Zenon DEF Apply
<1>5. CASE Flush
  BY <1>0, <1>5, FreezeFlushInv, Zenon DEF Flush
<1>6. CASE FlushPop /\ ~Crash
  <2>1. frozen # << >> /\ fl.pc = "idle"
    <3>1. fl.pc = "idle" /\ pending > 0
      BY <1>6, Zenon DEF FlushPop
    <3>2. pending = Len(frozen) + (IF fl.pc = "idle" THEN 0 ELSE 1)
      BY <1>0, Zenon DEF MemOK
    <3> QED  BY <3>1, <3>2
  <2>2. /\ fl' = [pc |-> "popped", mt |-> Head(frozen)] /\ frozen' = Tail(frozen)
        /\ UNCHANGED <<mem, tvars, log>>
    BY <1>6, <2>1, Zenon DEF FlushPop
  <2>3. /\ Len(frozen') = Len(frozen) - 1
        /\ \A i \in DOMAIN frozen :
             \/ frozen[i] = Head(frozen)
             \/ i - 1 \in DOMAIN frozen' /\ frozen[i] = frozen'[i - 1]
    <3>1. /\ Len(frozen') = Len(frozen) - 1 /\ DOMAIN frozen' = 1..(Len(frozen) - 1)
          /\ \A j \in 1..(Len(frozen) - 1) : frozen'[j] = frozen[j + 1]
          /\ DOMAIN frozen = 1..Len(frozen) /\ Head(frozen) = frozen[1]
      BY <1>0, <2>1, <2>2
    <3>2. ASSUME NEW i \in DOMAIN frozen, i # 1
          PROVE  i - 1 \in DOMAIN frozen' /\ frozen[i] = frozen'[i - 1]
      <4>1. i - 1 \in 1..(Len(frozen) - 1) /\ (i - 1) + 1 = i
        BY <1>0, <3>1, <3>2
      <4> QED  BY <3>1, <4>1, Zenon
    <3> QED  BY <3>1, <3>2, Zenon
  <2>4. ASSUME NEW n \in Bag(frozen) PROVE n = Head(frozen) \/ n \in Bag(frozen')
    BY <2>3, Zenon DEF Bag
  <2>5. h = 0 /\ active' = active /\ Checkpoints' = Checkpoints
    BY <1>b, <2>1, <2>2, Zenon DEF h, Checkpoints
  <2>6. active' - 1 <= Cardinality(Checkpoints') + Len(frozen') + 1
    BY <1>0, <1>1, <1>2, <2>3, <2>5
  <2>7. \A n : Recorded(n)' <=> Recorded(n)
    BY <2>2 DEF Recorded, tvars
  <2> QED  BY <2>1, <2>2, <2>4, <2>5, <2>6, <2>7, Zenon DEF FlushInv
<1>7. CASE FlushWrite
  <2>1. /\ fl.pc = "popped" /\ fl'.pc = "written" /\ fl'.mt = fl.mt
        /\ UNCHANGED <<mem, frozen, tables, manifest, log>>
    BY <1>0, <1>7, Zenon DEF FlushWrite, FlushWorker, mvars
  <2>2. \A n : Recorded(n)' <=> Recorded(n)
    BY <2>1 DEF Recorded
  <2> QED  BY <1>b, <2>1, <2>2, Zenon DEF FlushInv, Checkpoints
<1>8. CASE FlushPublish
  <2> DEFINE t == [seq |-> Len(files), source_table_id |-> fl.mt, aborted |-> files[Len(files)].aborted]
  <2>1. /\ fl.pc = "written" /\ fl'.pc = "published" /\ fl'.mt = fl.mt
        /\ UNCHANGED <<mem, frozen, files, manifest, log>> /\ tables' = Append(tables, t)
    BY <1>0, <1>8, Zenon DEF FlushPublish, FlushWorker, mvars
  <2>2. t.seq = Len(files) /\ t.source_table_id = fl.mt
    OBVIOUS
  <2> HIDE DEF t
  <2>3. /\ \A n \in DOMAIN tables : n \in DOMAIN tables' /\ tables'[n] = tables[n]
        /\ Len(tables) + 1 \in DOMAIN tables' /\ tables'[Len(tables) + 1] = t
    <3>1. tables \in Seq(Metadata) /\ tables' = Append(tables, t)
      BY <1>0, <2>1, Zenon DEF TablesOK
    <3> QED  BY <3>1
  <2>4. ASSUME NEW n, Recorded(n) PROVE Recorded(n)'
    BY <2>1, <2>3, <2>4, Zenon DEF Recorded
  <2> QED  BY <1>b, <2>1, <2>2, <2>3, <2>4, Zenon DEF FlushInv, Checkpoints
<1>9. CASE FlushManifest
  <2>1. /\ fl.pc = "published" /\ fl'.pc = "recorded" /\ fl'.mt = fl.mt
        /\ UNCHANGED <<mem, frozen, files, tables, log>>
        /\ manifest'.adds = Append(manifest.adds, Len(files))
    BY <1>0, <1>9, Zenon DEF FlushManifest, FlushWorker, mvars, TablesOK
  <2>2. /\ \A i \in DOMAIN manifest.adds : i \in DOMAIN manifest'.adds
                                          /\ manifest'.adds[i] = manifest.adds[i]
        /\ Len(manifest.adds) + 1 \in DOMAIN manifest'.adds
        /\ manifest'.adds[Len(manifest.adds) + 1] = Len(files)
    <3>1. manifest.adds \in Seq(Nat)
      BY <1>0, Zenon DEF TablesOK
    <3> QED  BY <2>1, <3>1
  <2>3. Bag(manifest.adds) \subseteq Bag(manifest'.adds) /\ Len(files) \in Bag(manifest'.adds)
    BY <2>2 DEF Bag
  <2>4. ASSUME NEW n, Recorded(n) \/ n = fl.mt PROVE Recorded(n)'
    <3>1. \E t \in DOMAIN tables : tables[t].source_table_id = fl.mt /\ tables[t].seq = Len(files)
      BY <2>1, Zenon DEF FlushInv
    <3>2. \E t \in DOMAIN tables :
            tables[t].source_table_id = n /\ tables[t].seq \in Bag(manifest'.adds)
      BY <2>3, <2>4, <3>1, Zenon DEF Recorded
    <3> QED  BY <2>1, <3>2, Zenon DEF Recorded
  <2> QED  BY <1>b, <2>1, <2>4, Zenon DEF FlushInv, Checkpoints
<1>10. CASE FlushCheckpoint
  <2>1. /\ fl.pc = "recorded" /\ fl'.pc = "logged" /\ fl'.mt = fl.mt
        /\ UNCHANGED <<mem, frozen, tvars>> /\ log' = Append(log, CheckpointRecord(global_ts))
    BY <1>0, <1>10, Zenon DEF FlushCheckpoint, FlushWorker, mvars, Log
  <2>2. \A n : Recorded(n)' <=> Recorded(n)
    BY <2>1 DEF Recorded, tvars
  <2>3. Cardinality(Checkpoints') = Cardinality(Checkpoints) + 1
    <3>1. CheckpointRecord(global_ts).kind = "ckpt"
      BY Zenon DEF CheckpointRecord
    <3> QED  BY <1>0, <2>1, <3>1, CheckpointAppend, Zenon
  <2>4. h = 1 /\ active' = active
    BY <1>b, <2>1, Zenon DEF h
  <2>5. active' - 1 <= Cardinality(Checkpoints') + Len(frozen') + 0
    BY <1>0, <1>1, <1>2, <2>1, <2>3, <2>4
  <2> QED  BY <2>1, <2>2, <2>4, <2>5, Zenon DEF FlushInv
<1>11. CASE FlushDone
  <2>1. /\ fl.pc = "logged" /\ fl'.pc = "idle"
        /\ UNCHANGED <<mem, frozen, tvars, log>>
    BY <1>0, <1>11, Zenon DEF FlushDone
  <2>2. \A n : Recorded(n)' <=> Recorded(n)
    BY <2>1, Zenon DEF Recorded, tvars
  <2> QED  BY <1>b, <2>1, <2>2, Zenon DEF FlushInv, Checkpoints
<1>12. CASE AbortTables
  <2>1. /\ UNCHANGED <<mem, frozen, fl, files, manifest, log>>
        /\ tables' = [n \in DOMAIN tables |-> [tables[n] EXCEPT !.aborted = @ \cup {batch_ts}]]
    BY <1>12 DEF AbortTables, mvars
  <2>2. /\ DOMAIN tables' = DOMAIN tables
        /\ \A t \in DOMAIN tables : /\ tables'[t].source_table_id = tables[t].source_table_id
                                   /\ tables'[t].seq = tables[t].seq
    <3>1. \A t \in DOMAIN tables : tables[t] \in Metadata
      BY <1>0 DEF TablesOK
    <3> QED  BY <2>1, <3>1, Zenon DEF Metadata
  <2>3. \A n : Recorded(n)' <=> Recorded(n)
    BY <2>1, <2>2, Zenon DEF Recorded
  <2> QED  BY <1>b, <2>1, <2>2, <2>3, Zenon DEF FlushInv, Checkpoints
<1>13. CASE AbortManifest
  <2>1. UNCHANGED <<mem, frozen, fl, files, tables, log>> /\ manifest'.adds = manifest.adds
    BY <1>0, <1>13, Zenon DEF AbortManifest, mvars, TablesOK
  <2>2. \A n : Recorded(n)' <=> Recorded(n)
    BY <2>1, Zenon DEF Recorded
  <2> QED  BY <1>b, <2>1, <2>2, Zenon DEF FlushInv, Checkpoints
<1>14. CASE RecoverInsert /\ ~Crash
  <2> DEFINE e == Recovered(log[NextReplayed])
             m == TreeInsert(mem[active], e)
  <2>1. e \in Entry /\ m \in MemTable
    BY <1>0, <1>14, NextReplayedEntry, TreeInsertType, Zenon
  <2>2. recovering /\ UNCHANGED <<fl, frozen>>
    BY <1>14, Zenon DEF RecoverInsert, Running
  <2>3. \/ /\ mem' = Append([mem EXCEPT ![active] = m], Empty) /\ RecoverFlush(m)
           /\ log' = Append(log, CheckpointRecord(global_ts'))
        \/ mem' = [mem EXCEPT ![active] = m] /\ UNCHANGED tvars
    BY <1>14 DEF RecoverInsert, Log
  <2>4. global_ts' \in Nat /\ batch_in_progress' = batch_in_progress /\ batch_ts' = batch_ts
    BY <1>14, ClockStep, Zenon DEF ClockOK, RecoverInsert, bvars
  <2> HIDE DEF m
  <2>5. CASE /\ mem' = Append([mem EXCEPT ![active] = m], Empty) /\ RecoverFlush(m)
             /\ log' = Append(log, CheckpointRecord(global_ts'))
    <3>1. active' = active + 1
      BY <1>0, <2>1, <2>5, MemReplace, Zenon DEF active
    <3> QED  BY <2>1, <2>2, <2>4, <2>5, <3>1, RecoverFlushInv, Zenon
  <2>6. CASE mem' = [mem EXCEPT ![active] = m] /\ UNCHANGED tvars
    <3>1. active' = active
      BY <1>0, <2>1, <2>6, MemReplace, Zenon DEF active
    <3> QED  BY <1>14, <1>a, <2>2, <2>6, <3>1, Zenon
  <2> QED  BY <2>3, <2>5, <2>6, Zenon
<1>15. CASE RecoverEnd /\ ~Crash
  <2>1. recovering /\ UNCHANGED <<fl, frozen>> /\ log' = Append(log, CheckpointRecord(global_ts))
        /\ global_ts \in Nat
    BY <1>0, <1>15, Zenon DEF RecoverEnd, Running, Log, ClockOK
  <2>2. CASE UNCHANGED <<mem, tvars>>
    BY <1>15, <1>a, <1>b, <2>1, <2>2, Zenon
  <2>3. CASE mem' = Append(mem, Empty) /\ RecoverFlush(mem[active])
    <3>1. active' = active + 1
      <4>1. Len(Append(mem, Empty)) = Len(mem) + 1
        BY <1>0, EmptyType, AppendTo, Zenon DEF MemOK
      <4> QED  BY <2>3, <4>1, Zenon DEF active
    <3> QED  BY <1>0, <2>1, <2>3, <3>1, RecoverFlushInv, Zenon
  <2> QED  BY <1>15, <2>2, <2>3, Zenon DEF RecoverEnd
<1>16. CASE AbortMemTables /\ ~Crash
  <2>1. UNCHANGED <<frozen, fl, tvars>> /\ DOMAIN mem' = DOMAIN mem
    BY <1>16, Zenon DEF AbortMemTables
  <2>2. mem' \in Seq(MemTable) /\ mem \in Seq(MemTable)
    BY <1>0, MemStep, Zenon DEF MemOK
  <2>3. active' = active
    BY <2>1, <2>2 DEF active
  <2> QED  BY <1>16, <1>a, <2>1, <2>3, Zenon
<1>17. CASE SomeWrite /\ ~Crash
  BY <1>17, <1>a, <1>b, WriteFrame, Zenon DEF mvars, tvars
<1>18. CASE (WaitForPendingFlushes \/ Sync \/ StartBatch \/ CommitBatch \/ CommitDone \/ AbortLog) /\ ~Crash
  BY <1>18, <1>a, <1>b, Zenon DEF WaitForPendingFlushes, Sync, StartBatch, CommitBatch, CommitDone,
                           AbortLog, mvars
<1>19. CASE ((\E k \in Keys : ReadStart(k)) \/ ReadSnapshot \/ ReadMemTables \/ ReadTables
             \/ ReadReturn) /\ ~Crash
  BY <1>19, <1>a, <1>b, Zenon DEF ReadStart, ReadSnapshot, ReadMemTables, ReadTables, ReadReturn, mvars
<1>20. CASE UNCHANGED vars /\ ~Crash
  BY <1>20, <1>a, <1>b, Zenon DEF vars, mvars
<1> QED
  BY <1>3, <1>4, <1>5, <1>6, <1>7, <1>8, <1>9, <1>10, <1>11, <1>12, <1>13, <1>14, <1>15,
     <1>16, <1>17, <1>18, <1>19, <1>20, Steps, Zenon

LEMMA InitFlush ==
    ASSUME TypeInv, Init
    PROVE  FlushInv
<1>1. active = 1 /\ fl.pc = "idle" /\ Len(frozen) = 0 /\ LogOK
  BY DEF Init, active, TypeInv
<1>2. Cardinality(Checkpoints) \in Nat
  BY <1>1, CheckpointsFinite, Zenon
<1> QED  BY <1>1, <1>2 DEF FlushInv

LEMMA FlushInvHolds == TypeInv /\ FlushInv => QuiescentMeansFlushed
<1> SUFFICES ASSUME TypeInv, FlushInv, pending = 0
             PROVE  /\ frozen = << >> /\ fl.pc = "idle"
                    /\ \A n \in 1..(active - 1) : Recorded(n)
                    /\ Cardinality(Checkpoints) >= active - 1
  BY DEF QuiescentMeansFlushed, Recorded, Checkpoints
<1>1. /\ Len(frozen) \in Nat /\ pending = Len(frozen) + (IF fl.pc = "idle" THEN 0 ELSE 1)
      /\ frozen \in Seq(DOMAIN mem) /\ LogOK /\ active \in Nat
  BY DEF TypeInv, MemOK, active
<1>2. Len(frozen) = 0 /\ fl.pc = "idle"
  BY <1>1
<1>3. frozen = << >> /\ Bag(frozen) = {}
  BY <1>1, <1>2 DEF Bag
<1>4. Cardinality(Checkpoints) \in Nat
  BY <1>1, CheckpointsFinite, Zenon
<1> QED  BY <1>1, <1>2, <1>3, <1>4 DEF FlushInv

============================================================================
