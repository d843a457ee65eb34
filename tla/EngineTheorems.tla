--------------------------- MODULE EngineTheorems ---------------------------
(***************************************************************************)
(* The theorems about Engine, for any keys, memtable size, gap and bounds. *)
(***************************************************************************)
EXTENDS EngineFlushProofs, EngineCrashProofs, WalFormatProofs

\* What the proofs use of WAL::Recover holds of it.
LEMMA ReplayIsSound == ReplaySound
<1>1. ASSUME NEW S \in SUBSET Nat, S # {} PROVE \E i \in S : \A j \in S : i <= j
  BY <1>1, NatHasMin, Zenon
<1>2. ASSUME NEW L \in Seq(LogRecord)
      PROVE  /\ Scanned(L) \subseteq DOMAIN L
             /\ LastCheckpoint(L) # 0 =>
                  LastCheckpoint(L) \in DOMAIN L /\ L[LastCheckpoint(L)].kind = "ckpt"
  BY ScannedFacts, LastCheckpointFacts
<1>3. ASSUME NEW L \in Seq(LogRecord), \A i \in DOMAIN L : L[i].kind \in {"put", "ckpt"},
             NEW i \in DOMAIN L, L[i].kind = "put"
      PROVE  i \in Scanned(L) <=> \A k \in i..Len(L) : L[k].kind # "ckpt"
  <2>1. \A a, b \in DOMAIN L :
          a < b => /\ L[a].kind # "torn"
                   /\ L[a].kind \in {"begin", "commit"} => L[b].kind # "ckpt"
    BY <1>3
  <2>2. L[i].kind \notin {"ckpt", "torn"}
    BY <1>3
  <2> QED  BY <2>1, <2>2, UnshadowedScan, Zenon
<1> QED  BY <1>1, <1>2, <1>3, Zenon DEF ReplaySound

LEMMA TypesKept == Spec => [](TypeInv /\ OrderInv)
<1>1. Init => TypeInv /\ OrderInv
  BY ReplayIsSound, InitTypeInv, InitOrder, Zenon
<1>2. TypeInv /\ OrderInv /\ [Next]_vars => TypeInv' /\ OrderInv'
  BY TypeStep, OrderStep, Zenon
<1> QED  BY <1>1, <1>2, PTL DEF Spec

\* Every list names objects that exist, through any number of writes, flushes, aborts,
\* crashes and recoveries: the published tables and the manifest their files,
\* frozen_memtables_, the flush worker and a lookup's snapshot their memtables, the
\* replay of RecoverFromWAL its log records.
THEOREM TypeCorrect == Spec => []TypeOK
  BY TypesKept, TypeInvOK, PTL

\* When no flush is pending, every memtable but the active one is in a table that the
\* manifest lists, and its checkpoint in the log, whatever crashed or aborted before:
\* what Flush and WaitForPendingFlushes return on.
THEOREM FlushedWhenQuiescent == Spec => []QuiescentMeansFlushed
<1>1. Init => FlushInv
  BY ReplayIsSound, InitTypeInv, InitFlush, Zenon
<1>2. TypeInv /\ FlushInv /\ [Next]_vars => FlushInv'
  BY FlushStep
<1> QED  BY <1>1, <1>2, TypesKept, FlushInvHolds, PTL DEF Spec

\* Until the first crash, no lookup that starts after an abort returns an entry of the
\* aborted batch, if the flush worker popped none of the batch's memtables before it
\* ended: AbortBatch marks every memtable that holds one, and a file is only written
\* from a memtable once it is marked.
THEOREM AbortedStaysHidden == Spec => [](crashes = 0 => AbortHiddenUnlessSpilled)
<1>1. Spec => []AbortInv
  BY InitAbort, AbortStep, TypesKept, PTL DEF Spec
<1>2. AbortInv => (crashes = 0 => AbortHiddenUnlessSpilled)
  BY DEF AbortInv
<1> QED  BY <1>1, <1>2, PTL

\* Until the first StartBatch, whatever crashes and recoveries happen, even crashes in
\* the middle of RecoverFromWAL: a write whose record was logged while no flush was
\* pending, and that reached the memtable or whose record survived the crash, is in a
\* memtable, in a published table or still to be replayed, unless a newer one of its
\* key is.
THEOREM LoggedSurvives == Spec => [](batches = 0 => RetainedUnlessExposed)
<1>1. Spec => []CrashInv
  BY InitCrash, CrashStep, TypesKept, PTL DEF Spec
<1>2. TypeInv /\ CrashInv => (batches = 0 => RetainedUnlessExposed)
  BY CrashInvHolds
<1> QED  BY <1>1, <1>2, TypesKept, PTL
============================================================================
