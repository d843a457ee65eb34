----------------------------- MODULE WalFormat -----------------------------
(***************************************************************************)
(* What WAL::Recover reads out of a WAL file L, a sequence of records:     *)
(*   put     an entry of a normal write or of a batch, with timestamp ts,  *)
(*   begin, commit, abort   of the batch with timestamp ts,                *)
(*   ckpt    a checkpoint: the clock ts, and the open batch's or 0,        *)
(*   torn    the broken bytes a crash left at the end of the file.         *)
(* Bytes after a torn record are garbage to the reader: its checks fail    *)
(* there, and it stops.                                                    *)
(***************************************************************************)
EXTENDS Integers, Sequences

\* The first record after position n whose kind is in K, or the end.
FirstAfter(L, n, K) ==
    LET S == {i \in (n + 1)..Len(L) : L[i].kind \in K}
    IN  IF S = {} THEN Len(L) + 1 ELSE CHOOSE i \in S : \A j \in S : i <= j

\* The first pass looks for the last checkpoint.  It knows checkpoints, aborts and
\* entries; the sentinel of a begin or a commit it takes for a key length, larger
\* than the file, and stops.
Pass1End(L) == FirstAfter(L, 0, {"begin", "commit", "torn"})

LastCheckpoint(L) ==
    LET S == {i \in 1..(Pass1End(L) - 1) : L[i].kind = "ckpt"}
    IN  IF S = {} THEN 0 ELSE CHOOSE i \in S : \A j \in S : j <= i

CheckpointTs(L) == IF LastCheckpoint(L) = 0 THEN 0 ELSE L[LastCheckpoint(L)].ts

CheckpointBatch(L) == IF LastCheckpoint(L) = 0 THEN 0 ELSE L[LastCheckpoint(L)].batch

\* The second pass replays from there.  At a checkpoint it skips the sentinel but
\* not the body, which fails the entry's check: it stops.
Pass2End(L) == FirstAfter(L, LastCheckpoint(L), {"ckpt", "torn"})

Scanned(L) == (LastCheckpoint(L) + 1)..(Pass2End(L) - 1)

\* The positions of the entries returned, in file order.
Replayed(L) == {i \in Scanned(L) : L[i].kind = "put"}

Sentinels(L, kind) == {L[i].ts : i \in {j \in Scanned(L) : L[j].kind = kind}}

BatchOpened(L) == Sentinels(L, "begin") \cup ({CheckpointBatch(L)} \ {0})

\* Mutant: a begin record closes the batch.
BatchClosedEarly(L) == Sentinels(L, "begin") \cup Sentinels(L, "commit") \cup Sentinels(L, "abort")

BatchClosed(L) == Sentinels(L, "commit") \cup Sentinels(L, "abort")

BatchHasEntries(L) == {L[i].ts : i \in Replayed(L)}

\* Mutant: an open batch is aborted whether or not it was committed.
AbortedBatchesOpen(L) == Sentinels(L, "abort") \cup (BatchOpened(L) \cap BatchHasEntries(L))

\* The batches reported as aborted: the explicit ones, and the open ones that have
\* entries.
AbortedBatches(L) ==
    Sentinels(L, "abort")
        \cup ((BatchOpened(L) \ BatchClosed(L)) \cap BatchHasEntries(L))

\* RecoverFromWAL: the clock restarts at the largest timestamp seen.
RecoveredClock(L) ==
    LET S == {CheckpointTs(L)} \cup BatchHasEntries(L)
    IN  CHOOSE t \in S : \A u \in S : u <= t
=============================================================================
