---------------------------- MODULE WalRecovery ----------------------------
(***************************************************************************)
(* The WAL files the engine writes: one writer, whose batches and normal   *)
(* writes interleave, checkpoints of a flush worker that has flushed every *)
(* entry logged before, crashes and restarts; and what WAL::Recover makes  *)
(* of each of them.  Every prefix of a reachable file is reachable, so a   *)
(* crash needs no truncation of its own.                                   *)
(***************************************************************************)
EXTENDS WalFormat

CONSTANTS
    Gap,          \* batch_increment_gap_
    MaxLog,       \* bound: records in the file
    MaxBatches,   \* bound: batches started
    MaxCkpts,     \* bound: checkpoints of the flush worker
    MaxRestarts,  \* bound: crashes
    TornTail      \* whether a crash may leave a torn record

ASSUME RecoveryAssumption ==
    /\ Gap \in Nat \ {0}
    /\ {MaxLog, MaxBatches, MaxCkpts, MaxRestarts} \subseteq Nat
    /\ TornTail \in BOOLEAN

-----------------------------------------------------------------------------
VARIABLES
    file,      \* the records, in file order
    global_ts,
    batch_ts,  \* the open batch, or 0
    touched,   \* it has an entry
    flushed,   \* positions of the entries that are in an SSTable
    batches, ckpts, restarts   \* how often (bounds)

vars == <<file, global_ts, batch_ts, touched, flushed, batches, ckpts, restarts>>

Put(ts, bat) == [kind |-> "put", ts |-> ts, bat |-> bat]
Sentinel(kind, ts) == [kind |-> kind, ts |-> ts]
Ckpt(ts, b) == [kind |-> "ckpt", ts |-> ts, batch |-> b]
Torn == [kind |-> "torn"]

WalRecord ==
    [kind : {"put"}, ts : Nat, bat : BOOLEAN]
        \cup [kind : {"begin", "commit", "abort"}, ts : Nat]
        \cup [kind : {"ckpt"}, ts : Nat, batch : Nat]
        \cup {Torn}

Entries(L) == {i \in DOMAIN L : L[i].kind = "put"}

Init ==
    /\ file = << >>
    /\ global_ts = 0
    /\ batch_ts = 0
    /\ touched = FALSE
    /\ flushed = {}
    /\ batches = 0 /\ ckpts = 0 /\ restarts = 0

Room == Len(file) < MaxLog

Insert ==
    /\ Room
    /\ batch_ts # 0 => global_ts + 1 <= batch_ts
    /\ global_ts' = global_ts + 1
    /\ file' = Append(file, Put(global_ts + 1, FALSE))
    /\ UNCHANGED <<batch_ts, touched, flushed, batches, ckpts, restarts>>

StartBatch ==
    /\ Room
    /\ batch_ts = 0
    /\ batches < MaxBatches
    /\ batches' = batches + 1
    /\ batch_ts' = global_ts + Gap
    /\ touched' = FALSE
    /\ file' = Append(file, Sentinel("begin", global_ts + Gap))
    /\ UNCHANGED <<global_ts, flushed, ckpts, restarts>>

BatchInsert ==
    /\ Room
    /\ batch_ts # 0
    /\ touched' = TRUE
    /\ file' = Append(file, Put(batch_ts, TRUE))
    /\ UNCHANGED <<global_ts, batch_ts, flushed, batches, ckpts, restarts>>

CommitBatch ==
    /\ Room
    /\ batch_ts # 0
    /\ file' = Append(file, Sentinel("commit", batch_ts))
    /\ global_ts' = batch_ts + 1
    /\ batch_ts' = 0
    /\ UNCHANGED <<touched, flushed, batches, ckpts, restarts>>

\* An abort leaves the clock alone; without entries it leaves no record either.
AbortBatch ==
    /\ batch_ts # 0
    /\ IF touched THEN /\ Room
                       /\ file' = Append(file, Sentinel("abort", batch_ts))
                  ELSE UNCHANGED file
    /\ batch_ts' = 0
    /\ UNCHANGED <<global_ts, touched, flushed, batches, ckpts, restarts>>

Checkpoint ==
    /\ Room
    /\ ckpts < MaxCkpts
    /\ ckpts' = ckpts + 1
    /\ file' = Append(file, Ckpt(global_ts, batch_ts))
    /\ flushed' = flushed \cup Entries(file)
    /\ UNCHANGED <<global_ts, batch_ts, touched, batches, restarts>>

\* Mutant: a checkpoint without the flush before it.
RestartUnflushed ==
    /\ restarts < MaxRestarts
    /\ restarts' = restarts + 1
    /\ \E torn \in {FALSE, TornTail} :
         LET L == IF torn THEN Append(file, Torn) ELSE file
         IN  /\ global_ts' = RecoveredClock(L)
             /\ file' = IF Replayed(L) = {} THEN L ELSE Append(L, Ckpt(global_ts', 0))
    /\ batch_ts' = 0
    /\ UNCHANGED <<touched, flushed, batches, ckpts>>

\* A crash and RecoverFromWAL: the file is reopened for appending at its end, torn
\* record or not; what was replayed is flushed and followed by a checkpoint.
Restart ==
    /\ restarts < MaxRestarts
    /\ restarts' = restarts + 1
    /\ \E torn \in {FALSE, TornTail} :
         LET L == IF torn THEN Append(file, Torn) ELSE file
         IN  /\ global_ts' = RecoveredClock(L)
             /\ file' = IF Replayed(L) = {} THEN L ELSE Append(L, Ckpt(global_ts', 0))
             /\ flushed' = flushed \cup Replayed(L)
    /\ batch_ts' = 0
    /\ UNCHANGED <<touched, batches, ckpts>>

Next ==
    \/ Insert \/ StartBatch \/ BatchInsert \/ CommitBatch \/ AbortBatch
    \/ Checkpoint \/ Restart

Spec == Init /\ [][Next]_vars

-----------------------------------------------------------------------------
(* Properties, of the file at every moment a crash may come.               *)

\* The records have the fields WAL::Recover reads, and only entries of the file count
\* as flushed.
TypeOK ==
    /\ file \in Seq(WalRecord)
    /\ {global_ts, batch_ts, batches, ckpts, restarts} \subseteq Nat
    /\ touched \in BOOLEAN
    /\ flushed \subseteq Entries(file)

\* The batch entries whose own batch, not an earlier one with the same timestamp,
\* has its commit record in the file.
CommittedEntries ==
    {i \in Entries(file) :
        /\ file[i].bat
        /\ \E j \in DOMAIN file :
             /\ i < j
             /\ file[j] = Sentinel("commit", file[i].ts)
             /\ \A k \in i..j : file[k] # Sentinel("abort", file[i].ts)}

\* The timestamps given to two batches.
ReusedTs ==
    {file[i].ts : i \in {j \in DOMAIN file :
        file[j].kind = "begin" /\ \E k \in 1..(j - 1) : file[k] = file[j]}}

\* A replayed entry of a batch whose commit record never reached the file is
\* always covered by the aborted set, wherever the two passes stop.
UncommittedHidden ==
    \A i \in Replayed(file) \ CommittedEntries :
        file[i].bat => file[i].ts \in AbortedBatches(file)

\* The same for every batch that has its timestamp for itself.
NoBatchLeak ==
    \A i \in Replayed(file) \ CommittedEntries :
        file[i].bat /\ file[i].ts \notin ReusedTs => file[i].ts \in AbortedBatches(file)

\* Every normal entry in the file, and every one of a committed batch, is in an
\* SSTable or is replayed: the two passes never drop what no flush has saved.
NothingLost ==
    {i \in Entries(file) : ~file[i].bat} \cup CommittedEntries \subseteq flushed \cup Replayed(file)

\* No entry of a batch whose commit record is in the file counts as aborted.
CommittedVisible ==
    \A i \in CommittedEntries : file[i].ts \notin AbortedBatches(file)

\* The reading the format intends: the entries after the last checkpoint of the
\* whole file.
IntendedEntries ==
    {i \in Entries(file) : \A j \in i..Len(file) : file[j].kind # "ckpt"}

\* A checkpoint behind a begin or a commit record, or anything behind a torn record:
\* there one of the two passes stops early.
Shadowed ==
    \E i, j \in DOMAIN file :
        /\ i < j
        /\ \/ file[i].kind = "torn"
           \/ file[i].kind \in {"begin", "commit"} /\ file[j].kind = "ckpt"

\* Elsewhere no sequence of flushes, crashes and restarts loses an entry.
NothingLostUnlessShadowed == ~Shadowed => NothingLost

\* Elsewhere the two passes return exactly the entries behind the last checkpoint, and
\* a batch among them that has its timestamp for itself counts as aborted exactly
\* when it was not committed.
RecoverExact ==
    ~Shadowed =>
        /\ Replayed(file) = IntendedEntries
        /\ \A i \in IntendedEntries :
             file[i].bat /\ file[i].ts \notin ReusedTs =>
               (file[i].ts \in AbortedBatches(file) <=> i \notin CommittedEntries)
=============================================================================
