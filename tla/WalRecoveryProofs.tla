------------------------- MODULE WalRecoveryProofs -------------------------
(***************************************************************************)
(* Proofs about the files of WalRecovery, for any gap and any bounds: what *)
(* a recovery makes of a file of any length that any sequence of batches,  *)
(* writes, flushes, crashes and restarts can leave.                        *)
(***************************************************************************)
EXTENDS WalRecovery, WalFormatProofs

\* The records the actions append are records.
LEMMA RecordTypes ==
    /\ \A ts \in Nat, b \in BOOLEAN : Put(ts, b) \in WalRecord
    /\ \A ts \in Nat : {Sentinel("begin", ts), Sentinel("commit", ts), Sentinel("abort", ts)}
                         \subseteq WalRecord
    /\ \A ts, b \in Nat : Ckpt(ts, b) \in WalRecord
    /\ Torn \in WalRecord
  BY DEF WalRecord, Put, Sentinel, Ckpt, Torn

\* What a record of each kind carries.
LEMMA RecordFields ==
    ASSUME NEW r \in WalRecord
    PROVE  /\ r.kind \in {"put", "begin", "commit", "abort", "ckpt", "torn"}
           /\ r.kind # "torn" => r.ts \in Nat
           /\ r.kind = "put" => r.bat \in BOOLEAN
           /\ r.kind \in {"begin", "commit", "abort"} => r = Sentinel(r.kind, r.ts)
           /\ r.kind = "torn" <=> r = Torn
  BY DEF WalRecord, Sentinel, Torn

-----------------------------------------------------------------------------
(* Type correctness.  The clock a restart finds is the largest of a set of *)
(* timestamps, and exists because the timestamps in the file have a bound. *)

BoundedBy(L, n) ==
    \A i \in DOMAIN L : L[i].kind \in {"put", "ckpt"} => L[i].ts \in 0..n

Bounded(L) == \E n \in Nat : BoundedBy(L, n)

LEMMA BoundedAppend ==
    ASSUME NEW L \in Seq(WalRecord), NEW r \in WalRecord, Bounded(L)
    PROVE  Bounded(Append(L, r))
<1>1. PICK n \in Nat : BoundedBy(L, n)
  BY DEF Bounded
<1> DEFINE t == IF r.kind # "torn" THEN r.ts ELSE 0
<1>2. t \in Nat
  BY RecordFields
<1>3. n + t \in Nat
  BY <1>2
<1>4. ASSUME NEW i \in DOMAIN Append(L, r), Append(L, r)[i].kind \in {"put", "ckpt"}
      PROVE  Append(L, r)[i].ts \in 0..(n + t)
  <2>1. CASE i = Len(L) + 1
    <3>1. Append(L, r)[i] = r
      BY <2>1, AppendFacts
    <3>2. t = r.ts
      BY <1>4, <3>1
    <3> QED  BY <1>2, <3>1, <3>2
  <2>2. CASE i \in 1..Len(L)
    <3>1. Append(L, r)[i] = L[i] /\ i \in DOMAIN L
      BY <2>2, AppendFacts
    <3>2. L[i].ts \in 0..n
      BY <1>1, <1>4, <3>1 DEF BoundedBy
    <3> QED  BY <1>2, <3>1, <3>2
  <2> QED  BY <2>1, <2>2, AppendFacts
<1> QED  BY <1>3, <1>4 DEF Bounded, BoundedBy

\* An appended record leaves the flushed entries entries.
LEMMA EntriesAppend ==
    ASSUME NEW L \in Seq(WalRecord), NEW r \in WalRecord
    PROVE  Entries(L) \subseteq Entries(Append(L, r))
  BY AppendFacts DEF Entries

\* What is replayed is an entry.
LEMMA ReplayedEntries ==
    ASSUME NEW L \in Seq(WalRecord)
    PROVE  Replayed(L) \subseteq Entries(L)
  BY ScannedFacts DEF Replayed, Entries

TypeInv == TypeOK /\ Bounded(file)

LEMMA TypeStep == TypeInv /\ [Next]_vars => TypeInv'
<1> SUFFICES ASSUME TypeInv, [Next]_vars PROVE TypeInv'
  OBVIOUS
<1> USE RecoveryAssumption
<1>0. /\ file \in Seq(WalRecord)
      /\ global_ts \in Nat /\ batch_ts \in Nat /\ batches \in Nat /\ ckpts \in Nat
      /\ restarts \in Nat
      /\ touched \in BOOLEAN /\ flushed \subseteq Entries(file) /\ Bounded(file)
  BY DEF TypeInv, TypeOK
<1>a. ASSUME NEW r \in WalRecord, file' = Append(file, r)
      PROVE  file' \in Seq(WalRecord) /\ Bounded(file') /\ Entries(file) \subseteq Entries(file')
  BY <1>0, <1>a, AppendFacts, BoundedAppend, EntriesAppend
<1>1. CASE Insert
  <2>0. global_ts + 1 \in Nat
    BY <1>0
  <2>1. Put(global_ts + 1, FALSE) \in WalRecord
    BY <2>0, RecordTypes
  <2>2. file' = Append(file, Put(global_ts + 1, FALSE))
    BY <1>1 DEF Insert
  <2>3. file' \in Seq(WalRecord) /\ Bounded(file') /\ Entries(file) \subseteq Entries(file')
    BY <1>a, <2>1, <2>2
  <2> QED  BY <1>0, <1>1, <2>0, <2>3 DEF TypeInv, TypeOK, Insert
<1>2. CASE StartBatch
  <2>0. global_ts + Gap \in Nat
    BY <1>0
  <2>1. Sentinel("begin", global_ts + Gap) \in WalRecord
    BY <2>0, RecordTypes
  <2>2. file' = Append(file, Sentinel("begin", global_ts + Gap))
    BY <1>2 DEF StartBatch
  <2>3. file' \in Seq(WalRecord) /\ Bounded(file') /\ Entries(file) \subseteq Entries(file')
    BY <1>a, <2>1, <2>2
  <2>4. batch_ts' \in Nat /\ batches' \in Nat
    BY <1>0, <1>2, <2>0 DEF StartBatch
  <2> QED  BY <1>0, <1>2, <2>3, <2>4 DEF TypeInv, TypeOK, StartBatch
<1>3. CASE BatchInsert
  <2>1. Put(batch_ts, TRUE) \in WalRecord
    BY <1>0, RecordTypes
  <2> QED  BY <1>0, <1>3, <1>a, <2>1 DEF TypeInv, TypeOK, BatchInsert
<1>4. CASE CommitBatch
  <2>1. Sentinel("commit", batch_ts) \in WalRecord
    BY <1>0, RecordTypes
  <2> QED  BY <1>0, <1>4, <1>a, <2>1 DEF TypeInv, TypeOK, CommitBatch
<1>5. CASE AbortBatch
  <2>1. Sentinel("abort", batch_ts) \in WalRecord
    BY <1>0, RecordTypes
  <2>2. CASE touched
    BY <1>0, <1>5, <1>a, <2>1, <2>2 DEF TypeInv, TypeOK, AbortBatch
  <2>3. CASE ~touched
    BY <1>0, <1>5, <2>3 DEF TypeInv, TypeOK, AbortBatch
  <2> QED  BY <2>2, <2>3
<1>6. CASE Checkpoint
  <2>1. Ckpt(global_ts, batch_ts) \in WalRecord
    BY <1>0, RecordTypes
  <2> QED  BY <1>0, <1>6, <1>a, <2>1 DEF TypeInv, TypeOK, Checkpoint
<1>7. CASE Restart
  <2>1. PICK torn \in {FALSE, TornTail} :
          LET L == IF torn THEN Append(file, Torn) ELSE file
          IN  /\ global_ts' = RecoveredClock(L)
              /\ file' = IF Replayed(L) = {} THEN L ELSE Append(L, Ckpt(global_ts', 0))
              /\ flushed' = flushed \cup Replayed(L)
    BY <1>7 DEF Restart
  <2> DEFINE L == IF torn THEN Append(file, Torn) ELSE file
  <2>2. L \in Seq(WalRecord) /\ Bounded(L) /\ Entries(file) \subseteq Entries(L)
    BY <1>0, RecordTypes, AppendFacts, BoundedAppend, EntriesAppend
  <2>3. global_ts' = RecoveredClock(L) /\ flushed' = flushed \cup Replayed(L)
    BY <2>1
  <2>4. file' = IF Replayed(L) = {} THEN L ELSE Append(L, Ckpt(global_ts', 0))
    BY <2>1
  <2> HIDE DEF L
  <2>5. global_ts' \in Nat
    <3>1. PICK n \in Nat : BoundedBy(L, n)
      BY <2>2 DEF Bounded
    <3>2. RecoveredClock(L) \in 0..n
      BY <2>2, <3>1, RecoveredClockNat DEF BoundedBy
    <3> QED  BY <2>3, <3>2
  <2>6. Ckpt(global_ts', 0) \in WalRecord
    BY <2>5, RecordTypes
  <2>7. file' \in Seq(WalRecord) /\ Bounded(file') /\ Entries(L) \subseteq Entries(file')
    BY <2>2, <2>4, <2>6, AppendFacts, BoundedAppend, EntriesAppend
  <2>8. flushed' \subseteq Entries(file')
    BY <1>0, <2>2, <2>3, <2>7, ReplayedEntries
  <2> QED  BY <1>0, <1>7, <2>5, <2>7, <2>8 DEF TypeInv, TypeOK, Restart
<1>8. CASE UNCHANGED vars
  BY <1>0, <1>8 DEF TypeInv, TypeOK, vars
<1> QED  BY <1>1, <1>2, <1>3, <1>4, <1>5, <1>6, <1>7, <1>8 DEF Next

LEMMA TypeInvariant == Spec => []TypeInv
<1>1. Init => TypeInv
  <2>1. SUFFICES ASSUME Init PROVE TypeInv
    OBVIOUS
  <2>2. DOMAIN file = {} /\ file \in Seq(WalRecord)
    BY <2>1 DEF Init
  <2>3. Bounded(file)
    BY <2>2 DEF Bounded, BoundedBy
  <2>4. global_ts = 0 /\ batch_ts = 0 /\ batches = 0 /\ ckpts = 0 /\ restarts = 0
    BY <2>1 DEF Init
  <2>5. touched \in BOOLEAN /\ flushed \subseteq Entries(file)
    BY <2>1, Zenon DEF Init
  <2> QED  BY <2>2, <2>3, <2>4, <2>5 DEF TypeInv, TypeOK
<1> QED  BY <1>1, TypeStep, PTL DEF Spec

\* The file holds nothing but the records WAL::Recover knows, a restart finds its clock
\* in it, and only entries of the file count as flushed.
THEOREM TypeCorrect == Spec => []TypeOK
<1>1. TypeInv => TypeOK
  BY DEF TypeInv
<1> QED  BY <1>1, TypeInvariant, PTL

-----------------------------------------------------------------------------
(* Batches.  An entry of a batch lies behind the begin record of its       *)
(* batch, which no record up to the entry ends; a record that ends a batch *)
(* likewise.                                                               *)

\* Record r ends batch t.
Ends(r, t) == r.kind \in {"commit", "abort"} /\ r.ts = t

\* Record k begins batch t, and no record from k to n ends it.
Undecided(L, k, t, n) ==
    /\ k \in DOMAIN L /\ n <= Len(L)
    /\ L[k].kind = "begin" /\ L[k].ts = t
    /\ \A l \in k..n : ~Ends(L[l], t)

WellBatched(L) ==
    /\ \A i \in DOMAIN L : L[i].kind = "put" /\ L[i].bat =>
         \E k \in 1..(i - 1) : Undecided(L, k, L[i].ts, i)
    /\ \A j \in DOMAIN L : L[j].kind \in {"commit", "abort"} =>
         \E k \in 1..(j - 1) : Undecided(L, k, L[j].ts, j - 1)

OpenBatch(L, b) == b # 0 => \E k \in DOMAIN L : Undecided(L, k, b, Len(L))

BatchInv == WellBatched(file) /\ OpenBatch(file, batch_ts)

LEMMA UndecidedAppend ==
    ASSUME NEW L \in Seq(WalRecord), NEW r \in WalRecord, NEW t \in Nat,
           NEW k \in Nat, NEW n \in Nat, Undecided(L, k, t, n)
    PROVE  Undecided(Append(L, r), k, t, n)
<1>1. k \in DOMAIN Append(L, r) /\ n <= Len(Append(L, r))
  BY AppendFacts DEF Undecided
<1>2. Append(L, r)[k] = L[k]
  BY AppendFacts DEF Undecided
<1>3. ASSUME NEW l \in k..n PROVE ~Ends(Append(L, r)[l], t)
  <2>1. l \in 1..Len(L)
    BY AppendFacts DEF Undecided
  <2>2. Append(L, r)[l] = L[l]
    BY <2>1, AppendFacts
  <2> QED  BY <2>2 DEF Undecided
<1> QED  BY <1>1, <1>2, <1>3 DEF Undecided

LEMMA UndecidedLonger ==
    ASSUME NEW L \in Seq(WalRecord), NEW r \in WalRecord, NEW t \in Nat,
           NEW k \in Nat, Undecided(L, k, t, Len(L)), ~Ends(r, t)
    PROVE  Undecided(Append(L, r), k, t, Len(L) + 1)
<1>1. Undecided(Append(L, r), k, t, Len(L))
  BY UndecidedAppend
<1>2. Append(L, r)[Len(L) + 1] = r /\ Len(L) \in Nat /\ Len(Append(L, r)) = Len(L) + 1
  BY AppendFacts
<1>3. ASSUME NEW l \in k..(Len(L) + 1) PROVE ~Ends(Append(L, r)[l], t)
  <2>1. l \in k..Len(L) \/ l = Len(L) + 1
    BY <1>2
  <2> QED  BY <1>1, <1>2, <2>1 DEF Undecided
<1> QED  BY <1>1, <1>2, <1>3 DEF Undecided

\* The writer appends an entry of a batch, and the end of a batch, only while that
\* batch is open.
LEMMA WellBatchedAppend ==
    ASSUME NEW L \in Seq(WalRecord), NEW r \in WalRecord, NEW b \in Nat,
           WellBatched(L), OpenBatch(L, b),
           \/ r.kind \notin {"put", "commit", "abort"}
           \/ r.kind = "put" /\ ~r.bat
           \/ b # 0 /\ r.ts = b
    PROVE  WellBatched(Append(L, r))
<1> DEFINE M == Append(L, r)
           n == Len(L)
<1>0. /\ M \in Seq(WalRecord) /\ n \in Nat /\ Len(M) = n + 1
      /\ DOMAIN L = 1..n /\ DOMAIN M = 1..(n + 1)
      /\ M[n + 1] = r /\ \A i \in 1..n : M[i] = L[i]
  BY AppendFacts
<1>1. ASSUME NEW i \in DOMAIN M, M[i].kind = "put", M[i].bat
      PROVE  \E k \in 1..(i - 1) : Undecided(M, k, M[i].ts, i)
  <2>1. CASE i \in 1..n
    <3>1. PICK k \in 1..(i - 1) : Undecided(L, k, L[i].ts, i)
      BY <1>0, <1>1, <2>1 DEF WellBatched
    <3>2. L[i].ts \in Nat
      BY <1>0, <1>1, <2>1, RecordFields
    <3>3. k \in Nat /\ i \in Nat
      BY <2>1
    <3>4. Undecided(M, k, L[i].ts, i)
      BY <3>1, <3>2, <3>3, UndecidedAppend
    <3> QED  BY <1>0, <2>1, <3>1, <3>4
  <2>2. CASE i = n + 1
    <3>1. M[i] = r /\ b # 0 /\ r.ts = b /\ r.kind = "put"
      BY <1>0, <1>1, <2>2
    <3>2. PICK k \in DOMAIN L : Undecided(L, k, b, Len(L))
      BY <3>1 DEF OpenBatch
    <3>3. ~Ends(r, b) /\ k \in Nat /\ k \in 1..(i - 1)
      BY <1>0, <2>2, <3>1, <3>2 DEF Ends
    <3>4. Undecided(M, k, b, n + 1)
      BY <3>2, <3>3, UndecidedLonger
    <3> QED  BY <2>2, <3>1, <3>3, <3>4
  <2> QED  BY <1>0, <2>1, <2>2
<1>2. ASSUME NEW j \in DOMAIN M, M[j].kind \in {"commit", "abort"}
      PROVE  \E k \in 1..(j - 1) : Undecided(M, k, M[j].ts, j - 1)
  <2>1. CASE j \in 1..n
    <3>1. PICK k \in 1..(j - 1) : Undecided(L, k, L[j].ts, j - 1)
      BY <1>0, <1>2, <2>1 DEF WellBatched
    <3>2. L[j].ts \in Nat
      BY <1>0, <1>2, <2>1, RecordFields
    <3>3. k \in Nat /\ j - 1 \in Nat
      BY <2>1
    <3>4. Undecided(M, k, L[j].ts, j - 1)
      BY <3>1, <3>2, <3>3, UndecidedAppend
    <3> QED  BY <1>0, <2>1, <3>1, <3>4
  <2>2. CASE j = n + 1
    <3>1. M[j] = r /\ b # 0 /\ r.ts = b /\ j - 1 = n
      BY <1>0, <1>2, <2>2
    <3>2. PICK k \in DOMAIN L : Undecided(L, k, b, Len(L))
      BY <3>1 DEF OpenBatch
    <3>3. k \in Nat /\ k \in 1..(j - 1)
      BY <1>0, <3>1, <3>2
    <3>4. Undecided(M, k, b, n)
      BY <1>0, <3>2, <3>3, UndecidedAppend
    <3> QED  BY <3>1, <3>3, <3>4
  <2> QED  BY <1>0, <2>1, <2>2
<1> QED  BY <1>1, <1>2 DEF WellBatched

LEMMA OpenAppend ==
    ASSUME NEW L \in Seq(WalRecord), NEW r \in WalRecord, NEW b \in Nat,
           OpenBatch(L, b), ~Ends(r, b)
    PROVE  OpenBatch(Append(L, r), b)
<1>1. SUFFICES ASSUME b # 0
               PROVE  \E k \in DOMAIN Append(L, r) : Undecided(Append(L, r), k, b, Len(Append(L, r)))
  BY DEF OpenBatch
<1>2. PICK k \in DOMAIN L : Undecided(L, k, b, Len(L))
  BY <1>1 DEF OpenBatch
<1>3. k \in Nat /\ k \in DOMAIN Append(L, r) /\ Len(Append(L, r)) = Len(L) + 1
  BY AppendFacts
<1>4. Undecided(Append(L, r), k, b, Len(L) + 1)
  BY <1>2, <1>3, UndecidedLonger
<1> QED  BY <1>3, <1>4

LEMMA OpenBegin ==
    ASSUME NEW L \in Seq(WalRecord), NEW b \in Nat
    PROVE  OpenBatch(Append(L, Sentinel("begin", b)), b)
<1> DEFINE r == Sentinel("begin", b)
           M == Append(L, r)
<1>1. r \in WalRecord /\ r.kind = "begin" /\ r.ts = b
  BY RecordTypes DEF Sentinel
<1>2. Len(M) \in DOMAIN M /\ M[Len(M)] = r /\ Len(M) \in Nat
  BY <1>1, AppendFacts
<1> HIDE DEF r, M
<1>3. \A l \in Len(M)..Len(M) : l = Len(M)
  BY <1>2
<1>4. ~Ends(r, b)
  BY <1>1 DEF Ends
<1>5. Undecided(M, Len(M), b, Len(M))
  BY <1>1, <1>2, <1>3, <1>4 DEF Undecided
<1>6. OpenBatch(M, b)
  BY <1>2, <1>5 DEF OpenBatch
<1> QED  BY <1>6 DEF M, r

LEMMA BatchStep == TypeInv /\ BatchInv /\ [Next]_vars => BatchInv'
<1> SUFFICES ASSUME TypeInv, BatchInv, [Next]_vars PROVE BatchInv'
  OBVIOUS
<1> USE RecoveryAssumption
<1>0. /\ file \in Seq(WalRecord) /\ global_ts \in Nat /\ batch_ts \in Nat
      /\ WellBatched(file) /\ OpenBatch(file, batch_ts)
  BY DEF TypeInv, TypeOK, BatchInv
<1>a. TypeInv'
  BY TypeStep
<1>b. \A L : OpenBatch(L, 0)
  BY DEF OpenBatch
<1>1. CASE Insert
  <2> DEFINE r == Put(global_ts + 1, FALSE)
  <2>1. global_ts + 1 \in Nat
    BY <1>0
  <2>2. r \in WalRecord /\ r.kind = "put" /\ ~r.bat
    BY <2>1, RecordTypes DEF Put
  <2>3. ~Ends(r, batch_ts)
    BY <2>2 DEF Ends
  <2>4. file' = Append(file, r) /\ batch_ts' = batch_ts
    BY <1>1 DEF Insert
  <2> HIDE DEF r
  <2> QED  BY <1>0, <2>2, <2>3, <2>4, WellBatchedAppend, OpenAppend DEF BatchInv
<1>2. CASE StartBatch
  <2> DEFINE r == Sentinel("begin", global_ts + Gap)
  <2>1. global_ts + Gap \in Nat
    BY <1>0
  <2>2. r \in WalRecord /\ r.kind = "begin"
    BY <2>1, RecordTypes DEF Sentinel
  <2>3. file' = Append(file, r) /\ batch_ts' = global_ts + Gap
    BY <1>2 DEF StartBatch
  <2>4. OpenBatch(file', batch_ts')
    BY <1>0, <2>1, <2>3, OpenBegin
  <2> HIDE DEF r
  <2> QED  BY <1>0, <2>2, <2>3, <2>4, WellBatchedAppend DEF BatchInv
<1>3. CASE BatchInsert
  <2> DEFINE r == Put(batch_ts, TRUE)
  <2>1. r \in WalRecord /\ r.kind = "put" /\ r.ts = batch_ts
    BY <1>0, RecordTypes DEF Put
  <2>2. ~Ends(r, batch_ts)
    BY <2>1 DEF Ends
  <2>3. file' = Append(file, r) /\ batch_ts' = batch_ts /\ batch_ts # 0
    BY <1>3 DEF BatchInsert
  <2> HIDE DEF r
  <2> QED  BY <1>0, <2>1, <2>2, <2>3, WellBatchedAppend, OpenAppend DEF BatchInv
<1>4. CASE CommitBatch
  <2> DEFINE r == Sentinel("commit", batch_ts)
  <2>1. r \in WalRecord /\ r.ts = batch_ts
    BY <1>0, RecordTypes DEF Sentinel
  <2>2. file' = Append(file, r) /\ batch_ts' = 0 /\ batch_ts # 0
    BY <1>4 DEF CommitBatch
  <2> HIDE DEF r
  <2> QED  BY <1>0, <1>b, <2>1, <2>2, WellBatchedAppend DEF BatchInv
<1>5. CASE AbortBatch
  <2> DEFINE r == Sentinel("abort", batch_ts)
  <2>1. r \in WalRecord /\ r.ts = batch_ts
    BY <1>0, RecordTypes DEF Sentinel
  <2>2. (file' = Append(file, r) \/ file' = file) /\ batch_ts' = 0 /\ batch_ts # 0
    BY <1>5 DEF AbortBatch
  <2> HIDE DEF r
  <2> QED  BY <1>0, <1>b, <2>1, <2>2, WellBatchedAppend DEF BatchInv
<1>6. CASE Checkpoint
  <2> DEFINE r == Ckpt(global_ts, batch_ts)
  <2>1. r \in WalRecord /\ r.kind = "ckpt"
    BY <1>0, RecordTypes DEF Ckpt
  <2>2. ~Ends(r, batch_ts)
    BY <2>1 DEF Ends
  <2>3. file' = Append(file, r) /\ batch_ts' = batch_ts
    BY <1>6 DEF Checkpoint
  <2> HIDE DEF r
  <2> QED  BY <1>0, <2>1, <2>2, <2>3, WellBatchedAppend, OpenAppend DEF BatchInv
<1>7. CASE Restart
  <2>1. PICK torn \in {FALSE, TornTail} :
          LET L == IF torn THEN Append(file, Torn) ELSE file
          IN  file' = IF Replayed(L) = {} THEN L ELSE Append(L, Ckpt(global_ts', 0))
    BY <1>7 DEF Restart
  <2> DEFINE L == IF torn THEN Append(file, Torn) ELSE file
             r == Ckpt(global_ts', 0)
  <2>2. Torn \in WalRecord /\ Torn.kind = "torn"
    BY RecordTypes DEF Torn
  <2>3. L \in Seq(WalRecord) /\ WellBatched(L)
    BY <1>0, <2>2, AppendFacts, WellBatchedAppend
  <2>4. file' = L \/ file' = Append(L, r)
    BY <2>1
  <2>5. global_ts' \in Nat
    BY <1>a DEF TypeInv, TypeOK
  <2>6. r \in WalRecord /\ r.kind = "ckpt"
    BY <2>5, RecordTypes DEF Ckpt
  <2> HIDE DEF L, r
  <2>7. WellBatched(file')
    BY <1>b, <2>3, <2>4, <2>6, WellBatchedAppend
  <2>8. batch_ts' = 0
    BY <1>7 DEF Restart
  <2> QED  BY <1>b, <2>7, <2>8 DEF BatchInv
<1>8. CASE UNCHANGED vars
  BY <1>8 DEF BatchInv, vars
<1> QED  BY <1>1, <1>2, <1>3, <1>4, <1>5, <1>6, <1>7, <1>8 DEF Next

LEMMA BatchInvariant == Spec => [](TypeInv /\ BatchInv)
<1>1. Init => BatchInv
  <2>1. SUFFICES ASSUME Init PROVE BatchInv
    OBVIOUS
  <2>2. DOMAIN file = {} /\ batch_ts = 0
    BY <2>1 DEF Init
  <2> QED  BY <2>2 DEF BatchInv, WellBatched, OpenBatch
<1> QED  BY <1>1, BatchStep, TypeInvariant, PTL DEF Spec

-----------------------------------------------------------------------------
(* No uncommitted batch becomes visible.  The begin record of a replayed   *)
(* entry is read by the second pass, because the first stops at it; so is  *)
(* everything up to the entry.                                             *)

\* A batch that has its timestamp for itself has one begin record.
LEMMA OneBegin ==
    ASSUME TypeOK, NEW b \in Nat, b \notin ReusedTs,
           NEW k \in DOMAIN file, file[k].kind = "begin", file[k].ts = b,
           NEW m \in DOMAIN file, file[m].kind = "begin", file[m].ts = b
    PROVE  k = m
<1>1. file \in Seq(WalRecord) /\ k \in 1..Len(file) /\ m \in 1..Len(file) /\ Len(file) \in Nat
  BY DEF TypeOK
<1>2. file[k] = file[m]
  <2>1. file[k] \in WalRecord /\ file[m] \in WalRecord
    BY <1>1
  <2> QED  BY <2>1, RecordFields
<1>3. ASSUME NEW x \in DOMAIN file, NEW y \in DOMAIN file, x < y,
             file[y].kind = "begin", file[y].ts = b, file[x] = file[y]
      PROVE  FALSE
  <2>1. x \in 1..(y - 1)
    BY <1>1, <1>3
  <2> QED  BY <1>3, <2>1 DEF ReusedTs
<1>4. ~(k < m) /\ ~(m < k)
  BY <1>2, <1>3
<1> QED  BY <1>1, <1>4

\* In such a batch every entry lies before the commit record.
LEMMA EntriesBeforeEnd ==
    ASSUME TypeOK, WellBatched(file),
           NEW i \in Entries(file), file[i].bat, file[i].ts \notin ReusedTs,
           NEW j \in DOMAIN file, Ends(file[j], file[i].ts)
    PROVE  i < j
<1> DEFINE b == file[i].ts
<1>1. /\ file \in Seq(WalRecord) /\ Len(file) \in Nat /\ DOMAIN file = 1..Len(file)
      /\ i \in DOMAIN file /\ file[i].kind = "put"
  BY DEF TypeOK, Entries
<1>2. b \in Nat
  BY <1>1, RecordFields
<1>3. PICK k \in 1..(i - 1) : Undecided(file, k, b, i)
  BY <1>1 DEF WellBatched
<1>4. PICK m \in 1..(j - 1) : Undecided(file, m, b, j - 1)
  BY DEF WellBatched, Ends
<1> HIDE DEF b
<1>5. k = m
  BY <1>2, <1>3, <1>4, OneBegin DEF Undecided, b
<1>6. SUFFICES ASSUME j <= i PROVE FALSE
  BY <1>1
<1>7. j \in k..i
  BY <1>1, <1>3, <1>4, <1>5, <1>6
<1>8. ~Ends(file[j], b)
  BY <1>3, <1>7 DEF Undecided
<1> QED  BY <1>8 DEF b

LEMMA LeakFree == TypeOK /\ WellBatched(file) => NoBatchLeak
<1> SUFFICES ASSUME TypeOK, WellBatched(file),
                    NEW i \in Replayed(file) \ CommittedEntries,
                    file[i].bat, file[i].ts \notin ReusedTs
             PROVE  file[i].ts \in AbortedBatches(file)
  BY DEF NoBatchLeak
<1> DEFINE b == file[i].ts
<1>1. /\ file \in Seq(WalRecord) /\ Len(file) \in Nat /\ DOMAIN file = 1..Len(file)
      /\ i \in Scanned(file) /\ i \in DOMAIN file /\ file[i].kind = "put"
  BY ScannedFacts DEF TypeOK, Replayed
<1>2. i \in Entries(file)
  BY <1>1 DEF Entries
<1>3. PICK k \in 1..(i - 1) : Undecided(file, k, b, i)
  BY <1>1 DEF WellBatched
<1>4. k \in DOMAIN file /\ k < i /\ file[k].kind = "begin" /\ file[k].ts = b
  BY <1>1, <1>3 DEF Undecided
<1>5. k \in Scanned(file)
  BY <1>1, <1>4, ScannedFacts
<1>6. b \in BatchOpened(file)
  BY <1>4, <1>5 DEF BatchOpened, Sentinels
<1>7. b \in BatchHasEntries(file)
  BY DEF BatchHasEntries
<1>8. SUFFICES ASSUME b \notin Sentinels(file, "abort"), b \in Sentinels(file, "commit")
               PROVE  FALSE
  BY <1>6, <1>7 DEF AbortedBatches, BatchClosed
<1>9. PICK j \in Scanned(file) : file[j].kind = "commit" /\ file[j].ts = b
  BY <1>8 DEF Sentinels
<1>10. j \in DOMAIN file /\ Ends(file[j], b)
  BY <1>1, <1>9, ScannedFacts DEF Ends
<1>11. i < j
  BY <1>2, <1>10, EntriesBeforeEnd
<1>12. file[j] = Sentinel("commit", b)
  BY <1>1, <1>9, <1>10, RecordFields
<1>13. ASSUME NEW l \in i..j PROVE file[l] # Sentinel("abort", b)
  <2>1. l \in Scanned(file)
    BY <1>1, <1>9, ScannedFacts
  <2> QED  BY <1>8, <2>1 DEF Sentinels, Sentinel
<1>14. i \in CommittedEntries
  BY <1>2, <1>10, <1>11, <1>12, <1>13 DEF CommittedEntries
<1> QED  BY <1>14

\* However writes, batches, checkpoints and crashes follow one another, an entry that
\* WAL::Recover returns of a batch whose commit record is not in the file, and whose
\* timestamp no other batch was given, is reported as aborted.
THEOREM UncommittedBatchesHidden == Spec => []NoBatchLeak
<1>1. TypeInv /\ BatchInv => NoBatchLeak
  BY LeakFree DEF TypeInv, BatchInv
<1> QED  BY <1>1, BatchInvariant, PTL

-----------------------------------------------------------------------------
(* Nothing is lost from a file that no record shadows: an entry before a   *)
(* checkpoint is in an SSTable, one behind the last is replayed.           *)

LEMMA UnshadowedReplay ==
    ASSUME TypeOK, ~Shadowed, NEW i \in DOMAIN file, file[i].kind \notin {"ckpt", "torn"}
    PROVE  i \in Scanned(file) <=> \A j \in i..Len(file) : file[j].kind # "ckpt"
<1>1. file \in Seq(WalRecord)
  BY DEF TypeOK
<1>2. \A k, j \in DOMAIN file :
        k < j => /\ file[k].kind # "torn"
                 /\ file[k].kind \in {"begin", "commit"} => file[j].kind # "ckpt"
  BY DEF Shadowed
<1> QED  BY <1>1, <1>2, UnshadowedScan

CkptInv ==
    ~Shadowed =>
        \A i \in Entries(file), j \in DOMAIN file :
            i < j /\ file[j].kind = "ckpt" => i \in flushed

LEMMA ShadowGrows ==
    ASSUME TypeOK, NEW r \in WalRecord, file' = Append(file, r), Shadowed
    PROVE  Shadowed'
<1>1. file \in Seq(WalRecord)
  BY DEF TypeOK
<1>2. PICK i, j \in DOMAIN file :
        /\ i < j
        /\ \/ file[i].kind = "torn"
           \/ file[i].kind \in {"begin", "commit"} /\ file[j].kind = "ckpt"
  BY DEF Shadowed
<1>3. i \in DOMAIN file' /\ j \in DOMAIN file' /\ file'[i] = file[i] /\ file'[j] = file[j]
  BY <1>1, AppendFacts
<1> QED  BY <1>2, <1>3 DEF Shadowed

\* A record other than a checkpoint puts no entry before one.
LEMMA CkptAppend ==
    ASSUME TypeOK, CkptInv, NEW r \in WalRecord, r.kind # "ckpt",
           file' = Append(file, r), flushed \subseteq flushed'
    PROVE  CkptInv'
<1>1. SUFFICES ASSUME ~Shadowed', NEW i \in Entries(file'), NEW j \in DOMAIN file',
                      i < j, file'[j].kind = "ckpt"
               PROVE  i \in flushed'
  BY DEF CkptInv
<1>2. ~Shadowed /\ file \in Seq(WalRecord)
  BY <1>1, ShadowGrows DEF TypeOK
<1>3. j # Len(file) + 1
  BY <1>1, <1>2, AppendFacts
<1>4. j \in 1..Len(file) /\ i \in 1..Len(file) /\ Len(file) \in Nat
  BY <1>1, <1>2, <1>3, AppendFacts DEF Entries
<1>5. j \in DOMAIN file /\ i \in DOMAIN file /\ file'[i] = file[i] /\ file'[j] = file[j]
  BY <1>2, <1>4, AppendFacts
<1>6. i \in Entries(file)
  BY <1>1, <1>5 DEF Entries
<1> QED  BY <1>1, <1>2, <1>5, <1>6 DEF CkptInv

LEMMA CkptStep == TypeInv /\ CkptInv /\ [Next]_vars => CkptInv'
<1> SUFFICES ASSUME TypeInv, CkptInv, [Next]_vars PROVE CkptInv'
  OBVIOUS
<1> USE RecoveryAssumption
<1>0. /\ TypeOK /\ file \in Seq(WalRecord) /\ global_ts \in Nat /\ batch_ts \in Nat
      /\ Len(file) \in Nat
  BY DEF TypeInv, TypeOK
<1>a. TypeInv'
  BY TypeStep
<1>b. ASSUME file' = file, flushed \subseteq flushed' PROVE CkptInv'
  BY <1>b DEF CkptInv, Shadowed
<1>1. CASE Insert
  <2>1. global_ts + 1 \in Nat
    BY <1>0
  <2>2. Put(global_ts + 1, FALSE) \in WalRecord /\ Put(global_ts + 1, FALSE).kind # "ckpt"
    BY <2>1, RecordTypes DEF Put
  <2>3. file' = Append(file, Put(global_ts + 1, FALSE)) /\ flushed' = flushed
    BY <1>1 DEF Insert
  <2> QED  BY <1>0, <2>2, <2>3, CkptAppend
<1>2. CASE StartBatch
  <2> DEFINE r == Sentinel("begin", global_ts + Gap)
  <2>1. global_ts + Gap \in Nat
    BY <1>0
  <2>2. r \in WalRecord /\ r.kind # "ckpt"
    BY <2>1, RecordTypes DEF Sentinel
  <2>3. file' = Append(file, r) /\ flushed' = flushed
    BY <1>2 DEF StartBatch
  <2> HIDE DEF r
  <2> QED  BY <1>0, <2>2, <2>3, CkptAppend
<1>3. CASE BatchInsert
  <2>1. Put(batch_ts, TRUE) \in WalRecord /\ Put(batch_ts, TRUE).kind # "ckpt"
    BY <1>0, RecordTypes DEF Put
  <2>2. file' = Append(file, Put(batch_ts, TRUE)) /\ flushed' = flushed
    BY <1>3 DEF BatchInsert
  <2> QED  BY <1>0, <2>1, <2>2, CkptAppend
<1>4. CASE CommitBatch
  <2>1. Sentinel("commit", batch_ts) \in WalRecord /\ Sentinel("commit", batch_ts).kind # "ckpt"
    BY <1>0, RecordTypes DEF Sentinel
  <2>2. file' = Append(file, Sentinel("commit", batch_ts)) /\ flushed' = flushed
    BY <1>4 DEF CommitBatch
  <2> QED  BY <1>0, <2>1, <2>2, CkptAppend
<1>5. CASE AbortBatch
  <2>1. Sentinel("abort", batch_ts) \in WalRecord /\ Sentinel("abort", batch_ts).kind # "ckpt"
    BY <1>0, RecordTypes DEF Sentinel
  <2>2. /\ file' = Append(file, Sentinel("abort", batch_ts)) \/ file' = file
        /\ flushed' = flushed
    BY <1>5 DEF AbortBatch
  <2> QED  BY <1>0, <1>b, <2>1, <2>2, CkptAppend
<1>6. CASE Checkpoint
  <2> DEFINE r == Ckpt(global_ts, batch_ts)
  <2>1. r \in WalRecord
    BY <1>0, RecordTypes
  <2>2. file' = Append(file, r) /\ flushed' = flushed \cup Entries(file)
    BY <1>6 DEF Checkpoint
  <2> HIDE DEF r
  <2>3. ASSUME NEW i \in Entries(file'), NEW j \in DOMAIN file', i < j PROVE i \in Entries(file)
    <3>1. i \in DOMAIN file' /\ file'[i].kind = "put"
      BY DEF Entries
    <3>2. i \in 1..Len(file)
      BY <1>0, <2>1, <2>2, <2>3, <3>1, AppendFacts
    <3>3. i \in DOMAIN file /\ file'[i] = file[i]
      BY <1>0, <2>1, <2>2, <3>2, AppendFacts
    <3> QED  BY <3>1, <3>3 DEF Entries
  <2> QED  BY <2>2, <2>3 DEF CkptInv
<1>7. CASE Restart
  <2>1. PICK torn \in {FALSE, TornTail} :
          LET L == IF torn THEN Append(file, Torn) ELSE file
          IN  /\ file' = IF Replayed(L) = {} THEN L ELSE Append(L, Ckpt(global_ts', 0))
              /\ flushed' = flushed \cup Replayed(L)
    BY <1>7 DEF Restart
  <2> DEFINE r == Ckpt(global_ts', 0)
             M == Append(file, Torn)
  <2>2. Torn \in WalRecord /\ Torn.kind = "torn"
    BY RecordTypes DEF Torn
  <2>3. r \in WalRecord
    <3>1. global_ts' \in Nat
      BY <1>a DEF TypeInv, TypeOK
    <3> QED  BY <3>1, RecordTypes
  <2>4. flushed \subseteq flushed'
    BY <2>1
  <2>5. \/ file' = M
        \/ file' = Append(M, r)
        \/ file' = file
        \/ file' = Append(file, r) /\ Replayed(file) \subseteq flushed'
    BY <2>1
  <2> HIDE DEF r
  <2>6. CASE file' = M
    BY <1>0, <2>2, <2>4, <2>6, CkptAppend
  \* The torn record shadows the checkpoint behind it.
  <2>7. CASE file' = Append(M, r)
    <3>1. /\ M \in Seq(WalRecord) /\ Len(M) = Len(file) + 1
          /\ M[Len(file) + 1] = Torn /\ DOMAIN M = 1..(Len(file) + 1)
      BY <1>0, <2>2, AppendFacts
    <3> HIDE DEF M
    <3>2. /\ Len(M) \in DOMAIN file' /\ Len(M) + 1 \in DOMAIN file' /\ Len(M) < Len(M) + 1
          /\ file'[Len(M)].kind = "torn"
      BY <1>0, <2>2, <2>3, <2>7, <3>1, AppendFacts
    <3>3. Shadowed'
      BY <3>2 DEF Shadowed
    <3> QED  BY <3>3 DEF CkptInv
  <2>8. CASE file' = file
    BY <1>b, <2>4, <2>8
  <2>9. CASE file' = Append(file, r) /\ Replayed(file) \subseteq flushed'
    <3>1. SUFFICES ASSUME ~Shadowed', NEW i \in Entries(file'), NEW j \in DOMAIN file', i < j
                   PROVE  i \in flushed'
      BY DEF CkptInv
    <3>2. ~Shadowed
      BY <1>0, <2>3, <2>9, <3>1, ShadowGrows
    <3>3. i \in DOMAIN file' /\ file'[i].kind = "put"
      BY DEF Entries
    <3>4. i \in 1..Len(file)
      BY <1>0, <2>3, <2>9, <3>1, <3>3, AppendFacts
    <3>5. i \in DOMAIN file /\ file[i].kind = "put"
      BY <1>0, <2>3, <2>9, <3>3, <3>4, AppendFacts
    <3>6. CASE \A l \in i..Len(file) : file[l].kind # "ckpt"
      <4>1. i \in Scanned(file)
        BY <1>0, <3>2, <3>5, <3>6, UnshadowedReplay
      <4> QED  BY <2>9, <3>5, <4>1 DEF Replayed
    <3>7. CASE \E l \in i..Len(file) : file[l].kind = "ckpt"
      <4>1. PICK l \in i..Len(file) : file[l].kind = "ckpt"
        BY <3>7
      <4>2. l \in DOMAIN file /\ i < l
        BY <1>0, <3>4, <3>5, <4>1
      <4>3. i \in Entries(file)
        BY <3>5 DEF Entries
      <4> QED  BY <2>4, <3>2, <4>1, <4>2, <4>3 DEF CkptInv
    <3> QED  BY <3>6, <3>7
  <2> QED  BY <2>5, <2>6, <2>7, <2>8, <2>9
<1>8. CASE UNCHANGED vars
  BY <1>8 DEF CkptInv, Shadowed, vars
<1> QED  BY <1>1, <1>2, <1>3, <1>4, <1>5, <1>6, <1>7, <1>8 DEF Next

\* No sequence of writes, batches, flushes, crashes and restarts drops an entry from a
\* file in which no begin or commit record lies before a checkpoint and no record
\* behind a torn one: it is in an SSTable or it is replayed.
THEOREM NothingDropped == Spec => []NothingLostUnlessShadowed
<1>1. Init => CkptInv
  <2>1. SUFFICES ASSUME Init PROVE CkptInv
    OBVIOUS
  <2>2. DOMAIN file = {}
    BY <2>1 DEF Init
  <2> QED  BY <2>2 DEF CkptInv
<1>2. TypeInv /\ CkptInv => NothingLostUnlessShadowed
  <2>0. CommittedEntries \subseteq Entries(file)
    BY DEF CommittedEntries
  <2>1. SUFFICES ASSUME TypeInv, CkptInv, ~Shadowed, NEW i \in Entries(file)
                 PROVE  i \in flushed \cup Replayed(file)
    BY <2>0 DEF NothingLostUnlessShadowed, NothingLost
  <2>2. /\ TypeOK /\ i \in DOMAIN file /\ file[i].kind = "put"
        /\ DOMAIN file = 1..Len(file) /\ Len(file) \in Nat
    BY <2>1 DEF TypeInv, TypeOK, Entries
  <2>3. CASE \A l \in i..Len(file) : file[l].kind # "ckpt"
    <3>1. i \in Scanned(file)
      BY <2>1, <2>2, <2>3, UnshadowedReplay
    <3> QED  BY <2>2, <3>1 DEF Replayed
  <2>4. CASE \E l \in i..Len(file) : file[l].kind = "ckpt"
    <3>1. PICK l \in i..Len(file) : file[l].kind = "ckpt"
      BY <2>4
    <3>2. l \in DOMAIN file /\ i < l
      BY <2>2, <3>1
    <3> QED  BY <2>1, <3>1, <3>2 DEF CkptInv
  <2> QED  BY <2>3, <2>4
<1> QED  BY <1>1, <1>2, CkptStep, TypeInvariant, PTL DEF Spec

-----------------------------------------------------------------------------
(* Recovery reads an unshadowed file exactly.                              *)

\* Every entry behind the last checkpoint is replayed and no other, and a batch among
\* them with its timestamp for itself counts as aborted exactly when its commit
\* record is not in the file.
THEOREM RecoveryExact == Spec => []RecoverExact
<1>1. TypeInv /\ BatchInv => RecoverExact
  <2>1. SUFFICES ASSUME TypeInv, BatchInv, ~Shadowed PROVE RecoverExact
    BY DEF RecoverExact
  <2>2. /\ TypeOK /\ file \in Seq(WalRecord) /\ WellBatched(file)
        /\ DOMAIN file = 1..Len(file) /\ Len(file) \in Nat
    BY <2>1 DEF TypeInv, TypeOK, BatchInv
  <2>3. Replayed(file) = IntendedEntries
    <3>1. ASSUME NEW i \in DOMAIN file, file[i].kind = "put"
          PROVE  i \in Scanned(file) <=> \A j \in i..Len(file) : file[j].kind # "ckpt"
      BY <2>1, <2>2, <3>1, UnshadowedReplay
    <3>2. Scanned(file) \subseteq DOMAIN file
      BY <2>2, ScannedFacts
    <3> QED  BY <3>1, <3>2 DEF Replayed, IntendedEntries, Entries
  <2>4. ASSUME NEW i \in IntendedEntries, file[i].bat, file[i].ts \notin ReusedTs,
               i \notin CommittedEntries
        PROVE  file[i].ts \in AbortedBatches(file)
    BY <2>2, <2>3, <2>4, LeakFree DEF NoBatchLeak
  <2>5. ASSUME NEW i \in IntendedEntries, file[i].bat, file[i].ts \notin ReusedTs,
               i \in CommittedEntries
        PROVE  file[i].ts \notin AbortedBatches(file)
    <3> DEFINE b == file[i].ts
    <3>1. /\ i \in Entries(file) /\ i \in DOMAIN file /\ file[i].kind = "put"
          /\ \A l \in i..Len(file) : file[l].kind # "ckpt"
      BY DEF IntendedEntries, Entries
    <3>2. PICK j \in DOMAIN file :
            /\ i < j
            /\ file[j] = Sentinel("commit", b)
            /\ \A k \in i..j : file[k] # Sentinel("abort", b)
      BY <2>5 DEF CommittedEntries
    <3>3. file[j].kind = "commit" /\ file[j].ts = b
      BY <3>2 DEF Sentinel
    <3>4. b \in Nat
      BY <2>2, <3>1, RecordFields
    \* The second pass reads the commit record.
    <3>5. j \in Scanned(file)
      <4>1. \A l \in j..Len(file) : file[l].kind # "ckpt"
        BY <2>2, <3>1, <3>2
      <4> QED  BY <2>1, <2>2, <3>3, <4>1, UnshadowedReplay
    <3>6. b \in BatchClosed(file)
      BY <3>3, <3>5 DEF BatchClosed, Sentinels
    \* The batch was not aborted: an abort record lies neither before the commit
    \* record nor behind it, where the batch has ended.
    <3>7. b \notin Sentinels(file, "abort")
      <4>1. SUFFICES ASSUME NEW l \in Scanned(file), file[l].kind = "abort", file[l].ts = b
                     PROVE  FALSE
        BY DEF Sentinels
      <4>2. l \in DOMAIN file /\ Ends(file[l], b) /\ file[l] = Sentinel("abort", b)
        BY <2>2, <4>1, ScannedFacts, RecordFields DEF Ends
      <4>3. i < l
        BY <2>2, <2>5, <3>1, <4>2, EntriesBeforeEnd
      <4>4. ~(l \in i..j)
        BY <3>2, <4>2
      <4>5. j < l
        BY <2>2, <3>1, <3>2, <4>2, <4>3, <4>4
      <4>6. PICK k \in 1..(i - 1) : Undecided(file, k, b, i)
        BY <2>2, <2>5, <3>1 DEF WellBatched
      <4>7. PICK m \in 1..(l - 1) : Undecided(file, m, b, l - 1)
        BY <2>2, <4>1, <4>2 DEF WellBatched
      <4> HIDE DEF b
      <4>8. k = m
        BY <2>2, <2>5, <3>4, <4>6, <4>7, OneBegin DEF Undecided, b
      <4>9. j \in m..(l - 1)
        BY <2>2, <3>1, <3>2, <4>2, <4>5, <4>6, <4>8
      <4> QED  BY <3>3, <4>7, <4>9 DEF Undecided, Ends
    <3> QED  BY <3>6, <3>7 DEF AbortedBatches
  <2> QED  BY <2>1, <2>3, <2>4, <2>5 DEF RecoverExact
<1> QED  BY <1>1, BatchInvariant, PTL
=============================================================================
