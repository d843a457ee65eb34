-------------------------- MODULE WalFormatProofs --------------------------
(***************************************************************************)
(* Where the two passes of WAL::Recover stop and what they return, for a   *)
(* file of any length: the facts the proofs about recovery rest on.        *)
(***************************************************************************)
EXTENDS WalFormat, WellFoundedInduction, TLAPS

\* A file grows at its end.
LEMMA AppendFacts ==
    ASSUME NEW R, NEW L \in Seq(R), NEW r \in R
    PROVE  /\ Append(L, r) \in Seq(R)
           /\ Len(L) \in Nat /\ Len(Append(L, r)) = Len(L) + 1
           /\ DOMAIN L = 1..Len(L) /\ DOMAIN Append(L, r) = 1..(Len(L) + 1)
           /\ \A i \in 1..Len(L) : Append(L, r)[i] = L[i]
           /\ Append(L, r)[Len(L) + 1] = r
  OBVIOUS

\* The passes stop at the first record of some kind, and use the last checkpoint: the
\* CHOOSEs of WalFormat pick something, because a set of positions has both ends.
LEMMA NatHasMin ==
    ASSUME NEW S \in SUBSET Nat, S # {}
    PROVE  \E x \in S : \A y \in S : x <= y
<1> DEFINE R == OpToRel(<, Nat)
           Q == {ss \in Nat \X Nat : ss[1] < ss[2]}
<1>1. R = Q
  BY Zenon DEF OpToRel
<1>2. IsWellFoundedOn(R, Nat)
  BY NatLessThanWellFounded, Zenon
<1> HIDE DEF R
<1>3. IsWellFoundedOn(Q, Nat)
  BY <1>1, <1>2, Zenon
<1> HIDE DEF Q
<1>4. \E x \in S : \A y \in S : ~(<<y, x>> \in Q)
  BY <1>3, WFMin
<1>5. \A x, y \in Nat : ~(<<y, x>> \in Q) => x <= y
  BY DEF Q
<1> QED  BY <1>4, <1>5

\* The same upwards, for the last checkpoint and for the largest timestamp.
LEMMA BoundedHasMax ==
    ASSUME NEW S \in SUBSET Nat, NEW n \in Nat, S # {}, \A x \in S : x <= n
    PROVE  \E x \in S : \A y \in S : y <= x
<1> DEFINE T == {n - x : x \in S}
<1>1. T \in SUBSET Nat /\ T # {}
  <2>1. ASSUME NEW x \in S PROVE n - x \in Nat
    <3>1. x \in Nat /\ x <= n
      OBVIOUS
    <3> QED  BY <3>1
  <2>2. T \subseteq Nat
    BY <2>1
  <2>3. PICK x \in S : TRUE
    OBVIOUS
  <2>4. n - x \in T
    BY <2>3
  <2> QED  BY <2>2, <2>4
<1>2. PICK t \in T : \A u \in T : t <= u
  BY <1>1, NatHasMin
<1>3. PICK x \in S : t = n - x
  BY <1>2
<1>4. ASSUME NEW y \in S PROVE y <= x
  <2>1. n - y \in T
    OBVIOUS
  <2>2. n - x <= n - y
    BY <1>2, <1>3, <2>1
  <2> QED  BY <2>2
<1> QED  BY <1>4

-----------------------------------------------------------------------------
(* The passes.                                                             *)

\* A pass stops at the first record of the kinds that stop it, or behind the end.
LEMMA FirstAfterFacts ==
    ASSUME NEW R, NEW L \in Seq(R), NEW n \in 0..Len(L), NEW K
    PROVE  /\ FirstAfter(L, n, K) \in (n + 1)..(Len(L) + 1)
           /\ \A i \in (n + 1)..(FirstAfter(L, n, K) - 1) : L[i].kind \notin K
           /\ FirstAfter(L, n, K) <= Len(L) => L[FirstAfter(L, n, K)].kind \in K
<1> DEFINE S == {i \in (n + 1)..Len(L) : L[i].kind \in K}
           p == FirstAfter(L, n, K)
<1>0. Len(L) \in Nat
  OBVIOUS
<1>1. CASE S = {}
  <2>1. p = Len(L) + 1
    BY <1>1 DEF FirstAfter
  <2> QED  BY <1>0, <1>1, <2>1
<1>2. CASE S # {}
  <2>1. S \in SUBSET Nat
    BY <1>0
  <2>2. \E i \in S : \A j \in S : i <= j
    BY <1>2, <2>1, NatHasMin
  <2>3. p = CHOOSE i \in S : \A j \in S : i <= j
    BY <1>2 DEF FirstAfter
  <2>4. p \in S /\ \A j \in S : p <= j
    BY <2>2, <2>3
  <2>5. ASSUME NEW i \in (n + 1)..(p - 1) PROVE L[i].kind \notin K
    <3>1. i \in (n + 1)..Len(L) /\ ~(p <= i)
      BY <1>0, <2>4
    <3> QED  BY <2>4, <3>1
  <2> QED  BY <1>0, <2>4, <2>5
<1> QED  BY <1>1, <1>2

\* The first pass never reads past a begin or a commit record.
LEMMA Pass1EndFacts ==
    ASSUME NEW R, NEW L \in Seq(R)
    PROVE  /\ Pass1End(L) \in 1..(Len(L) + 1)
           /\ \A i \in 1..(Pass1End(L) - 1) : L[i].kind \notin {"begin", "commit", "torn"}
           /\ Pass1End(L) <= Len(L) => L[Pass1End(L)].kind \in {"begin", "commit", "torn"}
<1>1. Len(L) \in Nat /\ 0 \in 0..Len(L)
  OBVIOUS
<1>2. 0 + 1 = 1
  OBVIOUS
<1> QED  BY <1>1, <1>2, FirstAfterFacts DEF Pass1End

\* The checkpoint that recovery starts from is the last one the first pass reads.
LEMMA LastCheckpointFacts ==
    ASSUME NEW R, NEW L \in Seq(R)
    PROVE  /\ LastCheckpoint(L) \in 0..Len(L)
           /\ LastCheckpoint(L) < Pass1End(L)
           /\ LastCheckpoint(L) # 0 => L[LastCheckpoint(L)].kind = "ckpt"
           /\ \A i \in (LastCheckpoint(L) + 1)..(Pass1End(L) - 1) : L[i].kind # "ckpt"
<1> DEFINE S == {i \in 1..(Pass1End(L) - 1) : L[i].kind = "ckpt"}
           c == LastCheckpoint(L)
<1>1. Len(L) \in Nat /\ Pass1End(L) \in 1..(Len(L) + 1)
  BY Pass1EndFacts
<1>2. CASE S = {}
  <2>1. c = 0
    BY <1>2 DEF LastCheckpoint
  <2> QED  BY <1>1, <1>2, <2>1
<1>3. CASE S # {}
  <2>1. S \in SUBSET Nat /\ Len(L) \in Nat /\ \A x \in S : x <= Len(L)
    BY <1>1
  <2>2. \E i \in S : \A j \in S : j <= i
    BY <1>3, <2>1, BoundedHasMax
  <2>3. c = CHOOSE i \in S : \A j \in S : j <= i
    BY <1>3 DEF LastCheckpoint
  <2>4. c \in S /\ \A j \in S : j <= c
    BY <2>2, <2>3
  <2>5. ASSUME NEW i \in (c + 1)..(Pass1End(L) - 1) PROVE L[i].kind # "ckpt"
    <3>1. i \in 1..(Pass1End(L) - 1) /\ ~(i <= c)
      BY <1>1, <2>4
    <3> QED  BY <2>4, <3>1
  <2> QED  BY <1>1, <2>4, <2>5
<1> QED  BY <1>2, <1>3

\* The second pass reads a stretch of the file without checkpoints and torn records,
\* and no begin or commit record lies before it.
LEMMA ScannedFacts ==
    ASSUME NEW R, NEW L \in Seq(R)
    PROVE  /\ Scanned(L) \subseteq DOMAIN L
           /\ \A i \in Scanned(L) : L[i].kind \notin {"ckpt", "torn"}
           /\ \A i \in Scanned(L), k \in DOMAIN L :
                k < i /\ L[k].kind \in {"begin", "commit"} => k \in Scanned(L)
           /\ \A i, j \in Scanned(L) : \A k \in i..j : k \in Scanned(L)
<1> DEFINE c == LastCheckpoint(L)
           p == Pass2End(L)
<1>1. Len(L) \in Nat /\ DOMAIN L = 1..Len(L)
  OBVIOUS
<1>2. c \in 0..Len(L) /\ c < Pass1End(L) /\ Pass1End(L) \in 1..(Len(L) + 1)
  BY LastCheckpointFacts, Pass1EndFacts
<1>3. /\ p \in (c + 1)..(Len(L) + 1)
      /\ \A i \in (c + 1)..(p - 1) : L[i].kind \notin {"ckpt", "torn"}
  BY <1>2, FirstAfterFacts DEF Pass2End
<1>4. Scanned(L) = (c + 1)..(p - 1)
  BY DEF Scanned
<1> HIDE DEF c, p
<1>5. ASSUME NEW i \in Scanned(L), NEW k \in DOMAIN L,
             k < i, L[k].kind \in {"begin", "commit"}
      PROVE  k \in Scanned(L)
  <2>1. ~(k \in 1..(Pass1End(L) - 1))
    BY <1>5, Pass1EndFacts
  <2>2. c < k
    BY <1>1, <1>2, <2>1
  <2> QED  BY <1>1, <1>2, <1>3, <1>4, <1>5, <2>2
<1>6. Scanned(L) \subseteq DOMAIN L
  BY <1>1, <1>2, <1>3, <1>4
<1>7. \A i, j \in Scanned(L) : \A k \in i..j : k \in Scanned(L)
  BY <1>2, <1>3, <1>4
<1> QED  BY <1>3, <1>4, <1>5, <1>6, <1>7

\* The clock a recovery starts from is one of the timestamps in the file.
LEMMA CheckpointTsNat ==
    ASSUME NEW R, NEW L \in Seq(R), \A i \in DOMAIN L : L[i].kind = "ckpt" => L[i].ts \in Nat
    PROVE  CheckpointTs(L) \in Nat
<1>1. LastCheckpoint(L) # 0 =>
        LastCheckpoint(L) \in DOMAIN L /\ L[LastCheckpoint(L)].kind = "ckpt"
  BY LastCheckpointFacts
<1> QED  BY <1>1 DEF CheckpointTs

LEMMA RecoveredClockNat ==
    ASSUME NEW R, NEW L \in Seq(R), NEW n \in Nat,
           \A i \in DOMAIN L : L[i].kind \in {"put", "ckpt"} => L[i].ts \in 0..n
    PROVE  RecoveredClock(L) \in 0..n
<1> DEFINE S == {CheckpointTs(L)} \cup BatchHasEntries(L)
<1>1. LastCheckpoint(L) # 0 =>
        LastCheckpoint(L) \in DOMAIN L /\ L[LastCheckpoint(L)].kind = "ckpt"
  BY LastCheckpointFacts
<1>2. CheckpointTs(L) \in 0..n
  BY <1>1 DEF CheckpointTs
<1>3. ASSUME NEW i \in Replayed(L) PROVE L[i].ts \in 0..n
  BY ScannedFacts DEF Replayed
<1>4. BatchHasEntries(L) \subseteq 0..n
  BY <1>3 DEF BatchHasEntries
<1>5. S \in SUBSET Nat /\ S # {} /\ \A x \in S : x <= n
  BY <1>2, <1>4
<1>6. \E t \in S : \A u \in S : u <= t
  BY <1>5, BoundedHasMax
<1>7. RecoveredClock(L) \in S
  BY <1>6 DEF RecoveredClock
<1> QED  BY <1>2, <1>4, <1>7

\* A file in which no begin or commit record lies before a checkpoint, and nothing
\* behind a torn record, is read as the format intends: the second pass returns
\* what lies behind the last checkpoint of the whole file.
LEMMA UnshadowedScan ==
    ASSUME NEW R, NEW L \in Seq(R),
           \A i, j \in DOMAIN L :
              i < j => /\ L[i].kind # "torn"
                       /\ L[i].kind \in {"begin", "commit"} => L[j].kind # "ckpt",
           NEW i \in DOMAIN L, L[i].kind \notin {"ckpt", "torn"}
    PROVE  i \in Scanned(L) <=> \A j \in i..Len(L) : L[j].kind # "ckpt"
<1> DEFINE c == LastCheckpoint(L)
           e == Pass1End(L)
           p == Pass2End(L)
<1>1. Len(L) \in Nat /\ DOMAIN L = 1..Len(L) /\ i \in 1..Len(L)
  OBVIOUS
<1>2. /\ e \in 1..(Len(L) + 1)
      /\ e <= Len(L) => L[e].kind \in {"begin", "commit", "torn"}
  BY Pass1EndFacts
<1>3. /\ c \in 0..Len(L) /\ c < e
      /\ c # 0 => L[c].kind = "ckpt"
      /\ \A j \in (c + 1)..(e - 1) : L[j].kind # "ckpt"
  BY LastCheckpointFacts
<1>4. /\ p \in (c + 1)..(Len(L) + 1)
      /\ p <= Len(L) => L[p].kind \in {"ckpt", "torn"}
  BY <1>3, FirstAfterFacts DEF Pass2End
<1>5. i \in Scanned(L) <=> c < i /\ i < p
  BY <1>1, <1>3, <1>4 DEF Scanned
<1> HIDE DEF c, e, p
\* No checkpoint lies behind the one the first pass found.
<1>6. ASSUME NEW j \in DOMAIN L, c < j PROVE L[j].kind # "ckpt"
  <2>1. CASE j < e
    BY <1>1, <1>2, <1>3, <1>6, <2>1
  <2>2. CASE e <= j
    <3>1. e \in DOMAIN L /\ L[e].kind \in {"begin", "commit", "torn"}
      BY <1>1, <1>2, <2>2
    <3>2. CASE e = j
      BY <3>1, <3>2
    <3>3. CASE e < j
      BY <3>1, <3>3
    <3> QED  BY <1>1, <1>2, <2>2, <3>2, <3>3
  <2> QED  BY <1>1, <1>2, <2>1, <2>2
<1>7. ASSUME c < i, i < p PROVE \A j \in i..Len(L) : L[j].kind # "ckpt"
  BY <1>1, <1>3, <1>6, <1>7
<1>8. ASSUME \A j \in i..Len(L) : L[j].kind # "ckpt" PROVE c < i
  BY <1>1, <1>3, <1>8
<1>9. ASSUME c < i PROVE i < p
  <2>1. SUFFICES ASSUME p <= i PROVE FALSE
    BY <1>1, <1>4
  <2>2. p \in DOMAIN L /\ c < p /\ L[p].kind \in {"ckpt", "torn"}
    BY <1>1, <1>3, <1>4, <2>1
  <2>3. L[p].kind = "torn"
    BY <1>6, <2>2
  <2>4. p # i
    BY <2>3
  <2>5. p < i
    BY <1>1, <1>4, <2>1, <2>4
  <2> QED  BY <2>2, <2>3, <2>5
<1> QED  BY <1>5, <1>7, <1>8, <1>9
=============================================================================
