-------------------------- MODULE RotatingLogProofs --------------------------
(***************************************************************************)
(* Proofs about RotatingLog for any number of archives, limits and lengths.*)
(* A step rearranges the files: it drops, empties and moves some of them   *)
(* up, and keeps their order; or it puts a write, which is the newest of   *)
(* all, at the end of app.log.                                             *)
(***************************************************************************)
EXTENDS RotatingLog, SequenceTheorems, TLAPS

Disks == [Files -> Seq(1..MaxWrites) \cup {Missing}]

(* What InOrder says, for any disk.                                         *)
Ordered(D) ==
  \A i, j \in Files : D[i] # Missing /\ D[j] # Missing =>
    \A x \in DOMAIN D[i], y \in DOMAIN D[j] :
      /\ j < i => D[i][x] < D[j][y]
      /\ i = j /\ x < y => D[i][x] <= D[j][y]

(* Every byte belongs to a write before m.                                  *)
Below(D, m) == \A i \in Files : D[i] # Missing => \A x \in DOMAIN D[i] : D[i][x] < m

(* app.log has no byte of a write before m.                                 *)
From(D, m) == D[0] # Missing => \A x \in DOMAIN D[0] : D[0][x] >= m

Orderly(D) == D \in Disks /\ Ordered(D) /\ Below(D, next)

LogInv == TypeOK /\ Orderly(disk) /\ From(disk, since)

LEMMA FileIsNotMissing ==
  ASSUME NEW s \in Seq(1..MaxWrites)
  PROVE  s # Missing
<1>1. MaxWrites \in Nat
  BY LogAssumption
<1>2. s \in Seq(Nat)
  BY <1>1
<1>. QED BY <1>2, LogAssumption

LEMMA ByteOfFile ==
  ASSUME NEW s \in Seq(1..MaxWrites), NEW x \in DOMAIN s
  PROVE  s[x] \in 1..MaxWrites
<1>1. x \in 1..Len(s)
  OBVIOUS
<1>. QED BY <1>1, ElementOfSeq

(* Every file of E is absent, empty or the file g[i] of D.                  *)
Rearranged(D, E, g) ==
  /\ E \in Disks /\ g \in [Files -> Files]
  /\ \A i \in Files : E[i] = Missing \/ E[i] = <<>> \/ E[i] = D[g[i]]
  /\ \A i, j \in Files : j < i /\ E[i] # Missing /\ E[j] # Missing => g[j] < g[i]

LEMMA RearrangedOrderly ==
  ASSUME NEW D, NEW E, NEW g, Orderly(D), Rearranged(D, E, g)
  PROVE  Orderly(E)
<1>1. E \in Disks
  BY DEF Rearranged
<1>2. Below(E, next)
  <2>. SUFFICES ASSUME NEW i \in Files, E[i] # Missing, NEW x \in DOMAIN E[i]
                PROVE  E[i][x] < next
    BY DEF Below
  <2>1. CASE E[i] = <<>>
    BY <2>1
  <2>2. CASE E[i] = D[g[i]]
    BY <2>2 DEF Rearranged, Orderly, Below
  <2>. QED BY <2>1, <2>2 DEF Rearranged
<1>3. Ordered(E)
  <2>. SUFFICES ASSUME NEW i \in Files, NEW j \in Files, E[i] # Missing, E[j] # Missing,
                       NEW x \in DOMAIN E[i], NEW y \in DOMAIN E[j]
                PROVE  /\ j < i => E[i][x] < E[j][y]
                       /\ i = j /\ x < y => E[i][x] <= E[j][y]
    BY DEF Ordered
  <2>1. E[i] = D[g[i]] /\ E[j] = D[g[j]] /\ g[i] \in Files /\ g[j] \in Files
    BY DEF Rearranged
  <2>2. j < i => g[j] < g[i]
    BY DEF Rearranged
  <2>. QED BY <2>1, <2>2 DEF Orderly, Ordered
<1>. QED BY <1>1, <1>2, <1>3 DEF Orderly

(* Files may be dropped or emptied.                                         *)
LEMMA PrunedOrderly ==
  ASSUME NEW D, NEW E, Orderly(D), E \in Disks,
         \A i \in Files : E[i] = Missing \/ E[i] = <<>> \/ E[i] = D[i]
  PROVE  Orderly(E)
<1>. DEFINE g == [i \in Files |-> i]
<1>1. Rearranged(D, E, g)
  BY LogAssumption DEF Rearranged, Files
<1>. HIDE DEF g
<1>. QED BY <1>1, RearrangedOrderly

LEMMA ShiftedOrderly ==
  ASSUME TypeOK, Orderly(disk), NEW j \in 0..limits.backups
  PROVE  Orderly(Shifted(j)) /\ Shifted(j)[j] = Missing
         /\ (j # 0 => Shifted(j)[0] = disk[0])
<1>. DEFINE g == [i \in Files |-> IF j < i /\ i <= limits.backups THEN i - 1 ELSE i]
<1>1. limits.backups \in Files /\ Files = 0..Top /\ Top \in Nat
  BY LogAssumption DEF TypeOK, Limits, Files
<1>2. g \in [Files -> Files] /\ \A i \in Files : i # j => Shifted(j)[i] = disk[g[i]]
  BY <1>1 DEF Shifted
<1>3. Shifted(j) \in Disks /\ Shifted(j)[j] = Missing
  BY <1>1, <1>2 DEF Shifted, Orderly, Disks
<1>4. \A i, k \in Files : k < i /\ k # j => g[k] < g[i]
  BY <1>1
<1>5. Rearranged(disk, Shifted(j), g)
  <2>. HIDE DEF g
  <2>. QED BY <1>2, <1>3, <1>4 DEF Rearranged
<1>6. Orderly(Shifted(j))
  <2>. HIDE DEF g
  <2>. QED BY <1>5, RearrangedOrderly
<1>7. j # 0 => Shifted(j)[0] = disk[0]
  BY <1>1 DEF Shifted
<1>. QED BY <1>3, <1>6, <1>7

(* What a failed rotation leaves behind.                                    *)
LEMMA PartlyRotatedOrderly ==
  ASSUME LogInv, NEW D \in PartlyRotated
  PROVE  Orderly(D) /\ From(D, since)
<1>1. CASE D = disk
  BY <1>1 DEF LogInv
<1>2. ASSUME NEW j \in 0..limits.backups, D = Shifted(j)
      PROVE  Orderly(D) /\ From(D, since)
  BY <1>2, ShiftedOrderly DEF LogInv, From
<1>. QED BY <1>1, <1>2 DEF PartlyRotated

(* What a purge leaves behind, whether or not it fails, and the log alone   *)
(* when it is emptied.                                                      *)
LEMMA PurgedOrderly ==
  ASSUME LogInv, NEW D \in PartlyPurged \cup {Purged, Emptied, [disk EXCEPT ![0] = <<>>]}
  PROVE  Orderly(D) /\ From(D, since)
<1>1. disk \in Disks /\ 0 \in Files /\ <<>> \in Seq(1..MaxWrites) /\ Files = 0..Top
  BY LogAssumption DEF LogInv, Orderly, Files
<1>2. Emptied \in Disks /\ \A i \in Files : Emptied[i] = disk[i] \/ (i = 0 /\ Emptied[i] = <<>>)
  BY <1>1 DEF Emptied, Disks
<1>3. CASE D = disk
  BY <1>3 DEF LogInv
<1>4. CASE D # disk
  <2>1. D \in Disks
        /\ \A i \in Files : D[i] = Missing \/ D[i] = <<>> \/ D[i] = disk[i]
    <3>1. ASSUME NEW k \in Files,
                 D = [i \in Files |-> IF 0 < i /\ i <= k THEN Missing ELSE Emptied[i]]
          PROVE  D \in Disks
                 /\ \A i \in Files : D[i] = Missing \/ D[i] = <<>> \/ D[i] = disk[i]
      BY <1>2, <3>1 DEF Disks
    <3>2. ASSUME D = Purged
          PROVE  D \in Disks
                 /\ \A i \in Files : D[i] = Missing \/ D[i] = <<>> \/ D[i] = disk[i]
      BY <1>1, <1>2, <3>2 DEF Disks, Purged
    <3>3. ASSUME D = [disk EXCEPT ![0] = <<>>]
          PROVE  D \in Disks
                 /\ \A i \in Files : D[i] = Missing \/ D[i] = <<>> \/ D[i] = disk[i]
      BY <1>1, <3>3 DEF Disks
    <3>4. ASSUME D = Emptied
          PROVE  D \in Disks
                 /\ \A i \in Files : D[i] = Missing \/ D[i] = <<>> \/ D[i] = disk[i]
      BY <1>2, <3>4
    <3>. QED BY <1>4, <3>1, <3>2, <3>3, <3>4 DEF PartlyPurged
  <2>2. Orderly(D)
    BY <2>1, PrunedOrderly DEF LogInv
  <2>3. From(D, since)
    BY <1>1, <2>1 DEF From, LogInv
  <2>. QED BY <2>2, <2>3
<1>. QED BY <1>3, <1>4

(* openLocked creates the log if it is not there.                           *)
LEMMA OpenedOrderly ==
  ASSUME NEW D, Orderly(D)
  PROVE  /\ Orderly(Opened(D)) /\ Opened(D)[0] # Missing
         /\ Opened(D)[0] = <<>> \/ (Opened(D)[0] = D[0] /\ D[0] # Missing)
         /\ Len(Opened(D)[0]) \in Nat
<1>0. <<>> \in Seq(1..MaxWrites)
  OBVIOUS
<1>1. D \in Disks /\ 0 \in Files
  BY LogAssumption DEF Orderly, Files
<1>2. <<>> # Missing
  BY <1>0, FileIsNotMissing, Zenon
<1>3. /\ Opened(D) \in Disks
      /\ \A i \in Files : Opened(D)[i] = D[i] \/ Opened(D)[i] = <<>>
      /\ Opened(D)[0] = <<>> \/ (Opened(D)[0] = D[0] /\ D[0] # Missing)
  BY <1>0, <1>1 DEF Opened, Disks
<1>4. Opened(D)[0] # Missing /\ Opened(D)[0] \in Seq(1..MaxWrites)
  BY <1>0, <1>1, <1>2, <1>3 DEF Disks
<1>5. Len(Opened(D)[0]) \in Nat
  BY <1>4
<1>. QED BY <1>3, <1>4, <1>5, PrunedOrderly

(* A write of k bytes behind s in app.log.                                  *)
Put(D, s, k) == [D EXCEPT ![0] = s \o Bytes(k)]

LEMMA WrittenOrderly ==
  ASSUME TypeOK, next <= MaxWrites, NEW D, Orderly(D), NEW s \in Seq(1..MaxWrites),
         s = <<>> \/ (D[0] # Missing /\ s = D[0]), NEW k \in Nat
  PROVE  LET E == Put(D, s, k)
         IN  /\ E \in Disks /\ Ordered(E) /\ Below(E, next + 1)
             /\ E[0] # Missing /\ Len(E[0]) = Len(s) + k
             /\ \A x \in DOMAIN E[0] : E[0][x] = next \/ (x \in DOMAIN s /\ E[0][x] = s[x])
<1>. DEFINE b == Bytes(k)
            c == s \o b
            E == Put(D, s, k)
<1>1. next \in 1..MaxWrites /\ MaxWrites \in Nat /\ 0 \in Files /\ Files = 0..Top
  BY LogAssumption DEF TypeOK, Files
<1>2. b \in Seq(1..MaxWrites) /\ Len(b) = k /\ \A x \in 1..k : b[x] = next
  BY <1>1 DEF Bytes
<1>. HIDE DEF b
<1>3. /\ c \in Seq(1..MaxWrites) /\ Len(c) = Len(s) + k
      /\ \A x \in 1..Len(c) :
           c[x] = IF x <= Len(s) THEN s[x] ELSE b[x - Len(s)]
  <2>1. /\ c \in Seq(1..MaxWrites) /\ Len(c) = Len(s) + Len(b)
        /\ \A x \in 1..Len(s) + Len(b) :
             c[x] = IF x <= Len(s) THEN s[x] ELSE b[x - Len(s)]
    BY <1>2, ConcatProperties, Zenon
  <2>. HIDE DEF c
  <2>. QED BY <1>2, <2>1, Zenon
<1>. HIDE DEF c
<1>4. /\ Len(s) \in Nat /\ DOMAIN s = 1..Len(s) /\ DOMAIN c = 1..Len(c)
      /\ \A x \in DOMAIN c : (x \in DOMAIN s /\ c[x] = s[x]) \/ (x > Len(s) /\ c[x] = next)
  <2>1. /\ Len(s) \in Nat /\ DOMAIN s = 1..Len(s) /\ DOMAIN c = 1..Len(c)
    BY <1>3
  <2>. QED BY <1>2, <1>3, <2>1
<1>5. E \in Disks /\ E[0] = c /\ \A i \in Files : i # 0 => E[i] = D[i]
  BY <1>1, <1>3 DEF Orderly, Disks, Put, b, c
<1>. HIDE DEF E
<1>6. c # Missing
  BY <1>3, FileIsNotMissing
<1>7. \A i \in Files : D[i] # Missing => \A x \in DOMAIN D[i] : D[i][x] \in Nat /\ D[i][x] < next
  <2>. SUFFICES ASSUME NEW i \in Files, D[i] # Missing, NEW x \in DOMAIN D[i]
                PROVE  D[i][x] \in Nat /\ D[i][x] < next
    OBVIOUS
  <2>1. D[i] \in Seq(1..MaxWrites)
    BY DEF Orderly, Disks
  <2>2. D[i][x] \in 1..MaxWrites
    BY <2>1, ByteOfFile
  <2>. QED BY <2>2 DEF Orderly, Below
<1>8. \A x \in DOMAIN c : c[x] = next \/ (x \in DOMAIN s /\ c[x] = s[x] /\ c[x] \in Nat /\ c[x] < next)
  <2>. SUFFICES ASSUME NEW x \in DOMAIN c, c[x] # next
                PROVE  x \in DOMAIN s /\ c[x] = s[x] /\ c[x] \in Nat /\ c[x] < next
    OBVIOUS
  <2>1. x \in DOMAIN s /\ c[x] = s[x] /\ s # <<>>
    BY <1>4
  <2>. QED BY <1>1, <1>7, <2>1
<1>9. Below(E, next + 1)
  <2>. SUFFICES ASSUME NEW i \in Files, E[i] # Missing, NEW x \in DOMAIN E[i]
                PROVE  E[i][x] < next + 1
    BY DEF Below
  <2>1. CASE i = 0
    <3>1. E[i] = c /\ x \in DOMAIN c
      BY <1>5, <2>1
    <3>2. c[x] = next \/ (c[x] \in Nat /\ c[x] < next)
      BY <1>8, <3>1
    <3>. QED BY <1>1, <3>1, <3>2
  <2>2. CASE i # 0
    BY <1>1, <1>5, <1>7, <2>2
  <2>. QED BY <2>1, <2>2
<1>10. Ordered(E)
  <2>. SUFFICES ASSUME NEW i \in Files, NEW j \in Files, E[i] # Missing, E[j] # Missing,
                       NEW x \in DOMAIN E[i], NEW y \in DOMAIN E[j]
                PROVE  /\ j < i => E[i][x] < E[j][y]
                       /\ i = j /\ x < y => E[i][x] <= E[j][y]
    BY DEF Ordered
  <2>1. CASE i # 0 /\ j # 0
    BY <1>5, <2>1 DEF Orderly, Ordered
  <2>2. CASE i # 0 /\ j = 0
    <3>1. E[i] = D[i] /\ E[j] = c
      BY <1>5, <2>2
    <3>2. CASE c[y] = next
      BY <1>1, <1>7, <2>2, <3>1, <3>2
    <3>3. CASE c[y] # next
      <4>1. y \in DOMAIN s /\ c[y] = s[y] /\ s # <<>> /\ s = D[0] /\ D[0] # Missing
        BY <1>8, <3>1, <3>3
      <4>2. 0 < i
        BY <1>1, <2>2
      <4>. QED BY <1>1, <2>2, <3>1, <4>1, <4>2 DEF Orderly, Ordered
    <3>. QED BY <3>2, <3>3
  <2>3. CASE i = 0 /\ j # 0
    BY <1>1, <2>3
  <2>4. CASE i = 0 /\ j = 0
    <3>1. E[i] = c /\ E[j] = c /\ x \in DOMAIN c /\ y \in DOMAIN c
      BY <1>5, <2>4
    <3>2. SUFFICES ASSUME x < y
                   PROVE  c[x] <= c[y]
      BY <2>4, <3>1
    <3>3. CASE c[y] = next
      <4>1. c[x] = next \/ (c[x] \in Nat /\ c[x] < next)
        BY <1>8, <3>1
      <4>. QED BY <1>1, <3>3, <4>1
    <3>4. CASE c[y] # next
      <4>1. y \in DOMAIN s /\ c[y] = s[y] /\ s # <<>> /\ s = D[0] /\ D[0] # Missing
        BY <1>8, <3>1, <3>4
      <4>2. x \in DOMAIN s /\ ~(x > Len(s))
        <5>1. Len(s) \in Nat /\ Len(c) \in Nat /\ x \in 1..Len(c) /\ y \in 1..Len(s)
          BY <1>3, <1>4, <3>1, <4>1
        <5>2. x \in 1..Len(s) /\ ~(x > Len(s))
          BY <3>2, <5>1
        <5>. QED BY <1>4, <5>2
      <4>3. c[x] = s[x]
        BY <1>4, <3>1, <4>2
      <4>4. s[x] <= s[y]
        BY <1>1, <3>2, <4>1, <4>2 DEF Orderly, Ordered
      <4>. QED BY <4>1, <4>3, <4>4
    <3>. QED BY <3>3, <3>4
  <2>. QED BY <2>1, <2>2, <2>3, <2>4
<1>. QED BY <1>3, <1>5, <1>6, <1>8, <1>9, <1>10 DEF E

------------------------------------------------------------------------------
(* The writer's steps.                                                      *)

LEMMA ReopenKeeps ==
  ASSUME LogInv, NEW D, Orderly(D), From(D, since'), Reopen(D),
         phase' \in {"none", "writing", "ended"}, limits' = limits, next' = next,
         since' \in 1..next
  PROVE  LogInv'
<1>1. /\ Orderly(disk') /\ disk'[0] # Missing /\ size' \in Nat /\ size' = Len(disk'[0])
      /\ disk'[0] = <<>> \/ (disk'[0] = D[0] /\ D[0] # Missing)
  BY OpenedOrderly DEF Reopen
<1>2. TypeOK'
  BY <1>1 DEF Reopen, LogInv, TypeOK, Orderly, Disks
<1>3. From(disk', since')
  BY <1>1 DEF From
<1>. QED BY <1>1, <1>2, <1>3 DEF LogInv, Orderly

(* The log is closed, or stays as it was; the limits may change.            *)
LEMMA ClosedKeeps ==
  ASSUME LogInv, Orderly(disk'), From(disk', since),
         handle' = "open" => handle = "open" /\ (disk'[0] = disk[0] \/ disk'[0] = <<>>),
         handle' \in {"open", "shut", "stuck"}, size' \in Nat, handle' = "open" => size' = size,
         phase' \in {"none", "writing", "ended"}, limits' \in Limits, next' = next, since' = since
  PROVE  LogInv'
<1>1. handle' = "open" => disk'[0] # Missing /\ size' >= Len(disk'[0])
  <2>. SUFFICES ASSUME handle' = "open"
                PROVE  disk'[0] # Missing /\ size' >= Len(disk'[0])
    OBVIOUS
  <2>1. <<>> \in Seq(1..MaxWrites) /\ Len(<<>>) = 0
    OBVIOUS
  <2>2. <<>> # Missing
    BY <2>1, FileIsNotMissing, Zenon
  <2>. QED BY <2>1, <2>2 DEF LogInv, TypeOK
<1>2. TypeOK'
  BY <1>1 DEF LogInv, TypeOK, Orderly, Disks
<1>. QED BY <1>2 DEF LogInv, Orderly

LEMMA GiveUpKeeps ==
  ASSUME LogInv, NEW D, Orderly(D), From(D, since), GiveUp(D),
         phase' = phase, limits' = limits, next' = next, since' = since
  PROVE  LogInv'
BY ClosedKeeps DEF GiveUp, LogInv, TypeOK

LEMMA StickKeeps ==
  ASSUME LogInv, Stick, phase' = phase, limits' = limits, next' = next, since' = since
  PROVE  LogInv'
BY ClosedKeeps DEF Stick, LogInv, TypeOK

(* What Write takes for the size of its file is not below the true size.    *)
LEMMA KnownIsEnough ==
  ASSUME LogInv, handle # "stuck"
  PROVE  /\ Content(0) \in Seq(1..MaxWrites) /\ Len(Content(0)) \in Nat
         /\ Known \in Nat /\ Known >= Len(Content(0))
         /\ Content(0) = <<>> \/ (disk[0] # Missing /\ Content(0) = disk[0])
<1>1. 0 \in Files /\ <<>> \in Seq(1..MaxWrites)
  BY LogAssumption DEF Files
<1>2. /\ Content(0) \in Seq(1..MaxWrites)
      /\ Content(0) = <<>> \/ (disk[0] # Missing /\ Content(0) = disk[0])
  BY <1>1 DEF Content, LogInv, TypeOK
<1>3. Len(Content(0)) \in Nat
  BY <1>2
<1>4. Known \in Nat /\ Known >= Len(Content(0))
  BY <1>3 DEF Known, Content, LogInv, TypeOK
<1>. QED BY <1>2, <1>3, <1>4

(* A write behind s, which is what app.log has before it.                   *)
LEMMA WriteKeeps ==
  ASSUME LogInv, next <= MaxWrites, NEW D, Orderly(D), From(D, since), NEW s \in Seq(1..MaxWrites),
         s = <<>> \/ (D[0] # Missing /\ s = D[0]), NEW k \in Nat,
         disk' = Put(D, s, k),
         size' \in Nat, size' >= Len(s) + k,
         handle' = "open", next' = next + 1, UNCHANGED <<phase, limits, since>>
  PROVE  LogInv'
<1>1. /\ disk' \in Disks /\ Ordered(disk') /\ Below(disk', next + 1)
      /\ disk'[0] # Missing /\ Len(disk'[0]) = Len(s) + k
      /\ \A x \in DOMAIN disk'[0] : disk'[0][x] = next \/ (x \in DOMAIN s /\ disk'[0][x] = s[x])
  <2>1. TypeOK
    BY DEF LogInv
  <2>. QED BY <2>1, WrittenOrderly
<1>2. next \in Nat /\ MaxWrites \in Nat /\ since \in Nat /\ since <= next
  BY LogAssumption DEF LogInv, TypeOK
<1>3. TypeOK'
  <2>1. next' \in 1..MaxWrites + 1 /\ since' \in 1..next'
    BY <1>2 DEF LogInv, TypeOK
  <2>2. size' >= Len(disk'[0])
    BY <1>1
  <2>. QED BY <1>1, <2>1, <2>2 DEF LogInv, TypeOK, Disks
<1>4. From(disk', since')
  <2>. SUFFICES ASSUME NEW x \in DOMAIN disk'[0]
                PROVE  disk'[0][x] >= since
    BY DEF From
  <2>1. CASE disk'[0][x] = next
    BY <1>2, <2>1
  <2>2. CASE disk'[0][x] # next
    <3>1. x \in DOMAIN s /\ disk'[0][x] = s[x] /\ s # <<>>
      BY <1>1, <2>2
    <3>. QED BY <3>1 DEF From
  <2>. QED BY <2>1, <2>2
<1>. QED BY <1>1, <1>3, <1>4 DEF LogInv, Orderly

LEMMA WriteStep ==
  ASSUME LogInv, NEW n \in Lengths, Write(n) \/ RotateAndWrite(n)
  PROVE  LogInv'
<1>1. /\ n \in Nat /\ next <= MaxWrites /\ handle # "stuck"
      /\ handle' = "open" /\ next' = next + 1 /\ UNCHANGED <<phase, limits, since>>
  BY LogAssumption DEF Write, RotateAndWrite, Writing
<1>2. CASE Write(n)
  <2>1. PICK k \in 0..n : disk' = Put(disk, Content(0), k) /\ size' = Known + k
    BY <1>2 DEF Write, Put
  <2>2. k \in Nat /\ size' \in Nat /\ size' >= Len(Content(0)) + k
    BY <1>1, <2>1, KnownIsEnough
  <2>3. Orderly(disk) /\ From(disk, since)
    BY DEF LogInv
  <2>. QED BY <1>1, <2>1, <2>2, <2>3, KnownIsEnough, WriteKeeps
<1>3. CASE RotateAndWrite(n)
  <2>1. PICK k \in 0..n : disk' = Rotated(Bytes(k)) /\ size' = k
    BY <1>3 DEF RotateAndWrite
  <2>2. k \in Nat /\ next \in 1..MaxWrites
    BY <1>1, <2>1, LogAssumption DEF LogInv, TypeOK
  <2>3. Bytes(k) \in Seq(1..MaxWrites) /\ <<>> \in Seq(1..MaxWrites)
    BY <2>2 DEF Bytes
  <2>4. <<>> \o Bytes(k) = Bytes(k)
    BY <2>3, ConcatEmptySeq
  <2>5. disk' = Put(Shifted(0), <<>>, k)
    BY <2>1, <2>4 DEF Rotated, Put
  <2>6. 0 \in 0..limits.backups
    BY LogAssumption DEF LogInv, TypeOK, Limits, Files
  <2>7. Orderly(Shifted(0)) /\ From(Shifted(0), since)
    BY <2>6, ShiftedOrderly DEF LogInv, From
  <2>8. Len(<<>>) = 0 /\ size' \in Nat /\ size' >= Len(<<>>) + k
    BY <2>1, <2>2
  <2>. QED BY <1>1, <2>2, <2>3, <2>5, <2>7, <2>8, WriteKeeps
<1>. QED BY <1>2, <1>3

LEMMA LaunchStep ==
  ASSUME LogInv, Continue \/ Launch \/ LaunchFails
  PROVE  LogInv'
<1>1. CASE Continue
  BY <1>1, ReopenKeeps DEF Continue, LogInv, TypeOK
<1>2. CASE Launch
  <2>. DEFINE D == IF Content(0) = <<>> THEN disk ELSE Shifted(0)
  <2>1. 0 \in 0..limits.backups /\ next \in 1..next
    BY LogAssumption DEF LogInv, TypeOK, Limits, Files
  <2>2. Orderly(D) /\ From(D, next)
    BY <2>1, ShiftedOrderly DEF LogInv, From, Content
  <2>3. Reopen(D) /\ since' = next /\ next' = next /\ limits' = limits /\ phase' = "writing"
    BY <1>2 DEF Launch
  <2>. HIDE DEF D
  <2>. QED BY <2>1, <2>2, <2>3, ReopenKeeps
<1>3. CASE LaunchFails
  <2>1. PICK D \in PartlyRotated : GiveUp(D)
    BY <1>3 DEF LaunchFails
  <2>. QED BY <1>3, <2>1, PartlyRotatedOrderly, GiveUpKeeps DEF LaunchFails
<1>. QED BY <1>1, <1>2, <1>3

LEMMA ClearStep ==
  ASSUME LogInv, Truncate \/ ClearLogs \/ ClearSystemLog
  PROVE  LogInv'
<1>1. /\ \A D \in PartlyPurged \cup {Purged, Emptied, [disk EXCEPT ![0] = <<>>]} :
           Orderly(D) /\ From(D, since)
      /\ Orderly(disk) /\ From(disk, since)
      /\ phase \in {"none", "writing", "ended"} /\ since \in 1..next
  BY PurgedOrderly DEF LogInv, TypeOK
<1>2. CASE Truncate
  <2>1. phase' = phase /\ limits' = limits /\ next' = next /\ since' = since
    BY <1>2 DEF Truncate
  <2>2. Stick \/ GiveUp(disk) \/ GiveUp(Emptied) \/ Reopen(Emptied)
    BY <1>2 DEF Truncate
  <2>. QED BY <1>1, <2>1, <2>2, StickKeeps, GiveUpKeeps, ReopenKeeps
<1>3. CASE ClearLogs
  <2>1. phase' = phase /\ limits' = limits /\ next' = next /\ since' = since
    BY <1>3 DEF ClearLogs
  <2>2. CASE phase = "none" /\ disk' \in PartlyPurged /\ UNCHANGED <<handle, size>>
    <3>1. Orderly(disk') /\ From(disk', since)
      BY <1>1, <2>2
    <3>2. disk'[0] = disk[0] \/ disk'[0] = <<>>
      BY <2>2, LogAssumption DEF PartlyPurged, Emptied, LogInv, TypeOK, Files
    <3>. QED BY <2>1, <2>2, <3>1, <3>2, ClosedKeeps DEF LogInv, TypeOK
  <2>3. CASE Stick
    BY <2>1, <2>3, StickKeeps
  <2>4. CASE Reopen(Purged)
    BY <1>1, <2>1, <2>4, ReopenKeeps
  <2>5. ASSUME NEW D \in PartlyPurged, GiveUp(D)
        PROVE  LogInv'
    BY <1>1, <2>1, <2>5, GiveUpKeeps
  <2>. QED BY <1>3, <2>2, <2>3, <2>4, <2>5 DEF ClearLogs
<1>4. CASE ClearSystemLog
  <2>1. disk' = [disk EXCEPT ![0] = <<>>] /\ disk'[0] = <<>>
    BY <1>4, LogAssumption DEF ClearSystemLog, LogInv, TypeOK, Files
  <2>. QED BY <1>1, <1>4, <2>1, ClosedKeeps DEF ClearSystemLog, LogInv, TypeOK
<1>. QED BY <1>2, <1>3, <1>4

LEMMA LogStep ==
  ASSUME LogInv, [Next]_vars
  PROVE  LogInv'
<1>1. CASE Continue \/ Launch \/ LaunchFails
  BY <1>1, LaunchStep
<1>2. ASSUME NEW n \in Lengths, Write(n) \/ RotateAndWrite(n)
      PROVE  LogInv'
  BY <1>2, WriteStep
<1>3. ASSUME NEW n \in Lengths, RotationFails(n)
      PROVE  LogInv'
  <2>1. Orderly(disk') /\ From(disk', since)
    BY <1>3, PartlyRotatedOrderly DEF RotationFails, LogInv
  <2>2. Known \in Nat
    BY <1>3, KnownIsEnough DEF RotationFails, Writing
  <2>. QED BY <1>3, <2>1, <2>2, ClosedKeeps DEF RotationFails, LogInv, TypeOK
<1>4. CASE Truncate \/ ClearLogs \/ ClearSystemLog
  BY <1>4, ClearStep
<1>5. CASE (\E l \in Limits : SetLimits(l)) \/ Close \/ Forget \/ Crash
  <2>1. disk' = disk /\ size' = size /\ next' = next /\ since' = since
        /\ limits' \in Limits /\ phase' \in {"none", "writing", "ended"}
        /\ (handle' = handle \/ handle' = "shut")
    BY <1>5 DEF SetLimits, Close, Forget, Crash, LogInv, TypeOK
  <2>. QED BY <2>1, ClosedKeeps DEF LogInv, TypeOK
<1>6. CASE UNCHANGED vars
  BY <1>6, ClosedKeeps DEF vars, LogInv, TypeOK
<1>. QED BY <1>1, <1>2, <1>3, <1>4, <1>5, <1>6 DEF Next

LEMMA LogInit ==
  ASSUME Init
  PROVE  LogInv
<1>1. disk \in Disks /\ \A i \in Files : disk[i] = Missing
  BY DEF Init, Disks
<1>2. 0 \in Files /\ MaxWrites \in Nat
  BY LogAssumption DEF Files
<1>3. TypeOK
  BY <1>1, <1>2 DEF Init, TypeOK, Disks
<1>. QED BY <1>1, <1>2, <1>3 DEF LogInv, Orderly, Ordered, Below, From

THEOREM LogInvariant == Spec => []LogInv
<1>1. Init => LogInv
  BY LogInit
<1>2. LogInv /\ [Next]_vars => LogInv'
  BY LogStep
<1>. QED BY <1>1, <1>2, PTL DEF Spec

(* RotatingWriter never takes its file for smaller than it is               *)
(* (rotate.go:60), and the rest has its types.                              *)
THEOREM LogTypes == Spec => []TypeOK
<1>1. LogInv => TypeOK
  BY DEF LogInv
<1>. QED BY <1>1, LogInvariant, PTL

(* The archives that rotateLocked makes are in the order of the writes,     *)
(* whatever failed in between, as readTaskLogAll expects.                   *)
THEOREM ArchivesInOrder == Spec => []InOrder
<1>1. ASSUME LogInv
      PROVE  InOrder
  <2>. SUFFICES ASSUME NEW i \in Files, NEW j \in Files,
                       NEW x \in DOMAIN Content(i), NEW y \in DOMAIN Content(j)
                PROVE  /\ j < i => Content(i)[x] < Content(j)[y]
                       /\ i = j /\ x < y => Content(i)[x] <= Content(j)[y]
    BY DEF InOrder
  <2>1. \A n \in Files : DOMAIN Content(n) # {} => disk[n] # Missing /\ Content(n) = disk[n]
    BY DEF Content
  <2>. QED BY <1>1, <2>1 DEF LogInv, Orderly, Ordered
<1>. QED BY <1>1, LogInvariant, PTL

(* A launch of a fresh run leaves no output of an earlier one in app.log    *)
(* (manager.go:362), and nothing brings it back.                            *)
THEOREM RunsStayApart == Spec => []RunsApart
<1>1. LogInv => RunsApart
  BY DEF LogInv, From, RunsApart, Content, In
<1>. QED BY <1>1, LogInvariant, PTL

LEMMA BoundedStep ==
  ASSUME LogInv, NEW n \in Lengths, Write(n) \/ RotateAndWrite(n)
  PROVE  \/ limits.size = 0 \/ Len(Content(0)') <= limits.size
         \/ In(Content(0)') \subseteq {next}
<1>1. /\ n \in Nat /\ next <= MaxWrites /\ handle # "stuck" /\ TypeOK
      /\ limits.size \in Nat /\ Orderly(disk) /\ From(disk, since)
  BY LogAssumption DEF Write, RotateAndWrite, Writing, LogInv, TypeOK, Limits
<1>2. CASE Write(n)
  <2>1. PICK k \in 0..n : disk' = Put(disk, Content(0), k)
    BY <1>2 DEF Write, Put
  <2>2. k \in Nat
    BY <1>1, <2>1
  <2>3. /\ disk'[0] # Missing /\ Len(disk'[0]) = Len(Content(0)) + k
        /\ \A x \in DOMAIN disk'[0] :
             disk'[0][x] = next \/ (x \in DOMAIN Content(0) /\ disk'[0][x] = Content(0)[x])
    BY <1>1, <2>1, <2>2, KnownIsEnough, WrittenOrderly
  <2>4. Content(0)' = disk'[0]
    BY <2>3 DEF Content
  <2>5. CASE Known = 0
    <3>1. Content(0) = <<>>
      BY <1>1, <2>5, KnownIsEnough
    <3>. QED BY <2>3, <2>4, <3>1 DEF In
  <2>6. CASE Known > 0 /\ limits.size > 0
    <3>1. Known + n <= limits.size
      BY <1>1, <1>2, <2>6, KnownIsEnough DEF Write, Full
    <3>2. Len(Content(0)) + k <= limits.size
      BY <1>1, <2>1, <2>2, <3>1, KnownIsEnough
    <3>. QED BY <2>3, <2>4, <3>2
  <2>. QED BY <1>1, <2>5, <2>6, KnownIsEnough
<1>3. CASE RotateAndWrite(n)
  <2>1. PICK k \in 0..n : disk' = Rotated(Bytes(k))
    BY <1>3 DEF RotateAndWrite
  <2>2. disk'[0] = Bytes(k)
    BY <2>1, LogAssumption DEF Rotated, Shifted, Files
  <2>3. In(Content(0)') \subseteq {next}
    BY <2>2 DEF Content, In, Bytes
  <2>. QED BY <2>3
<1>. QED BY <1>2, <1>3

(* Write never takes app.log over the limit unless it has it for itself     *)
(* (rotate.go:68).                                                          *)
THEOREM WritesBounded == Spec => WriteBounded
<1>1. LogInv /\ [Next]_vars =>
        [next' # next =>
           \/ limits.size = 0 \/ Len(Content(0)') <= limits.size
           \/ In(Content(0)') \subseteq {next}]_vars
  <2>. SUFFICES ASSUME LogInv, Next, next' # next
                PROVE  \/ limits.size = 0 \/ Len(Content(0)') <= limits.size
                       \/ In(Content(0)') \subseteq {next}
    BY DEF vars
  <2>1. PICK n \in Lengths : Write(n) \/ RotateAndWrite(n)
    BY DEF Next, Continue, Launch, LaunchFails, RotationFails, SetLimits, Truncate, ClearLogs,
           ClearSystemLog, Close, Forget, Crash
  <2>. QED BY <2>1, BoundedStep
<1>. QED BY <1>1, LogInvariant, PTL DEF Spec, WriteBounded

------------------------------------------------------------------------------
(* What a step may lose.                                                    *)

(* The writes that file number i of D has output of.                        *)
Held(D, i) == IF D[i] = Missing THEN {} ELSE In(D[i])

(* Every file of D is still there, whole, under this or another number.     *)
AllKept(D, E) == \A i \in Files : \E k \in Files : Held(D, i) \subseteq Held(E, k)

(* The archive number b is dropped and its number left to younger output.   *)
LastDropped(D, E, b) ==
  /\ \A i \in Files \ {b} : \E k \in Files : Held(D, i) \subseteq Held(E, k)
  /\ \A i \in 0..b : \A x \in Held(E, i) :
       x = next \/ \E k \in Files : k < b /\ x \in Held(D, k)

(* What OldestGoFirst says of a step that is not a clearing.                *)
OldestLost ==
  /\ Lost \subseteq In(Content(limits.backups))
  /\ \A w \in Lost, i \in 0..limits.backups : \A b \in In(Content(i)') : b > w

LEMMA HeldIsContent ==
  ASSUME NEW i \in Files
  PROVE  In(Content(i)) = Held(disk, i) /\ In(Content(i)') = Held(disk', i)
BY DEF In, Content, Held

LEMMA HeldInOrder ==
  ASSUME NEW D, Orderly(D), NEW i \in Files, NEW v \in Held(D, i)
  PROVE  /\ v < next
         /\ \A k \in Files : \A w \in Held(D, k) : k < i => v < w
<1>1. PICK x \in DOMAIN D[i] : D[i] # Missing /\ v = D[i][x]
  BY DEF Held, In
<1>. QED BY <1>1 DEF Orderly, Ordered, Below, Held, In

LEMMA LostIsHeld ==
  ASSUME NEW w \in Lost
  PROVE  /\ \E i \in Files : w \in Held(disk, i)
         /\ \A k \in Files : w \notin Held(disk', k)
<1>1. PICK i \in Files : w \in In(Content(i))
  BY DEF Lost
<1>2. ASSUME NEW k \in Files
      PROVE  w \notin Held(disk', k)
  <2>1. w \notin UNION {In(Content(n)') : n \in Files}
    BY DEF Lost
  <2>2. w \notin In(IF disk'[k] = Missing THEN <<>> ELSE disk'[k])
    BY <2>1 DEF Content
  <2>. QED BY <2>2 DEF Held
<1>. QED BY <1>1, <1>2, HeldIsContent

LEMMA KeptLosesNothing ==
  ASSUME AllKept(disk, disk')
  PROVE  Lost = {}
BY LostIsHeld DEF AllKept

LEMMA KeptIsOldestLost ==
  ASSUME AllKept(disk, disk')
  PROVE  OldestLost
BY KeptLosesNothing DEF OldestLost

LEMMA DroppedIsOldestLost ==
  ASSUME LogInv, LastDropped(disk, disk', limits.backups)
  PROVE  OldestLost
<1>. DEFINE b == limits.backups
<1>1. b \in Files /\ 0..b \subseteq Files /\ Orderly(disk)
  BY LogAssumption DEF LogInv, TypeOK, Limits, Files
<1>2. Lost \subseteq Held(disk, b)
  BY LostIsHeld DEF LastDropped
<1>3. \A w \in Held(disk, b), i \in 0..b : \A x \in Held(disk', i) : x > w
  <2>. SUFFICES ASSUME NEW w \in Held(disk, b), NEW i \in 0..b, NEW x \in Held(disk', i)
                PROVE  x > w
    OBVIOUS
  <2>1. w < next /\ \A k \in Files : \A v \in Held(disk, k) : k < b => w < v
    BY <1>1, HeldInOrder
  <2>2. x = next \/ \E k \in Files : k < b /\ x \in Held(disk, k)
    BY DEF LastDropped
  <2>. QED BY <2>1, <2>2
<1>4. /\ In(Content(b)) = Held(disk, b)
      /\ \A i \in 0..b : In(Content(i)') = Held(disk', i)
  BY <1>1, HeldIsContent
<1>. QED BY <1>2, <1>3, <1>4 DEF OldestLost

(* The steps of rotate.go: the loop over the archives, with openLocked or a *)
(* write behind it, drops the last one at most.                             *)
LEMMA ShiftedDropsLast ==
  ASSUME LogInv, NEW j \in 0..limits.backups, NEW E,
         \A i \in Files : Held(E, i) = Held(Shifted(j), i) \/ (i = 0 /\ j = 0 /\ Held(E, i) \subseteq {next})
  PROVE  LastDropped(disk, E, limits.backups)
<1>. DEFINE b == limits.backups
<1>1. b \in Files /\ Files = 0..Top /\ Top \in Nat /\ disk \in Disks
  BY LogAssumption DEF LogInv, TypeOK, Limits, Files, Orderly
<1>2. /\ \A i \in Files : i = j => Held(Shifted(j), i) = {}
      /\ \A i \in Files : j < i /\ i <= b => Held(Shifted(j), i) = Held(disk, i - 1)
      /\ \A i \in Files : i < j \/ i > b => Held(Shifted(j), i) = Held(disk, i)
  BY <1>1 DEF Shifted, Held
<1>3. \A i \in Files \ {b} : \E k \in Files : Held(disk, i) \subseteq Held(E, k)
  <2>. SUFFICES ASSUME NEW i \in Files, i # b
                PROVE  \E k \in Files : Held(disk, i) \subseteq Held(E, k)
    OBVIOUS
  <2>1. CASE i < j \/ i > b
    <3>1. Held(disk, i) = Held(Shifted(j), i) /\ ~(i = 0 /\ j = 0)
      BY <1>1, <1>2, <2>1
    <3>. QED BY <3>1
  <2>2. CASE j <= i /\ i < b
    <3>1. i + 1 \in Files /\ i + 1 # 0 /\ j < i + 1 /\ i + 1 <= b /\ (i + 1) - 1 = i
      BY <1>1, <2>2
    <3>2. Held(disk, i) = Held(Shifted(j), i + 1)
      BY <1>2, <3>1
    <3>. QED BY <3>1, <3>2
  <2>. QED BY <1>1, <2>1, <2>2
<1>4. ASSUME NEW i \in 0..b, NEW x \in Held(E, i)
      PROVE  x = next \/ \E k \in Files : k < b /\ x \in Held(disk, k)
  <2>1. i \in Files
    BY <1>1
  <2>2. CASE x \in Held(Shifted(j), i) /\ i < j
    BY <1>1, <1>2, <2>1, <2>2
  <2>3. CASE x \in Held(Shifted(j), i) /\ j < i
    <3>1. i - 1 \in Files /\ i - 1 < b /\ i <= b
      BY <1>1, <2>1, <2>3
    <3>2. x \in Held(disk, i - 1)
      BY <1>2, <2>1, <2>3, <3>1
    <3>. QED BY <3>1, <3>2
  <2>4. x \in Held(Shifted(j), i) => i # j
    BY <1>2, <2>1
  <2>. QED BY <1>1, <2>1, <2>2, <2>3, <2>4
<1>. QED BY <1>3, <1>4 DEF LastDropped

LEMMA OpenedHolds ==
  ASSUME NEW D \in Disks, NEW i \in Files
  PROVE  Held(Opened(D), i) = Held(D, i)
<1>1. 0 \in Files /\ DOMAIN <<>> = {}
  BY LogAssumption DEF Files
<1>2. Opened(D)[i] = D[i] \/ (i = 0 /\ D[i] = Missing /\ Opened(D)[i] = <<>>)
  BY <1>1 DEF Opened, Disks
<1>3. Held(Opened(D), i) = Held(D, i) \/ (D[i] = Missing /\ Opened(D)[i] = <<>>)
  BY <1>2 DEF Held
<1>. QED BY <1>1, <1>3 DEF Held, In

LEMMA OldestStep ==
  ASSUME LogInv, Next, disk' # disk, ~ClearLogs, ~ClearSystemLog, ~Truncate
  PROVE  OldestLost
<1>1. 0 \in 0..limits.backups /\ disk \in Disks /\ Files = 0..Top /\ 0 \in Files /\ Orderly(disk)
      /\ TypeOK
  BY LogAssumption DEF LogInv, TypeOK, Limits, Files, Orderly
<1>2. ASSUME disk' \in PartlyRotated
      PROVE  OldestLost
  <2>1. PICK j \in 0..limits.backups : disk' = Shifted(j)
    BY <1>2 DEF PartlyRotated
  <2>. QED BY <2>1, ShiftedDropsLast, DroppedIsOldestLost
<1>3. CASE Continue
  <2>1. \A i \in Files : Held(disk', i) = Held(disk, i)
    BY <1>1, <1>3, OpenedHolds DEF Continue, Reopen
  <2>. QED BY <2>1, KeptIsOldestLost DEF AllKept
<1>4. CASE Launch
  <2>1. CASE Content(0) = <<>>
    <3>1. \A i \in Files : Held(disk', i) = Held(disk, i)
      BY <1>1, <1>4, <2>1, OpenedHolds DEF Launch, Reopen
    <3>. QED BY <3>1, KeptIsOldestLost DEF AllKept
  <2>2. CASE Content(0) # <<>>
    <3>1. disk' = Opened(Shifted(0)) /\ Shifted(0) \in Disks
      BY <1>1, <1>4, <2>2, ShiftedOrderly DEF Launch, Reopen, Orderly
    <3>2. \A i \in Files : Held(disk', i) = Held(Shifted(0), i)
      BY <3>1, OpenedHolds
    <3>. QED BY <1>1, <3>2, ShiftedDropsLast, DroppedIsOldestLost
  <2>. QED BY <2>1, <2>2
<1>5. CASE LaunchFails
  BY <1>2, <1>5 DEF LaunchFails, GiveUp
<1>6. ASSUME NEW n \in Lengths, Write(n)
      PROVE  OldestLost
  <2>1. PICK k \in 0..n : disk' = [disk EXCEPT ![0] = Content(0) \o Bytes(k)]
    BY <1>6 DEF Write
  <2>. DEFINE c == Content(0) \o Bytes(k)
  <2>2. /\ c \in Seq(1..MaxWrites) /\ Held(disk, 0) \subseteq In(c)
    <3>1. Content(0) \in Seq(1..MaxWrites)
      BY <1>6, KnownIsEnough DEF Write, Writing
    <3>2. Bytes(k) \in Seq(1..MaxWrites)
      <4>1. k \in Nat /\ next \in 1..MaxWrites
        BY <1>1, <1>6, LogAssumption DEF Write, Writing, TypeOK
      <4>. QED BY <4>1 DEF Bytes
    <3>. HIDE DEF Bytes
    <3>3. /\ c \in Seq(1..MaxWrites) /\ Len(c) = Len(Content(0)) + Len(Bytes(k))
          /\ \A x \in 1..Len(Content(0)) + Len(Bytes(k)) :
               c[x] = IF x <= Len(Content(0)) THEN Content(0)[x] ELSE Bytes(k)[x - Len(Content(0))]
      BY <3>1, <3>2, ConcatProperties, Zenon
    <3>. HIDE DEF c
    <3>4. /\ DOMAIN Content(0) = 1..Len(Content(0)) /\ DOMAIN c = 1..Len(c)
          /\ Len(Content(0)) \in Nat /\ Len(Bytes(k)) \in Nat
      BY <3>1, <3>2, <3>3
    <3>5. \A x \in DOMAIN Content(0) : x \in DOMAIN c /\ c[x] = Content(0)[x]
      BY <3>3, <3>4
    <3>6. In(Content(0)) \subseteq In(c)
      BY <3>5 DEF In
    <3>. QED BY <1>1, <3>3, <3>6, HeldIsContent
  <2>. HIDE DEF c
  <2>3. disk' = [disk EXCEPT ![0] = c] /\ disk'[0] = c
    BY <1>1, <2>1 DEF c, Disks
  <2>4. \A i \in Files : Held(disk, i) \subseteq Held(disk', i)
    <3>1. c # Missing
      BY <2>2, FileIsNotMissing
    <3>2. Held(disk, 0) \subseteq Held(disk', 0)
      BY <2>2, <2>3, <3>1 DEF Held
    <3>3. \A i \in Files : i # 0 => Held(disk', i) = Held(disk, i)
      BY <1>1, <2>3 DEF Held, Disks
    <3>. QED BY <3>2, <3>3
  <2>. QED BY <2>4, KeptIsOldestLost DEF AllKept
<1>7. ASSUME NEW n \in Lengths, RotateAndWrite(n)
      PROVE  OldestLost
  <2>1. PICK k \in 0..n : disk' = Rotated(Bytes(k))
    BY <1>7 DEF RotateAndWrite
  <2>2. Shifted(0) \in Disks
    BY <1>1, ShiftedOrderly DEF Orderly
  <2>3. Held(disk', 0) \subseteq {next}
    BY <1>1, <2>1, <2>2 DEF Rotated, Held, In, Bytes, Disks
  <2>4. \A i \in Files : i # 0 => Held(disk', i) = Held(Shifted(0), i)
    BY <1>1, <2>1, <2>2 DEF Rotated, Held, Disks
  <2>. QED BY <1>1, <2>3, <2>4, ShiftedDropsLast, DroppedIsOldestLost
<1>8. ASSUME NEW n \in Lengths, RotationFails(n)
      PROVE  OldestLost
  BY <1>2, <1>8 DEF RotationFails
<1>. QED BY <1>3, <1>4, <1>5, <1>6, <1>7, <1>8
         DEF Next, SetLimits, Close, Forget, Crash

(* Output that nobody cleared goes only as part of the last archive, and    *)
(* only when all that is kept is younger (rotate.go:17).                    *)
THEOREM OldestAreFirst == Spec => OldestGoFirst
<1>1. LogInv /\ [Next]_vars =>
        [disk' # disk =>
           \/ ClearLogs \/ ClearSystemLog \/ Truncate
           \/ /\ Lost \subseteq In(Content(limits.backups))
              /\ \A w \in Lost, i \in 0..limits.backups : \A b \in In(Content(i)') : b > w]_vars
  <2>. SUFFICES ASSUME LogInv, Next, disk' # disk, ~ClearLogs, ~ClearSystemLog, ~Truncate
                PROVE  OldestLost
    BY DEF vars, OldestLost
  <2>. QED BY OldestStep
<1>. QED BY <1>1, LogInvariant, PTL DEF Spec, OldestGoFirst
==============================================================================
