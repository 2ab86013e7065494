--------------------------- MODULE LogReadingProofs ---------------------------
(***************************************************************************)
(* Proofs about LogReading, for any number of archives, lines asked for,   *)
(* limits and lengths.  The directory goes through a walk of states; from  *)
(* one to the next, what was written before moves up or goes, never down.  *)
(* A tail reads upwards, so what it lacks is ahead of it or newer than all *)
(* it has; a download reads downwards, so what it has is older than all    *)
(* that is left to read.  Readers change nothing of the log: RotatingLog's *)
(* theorems hold beside them.                                              *)
(***************************************************************************)
EXTENDS LogReading, RotatingLogProofs, FiniteSetTheorems, FunctionTheorems

------------------------------------------------------------------------------
(* Numbers in their order, and the lines of a file.                         *)

Upto(S, i) == {j \in S : j <= i}

LEMMA RanksCount ==
  ASSUME NEW S \in SUBSET Nat, IsFiniteSet(S)
  PROVE  /\ \A i \in S : Cardinality(Upto(S, i)) \in 1..Cardinality(S)
         /\ \A i, j \in S : i < j => Cardinality(Upto(S, i)) < Cardinality(Upto(S, j))
<1>1. \A i \in S : IsFiniteSet(Upto(S, i)) /\ Cardinality(Upto(S, i)) <= Cardinality(S)
  BY FS_Subset DEF Upto
<1>2. Cardinality(S) \in Nat /\ \A i \in S : Cardinality(Upto(S, i)) \in Nat
  BY <1>1, FS_CardinalityType
<1>3. ASSUME NEW i \in S
      PROVE  Cardinality(Upto(S, i)) # 0
  <2>1. i \in Upto(S, i)
    BY DEF Upto
  <2>. QED BY <1>1, <2>1, FS_EmptySet
<1>4. ASSUME NEW i \in S, NEW j \in S, i < j
      PROVE  Cardinality(Upto(S, i)) < Cardinality(Upto(S, j))
  <2>1. Upto(S, i) \in SUBSET Upto(S, j) /\ j \in Upto(S, j) /\ j \notin Upto(S, i)
    <3>1. \A k \in S : k <= i => k <= j
      BY <1>4
    <3>2. j <= j /\ ~(j <= i)
      BY <1>4
    <3>. QED BY <3>1, <3>2, Zenon DEF Upto
  <2>2. /\ Cardinality(Upto(S, i)) <= Cardinality(Upto(S, j))
        /\ Cardinality(Upto(S, i)) = Cardinality(Upto(S, j)) => Upto(S, i) = Upto(S, j)
    BY <1>1, <2>1, FS_Subset
  <2>. QED BY <1>2, <2>1, <2>2
<1>. QED BY <1>1, <1>2, <1>3, <1>4

(* An injection of a finite set into as many numbers has them all.          *)
LEMMA EveryRank ==
  ASSUME NEW S \in SUBSET Nat, IsFiniteSet(S), NEW n \in 1..Cardinality(S)
  PROVE  \E i \in S : Cardinality(Upto(S, i)) = n
<1>. DEFINE N == Cardinality(S)
            f == [i \in S |-> Cardinality(Upto(S, i))]
<1>1. N \in Nat
  BY FS_CardinalityType
<1>2. IsFiniteSet(1..N) /\ Cardinality(1..N) = N
  BY <1>1, FS_Interval
<1>3. f \in [S -> 1..N]
  BY RanksCount
<1>4. \A i, j \in S : f[i] = f[j] => i = j
  <2>. SUFFICES ASSUME NEW i \in S, NEW j \in S, i # j
                PROVE  f[i] # f[j]
    OBVIOUS
  <2>1. i < j \/ j < i
    OBVIOUS
  <2>2. f[i] \in 1..N /\ f[j] \in 1..N
    BY <1>3
  <2>. QED BY <2>1, <2>2, RanksCount
<1>5. \E i \in S : f[i] = n
  <2>. HIDE DEF f
  <2>1. f \in Injection(S, 1..N)
    BY <1>3, <1>4, Fun_IsInj
  <2>2. Cardinality(S) = Cardinality(1..N) <=> f \in Surjection(S, 1..N)
    BY <1>2, <2>1, FS_Injection, Zenon
  <2>3. f \in Surjection(S, 1..N)
    BY <1>2, <2>2
  <2>. QED BY <2>3 DEF Surjection
<1>. QED BY <1>5

LEMMA AscendingIsSorted ==
  ASSUME NEW S \in SUBSET Nat, IsFiniteSet(S)
  PROVE  LET a == Ascending(S)
             N == Cardinality(S)
         IN  /\ N \in Nat /\ a \in [1..N -> S]
             /\ \A n \in 1..N : Cardinality(Upto(S, a[n])) = n
             /\ \A m, n \in 1..N : m < n => a[m] < a[n]
             /\ \A i \in S : \E n \in 1..N : a[n] = i
<1>. DEFINE a == Ascending(S)
            N == Cardinality(S)
<1>1. N \in Nat /\ \A i \in S : Cardinality(Upto(S, i)) \in 1..N
  BY FS_CardinalityType, RanksCount
<1>2. a = [n \in 1..N |-> CHOOSE i \in S : Cardinality(Upto(S, i)) = n]
  BY DEF Ascending, Upto
<1>3. \A n \in 1..N : a[n] \in S /\ Cardinality(Upto(S, a[n])) = n
  BY <1>2, EveryRank
<1>4. a \in [1..N -> S]
  BY <1>2, <1>3
<1>. HIDE DEF a
<1>5. \A m, n \in 1..N : m < n => a[m] < a[n]
  <2>. SUFFICES ASSUME NEW m \in 1..N, NEW n \in 1..N, m < n, ~(a[m] < a[n])
                PROVE  FALSE
    OBVIOUS
  <2>1. a[m] \in S /\ a[n] \in S /\ a[m] \in Nat /\ a[n] \in Nat
    BY <1>3
  <2>2. a[n] < a[m] \/ a[n] = a[m]
    BY <2>1
  <2>. QED BY <1>3, <2>1, <2>2, RanksCount
<1>6. ASSUME NEW i \in S
      PROVE  \E n \in 1..N : a[n] = i
  <2>. DEFINE n == Cardinality(Upto(S, i))
  <2>1. n \in 1..N /\ a[n] \in S /\ Cardinality(Upto(S, a[n])) = n
    BY <1>1, <1>3
  <2>2. a[n] = i
    <3>1. a[n] \in Nat /\ i \in Nat
      BY <2>1
    <3>. QED BY <2>1, <3>1, RanksCount
  <2>. QED BY <2>1, <2>2
<1>. QED BY <1>1, <1>3, <1>4, <1>5, <1>6 DEF a

(* A file whose bytes are in order.                                         *)
Sorted(s) == \A x, y \in DOMAIN s : x < y => s[x] <= s[y]

Increasing(s) == \A x, y \in DOMAIN s : x < y => s[x] < s[y]

LEMMA LinesAreWrites ==
  ASSUME NEW s \in Seq(Nat), Sorted(s)
  PROVE  LinesOf(s) \in Seq(Nat) /\ Increasing(LinesOf(s)) /\ In(LinesOf(s)) = In(s)
<1>. DEFINE ends == {i \in DOMAIN s : i = Len(s) \/ s[i + 1] # s[i]}
            N == Cardinality(ends)
            a == Ascending(ends)
<1>1. DOMAIN s = 1..Len(s) /\ Len(s) \in Nat /\ \A i \in 1..Len(s) : s[i] \in Nat
  OBVIOUS
<1>2. ends \in SUBSET Nat /\ ends \in SUBSET (1..Len(s))
  BY <1>1
<1>3. IsFiniteSet(ends)
  <2>1. IsFiniteSet(1..Len(s))
    BY <1>1, FS_Interval
  <2>. HIDE DEF ends
  <2>. QED BY <1>2, <2>1, FS_Subset, Zenon
<1>4. /\ N \in Nat /\ a \in [1..N -> ends]
      /\ \A m, n \in 1..N : m < n => a[m] < a[n]
      /\ \A i \in ends : \E n \in 1..N : a[n] = i
  BY <1>2, <1>3, AscendingIsSorted
<1>5. LinesOf(s) = [n \in 1..N |-> s[a[n]]]
  BY DEF LinesOf
<1>6. \A i \in ends : i \in 1..Len(s) /\ (i = Len(s) \/ s[i + 1] # s[i])
  BY <1>1
<1>7. ASSUME NEW i \in ends, NEW j \in ends, i < j
      PROVE  s[i] < s[j]
  <2>1. i \in 1..Len(s) /\ i + 1 \in 1..Len(s) /\ i + 1 <= j /\ j \in 1..Len(s)
    BY <1>1, <1>6, <1>7
  <2>2. s[i] <= s[i + 1] /\ s[i] # s[i + 1]
    BY <1>1, <1>6, <1>7, <2>1 DEF Sorted
  <2>3. s[i + 1] <= s[j]
    BY <1>1, <2>1 DEF Sorted
  <2>. QED BY <1>1, <2>1, <2>2, <2>3
<1>8. ASSUME NEW x \in 1..Len(s)
      PROVE  \E i \in ends : s[i] = s[x]
  <2>. DEFINE E == {y \in 1..Len(s) : s[y] = s[x]}
              M == Cardinality(E)
  <2>1. E \in SUBSET Nat /\ IsFiniteSet(E) /\ x \in E
    <3>1. IsFiniteSet(1..Len(s))
      BY <1>1, FS_Interval
    <3>2. E \in SUBSET (1..Len(s)) /\ E \in SUBSET Nat /\ x \in E
      OBVIOUS
    <3>. HIDE DEF E
    <3>. QED BY <3>1, <3>2, FS_Subset, Zenon
  <2>2. /\ M \in Nat /\ Ascending(E) \in [1..M -> E]
        /\ \A m, n \in 1..M : m < n => Ascending(E)[m] < Ascending(E)[n]
        /\ \A i \in E : \E n \in 1..M : Ascending(E)[n] = i
    <3>. HIDE DEF E
    <3>. QED BY <2>1, AscendingIsSorted
  <2>. DEFINE l == Ascending(E)[M]
  <2>3. M \in 1..M /\ l \in E
    <3>1. PICK n \in 1..M : Ascending(E)[n] = x
      BY <2>1, <2>2
    <3>. QED BY <2>2, <3>1
  <2>4. \A y \in E : y <= l
    <3>. SUFFICES ASSUME NEW y \in E PROVE y <= l
      OBVIOUS
    <3>1. PICK n \in 1..M : Ascending(E)[n] = y
      BY <2>2
    <3>2. n = M \/ n < M
      BY <2>2
    <3>3. n < M => y < l
      BY <2>2, <2>3, <3>1
    <3>4. y \in Nat /\ l \in Nat
      BY <2>3
    <3>. HIDE DEF E, M
    <3>. QED BY <3>1, <3>2, <3>3, <3>4
  <2>5. l \in 1..Len(s) /\ s[l] = s[x]
    BY <2>3
  <2>6. l = Len(s) \/ s[l + 1] # s[l]
    <3>. SUFFICES ASSUME l # Len(s), s[l + 1] = s[l] PROVE FALSE
      OBVIOUS
    <3>1. l + 1 \in E
      BY <1>1, <2>5
    <3>. QED BY <2>4, <2>5, <3>1, SMTT(30)
  <2>. HIDE DEF l
  <2>. QED BY <1>1, <2>5, <2>6
<1>. HIDE DEF ends, a, N
<1>9. LinesOf(s) \in Seq(Nat) /\ DOMAIN LinesOf(s) = 1..N
  BY <1>1, <1>4, <1>5, <1>6
<1>10. Increasing(LinesOf(s))
  BY <1>4, <1>5, <1>7, <1>9 DEF Increasing
<1>11. \A b \in In(LinesOf(s)) : b \in In(s)
  BY <1>1, <1>4, <1>5, <1>6, <1>9 DEF In
<1>12. \A b \in In(s) : b \in In(LinesOf(s))
  <2>. SUFFICES ASSUME NEW x \in 1..Len(s) PROVE s[x] \in In(LinesOf(s))
    BY <1>1 DEF In
  <2>1. PICK i \in ends : s[i] = s[x]
    BY <1>8
  <2>2. PICK n \in 1..N : a[n] = i
    BY <1>4
  <2>. QED BY <1>5, <1>9, <2>1, <2>2 DEF In
<1>. QED BY <1>9, <1>10, <1>11, <1>12
(* The last n lines are the newest n.                                       *)
LEMMA LastLinesAreNewest ==
  ASSUME NEW s \in Seq(Nat), Increasing(s), NEW n \in Nat
  PROVE  LET t == LastLines(s, n)
         IN  /\ t \in Seq(Nat) /\ Increasing(t) /\ Len(t) <= n
             /\ In(t) \subseteq In(s)
             /\ \A b \in In(s) \ In(t) : \A c \in In(t) : b < c
             /\ Len(t) < n => t = s
<1>. DEFINE t == LastLines(s, n)
            d == Len(s) - n
<1>1. Len(s) \in Nat /\ DOMAIN s = 1..Len(s) /\ \A x \in 1..Len(s) : s[x] \in Nat
  OBVIOUS
<1>2. CASE Len(s) <= n
  <2>1. t = s
    BY <1>1, <1>2 DEF LastLines
  <2>. QED BY <1>1, <1>2, <2>1
<1>3. CASE Len(s) > n
  <2>1. t = SubSeq(s, d + 1, Len(s)) /\ d \in Nat /\ d + n = Len(s)
    BY <1>1, <1>3 DEF LastLines
  <2>2. t = [x \in 1..n |-> s[d + x]]
    BY <1>1, <2>1, SMTT(30)
  <2>. HIDE DEF t, d
  <2>3. t \in Seq(Nat) /\ Len(t) = n /\ DOMAIN t = 1..n /\ \A x \in 1..n : t[x] = s[d + x]
    <3>1. \A x \in 1..n : d + x \in 1..Len(s)
      BY <1>1, <2>1
    <3>2. \A x \in 1..n : s[d + x] \in Nat
      BY <1>1, <3>1
    <3>. QED BY <2>2, <3>2
  <2>4. Increasing(t)
    <3>. SUFFICES ASSUME NEW x \in 1..n, NEW y \in 1..n, x < y
                  PROVE  t[x] < t[y]
      BY <2>3 DEF Increasing
    <3>1. d + x \in 1..Len(s) /\ d + y \in 1..Len(s) /\ d + x < d + y
      BY <1>1, <2>1
    <3>. QED BY <1>1, <2>3, <3>1 DEF Increasing
  <2>5. In(t) \subseteq In(s)
    <3>. SUFFICES ASSUME NEW x \in 1..n PROVE t[x] \in In(s)
      BY <2>3 DEF In
    <3>1. d + x \in 1..Len(s)
      BY <1>1, <2>1
    <3>. QED BY <1>1, <2>3, <3>1 DEF In
  <2>6. ASSUME NEW b \in In(s) \ In(t), NEW c \in In(t)
        PROVE  b < c
    <3>1. PICK x \in 1..Len(s) : s[x] = b
      BY <1>1 DEF In
    <3>2. PICK y \in 1..n : t[y] = c
      BY <2>3 DEF In
    <3>3. x <= d
      <4>. SUFFICES ASSUME x > d PROVE FALSE
        BY <1>1, <2>1
      <4>1. x - d \in 1..n /\ d + (x - d) = x
        BY <1>1, <2>1
      <4>2. t[x - d] = b
        BY <2>3, <3>1, <4>1
      <4>. QED BY <2>3, <4>1, <4>2 DEF In
    <3>4. d + y \in 1..Len(s) /\ x < d + y
      BY <1>1, <2>1, <3>3
    <3>. QED BY <1>1, <2>3, <3>1, <3>2, <3>4 DEF Increasing
  <2>. QED BY <2>3, <2>4, <2>5, <2>6 DEF t
<1>. QED BY <1>1, <1>2, <1>3

------------------------------------------------------------------------------
(* The directory, step by step.                                             *)

LEMMA MinIsLeast ==
  ASSUME NEW S \in SUBSET Nat, IsFiniteSet(S), S # {}
  PROVE  Min(S) \in S /\ \A y \in S : Min(S) <= y
<1>. DEFINE a == Ascending(S)
            N == Cardinality(S)
<1>1. /\ N \in Nat /\ a \in [1..N -> S]
      /\ \A m, n \in 1..N : m < n => a[m] < a[n]
      /\ \A i \in S : \E n \in 1..N : a[n] = i
  BY AscendingIsSorted
<1>. HIDE DEF a, N
<1>2. PICK i \in S : TRUE
  OBVIOUS
<1>3. 1 \in 1..N /\ a[1] \in S
  BY <1>1, <1>2
<1>4. ASSUME NEW y \in S
      PROVE  a[1] <= y
  <2>1. PICK n \in 1..N : a[n] = y
    BY <1>1
  <2>2. n = 1 \/ 1 < n
    BY <1>1
  <2>3. a[1] \in Nat /\ y \in Nat
    BY <1>3
  <2>4. 1 < n => a[1] < a[n]
    BY <1>1, <1>3
  <2>. QED BY <2>1, <2>2, <2>3, <2>4
<1>. QED BY <1>3, <1>4 DEF Min

(* Files only move up: every byte of E was in D, in the same file or in one *)
(* of a lower number, or it is of a write from m on.                        *)
Upward(D, E, m) ==
  \A i \in Files : \A b \in In(FileOf(E, i)) :
    b >= m \/ \E j \in Files : j <= i /\ b \in In(FileOf(D, j))

Walk(s, m) ==
  /\ s \in Seq(Disks) /\ Len(s) >= 1
  /\ \A n \in 1..Len(s) : Ordered(s[n])
  /\ \A n \in 1..Len(s) - 1 : Below(s[n], m) /\ Upward(s[n], s[n + 1], m)

LEMMA UntilWalks ==
  ASSUME NEW s, NEW m, Walk(s, m), Below(s[Len(s)], m), NEW E \in Disks, Ordered(E),
         (\E n \in 1..Len(s) : s[n] = E) \/ Upward(s[Len(s)], E, m)
  PROVE  LET t == Until(s, E)
         IN  Walk(t, m) /\ t[1] = s[1] /\ t[Len(t)] = E
<1>. DEFINE t == Until(s, E)
            I == {n \in 1..Len(s) : s[n] = E}
            k == IF I # {} THEN Min(I) ELSE 0
            u == IF k = 0 THEN s ELSE SubSeq(s, 1, k - 1)
<1>1. s \in Seq(Disks) /\ Len(s) \in Nat /\ Len(s) >= 1
  BY DEF Walk
<1>2. t = u \o <<E>>
  BY DEF Until, SelectInSeq
<1>3. IsFiniteSet(1..Len(s)) /\ I \in SUBSET (1..Len(s)) /\ I \in SUBSET Nat
  <2>1. IsFiniteSet(1..Len(s))
    BY <1>1, FS_Interval
  <2>. QED BY <1>1, <2>1
<1>4. IsFiniteSet(I)
  <2>. HIDE DEF I
  <2>. QED BY <1>3, FS_Subset, Zenon
<1>5. I # {} => k \in I
  <2>. HIDE DEF I
  <2>. QED BY <1>3, <1>4, MinIsLeast
<1>6. k \in 0..Len(s) /\ (k # 0 => s[k] = E) /\ (k = 0 => \A n \in 1..Len(s) : s[n] # E)
  BY <1>1, <1>5
<1>. HIDE DEF k, I
<1>. DEFINE L == IF k = 0 THEN Len(s) ELSE k - 1
<1>7. u \in Seq(Disks) /\ Len(u) = L /\ L \in 0..Len(s) /\ \A n \in 1..L : u[n] = s[n]
  BY <1>1, <1>6
<1>. HIDE DEF u, L
<1>8. /\ t \in Seq(Disks) /\ Len(t) = L + 1 /\ t[L + 1] = E
      /\ \A n \in 1..L : t[n] = s[n]
  BY <1>2, <1>7
<1>. HIDE DEF t
<1>9. L = Len(s) \/ (L + 1 \in 1..Len(s) /\ s[L + 1] = E)
  BY <1>1, <1>6 DEF L
<1>10. \A n \in 1..Len(s) : Ordered(s[n]) /\ Below(s[n], m)
  <2>. SUFFICES ASSUME NEW n \in 1..Len(s) PROVE Ordered(s[n]) /\ Below(s[n], m)
    OBVIOUS
  <2>1. n = Len(s) \/ n \in 1..Len(s) - 1
    BY <1>1
  <2>. QED BY <2>1 DEF Walk
<1>11. \A n \in 1..L + 1 : n \in 1..L \/ n = L + 1
  BY <1>7
<1>12. \A n \in 1..L + 1 : Ordered(t[n])
  BY <1>1, <1>7, <1>8, <1>10, <1>11
<1>13. ASSUME NEW n \in 1..L
       PROVE  Below(t[n], m) /\ Upward(t[n], t[n + 1], m)
  <2>1. n \in 1..Len(s) /\ t[n] = s[n]
    BY <1>1, <1>7, <1>8, <1>13
  <2>2. CASE n < L
    <3>1. n + 1 \in 1..L /\ n \in 1..Len(s) - 1
      BY <1>1, <1>7, <2>2
    <3>2. t[n + 1] = s[n + 1]
      BY <1>8, <3>1
    <3>. QED BY <2>1, <3>1, <3>2 DEF Walk
  <2>3. CASE n = L /\ L = Len(s)
    <3>1. Upward(s[n], E, m)
      <4>1. k = 0
        BY <1>1, <1>6, <2>3 DEF L
      <4>. QED BY <1>6, <2>3, <4>1
    <3>. QED BY <1>8, <1>10, <2>1, <2>3, <3>1
  <2>4. CASE n = L /\ L + 1 \in 1..Len(s) /\ s[L + 1] = E
    <3>1. n \in 1..Len(s) - 1
      BY <1>1, <1>7, <2>4
    <3>. QED BY <1>8, <2>1, <2>4, <3>1 DEF Walk
  <2>5. n < L \/ n = L
    BY <1>7
  <2>. QED BY <1>9, <2>2, <2>3, <2>4, <2>5
<1>14. t[1] = s[1]
  <2>1. L = 0 \/ 1 \in 1..L
    BY <1>7
  <2>. QED BY <1>1, <1>8, <1>9, <2>1
<1>15. Walk(t, m)
  <2>1. Len(t) = L + 1 /\ Len(t) >= 1 /\ 1..Len(t) - 1 = 1..L
    BY <1>7, <1>8
  <2>. QED BY <1>8, <1>12, <1>13, <2>1 DEF Walk
<1>. QED BY <1>8, <1>14, <1>15 DEF t
LEMMA NothingInEmpty ==
  In(<<>>) = {} /\ \A D, i : D[i] = Missing \/ D[i] = <<>> => In(FileOf(D, i)) = {}
<1>1. In(<<>>) = {}
  BY DEF In
<1>. QED BY <1>1 DEF FileOf

LEMMA MovedUpward ==
  ASSUME NEW D, NEW E, NEW m,
         \A i \in Files : \/ E[i] = Missing \/ E[i] = <<>>
                          \/ \E j \in Files : j <= i /\ E[i] = D[j]
  PROVE  Upward(D, E, m)
<1>. SUFFICES ASSUME NEW i \in Files, NEW b \in In(FileOf(E, i))
              PROVE  \E j \in Files : j <= i /\ b \in In(FileOf(D, j))
  BY DEF Upward
<1>1. ~(E[i] = Missing \/ E[i] = <<>>)
  BY NothingInEmpty
<1>2. PICK j \in Files : j <= i /\ E[i] = D[j]
  BY <1>1
<1>. QED BY <1>2 DEF FileOf

LEMMA StayedUpward ==
  ASSUME NEW D, NEW E, NEW m,
         \A i \in Files : E[i] = Missing \/ E[i] = <<>> \/ E[i] = D[i]
  PROVE  Upward(D, E, m)
<1>1. \A i \in Files : i <= i
  BY LogAssumption DEF Files
<1>. QED BY <1>1, MovedUpward

LEMMA RenamesWalk ==
  ASSUME LogInv
  PROVE  /\ Walk(Renames, next) /\ Upward(disk, Renames[1], next)
         /\ Renames[Len(Renames)] = Shifted(0) /\ Below(Shifted(0), next)
         /\ \A j \in 0..limits.backups : \E n \in 1..Len(Renames) : Renames[n] = Shifted(j)
<1>. DEFINE b == limits.backups
<1>1. Files = 0..Top /\ Top \in Nat /\ b \in 0..Top
  BY LogAssumption DEF LogInv, TypeOK, Limits, Files
<1>2. \A j \in 0..b : Orderly(Shifted(j))
  BY ShiftedOrderly DEF LogInv
<1>3. \A j \in 0..b : Shifted(j) \in Disks /\ Ordered(Shifted(j)) /\ Below(Shifted(j), next)
  BY <1>2 DEF Orderly
<1>4. Renames = [i \in 1..b + 1 |-> Shifted(b + 1 - i)]
  BY DEF Renames
<1>5. \A i \in 1..b + 1 : b + 1 - i \in 0..b
  BY <1>1
<1>6. Renames \in Seq(Disks) /\ Len(Renames) = b + 1
  <2>1. \A i \in 1..b + 1 : Shifted(b + 1 - i) \in Disks
    BY <1>3, <1>5
  <2>2. Renames \in [1..b + 1 -> Disks]
    BY <1>4, <2>1
  <2>3. b + 1 \in Nat
    BY <1>1
  <2>. HIDE DEF b
  <2>. QED BY <2>2, <2>3
<1>7. \A j \in 0..b : b + 1 - j \in 1..b + 1 /\ b + 1 - (b + 1 - j) = j
  BY <1>1
<1>8. \A j \in 0..b : Renames[b + 1 - j] = Shifted(j)
  BY <1>4, <1>7
<1>9. b + 1 \in 1..b + 1 /\ b + 1 - (b + 1) = 0
  BY <1>1
<1>10. Renames[b + 1] = Shifted(0)
  BY <1>4, <1>9
<1>11. Upward(disk, Renames[1], next)
  <2>1. Renames[1] = Shifted(b)
    BY <1>1, <1>4
  <2>2. \A i \in Files : \/ Shifted(b)[i] = Missing
                         \/ \E j \in Files : j <= i /\ Shifted(b)[i] = disk[j]
    <3>. SUFFICES ASSUME NEW i \in Files, Shifted(b)[i] # Missing
                  PROVE  \E j \in Files : j <= i /\ Shifted(b)[i] = disk[j]
      OBVIOUS
    <3>1. Shifted(b)[i] = disk[i] /\ i <= i
      BY <1>1 DEF Shifted
    <3>. QED BY <3>1
  <2>. QED BY <2>1, <2>2, MovedUpward
<1>12. ASSUME NEW n \in 1..b
       PROVE  Upward(Renames[n], Renames[n + 1], next)
  <2>. DEFINE j == b + 1 - n
  <2>1. j \in 1..b /\ j - 1 \in 0..b /\ n + 1 \in 1..b + 1 /\ b + 1 - (n + 1) = j - 1
        /\ n \in 1..b + 1
    BY <1>1
  <2>2. Renames[n] = Shifted(j) /\ Renames[n + 1] = Shifted(j - 1)
    BY <1>4, <2>1
  <2>. HIDE DEF j
  <2>3. ASSUME NEW i \in Files, Shifted(j - 1)[i] # Missing
        PROVE  \E k \in Files : k <= i /\ Shifted(j - 1)[i] = Shifted(j)[k]
    <3>1. CASE i = j
      <4>1. j - 1 \in Files /\ j - 1 <= i
        BY <1>1, <2>1, <3>1
      <4>2. Shifted(j - 1)[i] = disk[i - 1] /\ Shifted(j)[j - 1] = disk[j - 1]
        BY <1>1, <2>1, <3>1, <4>1 DEF Shifted
      <4>. QED BY <3>1, <4>1, <4>2
    <3>2. CASE i # j
      <4>1. Shifted(j - 1)[i] = Shifted(j)[i] /\ i <= i
        BY <1>1, <2>1, <2>3, <3>2 DEF Shifted
      <4>. QED BY <4>1
    <3>. QED BY <3>1, <3>2
  <2>4. Upward(Shifted(j), Shifted(j - 1), next)
    BY <2>3, MovedUpward
  <2>. QED BY <2>2, <2>4
<1>. HIDE DEF b
<1>13. \A n \in 1..b + 1 : Ordered(Renames[n]) /\ Below(Renames[n], next)
  BY <1>3, <1>4, <1>5
<1>14. Walk(Renames, next)
  <2>1. Len(Renames) >= 1 /\ 1..Len(Renames) - 1 = 1..b /\ \A n \in 1..b : n \in 1..b + 1
    BY <1>1, <1>6
  <2>. QED BY <1>6, <1>12, <1>13, <2>1 DEF Walk
<1>15. \A j \in 0..b : \E n \in 1..Len(Renames) : Renames[n] = Shifted(j)
  BY <1>6, <1>7, <1>8
<1>16. 0 \in 0..b
  BY <1>1
<1>. QED BY <1>3, <1>6, <1>10, <1>11, <1>14, <1>15, <1>16 DEF b

(* The archives up to number k are removed.                                 *)
Removed(k) == [i \in Files |-> IF 0 < i /\ i <= k THEN Missing ELSE Emptied[i]]

LEMMA RemovalsWalk ==
  ASSUME LogInv
  PROVE  /\ Walk(Removals, next) /\ Upward(disk, Removals[1], next)
         /\ Below(Removals[Len(Removals)], next)
         /\ Upward(Removals[Len(Removals)], Opened(Purged), next)
         /\ \A D \in PartlyPurged \ {disk} : \E n \in 1..Len(Removals) : Removals[n] = D
<1>1. Files = 0..Top /\ Top \in Nat /\ DOMAIN disk = Files /\ 0 \in Files
  BY LogAssumption DEF LogInv, TypeOK, Files
<1>2. \A k \in Files : Removed(k) \in PartlyPurged
  BY DEF PartlyPurged, Removed
<1>3. \A k \in Files : Removed(k) \in Disks /\ Ordered(Removed(k)) /\ Below(Removed(k), next)
  BY <1>2, PurgedOrderly DEF Orderly
<1>4. ASSUME NEW n \in 1..Top + 1
      PROVE  n - 1 \in Files /\ Removals[n] = Removed(n - 1)
  <2>1. n - 1 \in Files /\ \A i \in Files : i < n <=> i <= n - 1
    BY <1>1
  <2>. QED BY <2>1 DEF Removals, Removed
<1>12. ASSUME NEW k \in Files
       PROVE  k + 1 \in 1..Top + 1 /\ Removals[k + 1] = Removed(k)
  <2>1. k + 1 \in 1..Top + 1 /\ \A i \in Files : i < k + 1 <=> i <= k
    BY <1>1
  <2>. QED BY <2>1 DEF Removals, Removed
<1>5. Removals \in Seq(Disks) /\ Len(Removals) = Top + 1
  <2>1. Removals = [n \in 1..Top + 1 |-> Removals[n]]
    BY DEF Removals
  <2>2. \A n \in 1..Top + 1 : Removals[n] \in Disks
    BY <1>3, <1>4
  <2>3. Top + 1 \in Nat
    BY <1>1
  <2>4. Removals \in [1..Top + 1 -> Disks]
    BY <2>1, <2>2
  <2>. QED BY <2>3, <2>4
<1>6. \A i \in Files : Emptied[i] = disk[i] \/ Emptied[i] = <<>>
  BY <1>1 DEF Emptied
<1>7. Upward(disk, Removals[1], next)
  <2>1. 1 \in 1..Top + 1
    BY <1>1
  <2>2. \A i \in Files : Removed(0)[i] = Missing \/ Removed(0)[i] = <<>> \/ Removed(0)[i] = disk[i]
    BY <1>6 DEF Removed
  <2>3. Removals[1] = Removed(0)
    BY <1>4, <2>1
  <2>. QED BY <2>2, <2>3, StayedUpward
<1>8. ASSUME NEW n \in 1..Top
      PROVE  Upward(Removals[n], Removals[n + 1], next)
  <2>1. n \in 1..Top + 1 /\ n + 1 \in 1..Top + 1 /\ n + 1 - 1 = n /\ n \in Files /\ n - 1 \in Files
    BY <1>1
  <2>2. \A i \in Files : Removed(n)[i] = Missing \/ Removed(n)[i] = Removed(n - 1)[i]
    BY <1>1, <2>1 DEF Removed
  <2>3. Removals[n] = Removed(n - 1) /\ Removals[n + 1] = Removed(n)
    BY <1>4, <2>1
  <2>. QED BY <2>2, <2>3, StayedUpward
<1>9. Walk(Removals, next) /\ Below(Removals[Top + 1], next)
  <2>1. \A n \in 1..Top + 1 : Ordered(Removals[n]) /\ Below(Removals[n], next)
    BY <1>3, <1>4
  <2>2. /\ Len(Removals) >= 1 /\ 1..Len(Removals) - 1 = 1..Top /\ Top + 1 \in 1..Top + 1
        /\ \A n \in 1..Top : n \in 1..Top + 1
    BY <1>1, <1>5
  <2>. QED BY <1>5, <1>8, <2>1, <2>2 DEF Walk
<1>10. Upward(Removals[Top + 1], Opened(Purged), next)
  <2>2. Removals[Top + 1] = Removed(Top)
    BY <1>1, <1>12
  <2>3. \A i \in Files : \/ Opened(Purged)[i] = Missing \/ Opened(Purged)[i] = <<>>
                         \/ Opened(Purged)[i] = Removed(Top)[i]
    BY <1>1 DEF Opened, Purged, Removed
  <2>. QED BY <2>2, <2>3, StayedUpward
<1>11. ASSUME NEW D \in PartlyPurged \ {disk}
       PROVE  \E n \in 1..Top + 1 : Removals[n] = D
  <2>1. PICK k \in Files : D = Removed(k)
    BY DEF PartlyPurged, Removed
  <2>. QED BY <1>12, <2>1
<1>. QED BY <1>5, <1>7, <1>9, <1>10, <1>11
LEMMA OneStepWalks ==
  ASSUME LogInv, LogInv', InOneStep
  PROVE  Upward(disk, disk', next)
<1>1. /\ disk \in Disks /\ Files = 0..Top /\ 0 \in Files /\ DOMAIN disk = Files
      /\ next \in 1..MaxWrites + 1
  BY LogAssumption DEF LogInv, TypeOK, Orderly, Disks, Files
<1>2. CASE UNCHANGED disk
  BY <1>2, StayedUpward
<1>3. CASE disk' \in {Opened(disk), Emptied, Opened(Emptied), [disk EXCEPT ![0] = <<>>]}
  <2>1. \A i \in Files : disk'[i] = Missing \/ disk'[i] = <<>> \/ disk'[i] = disk[i]
    BY <1>1, <1>3 DEF Opened, Emptied
  <2>. QED BY <2>1, StayedUpward
<1>4. ASSUME NEW n \in Lengths, Write(n)
      PROVE  Upward(disk, disk', next)
  <2>1. PICK k \in 0..n : disk' = Put(disk, Content(0), k)
    BY <1>4 DEF Write, Put
  <2>2. k \in Nat /\ next <= MaxWrites /\ Content(0) \in Seq(1..MaxWrites)
        /\ (Content(0) = <<>> \/ (disk[0] # Missing /\ Content(0) = disk[0]))
    <3>1. n \in Nat /\ handle # "stuck" /\ next <= MaxWrites
      BY <1>4, LogAssumption DEF Write, Writing
    <3>. QED BY <3>1, KnownIsEnough
  <2>3. \A x \in DOMAIN disk'[0] :
          disk'[0][x] = next \/ (x \in DOMAIN Content(0) /\ disk'[0][x] = Content(0)[x])
    BY <2>1, <2>2, WrittenOrderly DEF LogInv
  <2>4. \A i \in Files : i # 0 => disk'[i] = disk[i]
    BY <1>1, <2>1 DEF Put
  <2>. SUFFICES ASSUME NEW i \in Files, NEW b \in In(FileOf(disk', i)), ~(b >= next)
                PROVE  \E j \in Files : j <= i /\ b \in In(FileOf(disk, j))
    BY DEF Upward
  <2>5. i <= i /\ next <= next
    BY <1>1
  <2>6. CASE i # 0
    BY <2>4, <2>5, <2>6 DEF FileOf
  <2>7. CASE i = 0
    <3>1. disk'[0] # Missing /\ b \in In(disk'[0])
      BY <2>7, NothingInEmpty DEF FileOf
    <3>2. b \in In(Content(0))
      BY <2>3, <2>5, <3>1 DEF In
    <3>. QED BY <1>1, <2>5, <2>7, <3>2 DEF FileOf, Content
  <2>. QED BY <2>6, <2>7
<1>. QED BY <1>2, <1>3, <1>4
     DEF InOneStep, Continue, Launch, SetLimits, Truncate, ClearSystemLog, Close, Forget, Crash,
         Reopen, Stick, GiveUp

LEMMA RotatingWalks ==
  ASSUME LogInv, LogInv', Rotating, disk' # disk
  PROVE  Walk(Until(Renames, disk'), next) /\ Upward(disk, Until(Renames, disk')[1], next)
         /\ Until(Renames, disk')[Len(Until(Renames, disk'))] = disk'
<1>1. /\ disk \in Disks /\ Files = 0..Top /\ 0 \in Files /\ DOMAIN disk = Files
      /\ next \in 1..MaxWrites + 1
  BY LogAssumption DEF LogInv, TypeOK, Orderly, Disks, Files
<1>2. disk' \in Disks /\ Ordered(disk')
  BY DEF LogInv, Orderly
<1>3. /\ Walk(Renames, next) /\ Upward(disk, Renames[1], next)
      /\ Renames[Len(Renames)] = Shifted(0) /\ Below(Shifted(0), next)
  BY RenamesWalk
<1>4. (\E n \in 1..Len(Renames) : Renames[n] = disk') \/ Upward(Shifted(0), disk', next)
  <2>1. CASE disk' \in PartlyRotated
    BY <2>1, RenamesWalk DEF PartlyRotated
  <2>2. CASE disk' = Opened(Shifted(0))
    <3>1. \A i \in Files : disk'[i] = Missing \/ disk'[i] = <<>> \/ disk'[i] = Shifted(0)[i]
      BY <1>1, <2>2 DEF Opened, Shifted
    <3>. QED BY <3>1, StayedUpward
  <2>3. ASSUME NEW n \in Lengths, RotateAndWrite(n)
        PROVE  Upward(Shifted(0), disk', next)
    <3>1. PICK k \in 0..n : disk' = Rotated(Bytes(k))
      BY <2>3 DEF RotateAndWrite
    <3>2. \A i \in Files : i # 0 => disk'[i] = Shifted(0)[i]
      BY <1>1, <3>1 DEF Rotated, Shifted
    <3>3. disk'[0] = Bytes(k)
      BY <1>1, <3>1 DEF Rotated, Shifted
    <3>4. \A b \in In(FileOf(disk', 0)) : b = next
      <4>1. \A b \in In(Bytes(k)) : b = next
        BY DEF In, Bytes
      <4>. QED BY <3>3, <4>1, NothingInEmpty DEF FileOf
    <3>. SUFFICES ASSUME NEW i \in Files, NEW b \in In(FileOf(disk', i))
                  PROVE  b >= next \/ \E j \in Files : j <= i /\ b \in In(FileOf(Shifted(0), j))
      BY DEF Upward
    <3>5. i <= i /\ next >= next
      BY <1>1
    <3>. QED BY <3>2, <3>4, <3>5 DEF FileOf
  <2>. QED BY <2>1, <2>2, <2>3 DEF Rotating, LaunchFails, Launch, RotationFails, Reopen, GiveUp
<1>. QED BY <1>2, <1>3, <1>4, UntilWalks

LEMMA ClearingWalks ==
  ASSUME LogInv, LogInv', ClearLogs, disk' # disk
  PROVE  Walk(Until(Removals, disk'), next) /\ Upward(disk, Until(Removals, disk')[1], next)
         /\ Until(Removals, disk')[Len(Until(Removals, disk'))] = disk'
<1>1. disk' \in Disks /\ Ordered(disk')
  BY DEF LogInv, Orderly
<1>2. /\ Walk(Removals, next) /\ Upward(disk, Removals[1], next)
      /\ Below(Removals[Len(Removals)], next)
  BY RemovalsWalk
<1>3. disk' \in PartlyPurged \/ disk' = Opened(Purged)
  BY DEF ClearLogs, Reopen, Stick, GiveUp
<1>4. \/ \E n \in 1..Len(Removals) : Removals[n] = disk'
      \/ Upward(Removals[Len(Removals)], disk', next)
  BY <1>3, RemovalsWalk
<1>. QED BY <1>1, <1>2, <1>4, UntilWalks

(* The directory d will in the end be D, and what it still goes through has *)
(* no byte of a write from m on.                                            *)
Listed(d, D, m, n) == Walk(d, m) /\ d[Len(d)] = D /\ m \in 1..n /\ (Len(d) = 1 => m = n)

LEMMA OneIsListed ==
  ASSUME NEW D \in Disks, Ordered(D), NEW n \in Nat \ {0}
  PROVE  Listed(<<D>>, D, n, n)
<1>1. <<D>> \in Seq(Disks) /\ Len(<<D>>) = 1 /\ <<D>>[1] = D
  OBVIOUS
<1>2. 1..1 - 1 = {} /\ \A k \in 1..1 : k = 1
  OBVIOUS
<1>. QED BY <1>1, <1>2 DEF Listed, Walk

(* A call of the writer, or its next file: the directory now, D, becomes E. *)
Passed(D, E, m) ==
  /\ D \in Disks /\ E \in Disks /\ Ordered(D) /\ Ordered(E) /\ Below(D, m)
  /\ Upward(D, E, m)

LEMMA WalkStarts ==
  ASSUME NEW d, NEW m, Walk(d, m)
  PROVE  d[1] \in Disks /\ Ordered(d[1])
<1>1. 1 \in 1..Len(d) /\ d \in Seq(Disks)
  BY DEF Walk
<1>. QED BY <1>1 DEF Walk

LEMMA WriterPasses ==
  ASSUME LogInv, LogInv', NEW m, Listed(dir, disk, m, next), Writer
  PROVE  /\ Passed(Now, Now', m)
         /\ \E k \in m..next' : Listed(dir', disk', k, next')
<1>1. /\ dir \in Seq(Disks) /\ Len(dir) = 1 /\ Now = disk /\ dir = <<disk>> /\ m = next
      /\ disk \in Disks /\ Ordered(disk) /\ Below(disk, next)
      /\ disk' \in Disks /\ Ordered(disk')
  BY DEF Listed, Walk, Now, Writer, LogInv, Orderly
<1>2. next \in Nat \ {0} /\ next' \in {next, next + 1}
  BY LogAssumption DEF LogInv, TypeOK, Writer, InOneStep, Rotating, Continue, Launch, Write,
     SetLimits, Truncate, ClearSystemLog, Close, Forget, Crash, LaunchFails, RotateAndWrite,
     RotationFails, ClearLogs
<1>3. next' \in Nat \ {0} /\ next' >= next
  BY <1>2
<1>4. CASE dir' = <<disk'>> /\ Upward(disk, disk', next)
  <2>1. Listed(dir', disk', next', next')
    BY <1>1, <1>3, <1>4, OneIsListed
  <2>2. Now' = disk' /\ next' \in m..next'
    BY <1>1, <1>3, <1>4 DEF Now
  <2>. QED BY <1>1, <1>4, <2>1, <2>2 DEF Passed
<1>5. ASSUME NEW t, Walk(t, next), t[Len(t)] = disk', Upward(disk, t[1], next), dir' = t
      PROVE  /\ Passed(Now, Now', m)
             /\ \E k \in m..next' : Listed(dir', disk', k, next')
  <2>1. Now' = t[1] /\ t[1] \in Disks /\ Ordered(t[1])
    BY <1>5, WalkStarts DEF Now
  <2>2. Passed(Now, Now', m)
    BY <1>1, <1>5, <2>1 DEF Passed
  <2>3. CASE Len(t) = 1
    <3>1. t = <<disk'>>
      BY <1>5, <2>3 DEF Walk
    <3>2. next' \in m..next'
      BY <1>1, <1>3
    <3>. QED BY <1>1, <1>3, <1>5, <2>2, <3>1, <3>2, OneIsListed
  <2>4. CASE Len(t) # 1
    <3>1. m \in m..next' /\ m \in 1..next'
      BY <1>1, <1>2, <1>3
    <3>. QED BY <1>1, <1>5, <2>2, <2>4, <3>1 DEF Listed
  <2>. QED BY <2>3, <2>4
<1>6. CASE InOneStep /\ dir' = <<disk'>>
  BY <1>4, <1>6, OneStepWalks
<1>7. CASE Rotating /\ dir' = IF disk' = disk THEN dir ELSE Until(Renames, disk')
  BY <1>1, <1>4, <1>5, <1>7, RotatingWalks, StayedUpward
<1>8. CASE ClearLogs /\ dir' = IF disk' = disk THEN dir ELSE Until(Removals, disk')
  BY <1>1, <1>4, <1>5, <1>8, ClearingWalks, StayedUpward
<1>. QED BY <1>6, <1>7, <1>8 DEF Writer

LEMMA NextFilePasses ==
  ASSUME LogInv, NEW m, Listed(dir, disk, m, next), NextFile
  PROVE  /\ Passed(Now, Now', m)
         /\ \E k \in m..next : Listed(dir', disk, k, next)
<1>1. /\ dir \in Seq(Disks) /\ Len(dir) \in Nat /\ Len(dir) > 1 /\ dir' = Tail(dir)
      /\ next \in Nat /\ m \in 1..next
  BY LogAssumption DEF Listed, Walk, NextFile, LogInv, TypeOK
<1>2. /\ dir' \in Seq(Disks) /\ Len(dir') = Len(dir) - 1
      /\ \A n \in 1..Len(dir) - 1 : dir'[n] = dir[n + 1]
  BY <1>1
<1>3. 1 \in 1..Len(dir) - 1 /\ 1 \in 1..Len(dir) /\ 2 \in 1..Len(dir) /\ 1 + 1 = 2
  BY <1>1
<1>4. Passed(dir[1], dir[2], m)
  BY <1>1, <1>3 DEF Listed, Walk, Passed
<1>5. Walk(dir', m)
  <2>1. \A n \in 1..Len(dir') : Ordered(dir'[n])
    <3>. SUFFICES ASSUME NEW n \in 1..Len(dir') PROVE Ordered(dir'[n])
      OBVIOUS
    <3>1. n + 1 \in 1..Len(dir) /\ n \in 1..Len(dir) - 1
      BY <1>1, <1>2
    <3>. QED BY <1>2, <3>1 DEF Listed, Walk
  <2>2. \A n \in 1..Len(dir') - 1 : Below(dir'[n], m) /\ Upward(dir'[n], dir'[n + 1], m)
    <3>. SUFFICES ASSUME NEW n \in 1..Len(dir') - 1
                  PROVE  Below(dir'[n], m) /\ Upward(dir'[n], dir'[n + 1], m)
      OBVIOUS
    <3>1. n + 1 \in 1..Len(dir) - 1 /\ n \in 1..Len(dir) - 1
      BY <1>1, <1>2
    <3>. QED BY <1>2, <3>1 DEF Listed, Walk
  <2>. QED BY <1>1, <1>2, <2>1, <2>2 DEF Walk
<1>6. dir'[Len(dir')] = disk /\ Now' = dir[2] /\ Now = dir[1]
  BY <1>1, <1>2, <1>3 DEF Listed, Now
<1>7. CASE Len(dir') = 1
  <2>1. dir' = <<disk>> /\ Len(<<disk>>) = 1
    <3>1. dir' \in Seq(Disks) /\ dir'[1] = disk
      BY <1>2, <1>6, <1>7
    <3>. QED BY <1>7, <3>1
  <2>2. disk \in Disks /\ Ordered(disk) /\ next \in Nat \ {0} /\ next \in m..next
    BY <1>1 DEF LogInv, Orderly
  <2>. QED BY <1>4, <1>6, <2>1, <2>2, OneIsListed
<1>8. CASE Len(dir') # 1
  <2>1. m \in m..next
    BY <1>1
  <2>. QED BY <1>1, <1>4, <1>5, <1>6, <1>8, <2>1 DEF Listed
<1>. QED BY <1>7, <1>8
------------------------------------------------------------------------------
(* The reader.                                                              *)

Readers ==
  [kind : {"none", "tail", "download", "stream"}, todo : Seq(Files), got : Seq(Nat), last : Int,
   stayed : SUBSET Nat, moved : BOOLEAN, holes : BOOLEAN]

(* The reader r has the line w or will come to the file it is in.           *)
InHand(D, r, w) ==
  w \in In(r.got) \/ \E n \in DOMAIN r.todo : w \in In(FileOf(D, r.todo[n]))

(* A tail has every line that stayed, or only newer ones; and what it lacks *)
(* is ahead of it, since files only move up.                                *)
TailOK(D, r) ==
  r.kind = "tail" =>
    /\ r.todo # <<>> => Len(r.got) < Lines
    /\ ~r.holes =>
       /\ \A n \in DOMAIN r.todo : r.todo[n] = r.todo[1] + n - 1
       /\ \A w \in r.stayed : w \in In(r.got) \/ \A u \in In(r.got) : w < u
       /\ r.todo # <<>> => \A w \in r.stayed :
            w \in In(r.got) \/ \E i \in Files : r.todo[1] <= i /\ w \in In(FileOf(D, i))
       /\ ~r.moved /\ Len(r.got) < Lines => \A w \in r.stayed : InHand(D, r, w)

(* What a download has is older than all that is in the files it has still  *)
(* to read, and in those below them.                                        *)
DownloadOK(D, r) ==
  r.kind = "download" =>
    /\ \A x, y \in DOMAIN r.todo : x < y => r.todo[x] > r.todo[y]
    /\ Increasing(r.got)
    /\ r.todo # <<>> => \A b \in In(r.got), i \in Files :
         i <= r.todo[1] => \A c \in In(FileOf(D, i)) : b < c
    /\ ~r.moved => \A w \in r.stayed : InHand(D, r, w)

(* A stream has sent app.log as it was when it was not yet longer than now  *)
(* and at least as long as the size that was taken.                         *)
StreamOK(D, r) ==
  r.kind = "stream" /\ 0 <= r.last /\ ~r.moved =>
    /\ r.last <= Len(FileOf(D, 0))
    /\ r.todo = <<>> => \E n \in r.last..Len(FileOf(D, 0)) :
         r.got = LastLines(LinesOf(SubSeq(FileOf(D, 0), 1, n)), Lines)

ReaderInv(D, r, m) ==
  /\ r \in Readers
  /\ \A b \in In(r.got) : b < m
  /\ r.stayed \subseteq Shown(D)
  /\ TailOK(D, r) /\ DownloadOK(D, r) /\ StreamOK(D, r)

LEMMA FilesHold ==
  ASSUME NEW D \in Disks, Ordered(D)
  PROVE  /\ \A i \in Files : /\ FileOf(D, i) \in Seq(Nat) /\ Sorted(FileOf(D, i))
                             /\ Len(FileOf(D, i)) \in Nat /\ In(FileOf(D, i)) \subseteq Nat
         /\ \A i, j \in Files : j < i =>
              \A b \in In(FileOf(D, i)), c \in In(FileOf(D, j)) : b < c
         /\ \A m : Below(D, m) => \A i \in Files : \A b \in In(FileOf(D, i)) : b < m
<1>1. ASSUME NEW i \in Files
      PROVE  /\ FileOf(D, i) \in Seq(Nat) /\ Sorted(FileOf(D, i))
             /\ Len(FileOf(D, i)) \in Nat /\ In(FileOf(D, i)) \subseteq Nat
  <2>1. <<>> \in Seq(Nat) /\ Sorted(<<>>)
    BY DEF Sorted
  <2>2. CASE D[i] # Missing
    <3>1. D[i] \in Seq(1..MaxWrites) /\ MaxWrites \in Nat
      BY <2>2, LogAssumption DEF Disks
    <3>2. \A x \in DOMAIN D[i] : D[i][x] \in Nat
      BY <3>1, ByteOfFile
    <3>3. D[i] \in Seq(Nat)
      BY <3>1
    <3>4. Sorted(D[i])
      BY <2>2 DEF Ordered, Sorted
    <3>5. FileOf(D, i) = D[i]
      BY <2>2 DEF FileOf
    <3>. QED BY <3>2, <3>3, <3>4, <3>5 DEF In
  <2>3. CASE D[i] = Missing
    BY <2>1, <2>3, NothingInEmpty DEF FileOf
  <2>. QED BY <2>2, <2>3
<1>2. ASSUME NEW i \in Files, NEW j \in Files, j < i,
             NEW b \in In(FileOf(D, i)), NEW c \in In(FileOf(D, j))
      PROVE  b < c
  <2>1. D[i] # Missing /\ D[j] # Missing
    BY NothingInEmpty
  <2>2. PICK x \in DOMAIN D[i], y \in DOMAIN D[j] : b = D[i][x] /\ c = D[j][y]
    BY <2>1 DEF In, FileOf
  <2>. QED BY <1>2, <2>1, <2>2 DEF Ordered
<1>3. ASSUME NEW m, Below(D, m), NEW i \in Files, NEW b \in In(FileOf(D, i))
      PROVE  b < m
  <2>1. D[i] # Missing
    BY NothingInEmpty
  <2>2. PICK x \in DOMAIN D[i] : b = D[i][x]
    BY <2>1 DEF In, FileOf
  <2>. QED BY <1>3, <2>1, <2>2 DEF Below
<1>. QED BY <1>1, <1>2, <1>3

LEMMA PrefixHeld ==
  ASSUME NEW s \in Seq(Nat), NEW t \in Seq(Nat), IsPrefix(s, t)
  PROVE  /\ Len(s) <= Len(t) /\ \A x \in 1..Len(s) : s[x] = t[x]
         /\ In(s) \subseteq In(t)
         /\ \A n \in 0..Len(s) : SubSeq(s, 1, n) = SubSeq(t, 1, n)
<1>1. Len(s) \in Nat /\ Len(t) \in Nat /\ Len(s) <= Len(t)
  BY DEF IsPrefix
<1>2. ASSUME NEW x \in 1..Len(s)
      PROVE  s[x] = t[x]
  <2>1. SubSeq(s, 1, Len(s)) = SubSeq(t, 1, Len(s))
    BY DEF IsPrefix
  <2>2. SubSeq(s, 1, Len(s))[x] = s[x] /\ SubSeq(t, 1, Len(s))[x] = t[x]
    BY <1>1
  <2>. QED BY <2>1, <2>2
<1>3. \A x \in 1..Len(s) : x \in 1..Len(t)
  BY <1>1
<1>4. In(s) \subseteq In(t)
  BY <1>2, <1>3 DEF In
<1>5. ASSUME NEW n \in 0..Len(s)
      PROVE  SubSeq(s, 1, n) = SubSeq(t, 1, n)
  <2>1. SubSeq(s, 1, n) = [x \in 1..n |-> s[x]] /\ SubSeq(t, 1, n) = [x \in 1..n |-> t[x]]
    BY <1>1
  <2>2. \A x \in 1..n : s[x] = t[x]
    BY <1>1, <1>2
  <2>. QED BY <2>1, <2>2
<1>. QED BY <1>1, <1>2, <1>4, <1>5

(* A line that is still there has only moved up.                            *)
LEMMA LinesMoveUp ==
  ASSUME NEW D, NEW E, NEW m \in Nat, Passed(D, E, m), NEW w \in Shown(E), NEW i \in Files,
         w \in In(FileOf(D, i))
  PROVE  \E j \in Files : i <= j /\ w \in In(FileOf(E, j))
<1>1. PICK j \in Files : w \in In(FileOf(E, j))
  BY DEF Shown
<1>2. w \in Nat /\ w < m
  BY FilesHold DEF Passed
<1>3. PICK l \in Files : l <= j /\ w \in In(FileOf(D, l))
  BY <1>1, <1>2 DEF Passed, Upward
<1>4. i = l
  <2>1. ~(w < w) /\ i \in Int /\ l \in Int
    BY <1>2 DEF Files
  <2>2. ~(i < l) /\ ~(l < i)
    BY <1>3, <2>1, FilesHold DEF Passed
  <2>. QED BY <2>1, <2>2
<1>. QED BY <1>1, <1>3, <1>4

(* The directory moves on under the reader.                                 *)
LEMMA NoticedKeeps ==
  ASSUME NEW D, NEW E, NEW m \in Nat, NEW k \in Nat, m <= k, Passed(D, E, m),
         ReaderInv(D, reader, m)
  PROVE  ReaderInv(E, Noticed(D, E), k)
<1>. DEFINE r == reader
            q == Noticed(D, E)
            W == IF r.kind = "stream" THEN {0} ELSE Files
<1>1. /\ q \in Readers /\ q.kind = r.kind /\ q.todo = r.todo /\ q.got = r.got /\ q.last = r.last
      /\ q.holes = r.holes /\ q.stayed = r.stayed \cap Shown(E)
      /\ ~q.moved => ~r.moved /\ \A i \in W : IsPrefix(FileOf(D, i), FileOf(E, i))
  BY DEF ReaderInv, Readers, Noticed
<1>2. /\ r.kind \in {"none", "tail", "download", "stream"} /\ r.todo \in Seq(Files)
      /\ r.got \in Seq(Nat) /\ r.last \in Int /\ r.stayed \subseteq Nat
      /\ \A b \in In(r.got) : b < m
      /\ TailOK(D, r) /\ DownloadOK(D, r) /\ StreamOK(D, r)
  BY DEF ReaderInv, Readers
<1>3. /\ DOMAIN r.todo = 1..Len(r.todo) /\ Len(r.todo) \in Nat
      /\ \A n \in DOMAIN r.todo : r.todo[n] \in Files
      /\ r.todo # <<>> => r.todo[1] \in Files
  BY <1>2
<1>4. \A b \in In(r.got) : b \in Nat /\ b < k
  <2>1. \A b \in In(r.got) : b \in Nat
    BY <1>2 DEF In
  <2>. QED BY <1>2, <2>1
<1>5. 0 \in Files /\ \A i \in Files : i \in Nat
  BY LogAssumption DEF Files
<1>. HIDE DEF q, r
<1>6. \A w \in q.stayed, i \in Files : w \in In(FileOf(D, i)) =>
        \E j \in Files : i <= j /\ w \in In(FileOf(E, j))
  BY <1>1, LinesMoveUp
<1>7. \A i \in W : /\ FileOf(D, i) \in Seq(Nat) /\ FileOf(E, i) \in Seq(Nat)
                   /\ Len(FileOf(D, i)) \in Nat /\ Len(FileOf(E, i)) \in Nat
  BY <1>5, FilesHold DEF Passed
<1>8. ~q.moved => \A i \in W :
        /\ Len(FileOf(D, i)) <= Len(FileOf(E, i)) /\ In(FileOf(D, i)) \subseteq In(FileOf(E, i))
        /\ \A n \in 0..Len(FileOf(D, i)) : SubSeq(FileOf(D, i), 1, n) = SubSeq(FileOf(E, i), 1, n)
  BY <1>1, <1>7, PrefixHeld
<1>9. ASSUME r.kind # "stream", ~q.moved, NEW w \in q.stayed, InHand(D, r, w)
      PROVE  InHand(E, q, w)
  BY <1>1, <1>3, <1>8, <1>9 DEF InHand
<1>10. TailOK(E, q)
  <2>. SUFFICES ASSUME r.kind = "tail" PROVE TailOK(E, q)
    BY <1>1 DEF TailOK
  <2>1. r.todo # <<>> => Len(r.got) < Lines
    BY <1>2 DEF TailOK
  <2>. SUFFICES ASSUME ~r.holes
                PROVE
       /\ \A n \in DOMAIN q.todo : q.todo[n] = q.todo[1] + n - 1
       /\ \A w \in q.stayed : w \in In(q.got) \/ \A u \in In(q.got) : w < u
       /\ q.todo # <<>> => \A w \in q.stayed :
            w \in In(q.got) \/ \E i \in Files : q.todo[1] <= i /\ w \in In(FileOf(E, i))
       /\ ~q.moved /\ Len(q.got) < Lines => \A w \in q.stayed : InHand(E, q, w)
    BY <1>1, <2>1 DEF TailOK
  <2>2. /\ \A n \in DOMAIN r.todo : r.todo[n] = r.todo[1] + n - 1
        /\ \A w \in r.stayed : w \in In(r.got) \/ \A u \in In(r.got) : w < u
        /\ r.todo # <<>> => \A w \in r.stayed :
             w \in In(r.got) \/ \E i \in Files : r.todo[1] <= i /\ w \in In(FileOf(D, i))
        /\ ~r.moved /\ Len(r.got) < Lines => \A w \in r.stayed : InHand(D, r, w)
    BY <1>2 DEF TailOK
  <2>3. ASSUME q.todo # <<>>, NEW w \in q.stayed, w \notin In(q.got)
        PROVE  \E i \in Files : q.todo[1] <= i /\ w \in In(FileOf(E, i))
    <3>1. PICK i \in Files : r.todo[1] <= i /\ w \in In(FileOf(D, i))
      BY <1>1, <2>2, <2>3
    <3>2. PICK j \in Files : i <= j /\ w \in In(FileOf(E, j))
      BY <1>6, <3>1
    <3>3. r.todo[1] <= j
      BY <1>1, <1>3, <1>5, <2>3, <3>1, <3>2
    <3>. QED BY <1>1, <3>2, <3>3
  <2>. QED BY <1>1, <1>9, <2>2, <2>3
<1>11. DownloadOK(E, q)
  <2>. SUFFICES ASSUME r.kind = "download"
                PROVE
       /\ \A x, y \in DOMAIN q.todo : x < y => q.todo[x] > q.todo[y]
       /\ Increasing(q.got)
       /\ q.todo # <<>> => \A b \in In(q.got), i \in Files :
            i <= q.todo[1] => \A c \in In(FileOf(E, i)) : b < c
       /\ ~q.moved => \A w \in q.stayed : InHand(E, q, w)
    BY <1>1 DEF DownloadOK
  <2>1. /\ \A x, y \in DOMAIN r.todo : x < y => r.todo[x] > r.todo[y]
        /\ Increasing(r.got)
        /\ r.todo # <<>> => \A b \in In(r.got), i \in Files :
             i <= r.todo[1] => \A c \in In(FileOf(D, i)) : b < c
        /\ ~r.moved => \A w \in r.stayed : InHand(D, r, w)
    BY <1>2 DEF DownloadOK
  <2>2. ASSUME q.todo # <<>>, NEW b \in In(q.got), NEW i \in Files, i <= q.todo[1],
               NEW c \in In(FileOf(E, i))
        PROVE  b < c
    <3>1. c \in Nat /\ b \in Nat /\ b < m
      BY <1>1, <1>2, <1>4, FilesHold DEF Passed
    <3>2. CASE c >= m
      BY <3>1, <3>2
    <3>3. ASSUME NEW j \in Files, j <= i, c \in In(FileOf(D, j))
          PROVE  b < c
      <4>1. j <= r.todo[1]
        BY <1>1, <1>3, <1>5, <2>2, <3>3
      <4>. QED BY <1>1, <2>1, <2>2, <3>3, <4>1
    <3>. QED BY <3>2, <3>3 DEF Passed, Upward
  <2>. QED BY <1>1, <1>9, <2>1, <2>2
<1>12. StreamOK(E, q)
  <2>. SUFFICES ASSUME r.kind = "stream", 0 <= r.last, ~q.moved
                PROVE
       /\ q.last <= Len(FileOf(E, 0))
       /\ q.todo = <<>> => \E n \in q.last..Len(FileOf(E, 0)) :
            q.got = LastLines(LinesOf(SubSeq(FileOf(E, 0), 1, n)), Lines)
    BY <1>1 DEF StreamOK
  <2>1. /\ Len(FileOf(D, 0)) <= Len(FileOf(E, 0))
        /\ Len(FileOf(D, 0)) \in Nat /\ Len(FileOf(E, 0)) \in Nat
        /\ \A n \in 0..Len(FileOf(D, 0)) : SubSeq(FileOf(D, 0), 1, n) = SubSeq(FileOf(E, 0), 1, n)
    BY <1>7, <1>8
  <2>2. /\ r.last <= Len(FileOf(D, 0))
        /\ r.todo = <<>> => \E n \in r.last..Len(FileOf(D, 0)) :
             r.got = LastLines(LinesOf(SubSeq(FileOf(D, 0), 1, n)), Lines)
    BY <1>1, <1>2 DEF StreamOK
  <2>3. q.todo = <<>> => \E n \in q.last..Len(FileOf(E, 0)) :
          q.got = LastLines(LinesOf(SubSeq(FileOf(E, 0), 1, n)), Lines)
    <3>. SUFFICES ASSUME q.todo = <<>>
                  PROVE  \E n \in q.last..Len(FileOf(E, 0)) :
                           q.got = LastLines(LinesOf(SubSeq(FileOf(E, 0), 1, n)), Lines)
      OBVIOUS
    <3>1. PICK n \in r.last..Len(FileOf(D, 0)) :
            r.got = LastLines(LinesOf(SubSeq(FileOf(D, 0), 1, n)), Lines)
      BY <1>1, <2>2
    <3>2. n \in 0..Len(FileOf(D, 0)) /\ n \in r.last..Len(FileOf(E, 0))
      BY <1>2, <2>1
    <3>3. SubSeq(FileOf(D, 0), 1, n) = SubSeq(FileOf(E, 0), 1, n)
      BY <2>1, <3>2
    <3>. QED BY <1>1, <3>1, <3>2, <3>3
  <2>4. q.last <= Len(FileOf(E, 0))
    BY <1>1, <1>2, <2>1, <2>2
  <2>. QED BY <2>3, <2>4
<1>13. (\A b \in In(q.got) : b < k) /\ q.stayed \subseteq Shown(E)
  BY <1>1, <1>4
<1>14. ReaderInv(E, q, k)
  BY <1>1, <1>10, <1>11, <1>12, <1>13 DEF ReaderInv
<1>. QED BY <1>14 DEF q
LEMMA JoinedHolds ==
  ASSUME NEW s \in Seq(Nat), NEW t \in Seq(Nat)
  PROVE  /\ s \o t \in Seq(Nat) /\ Len(s \o t) = Len(s) + Len(t)
         /\ In(s \o t) = In(s) \cup In(t)
         /\ Increasing(s) /\ Increasing(t) /\ (\A b \in In(s), c \in In(t) : b < c)
              => Increasing(s \o t)
<1>. DEFINE u == s \o t
            m == Len(s)
            n == Len(t)
<1>1. /\ m \in Nat /\ n \in Nat /\ u \in Seq(Nat) /\ Len(u) = m + n
      /\ DOMAIN s = 1..m /\ DOMAIN t = 1..n /\ DOMAIN u = 1..m + n
      /\ \A x \in 1..m + n : u[x] = IF x <= m THEN s[x] ELSE t[x - m]
  BY ConcatProperties
<1>. HIDE DEF u
<1>2. ASSUME NEW x \in 1..m + n
      PROVE  (x \in 1..m /\ u[x] = s[x]) \/ (x > m /\ x - m \in 1..n /\ u[x] = t[x - m])
  BY <1>1
<1>3. ASSUME NEW x \in 1..m
      PROVE  x \in 1..m + n /\ u[x] = s[x]
  BY <1>1
<1>4. ASSUME NEW y \in 1..n
      PROVE  m + y \in 1..m + n /\ u[m + y] = t[y]
  <2>. DEFINE x == m + y
  <2>1. x \in 1..m + n /\ ~(x <= m) /\ x - m = y
    BY <1>1
  <2>2. u[x] = t[y]
    <3>. HIDE DEF x
    <3>1. u[x] = t[x - m]
      BY <1>1, <2>1
    <3>. QED BY <2>1, <3>1
  <2>. QED BY <2>1, <2>2
<1>. HIDE DEF m, n
<1>5. \A b \in In(u) : b \in In(s) \/ b \in In(t)
  BY <1>1, <1>2 DEF In
<1>6. \A b \in In(s) : b \in In(u)
  BY <1>1, <1>3 DEF In
<1>7. \A b \in In(t) : b \in In(u)
  <2>. SUFFICES ASSUME NEW y \in 1..n PROVE t[y] \in In(u)
    BY <1>1 DEF In
  <2>1. m + y \in DOMAIN u /\ u[m + y] = t[y]
    BY <1>1, <1>4
  <2>. QED BY <2>1 DEF In
<1>8. ASSUME Increasing(s), Increasing(t), \A b \in In(s), c \in In(t) : b < c
      PROVE  Increasing(u)
  <2>. SUFFICES ASSUME NEW x \in 1..m + n, NEW y \in 1..m + n, x < y
                PROVE  u[x] < u[y]
    BY <1>1 DEF Increasing
  <2>1. CASE x \in 1..m /\ y \in 1..m
    BY <1>1, <1>3, <1>8, <2>1 DEF Increasing
  <2>2. CASE x \in 1..m /\ y > m
    <3>1. u[x] \in In(s)
      BY <1>1, <1>3, <2>2 DEF In
    <3>2. y - m \in DOMAIN t /\ u[y] = t[y - m]
      BY <1>1, <1>2, <2>2
    <3>3. u[y] \in In(t)
      BY <3>2 DEF In
    <3>. QED BY <1>8, <3>1, <3>3
  <2>3. CASE x > m
    <3>0. y > m
      BY <1>1, <2>3
    <3>1. x - m \in 1..n /\ y - m \in 1..n /\ x - m < y - m /\ u[x] = t[x - m] /\ u[y] = t[y - m]
      BY <1>1, <1>2, <2>3, <3>0
    <3>. QED BY <1>1, <1>8, <3>1 DEF Increasing
  <2>. QED BY <1>1, <1>2, <2>1, <2>2, <2>3
<1>9. In(u) = In(s) \cup In(t)
  BY <1>5, <1>6, <1>7
<1>. QED BY <1>1, <1>8, <1>9 DEF u, m, n

LEMMA NobodyReads ==
  ASSUME NEW D, NEW m
  PROVE  ReaderInv(D, Nobody, m)
<1>1. Nobody \in Readers
  BY DEF Nobody, Readers
<1>2. Nobody.kind = "none" /\ Nobody.got = <<>> /\ Nobody.stayed = {}
  BY DEF Nobody
<1>. QED BY <1>1, <1>2, NothingInEmpty DEF ReaderInv, TailOK, DownloadOK, StreamOK

LEMMA ArchivesInTurn ==
  LET a == Ascending(Archives)
      N == Cardinality(Archives)
  IN  /\ N \in Nat /\ a \in [1..N -> Archives] /\ Archives \subseteq Files \ {0}
      /\ \A x, y \in 1..N : x < y => a[x] < a[y]
      /\ \A i \in Archives : \E n \in 1..N : a[n] = i
      /\ (\A i \in Archives : 1..i \subseteq Archives) => \A n \in 1..N : a[n] = n
<1>. DEFINE a == Ascending(Archives)
            N == Cardinality(Archives)
<1>1. Archives \in SUBSET (Files \ {0}) /\ Archives \in SUBSET Nat
  BY LogAssumption DEF Archives, Files
<1>2. IsFiniteSet(Files)
  BY LogAssumption, FS_Interval DEF Files
<1>3. IsFiniteSet(Archives)
  <2>1. Archives \in SUBSET Files
    BY <1>1
  <2>. QED BY <1>2, <2>1, FS_Subset, Zenon
<1>4. /\ N \in Nat /\ a \in [1..N -> Archives]
      /\ \A n \in 1..N : Cardinality(Upto(Archives, a[n])) = n
      /\ \A x, y \in 1..N : x < y => a[x] < a[y]
      /\ \A i \in Archives : \E n \in 1..N : a[n] = i
  BY <1>1, <1>3, AscendingIsSorted
<1>. HIDE DEF a, N
<1>5. ASSUME \A i \in Archives : 1..i \subseteq Archives, NEW n \in 1..N
      PROVE  a[n] = n
  <2>1. a[n] \in Archives /\ a[n] \in Nat \ {0} /\ 1..a[n] \subseteq Archives
    BY <1>1, <1>4, <1>5, LogAssumption DEF Files
  <2>2. \A j \in Archives : j \in Nat /\ j >= 1
    BY <1>1, LogAssumption DEF Files
  <2>3. Upto(Archives, a[n]) = 1..a[n]
    BY <2>1, <2>2 DEF Upto
  <2>4. Cardinality(1..a[n]) = a[n]
    BY <2>1, FS_Interval
  <2>. QED BY <1>4, <2>3, <2>4
<1>. QED BY <1>1, <1>4, <1>5 DEF a, N

(* What a request has to read is all there is.                              *)
LEMMA AllToRead ==
  ASSUME NEW w \in Shown(Now), NEW s \in Seq(Files), \A i \in Archives \cup {0} : \E n \in DOMAIN s : s[n] = i
  PROVE  \E n \in DOMAIN s : w \in In(FileOf(Now, s[n]))
<1>1. PICK i \in Files : w \in In(FileOf(Now, i))
  BY DEF Shown
<1>2. i \in Archives \cup {0}
  BY <1>1, NothingInEmpty DEF Archives
<1>. QED BY <1>1, <1>2

LEMMA TailBegins ==
  LET s == ToRead("tail")
  IN  /\ s \in Seq(Files) /\ s # <<>> /\ s[1] = 0
      /\ \A i \in Archives \cup {0} : \E n \in DOMAIN s : s[n] = i
      /\ (\A i \in Archives : 1..i \subseteq Archives) => \A n \in DOMAIN s : s[n] = n - 1
<1>. DEFINE a == Ascending(Archives)
            N == Cardinality(Archives)
            s == ToRead("tail")
<1>1. /\ N \in Nat /\ a \in [1..N -> Archives] /\ Archives \subseteq Files \ {0}
      /\ \A i \in Archives : \E n \in 1..N : a[n] = i
      /\ (\A i \in Archives : 1..i \subseteq Archives) => \A n \in 1..N : a[n] = n
  BY ArchivesInTurn
<1>2. 0 \in Files
  BY LogAssumption DEF Files
<1>3. s = <<0>> \o a
  BY DEF ToRead
<1>. HIDE DEF a, N, s
<1>4. a \in Seq(Files) /\ Len(a) = N
  <2>1. \A n \in 1..N : a[n] \in Files
    BY <1>1
  <2>2. a \in [1..N -> Files]
    BY <1>1, <2>1
  <2>. QED BY <1>1, <2>2
<1>5. /\ s \in Seq(Files) /\ Len(s) = N + 1 /\ DOMAIN s = 1..N + 1
      /\ \A n \in 1..N + 1 : s[n] = IF n = 1 THEN 0 ELSE a[n - 1]
  BY <1>1, <1>2, <1>3, <1>4
<1>6. 1 \in 1..N + 1 /\ s[1] = 0 /\ s # <<>>
  BY <1>1, <1>5
<1>7. \A i \in Archives : \E n \in DOMAIN s : s[n] = i
  <2>. SUFFICES ASSUME NEW i \in Archives PROVE \E n \in DOMAIN s : s[n] = i
    OBVIOUS
  <2>1. PICK n \in 1..N : a[n] = i
    BY <1>1
  <2>2. n + 1 \in 1..N + 1 /\ n + 1 # 1 /\ n + 1 - 1 = n
    BY <1>1
  <2>. QED BY <1>5, <2>1, <2>2
<1>8. ASSUME \A i \in Archives : 1..i \subseteq Archives, NEW n \in 1..N + 1
      PROVE  s[n] = n - 1
  <2>1. n = 1 \/ n - 1 \in 1..N
    BY <1>1
  <2>. QED BY <1>1, <1>5, <1>8, <2>1
<1>. QED BY <1>5, <1>6, <1>7, <1>8 DEF s

LEMMA DownloadBegins ==
  LET s == ToRead("download")
  IN  /\ s \in Seq(Files)
      /\ \A i \in Archives \cup {0} : \E n \in DOMAIN s : s[n] = i
      /\ \A x, y \in DOMAIN s : x < y => s[x] > s[y]
<1>. DEFINE a == Ascending(Archives)
            N == Cardinality(Archives)
            v == Reverse(a)
            s == ToRead("download")
<1>1. /\ N \in Nat /\ a \in [1..N -> Archives] /\ Archives \subseteq Files \ {0}
      /\ \A x, y \in 1..N : x < y => a[x] < a[y]
      /\ \A i \in Archives : \E n \in 1..N : a[n] = i
  BY ArchivesInTurn
<1>2. 0 \in Files /\ \A i \in Files \ {0} : i \in Nat /\ i > 0
  BY LogAssumption DEF Files
<1>3. s = v \o <<0>>
  BY DEF ToRead
<1>4. Len(a) = N
  BY <1>1
<1>5. v = [i \in 1..N |-> a[(N - i) + 1]]
  BY <1>4 DEF Reverse
<1>. HIDE DEF a, N, s, v
<1>6. \A i \in 1..N : (N - i) + 1 \in 1..N
  BY <1>1
<1>7. v \in Seq(Files) /\ Len(v) = N
  <2>1. \A i \in 1..N : a[(N - i) + 1] \in Files
    BY <1>1, <1>6
  <2>. QED BY <1>1, <1>5, <2>1
<1>8. /\ s \in Seq(Files) /\ Len(s) = N + 1 /\ DOMAIN s = 1..N + 1
      /\ \A n \in 1..N + 1 : s[n] = IF n <= N THEN v[n] ELSE 0
  BY <1>1, <1>2, <1>3, <1>7
<1>9. ASSUME NEW i \in Archives \cup {0}
      PROVE  \E n \in DOMAIN s : s[n] = i
  <2>1. CASE i = 0
    <3>1. N + 1 \in 1..N + 1 /\ ~(N + 1 <= N)
      BY <1>1
    <3>. QED BY <1>8, <2>1, <3>1
  <2>2. CASE i \in Archives
    <3>1. PICK n \in 1..N : a[n] = i
      BY <1>1, <2>2
    <3>. DEFINE x == (N - n) + 1
    <3>2. x \in 1..N /\ x \in 1..N + 1 /\ x <= N /\ (N - x) + 1 = n
      BY <1>1
    <3>3. v[x] = a[n]
      <4>. HIDE DEF x
      <4>1. v[x] = a[(N - x) + 1]
        BY <1>5, <3>2
      <4>. QED BY <3>2, <4>1
    <3>. QED BY <1>8, <3>1, <3>2, <3>3
  <2>. QED BY <2>1, <2>2
<1>10. ASSUME NEW x \in 1..N + 1, NEW y \in 1..N + 1, x < y
       PROVE  s[x] > s[y]
  <2>1. x \in 1..N /\ x <= N /\ (N - x) + 1 \in 1..N
    BY <1>1, <1>10
  <2>2. s[x] = a[(N - x) + 1]
    BY <1>5, <1>8, <2>1
  <2>3. a[(N - x) + 1] \in Nat /\ a[(N - x) + 1] > 0
    BY <1>1, <1>2, <2>1
  <2>4. CASE y <= N
    <3>1. y \in 1..N /\ (N - y) + 1 \in 1..N /\ (N - y) + 1 < (N - x) + 1
      BY <1>1, <1>10, <2>1, <2>4
    <3>2. s[y] = a[(N - y) + 1]
      BY <1>5, <1>8, <2>4, <3>1
    <3>3. a[(N - y) + 1] < a[(N - x) + 1] /\ a[(N - y) + 1] \in Nat
      BY <1>1, <1>2, <2>1, <3>1
    <3>. QED BY <2>2, <2>3, <3>2, <3>3
  <2>5. CASE ~(y <= N)
    BY <1>8, <2>2, <2>3, <2>5
  <2>. QED BY <2>4, <2>5
<1>. QED BY <1>8, <1>9, <1>10 DEF s
LEMMA BeginKeeps ==
  ASSUME Now \in Disks, Ordered(Now), NEW m, Below(Now, m),
         NEW kind \in {"tail", "download", "stream"}, Begin(kind)
  PROVE  ReaderInv(Now, reader', m)
<1>. DEFINE q == reader'
<1>1. /\ q.kind = kind /\ q.todo = ToRead(kind) /\ q.got = <<>> /\ q.last = 0 - 1 /\ q.moved = FALSE
      /\ q.stayed = (IF kind = "stream" THEN {} ELSE Shown(Now))
      /\ q.holes = (kind = "tail" /\ \E i \in Archives : ~(1..i \subseteq Archives))
      /\ q = [kind |-> q.kind, todo |-> q.todo, got |-> q.got, last |-> q.last,
              stayed |-> q.stayed, moved |-> q.moved, holes |-> q.holes]
  BY DEF Begin, Nobody
<1>2. ToRead(kind) \in Seq(Files) /\ (kind = "stream" => ToRead(kind) = <<>>)
  <2>1. ToRead("stream") = <<>> /\ <<>> \in Seq(Files)
    BY DEF ToRead
  <2>. QED BY <2>1, TailBegins, DownloadBegins
<1>3. Shown(Now) \subseteq Nat
  BY FilesHold DEF Shown
<1>4. q \in Readers
  <2>1. q.holes \in BOOLEAN /\ q.stayed \subseteq Nat /\ q.got \in Seq(Nat) /\ q.last \in Int
    BY <1>1, <1>3
  <2>. HIDE DEF q
  <2>. QED BY <1>1, <1>2, <2>1 DEF Readers
<1>. HIDE DEF q
<1>5. In(q.got) = {} /\ Len(q.got) = 0 /\ Increasing(q.got)
  BY <1>1, NothingInEmpty DEF Increasing
<1>6. Lines \in Nat \ {0}
  BY LinesAssumption
<1>7. ASSUME kind # "stream", NEW w \in q.stayed
      PROVE  InHand(Now, q, w)
  <2>1. \A i \in Archives \cup {0} : \E n \in DOMAIN q.todo : q.todo[n] = i
    BY <1>1, <1>7, TailBegins, DownloadBegins
  <2>. QED BY <1>1, <1>2, <1>7, <2>1, AllToRead DEF InHand
<1>8. TailOK(Now, q)
  <2>. SUFFICES ASSUME kind = "tail" PROVE TailOK(Now, q)
    BY <1>1 DEF TailOK
  <2>1. q.todo # <<>> /\ q.todo[1] = 0
    BY <1>1, TailBegins
  <2>2. ~q.holes => \A n \in DOMAIN q.todo : q.todo[n] = q.todo[1] + n - 1
    <3>. SUFFICES ASSUME ~q.holes, NEW n \in DOMAIN q.todo
                  PROVE  q.todo[n] = q.todo[1] + n - 1
      OBVIOUS
    <3>1. q.todo[n] = n - 1
      BY <1>1, TailBegins
    <3>2. n \in Nat
      BY <1>1, <1>2
    <3>. QED BY <2>1, <3>1, <3>2
  <2>3. \A w \in q.stayed : \E i \in Files : q.todo[1] <= i /\ w \in In(FileOf(Now, i))
    <3>1. \A i \in Files : 0 <= i
      BY DEF Files
    <3>. QED BY <1>1, <2>1, <3>1 DEF Shown
  <2>. QED BY <1>5, <1>6, <1>7, <2>2, <2>3 DEF TailOK
<1>9. DownloadOK(Now, q)
  BY <1>1, <1>5, <1>7, DownloadBegins DEF DownloadOK
<1>10. StreamOK(Now, q)
  BY <1>1 DEF StreamOK
<1>. QED BY <1>1, <1>4, <1>5, <1>8, <1>9, <1>10 DEF ReaderInv, q

LEMMA RestOf ==
  ASSUME NEW s \in Seq(Files), s # <<>>
  PROVE  /\ s[1] \in Files /\ Head(s) = s[1] /\ 1 \in DOMAIN s /\ Tail(s) \in Seq(Files)
         /\ \A n \in DOMAIN Tail(s) : n + 1 \in DOMAIN s /\ Tail(s)[n] = s[n + 1]
         /\ \A n \in DOMAIN s : n # 1 => n - 1 \in DOMAIN Tail(s) /\ Tail(s)[n - 1] = s[n]
         /\ \A n \in DOMAIN s : n \in Nat
         /\ Tail(s) # <<>> => 2 \in DOMAIN s /\ Tail(s)[1] = s[2]
<1>1. /\ DOMAIN s = 1..Len(s) /\ Len(s) \in Nat /\ Len(s) >= 1
      /\ Tail(s) \in Seq(Files) /\ DOMAIN Tail(s) = 1..Len(s) - 1 /\ Len(Tail(s)) = Len(s) - 1
      /\ Head(s) = s[1]
  OBVIOUS
<1>2. \A n \in 1..Len(s) - 1 : n + 1 \in 1..Len(s) /\ Tail(s)[n] = s[n + 1]
  BY <1>1
<1>3. ASSUME NEW n \in 1..Len(s), n # 1
      PROVE  n - 1 \in 1..Len(s) - 1 /\ Tail(s)[n - 1] = s[n]
  <2>. DEFINE k == n - 1
  <2>1. k \in 1..Len(s) - 1 /\ k + 1 = n
    BY <1>1, <1>3
  <2>2. Tail(s)[k] = s[n]
    <3>. HIDE DEF k
    <3>1. Tail(s)[k] = s[k + 1]
      BY <1>2, <2>1
    <3>. QED BY <2>1, <3>1
  <2>. QED BY <2>1, <2>2
<1>4. Tail(s) # <<>> => 2 \in 1..Len(s) /\ Tail(s)[1] = s[2]
  <2>. SUFFICES ASSUME Tail(s) # <<>> PROVE 2 \in 1..Len(s) /\ Tail(s)[1] = s[2]
    OBVIOUS
  <2>1. Len(s) - 1 # 0
    BY <1>1
  <2>2. 2 \in 1..Len(s) /\ 2 # 1 /\ 2 - 1 = 1
    BY <1>1, <2>1
  <2>. QED BY <1>3, <2>2
<1>. QED BY <1>1, <1>2, <1>3, <1>4

LEMMA ReadWholeKeeps ==
  ASSUME Now \in Disks, Ordered(Now), NEW m, Below(Now, m), ReaderInv(Now, reader, m), ReadWhole
  PROVE  ReaderInv(Now, reader', m)
<1>. DEFINE r == reader
            q == reader'
            h == r.todo[1]
            F == FileOf(Now, h)
            new == LinesOf(F)
<1>1. /\ r \in Readers /\ r.kind = "download" /\ r.todo # <<>>
      /\ q = [r EXCEPT !.got = r.got \o LinesOf(FileOf(Now, Head(r.todo))), !.todo = Tail(r.todo)]
  BY DEF ReadWhole, Reading, ReaderInv
<1>2. r.todo \in Seq(Files) /\ r.got \in Seq(Nat)
  BY <1>1 DEF Readers
<1>3. /\ h \in Files /\ Head(r.todo) = h /\ Tail(r.todo) \in Seq(Files)
      /\ \A n \in DOMAIN r.todo : n \in Nat /\ r.todo[n] \in Files
  BY <1>1, <1>2, RestOf
<1>4. new \in Seq(Nat) /\ Increasing(new) /\ In(new) = In(F)
  BY <1>3, FilesHold, LinesAreWrites
<1>5. /\ r.got \o new \in Seq(Nat) /\ In(r.got \o new) = In(r.got) \cup In(F)
      /\ Increasing(r.got) /\ (\A b \in In(r.got), c \in In(F) : b < c)
           => Increasing(r.got \o new)
  BY <1>2, <1>4, JoinedHolds
<1>6. /\ \A x, y \in DOMAIN r.todo : x < y => r.todo[x] > r.todo[y]
      /\ Increasing(r.got)
      /\ \A b \in In(r.got), i \in Files : i <= h => \A c \in In(FileOf(Now, i)) : b < c
      /\ ~r.moved => \A w \in r.stayed : InHand(Now, r, w)
      /\ \A b \in In(r.got) : b < m
      /\ r.stayed \subseteq Shown(Now)
  BY <1>1 DEF ReaderInv, DownloadOK
<1>7. h <= h /\ \A i \in Files : i \in Nat
  BY <1>3 DEF Files
<1>8. Increasing(r.got \o new)
  BY <1>3, <1>5, <1>6, <1>7
<1>9. /\ q \in Readers /\ q.kind = "download" /\ q.todo = Tail(r.todo) /\ q.got = r.got \o new
      /\ q.stayed = r.stayed /\ q.moved = r.moved
  BY <1>1, <1>3, <1>5 DEF Readers
<1>. HIDE DEF q, r, new, F
<1>10. \A b \in In(q.got) : b < m
  BY <1>3, <1>5, <1>6, <1>9, FilesHold DEF F
<1>11. \A x, y \in DOMAIN q.todo : x < y => q.todo[x] > q.todo[y]
  <2>. SUFFICES ASSUME NEW x \in DOMAIN Tail(r.todo), NEW y \in DOMAIN Tail(r.todo), x < y
                PROVE  Tail(r.todo)[x] > Tail(r.todo)[y]
    BY <1>9
  <2>1. /\ x + 1 \in DOMAIN r.todo /\ y + 1 \in DOMAIN r.todo
        /\ Tail(r.todo)[x] = r.todo[x + 1] /\ Tail(r.todo)[y] = r.todo[y + 1]
    BY <1>1, <1>2, RestOf
  <2>2. x + 1 < y + 1
    BY <1>3
  <2>. QED BY <1>6, <2>1, <2>2
<1>12. ASSUME q.todo # <<>>, NEW b \in In(q.got), NEW i \in Files, i <= q.todo[1],
              NEW c \in In(FileOf(Now, i))
       PROVE  b < c
  <2>1. 2 \in DOMAIN r.todo /\ q.todo[1] = r.todo[2] /\ 1 \in DOMAIN r.todo
    BY <1>1, <1>2, <1>9, <1>12, RestOf
  <2>2. h > r.todo[2] /\ r.todo[2] \in Files
    BY <1>3, <1>6, <2>1
  <2>3. i < h /\ i <= h
    BY <1>3, <1>7, <1>12, <2>1, <2>2
  <2>4. CASE b \in In(r.got)
    BY <1>6, <1>12, <2>3, <2>4
  <2>5. CASE b \in In(F)
    BY <1>3, <1>12, <2>3, <2>5, FilesHold DEF F
  <2>. QED BY <1>5, <1>9, <2>4, <2>5
<1>13. ASSUME ~q.moved, NEW w \in q.stayed
       PROVE  InHand(Now, q, w)
  <2>1. InHand(Now, r, w)
    BY <1>6, <1>9, <1>13
  <2>2. CASE w \in In(r.got)
    BY <1>5, <1>9, <2>2 DEF InHand
  <2>3. ASSUME NEW n \in DOMAIN r.todo, w \in In(FileOf(Now, r.todo[n]))
        PROVE  InHand(Now, q, w)
    <3>1. CASE n = 1
      BY <1>5, <1>9, <2>3, <3>1 DEF InHand, F
    <3>2. CASE n # 1
      <4>1. n - 1 \in DOMAIN q.todo /\ q.todo[n - 1] = r.todo[n]
        BY <1>1, <1>2, <1>9, <2>3, <3>2, RestOf
      <4>. QED BY <2>3, <4>1 DEF InHand
    <3>. QED BY <3>1, <3>2
  <2>. QED BY <2>1, <2>2, <2>3 DEF InHand
<1>14. DownloadOK(Now, q)
  BY <1>8, <1>9, <1>11, <1>12, <1>13 DEF DownloadOK
<1>15. TailOK(Now, q) /\ StreamOK(Now, q)
  BY <1>9 DEF TailOK, StreamOK
<1>. QED BY <1>6, <1>9, <1>10, <1>14, <1>15 DEF ReaderInv, q
LEMMA ReadTailKeeps ==
  ASSUME Now \in Disks, Ordered(Now), NEW m, Below(Now, m), ReaderInv(Now, reader, m), ReadTail
  PROVE  ReaderInv(Now, reader', m)
<1>. DEFINE r == reader
            q == reader'
            h == r.todo[1]
            F == FileOf(Now, h)
            all == LinesOf(F)
            left == Lines - Len(r.got)
            lines == LastLines(all, left)
<1>1. r \in Readers /\ r.kind = "tail" /\ r.todo # <<>>
  BY DEF ReadTail, Reading, ReaderInv
<1>2. r.todo \in Seq(Files) /\ r.got \in Seq(Nat)
  BY <1>1 DEF Readers
<1>3. /\ h \in Files /\ Head(r.todo) = h /\ Tail(r.todo) \in Seq(Files)
      /\ \A n \in DOMAIN r.todo : n \in Nat /\ r.todo[n] \in Files
  BY <1>1, <1>2, RestOf
<1>4. all \in Seq(Nat) /\ Increasing(all) /\ In(all) = In(F)
  BY <1>3, FilesHold, LinesAreWrites
<1>5. Lines \in Nat /\ Len(r.got) \in Nat /\ left \in Nat /\ left > 0
  <2>1. Len(r.got) < Lines
    BY <1>1 DEF ReaderInv, TailOK
  <2>. QED BY <1>2, <2>1, LinesAssumption
<1>6. PICK fit \in Fitting(lines) :
        q = [r EXCEPT !.got = fit \o r.got, !.holes = r.holes \/ fit # lines,
                      !.todo = IF Len(fit \o r.got) >= Lines THEN <<>> ELSE Tail(r.todo)]
  BY <1>3 DEF ReadTail
<1>. HIDE DEF F, all, left
<1>7. /\ lines \in Seq(Nat) /\ Increasing(lines) /\ Len(lines) <= left
      /\ In(lines) \subseteq In(F)
      /\ \A b \in In(F) \ In(lines) : \A c \in In(lines) : b < c
      /\ Len(lines) < left => lines = all
  BY <1>4, <1>5, LastLinesAreNewest
<1>. HIDE DEF lines
<1>8. fit \in Seq(Nat) /\ In(fit) \subseteq In(F)
  <2>1. PICK n \in 0..Len(lines) : fit = LastLines(lines, n)
    BY <1>6 DEF Fitting
  <2>2. n \in Nat
    BY <2>1
  <2>3. fit \in Seq(Nat) /\ In(fit) \subseteq In(lines)
    BY <1>7, <2>1, <2>2, LastLinesAreNewest
  <2>. QED BY <1>7, <2>3
<1>9. /\ fit \o r.got \in Seq(Nat) /\ In(fit \o r.got) = In(fit) \cup In(r.got)
      /\ Len(fit \o r.got) = Len(fit) + Len(r.got) /\ Len(fit) \in Nat
  BY <1>2, <1>8, JoinedHolds
<1>10. /\ q \in Readers /\ q.kind = "tail" /\ q.got = fit \o r.got
       /\ q.todo = (IF Len(q.got) >= Lines THEN <<>> ELSE Tail(r.todo))
       /\ ~q.holes => ~r.holes /\ fit = lines
       /\ q.stayed = r.stayed /\ q.moved = r.moved
  <2>1. <<>> \in Seq(Files) /\ (r.holes \/ fit # lines) \in BOOLEAN
    OBVIOUS
  <2>2. (IF Len(fit \o r.got) >= Lines THEN <<>> ELSE Tail(r.todo)) \in Seq(Files)
    BY <1>3, <2>1
  <2>. QED BY <1>1, <1>6, <1>9, <2>1, <2>2 DEF Readers
<1>11. /\ \A b \in In(r.got) : b < m
       /\ r.stayed \subseteq Shown(Now)
       /\ ~r.holes =>
          /\ \A n \in DOMAIN r.todo : r.todo[n] = h + n - 1
          /\ \A w \in r.stayed : w \in In(r.got) \/ \A u \in In(r.got) : w < u
          /\ \A w \in r.stayed :
               w \in In(r.got) \/ \E i \in Files : h <= i /\ w \in In(FileOf(Now, i))
          /\ ~r.moved /\ Len(r.got) < Lines => \A w \in r.stayed : InHand(Now, r, w)
  BY <1>1 DEF ReaderInv, TailOK
<1>. HIDE DEF q, r
<1>12. \A b \in In(q.got) : b < m
  BY <1>3, <1>8, <1>9, <1>10, <1>11, FilesHold DEF F
<1>13. q.todo # <<>> => Len(q.got) < Lines /\ q.todo = Tail(r.todo)
  <2>1. Len(q.got) \in Nat
    BY <1>9, <1>10
  <2>. QED BY <1>5, <1>10, <2>1
<1>14. Len(q.got) < Lines => Len(r.got) < Lines /\ q.todo = Tail(r.todo)
  BY <1>5, <1>9, <1>10
<1>15. ~q.holes /\ Len(q.got) < Lines => In(lines) = In(F)
  <2>. SUFFICES ASSUME ~q.holes, Len(q.got) < Lines PROVE In(lines) = In(F)
    OBVIOUS
  <2>1. Len(lines) < left
    BY <1>5, <1>9, <1>10 DEF left
  <2>. QED BY <1>4, <1>7, <2>1
<1>16. ASSUME ~q.holes, NEW n \in DOMAIN q.todo
       PROVE  q.todo[n] = q.todo[1] + n - 1
  <2>1. q.todo # <<>> /\ q.todo = Tail(r.todo)
    BY <1>13, <1>16
  <2>2. /\ n + 1 \in DOMAIN r.todo /\ q.todo[n] = r.todo[n + 1]
        /\ 2 \in DOMAIN r.todo /\ q.todo[1] = r.todo[2]
    BY <1>1, <1>2, <1>16, <2>1, RestOf
  <2>3. r.todo[n + 1] = h + (n + 1) - 1 /\ r.todo[2] = h + 2 - 1
    BY <1>10, <1>11, <1>16, <2>2
  <2>4. n \in Nat /\ h \in Nat
    <3>1. DOMAIN q.todo \subseteq Nat
      BY <1>3, <2>1
    <3>. QED BY <1>3, <1>16, <3>1 DEF Files
  <2>. QED BY <2>2, <2>3, <2>4
<1>17. ASSUME ~q.holes, NEW w \in q.stayed, w \notin In(q.got)
       PROVE  \E i \in Files : h <= i /\ w \in In(FileOf(Now, i))
  BY <1>9, <1>10, <1>11, <1>17
<1>18. ASSUME ~q.holes, NEW w \in q.stayed, w \notin In(q.got), NEW u \in In(q.got)
       PROVE  w < u
  <2>1. PICK i \in Files : h <= i /\ w \in In(FileOf(Now, i))
    BY <1>17, <1>18
  <2>2. CASE u \in In(r.got)
    BY <1>9, <1>10, <1>11, <1>18, <2>2
  <2>3. CASE u \in In(lines)
    <3>1. u \in In(F) /\ w \notin In(lines)
      BY <1>7, <1>9, <1>10, <1>18, <2>3
    <3>2. CASE i = h
      BY <1>7, <2>1, <2>3, <3>1, <3>2 DEF F
    <3>3. CASE i # h
      <4>1. h < i
        BY <1>3, <2>1, <3>3 DEF Files
      <4>. QED BY <1>3, <2>1, <3>1, <4>1, FilesHold DEF F
    <3>. QED BY <3>2, <3>3
  <2>. QED BY <1>9, <1>10, <1>18, <2>2, <2>3
<1>19. ASSUME ~q.holes, q.todo # <<>>, NEW w \in q.stayed, w \notin In(q.got)
       PROVE  \E i \in Files : q.todo[1] <= i /\ w \in In(FileOf(Now, i))
  <2>1. PICK i \in Files : h <= i /\ w \in In(FileOf(Now, i))
    BY <1>17, <1>19
  <2>2. i # h
    <3>1. In(fit) = In(F)
      BY <1>10, <1>13, <1>15, <1>19
    <3>. QED BY <1>9, <1>10, <1>19, <2>1, <3>1 DEF F
  <2>3. q.todo[1] = h + 2 - 1
    <3>1. 2 \in DOMAIN r.todo /\ q.todo[1] = r.todo[2]
      BY <1>1, <1>2, <1>13, <1>19, RestOf
    <3>. QED BY <1>10, <1>11, <1>19, <3>1
  <2>4. q.todo[1] <= i
    BY <1>3, <2>1, <2>2, <2>3 DEF Files
  <2>. QED BY <2>1, <2>4
<1>20. ASSUME ~q.holes, ~q.moved, Len(q.got) < Lines, NEW w \in q.stayed
       PROVE  InHand(Now, q, w)
  <2>1. InHand(Now, r, w)
    BY <1>10, <1>11, <1>14, <1>20
  <2>2. CASE w \in In(r.got)
    BY <1>9, <1>10, <2>2 DEF InHand
  <2>3. ASSUME NEW n \in DOMAIN r.todo, w \in In(FileOf(Now, r.todo[n]))
        PROVE  InHand(Now, q, w)
    <3>1. CASE n = 1
      <4>1. w \in In(fit)
        BY <1>10, <1>15, <1>20, <2>3, <3>1 DEF F
      <4>. QED BY <1>9, <1>10, <4>1 DEF InHand
    <3>2. CASE n # 1
      <4>1. n - 1 \in DOMAIN q.todo /\ q.todo[n - 1] = r.todo[n]
        BY <1>1, <1>2, <1>14, <1>20, <2>3, <3>2, RestOf
      <4>. QED BY <2>3, <4>1 DEF InHand
    <3>. QED BY <3>1, <3>2
  <2>. QED BY <2>1, <2>2, <2>3 DEF InHand
<1>21. TailOK(Now, q)
  BY <1>10, <1>13, <1>16, <1>18, <1>19, <1>20 DEF TailOK
<1>22. DownloadOK(Now, q) /\ StreamOK(Now, q)
  BY <1>10 DEF DownloadOK, StreamOK
<1>. QED BY <1>10, <1>11, <1>12, <1>21, <1>22 DEF ReaderInv, q

LEMMA StreamTickKeeps ==
  ASSUME Now \in Disks, Ordered(Now), NEW m, Below(Now, m), ReaderInv(Now, reader, m), StreamTick
  PROVE  ReaderInv(Now, reader', m)
<1>. DEFINE r == reader
            q == reader'
            F == FileOf(Now, 0)
            sent == LastLines(LinesOf(F), Lines)
<1>1. /\ r \in Readers /\ r.kind = "stream" /\ (\A b \in In(r.got) : b < m)
      /\ r.stayed \subseteq Shown(Now) /\ StreamOK(Now, r)
  BY DEF StreamTick, ReaderInv
<1>2. 0 \in Files /\ Lines \in Nat
  BY LogAssumption, LinesAssumption DEF Files
<1>3. F \in Seq(Nat) /\ Len(F) \in Nat /\ Sorted(F)
  BY <1>2, FilesHold
<1>4. sent \in Seq(Nat) /\ In(sent) \subseteq In(F)
  <2>1. LinesOf(F) \in Seq(Nat) /\ Increasing(LinesOf(F)) /\ In(LinesOf(F)) = In(F)
    BY <1>3, LinesAreWrites
  <2>. QED BY <1>2, <2>1, LastLinesAreNewest
<1>5. \A b \in In(sent) : b < m
  BY <1>2, <1>4, FilesHold
<1>6. CASE q = [r EXCEPT !.last = Len(F), !.todo = <<0>>, !.moved = FALSE]
  <2>a. <<0>> \in Seq(Files) /\ Len(F) \in Int
    BY <1>2, <1>3
  <2>. HIDE DEF q, r, F
  <2>1. /\ q \in Readers /\ q.kind = "stream" /\ q.got = r.got /\ q.stayed = r.stayed
        /\ q.last = Len(F) /\ q.todo = <<0>>
    BY <1>1, <1>6, <2>a DEF Readers
  <2>2. q.todo # <<>> /\ Len(F) <= Len(F)
    BY <1>3, <2>1
  <2>3. TailOK(Now, q) /\ DownloadOK(Now, q) /\ StreamOK(Now, q)
    BY <2>1, <2>2 DEF TailOK, DownloadOK, StreamOK, F
  <2>. QED BY <1>1, <2>1, <2>3 DEF ReaderInv, q
<1>7. CASE q = [r EXCEPT !.got = sent, !.todo = <<>>]
  <2>a. <<>> \in Seq(Files)
    OBVIOUS
  <2>2. SubSeq(F, 1, Len(F)) = F
    BY <1>3
  <2>. HIDE DEF q, r, F, sent
  <2>1. /\ q \in Readers /\ q.kind = "stream" /\ q.got = sent /\ q.stayed = r.stayed
        /\ q.last = r.last /\ q.moved = r.moved /\ q.last \in Int
    BY <1>1, <1>4, <1>7, <2>a DEF Readers
  <2>3. ASSUME 0 <= q.last, ~q.moved
        PROVE  /\ q.last <= Len(F)
               /\ \E n \in q.last..Len(F) : q.got = LastLines(LinesOf(SubSeq(F, 1, n)), Lines)
    <3>1. q.last <= Len(F)
      BY <1>1, <2>1, <2>3 DEF StreamOK, F
    <3>2. Len(F) \in q.last..Len(F)
      BY <1>3, <2>1, <3>1
    <3>3. q.got = LastLines(LinesOf(SubSeq(F, 1, Len(F))), Lines)
      BY <2>1, <2>2 DEF sent
    <3>. QED BY <3>1, <3>2, <3>3
  <2>4. TailOK(Now, q) /\ DownloadOK(Now, q) /\ StreamOK(Now, q)
    BY <2>1, <2>3 DEF TailOK, DownloadOK, StreamOK, F
  <2>. QED BY <1>1, <1>5, <2>1, <2>4 DEF ReaderInv, q
<1>. QED BY <1>6, <1>7 DEF StreamTick

------------------------------------------------------------------------------
(* The theorems.                                                            *)

ReadingInv ==
  /\ LogInv
  /\ \E m \in 1..next : Listed(dir, disk, m, next) /\ ReaderInv(Now, reader, m)

LEMMA ReadingStartsWell == ReadingInit => ReadingInv
<1>. SUFFICES ASSUME ReadingInit PROVE ReadingInv
  OBVIOUS
<1>1. LogInv /\ next = 1
  BY LogInit DEF ReadingInit, Init
<1>2. disk \in Disks /\ Ordered(disk)
  BY <1>1 DEF LogInv, Orderly
<1>3. Listed(dir, disk, 1, next)
  BY <1>1, <1>2, OneIsListed DEF ReadingInit
<1>4. ReaderInv(Now, reader, 1)
  BY NobodyReads DEF ReadingInit
<1>. QED BY <1>1, <1>3, <1>4 DEF ReadingInv

(* Readers change nothing, and a step of the directory none of the writer's *)
(* state: a log that is read is a log.                                      *)
LEMMA ReadingIsLogging == [ReadingNext]_readingVars => [Next]_vars
BY DEF ReadingNext, Writer, NextFile, Begin, ReadTail, ReadWhole, Finish, StreamTick,
       InOneStep, Rotating, Next, readingVars

LEMMA ReadingStep ==
  ASSUME ReadingInv, [ReadingNext]_readingVars
  PROVE  ReadingInv'
<1>1. LogInv /\ LogInv'
  BY ReadingIsLogging, LogStep DEF ReadingInv
<1>2. PICK m \in 1..next : Listed(dir, disk, m, next) /\ ReaderInv(Now, reader, m)
  BY DEF ReadingInv
<1>3. next \in Nat /\ next' \in Nat /\ m \in Nat
  BY <1>1, <1>2, LogAssumption DEF LogInv, TypeOK
<1>4. CASE UNCHANGED <<vars, dir>> /\ ReaderInv(Now, reader', m)
  <2>1. UNCHANGED <<disk, next, dir>> /\ Now' = Now
    BY <1>4 DEF vars, Now
  <2>. QED BY <1>1, <1>2, <1>4, <2>1 DEF ReadingInv
<1>5. /\ Now \in Disks /\ Ordered(Now) /\ Below(Now, m)
  <2>1. Now \in Disks /\ Ordered(Now)
    BY <1>2, WalkStarts DEF Listed, Now
  <2>2. CASE Len(dir) = 1
    BY <1>1, <1>2, <2>2 DEF Listed, Now, LogInv, Orderly
  <2>3. CASE Len(dir) # 1
    <3>a. dir \in Seq(Disks) /\ Len(dir) >= 1
      BY <1>2 DEF Listed, Walk
    <3>b. Len(dir) \in Nat
      BY <3>a
    <3>1. 1 \in 1..Len(dir) - 1
      <4>. DEFINE len == Len(dir)
      <4>1. len \in Nat /\ len >= 1 /\ len # 1
        BY <2>3, <3>a, <3>b
      <4>. HIDE DEF len
      <4>2. 1 \in 1..len - 1
        BY <4>1
      <4>. QED BY <4>2 DEF len
    <3>. QED BY <1>2, <3>1 DEF Listed, Walk, Now
  <2>. QED BY <2>1, <2>2, <2>3
<1>6. ASSUME Passed(Now, Now', m), reader' = Noticed(Now, Now'),
             \E k \in m..next' : Listed(dir', disk', k, next')
      PROVE  ReadingInv'
  <2>1. PICK k \in m..next' : Listed(dir', disk', k, next')
    BY <1>6
  <2>2. k \in Nat /\ m <= k /\ k \in 1..next'
    BY <1>2, <1>3, <2>1
  <2>3. ReaderInv(Now', reader', k)
    BY <1>2, <1>3, <1>6, <2>2, NoticedKeeps
  <2>. QED BY <1>1, <2>1, <2>2, <2>3 DEF ReadingInv
<1>7. CASE Writer
  BY <1>1, <1>2, <1>6, <1>7, WriterPasses DEF Writer
<1>8. CASE NextFile
  <2>1. UNCHANGED <<disk, next>> /\ reader' = Noticed(Now, Now')
    BY <1>8 DEF NextFile, vars
  <2>2. Passed(Now, Now', m) /\ \E k \in m..next : Listed(dir', disk, k, next)
    BY <1>1, <1>2, <1>8, NextFilePasses
  <2>. QED BY <1>6, <2>1, <2>2
<1>9. ASSUME NEW kind \in {"tail", "download", "stream"}, Begin(kind)
      PROVE  ReadingInv'
  BY <1>4, <1>5, <1>9, BeginKeeps DEF Begin
<1>10. CASE ReadTail
  BY <1>2, <1>4, <1>5, <1>10, ReadTailKeeps DEF ReadTail
<1>11. CASE ReadWhole
  BY <1>2, <1>4, <1>5, <1>11, ReadWholeKeeps DEF ReadWhole
<1>12. CASE Finish
  BY <1>4, <1>12, NobodyReads DEF Finish
<1>13. CASE StreamTick
  BY <1>2, <1>4, <1>5, <1>13, StreamTickKeeps DEF StreamTick
<1>14. CASE UNCHANGED readingVars
  BY <1>2, <1>4, <1>14 DEF readingVars
<1>. QED BY <1>7, <1>8, <1>9, <1>10, <1>11, <1>12, <1>13, <1>14 DEF ReadingNext

THEOREM ReadingInvariant == ReadingSpec => []ReadingInv
<1>. QED BY ReadingStartsWell, ReadingStep, PTL DEF ReadingSpec

(* What is proved of RotatingLog holds beside any readers.                  *)
THEOREM ReadersDoNotDisturb == ReadingSpec => Spec
<1>1. ReadingInit => Init
  BY DEF ReadingInit
<1>. QED BY <1>1, ReadingIsLogging, PTL DEF ReadingSpec, Spec

(* The tail over all archives has no hole (server.go:822), whatever         *)
(* rotations, purges and launches come between two files.                   *)
THEOREM TailsHaveNoHoles == ReadingSpec => []TailWithoutHoles
<1>1. ReadingInv => TailWithoutHoles
  <2>. SUFFICES ASSUME ReadingInv, reader.kind = "tail", ~reader.holes
                PROVE
       /\ \A w \in reader.stayed, u, v \in In(reader.got) : u < w /\ w < v => w \in In(reader.got)
       /\ Answered /\ ~reader.moved /\ Len(reader.got) < Lines
            => reader.stayed \subseteq In(reader.got)
    BY DEF TailWithoutHoles, Got, ToSet, In
  <2>1. PICK m \in 1..next : ReaderInv(Now, reader, m)
    BY DEF ReadingInv
  <2>2. /\ reader.stayed \subseteq Nat /\ In(reader.got) \subseteq Nat
        /\ \A w \in reader.stayed : w \in In(reader.got) \/ \A u \in In(reader.got) : w < u
        /\ ~reader.moved /\ Len(reader.got) < Lines =>
             \A w \in reader.stayed : InHand(Now, reader, w)
    BY <2>1 DEF ReaderInv, TailOK, Readers, In
  <2>3. \A w \in reader.stayed, u \in In(reader.got) : ~(u < w /\ w < u)
    BY <2>2
  <2>4. reader.todo = <<>> => DOMAIN reader.todo = {}
    OBVIOUS
  <2>. QED BY <2>2, <2>3, <2>4 DEF Answered, InHand
<1>. QED BY <1>1, ReadingInvariant, PTL

(* A download has the lines in order, none twice, and when nothing was      *)
(* renamed all of them (server.go:884).                                     *)
THEOREM DownloadsInOrder == ReadingSpec => []DownloadInOrder
<1>1. ReadingInv => DownloadInOrder
  <2>. SUFFICES ASSUME ReadingInv, reader.kind = "download"
                PROVE
       /\ \A i, j \in DOMAIN reader.got : i < j => reader.got[i] < reader.got[j]
       /\ Answered /\ ~reader.moved => reader.stayed \subseteq In(reader.got)
    BY DEF DownloadInOrder, Got, ToSet, In
  <2>1. PICK m \in 1..next : ReaderInv(Now, reader, m)
    BY DEF ReadingInv
  <2>2. /\ Increasing(reader.got)
        /\ ~reader.moved => \A w \in reader.stayed : InHand(Now, reader, w)
    BY <2>1 DEF ReaderInv, DownloadOK
  <2>3. reader.todo = <<>> => DOMAIN reader.todo = {}
    OBVIOUS
  <2>. QED BY <2>2, <2>3 DEF Answered, InHand, Increasing
<1>. QED BY <1>1, ReadingInvariant, PTL

(* A stream whose size has not changed has sent the log as it is            *)
(* (server.go:646).                                                         *)
THEOREM StreamsAreCurrent == ReadingSpec => []StreamCurrent
<1>1. ReadingInv => StreamCurrent
  <2>. SUFFICES ASSUME ReadingInv, reader.kind = "stream", reader.todo = <<>>,
                       reader.last = Len(FileOf(Now, 0)), ~reader.moved
                PROVE  reader.got = LastLines(LinesOf(FileOf(Now, 0)), Lines)
    BY DEF StreamCurrent
  <2>. DEFINE F == FileOf(Now, 0)
  <2>1. PICK m \in 1..next : Listed(dir, disk, m, next) /\ ReaderInv(Now, reader, m)
    BY DEF ReadingInv
  <2>2. F \in Seq(Nat) /\ Len(F) \in Nat
    <3>1. Now \in Disks /\ Ordered(Now) /\ 0 \in Files
      BY <2>1, WalkStarts, LogAssumption DEF Listed, Now, Files
    <3>. QED BY <3>1, FilesHold
  <2>3. PICK n \in Len(F)..Len(F) : reader.got = LastLines(LinesOf(SubSeq(F, 1, n)), Lines)
    BY <2>1, <2>2 DEF ReaderInv, StreamOK
  <2>. HIDE DEF F
  <2>4. n = Len(F) /\ SubSeq(F, 1, Len(F)) = F
    BY <2>2
  <2>. QED BY <2>3, <2>4 DEF F
<1>. QED BY <1>1, ReadingInvariant, PTL
==============================================================================
