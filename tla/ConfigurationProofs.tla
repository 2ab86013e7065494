-------------------------- MODULE ConfigurationProofs --------------------------
(***************************************************************************)
(* Proofs about Configuration for any tasks, schedules, lists and requests.*)
(* First the order of a table: the ranks of its rows are a permutation, so *)
(* Load gives every item once, and gives back the list that was saved or   *)
(* reordered.  Then what the handlers make of a list, and what every step  *)
(* keeps: the table and the memory agree wherever no handler is under way. *)
(***************************************************************************)
EXTENDS Configuration, FiniteSetTheorems, FunctionTheorems, SequenceTheorems, TLAPS

------------------------------------------------------------------------------
(* The order of a table.                                                    *)

LEMMA Pigeonhole ==
  ASSUME NEW N \in Nat, NEW f \in [1..N -> 1..N],
         \A i, j \in 1..N : f[i] = f[j] => i = j
  PROVE  \A n \in 1..N : \E i \in 1..N : f[i] = n
<1>1. IsFiniteSet(1..N)
  BY FS_Interval
<1>2. f \in Injection(1..N, 1..N)
  BY Fun_IsInj
<1>3. f \in Surjection(1..N, 1..N)
  <2>1. Cardinality(1..N) = Cardinality(1..N) <=> f \in Surjection(1..N, 1..N)
    BY <1>1, <1>2, FS_Injection, Zenon
  <2>. QED BY <2>1
<1>. QED BY <1>3 DEF Surjection

(* A table, by what its order needs.                                        *)
IsTable(T, N) == N \in Nat /\ DOMAIN T = 1..N /\ \A i \in 1..N : T[i].order \in Nat

(* The rows before row i.                                                   *)
Ahead(T, i) == {j \in DOMAIN T : Before(T, j, i)}

LEMMA AheadIsFinite ==
  ASSUME NEW T, NEW N, IsTable(T, N), NEW i \in 1..N
  PROVE  IsFiniteSet(Ahead(T, i)) /\ Cardinality(Ahead(T, i)) \in 0..N - 1
<1>1. IsFiniteSet(1..N) /\ Cardinality(1..N) = N
  BY FS_Interval DEF IsTable
<1>2. IsFiniteSet((1..N) \ {i}) /\ Cardinality((1..N) \ {i}) = N - 1
  BY <1>1, FS_RemoveElement
<1>3. Ahead(T, i) \in SUBSET ((1..N) \ {i})
  BY DEF Ahead, Before, IsTable
<1>4. IsFiniteSet(Ahead(T, i)) /\ Cardinality(Ahead(T, i)) <= N - 1
  BY <1>2, <1>3, FS_Subset
<1>5. Cardinality(Ahead(T, i)) \in Nat
  BY <1>4, FS_CardinalityType
<1>. QED BY <1>4, <1>5 DEF IsTable

LEMMA AheadGrows ==
  ASSUME NEW T, NEW N, IsTable(T, N), NEW i \in 1..N, NEW j \in 1..N, Before(T, i, j)
  PROVE  Cardinality(Ahead(T, i)) # Cardinality(Ahead(T, j))
<1>1. \A k \in 1..N : Before(T, k, i) => Before(T, k, j)
  BY DEF Before, IsTable
<1>2. Ahead(T, i) \in SUBSET Ahead(T, j)
  BY <1>1 DEF Ahead, IsTable
<1>3. i \in Ahead(T, j) /\ i \notin Ahead(T, i)
  BY DEF Ahead, Before, IsTable
<1>4. IsFiniteSet(Ahead(T, j))
  BY AheadIsFinite
<1>. QED BY <1>2, <1>3, <1>4, FS_Subset

(* Every row has a rank of its own.                                         *)
LEMMA RankPermutes ==
  ASSUME NEW T, NEW N, IsTable(T, N)
  PROVE  /\ \A i \in 1..N : Rank(T, i) \in 1..N
         /\ \A i, j \in 1..N : Rank(T, i) = Rank(T, j) => i = j
         /\ \A n \in 1..N : \E i \in 1..N : Rank(T, i) = n
<1>. DEFINE f == [i \in 1..N |-> Rank(T, i)]
<1>1. \A i \in 1..N : Rank(T, i) = Cardinality(Ahead(T, i)) + 1
  BY DEF Rank, Ahead
<1>2. \A i \in 1..N : Rank(T, i) \in 1..N
  <2>. SUFFICES ASSUME NEW i \in 1..N
                PROVE  Rank(T, i) \in 1..N
    OBVIOUS
  <2>1. Cardinality(Ahead(T, i)) \in 0..N - 1 /\ N \in Nat
    BY AheadIsFinite DEF IsTable
  <2>. QED BY <1>1, <2>1
<1>3. \A i, j \in 1..N : Rank(T, i) = Rank(T, j) => i = j
  <2>. SUFFICES ASSUME NEW i \in 1..N, NEW j \in 1..N, i # j
                PROVE  Rank(T, i) # Rank(T, j)
    OBVIOUS
  <2>1. Before(T, i, j) \/ Before(T, j, i)
    BY DEF Before, IsTable
  <2>2. Cardinality(Ahead(T, i)) # Cardinality(Ahead(T, j))
    BY <2>1, AheadGrows
  <2>3. Cardinality(Ahead(T, i)) \in 0..N - 1 /\ Cardinality(Ahead(T, j)) \in 0..N - 1
    BY AheadIsFinite
  <2>. QED BY <1>1, <2>2, <2>3
<1>4. f \in [1..N -> 1..N] /\ \A i, j \in 1..N : f[i] = f[j] => i = j
  BY <1>2, <1>3
<1>5. \A n \in 1..N : \E i \in 1..N : f[i] = n
  <2>. HIDE DEF f
  <2>. QED BY <1>4, Pigeonhole DEF IsTable
<1>. QED BY <1>2, <1>3, <1>5

LEMMA LoadPermutes ==
  ASSUME NEW T, NEW N, IsTable(T, N)
  PROVE  /\ DOMAIN Load(T) = 1..N
         /\ \A i \in 1..N : Rank(T, i) \in 1..N /\ Load(T)[Rank(T, i)] = T[i].item
         /\ \A n \in 1..N : \E i \in 1..N : Rank(T, i) = n /\ Load(T)[n] = T[i].item
<1>1. DOMAIN T = 1..N
  BY DEF IsTable
<1>2. DOMAIN Load(T) = 1..N
  BY <1>1 DEF Load
<1>3. ASSUME NEW i \in 1..N
      PROVE  Rank(T, i) \in 1..N /\ Load(T)[Rank(T, i)] = T[i].item
  <2>1. Rank(T, i) \in 1..N
    BY RankPermutes
  <2>2. (CHOOSE j \in DOMAIN T : Rank(T, j) = Rank(T, i)) = i
    BY <1>1, RankPermutes
  <2>. QED BY <1>1, <2>1, <2>2 DEF Load
<1>. QED BY <1>2, <1>3, RankPermutes, SMTT(30)

(* The rows in the order p, if that is their order, have the ranks 1 to N.  *)
LEMMA RankInOrder ==
  ASSUME NEW T, NEW N, IsTable(T, N), NEW p \in [1..N -> 1..N],
         \A m, n \in 1..N : p[m] = p[n] => m = n,
         \A m, n \in 1..N : m < n => Before(T, p[m], p[n]),
         NEW n \in 1..N
  PROVE  Rank(T, p[n]) = n
<1>. DEFINE f == [m \in 1..n - 1 |-> p[m]]
            B == Ahead(T, p[n])
<1>0. N \in Nat /\ DOMAIN T = 1..N /\ n - 1 \in Nat /\ 1..n - 1 \subseteq 1..N
  BY DEF IsTable
<1>1. \A m \in 1..N : Before(T, p[m], p[n]) <=> m < n
  <2>. SUFFICES ASSUME NEW m \in 1..N, Before(T, p[m], p[n])
                PROVE  m < n
    OBVIOUS
  <2>1. p[m] \in 1..N /\ p[n] \in 1..N
    OBVIOUS
  <2>2. ~Before(T, p[n], p[m]) /\ p[m] # p[n]
    <3>. DEFINE i == p[m]
                j == p[n]
    <3>1. i \in 1..N /\ j \in 1..N /\ T[i].order \in Nat /\ T[j].order \in Nat /\ Before(T, i, j)
      BY <2>1 DEF IsTable
    <3>. HIDE DEF i, j
    <3>2. ~Before(T, j, i) /\ i # j
      <4>1. N \in Nat
        BY <1>0
      <4>2. i \in Int /\ j \in Int
        BY <3>1, <4>1
      <4>3. T[i].order \in Int /\ T[j].order \in Int
        BY <3>1
      <4>. QED BY <3>1, <4>2, <4>3 DEF Before
    <3>. QED BY <3>2, Zenon DEF i, j
  <2>. QED BY <1>0, <2>2
<1>2. f \in [1..n - 1 -> B]
  BY <1>0, <1>1 DEF Ahead
<1>3. \A a, b \in 1..n - 1 : f[a] = f[b] => a = b
  BY <1>0
<1>4. \A j \in B : \E m \in 1..n - 1 : f[m] = j
  <2>. SUFFICES ASSUME NEW j \in B
                PROVE  \E m \in 1..n - 1 : f[m] = j
    OBVIOUS
  <2>1. j \in 1..N /\ Before(T, j, p[n])
    BY <1>0 DEF Ahead
  <2>2. \A k \in 1..N : \E m \in 1..N : p[m] = k
    BY <1>0, Pigeonhole, Zenon
  <2>3. PICK m \in 1..N : p[m] = j
    BY <2>1, <2>2
  <2>4. m < n
    BY <1>1, <2>1, <2>3
  <2>. QED BY <1>0, <2>3, <2>4
<1>. HIDE DEF f, B
<1>5. f \in Bijection(1..n - 1, B)
  BY <1>2, <1>3, <1>4, Fun_IsBij
<1>6. ExistsBijection(1..n - 1, B)
  BY <1>5, Fun_ExistsBij
<1>7. Cardinality(B) = n - 1
  BY <1>0, <1>6, FS_CountingElements
<1>. QED BY <1>0, <1>7 DEF Rank, B, Ahead

(* And are loaded in it.                                                    *)
LEMMA LoadInOrder ==
  ASSUME NEW T, NEW N, IsTable(T, N), NEW p \in [1..N -> 1..N],
         \A m, n \in 1..N : p[m] = p[n] => m = n,
         \A m, n \in 1..N : m < n => Before(T, p[m], p[n])
  PROVE  /\ DOMAIN Load(T) = 1..N
         /\ \A n \in 1..N : Load(T)[n] = T[p[n]].item
<1>1. \A n \in 1..N : Rank(T, p[n]) = n
  BY RankInOrder, Zenon
<1>2. \A i \in 1..N : Load(T)[Rank(T, i)] = T[i].item
  BY LoadPermutes
<1>3. DOMAIN Load(T) = 1..N
  BY LoadPermutes, Zenon
<1>4. \A n \in 1..N : p[n] \in 1..N
  OBVIOUS
<1>. QED BY <1>1, <1>2, <1>3, <1>4

------------------------------------------------------------------------------
(* Lists and the tables they are saved in.                                  *)

Members(s) == {s[n] : n \in DOMAIN s}

(* The items in a table.                                                    *)
Held(T) == {T[i].item : i \in DOMAIN T}

Tables(Items) ==
  {T \in Seq(Rows(Items)) : \A i, j \in DOMAIN T : T[i].item.id = T[j].item.id => i = j}

LEMMA ListFacts ==
  ASSUME NEW Items, NEW s
  PROVE  s \in Lists(Items) <=>
           s \in Seq(Items) /\ \A m, n \in DOMAIN s : s[m].id = s[n].id => m = n
BY DEF Lists, Distinct, Ids

LEMMA TableFacts ==
  ASSUME NEW Items, NEW T \in Tables(Items)
  PROVE  /\ Len(T) \in Nat /\ DOMAIN T = 1..Len(T) /\ IsTable(T, Len(T))
         /\ \A i \in 1..Len(T) : T[i] \in Rows(Items) /\ T[i].item \in Items
         /\ \A i, j \in 1..Len(T) : T[i].item.id = T[j].item.id => i = j
<1>1. T \in Seq(Rows(Items)) /\ \A i, j \in DOMAIN T : T[i].item.id = T[j].item.id => i = j
  BY DEF Tables
<1>2. Len(T) \in Nat /\ DOMAIN T = 1..Len(T)
  BY <1>1
<1>3. \A i \in 1..Len(T) : T[i] \in Rows(Items)
  BY <1>1
<1>4. \A i \in 1..Len(T) : T[i].item \in Items /\ T[i].order \in Nat
  BY <1>3 DEF Rows
<1>. QED BY <1>1, <1>2, <1>3, <1>4 DEF IsTable

LEMMA LoadList ==
  ASSUME NEW Items, NEW T \in Tables(Items)
  PROVE  /\ Load(T) \in Lists(Items) /\ Len(Load(T)) = Len(T) /\ DOMAIN Load(T) = 1..Len(T)
         /\ Members(Load(T)) = Held(T)
<1>. DEFINE N == Len(T)
<1>1. /\ N \in Nat /\ DOMAIN T = 1..N /\ IsTable(T, N)
      /\ \A i \in 1..N : T[i].item \in Items
      /\ \A i, j \in 1..N : T[i].item.id = T[j].item.id => i = j
  BY TableFacts
<1>2. /\ DOMAIN Load(T) = 1..N
      /\ \A i \in 1..N : Rank(T, i) \in 1..N /\ Load(T)[Rank(T, i)] = T[i].item
      /\ \A n \in 1..N : \E i \in 1..N : Rank(T, i) = n /\ Load(T)[n] = T[i].item
  BY <1>1, LoadPermutes
<1>. HIDE DEF N
<1>3. \A n \in 1..N : Load(T)[n] \in Items
  BY <1>1, <1>2
<1>4. Load(T) = [n \in 1..N |-> Load(T)[n]]
  BY <1>2 DEF Load
<1>5. Load(T) \in Seq(Items) /\ Len(Load(T)) = N
  BY <1>1, <1>3, <1>4
<1>6. \A m, n \in DOMAIN Load(T) : Load(T)[m].id = Load(T)[n].id => m = n
  <2>. SUFFICES ASSUME NEW m \in 1..N, NEW n \in 1..N, Load(T)[m].id = Load(T)[n].id
                PROVE  m = n
    BY <1>2
  <2>1. PICK i \in 1..N : Rank(T, i) = m /\ Load(T)[m] = T[i].item
    BY <1>2
  <2>2. PICK j \in 1..N : Rank(T, j) = n /\ Load(T)[n] = T[j].item
    BY <1>2
  <2>3. i = j
    BY <1>1, <2>1, <2>2
  <2>. QED BY <2>1, <2>2, <2>3
<1>7. Members(Load(T)) = Held(T)
  <2>1. \A n \in 1..N : \E i \in 1..N : Load(T)[n] = T[i].item
    BY <1>2
  <2>2. \A i \in 1..N : \E n \in 1..N : Load(T)[n] = T[i].item
    BY <1>2
  <2>3. Members(Load(T)) = {Load(T)[n] : n \in 1..N} /\ Held(T) = {T[i].item : i \in 1..N}
    BY <1>1, <1>2 DEF Members, Held
  <2>4. \A x \in Members(Load(T)) : x \in Held(T)
    BY <2>1, <2>3
  <2>5. \A x \in Held(T) : x \in Members(Load(T))
    BY <2>2, <2>3
  <2>. QED BY <2>4, <2>5
<1>. QED BY <1>2, <1>5, <1>6, <1>7, ListFacts DEF N

LEMMA SavedTable ==
  ASSUME NEW Items, NEW s \in Lists(Items)
  PROVE  Saved(s) \in Tables(Items) /\ Load(Saved(s)) = s /\ Held(Saved(s)) = Members(s)
<1>. DEFINE N == Len(s)
            p == [n \in 1..N |-> n]
<1>1. /\ s \in Seq(Items) /\ N \in Nat /\ DOMAIN s = 1..N /\ \A n \in 1..N : s[n] \in Items
      /\ \A m, n \in 1..N : s[m].id = s[n].id => m = n
  BY ListFacts
<1>. HIDE DEF N
<1>2. /\ DOMAIN Saved(s) = 1..N
      /\ \A n \in 1..N : Saved(s)[n] = [item |-> s[n], order |-> n - 1]
  BY <1>1 DEF Saved
<1>3. \A n \in 1..N : Saved(s)[n] \in Rows(Items) /\ Saved(s)[n].item = s[n]
                      /\ Saved(s)[n].order = n - 1 /\ n - 1 \in Nat
  BY <1>1, <1>2 DEF Rows
<1>4. Saved(s) \in Tables(Items)
  BY <1>1, <1>2, <1>3 DEF Tables, Saved
<1>5. IsTable(Saved(s), N)
  BY <1>1, <1>2, <1>3 DEF IsTable
<1>6. /\ p \in [1..N -> 1..N]
      /\ \A m, n \in 1..N : p[m] = p[n] => m = n
      /\ \A m, n \in 1..N : m < n => Before(Saved(s), p[m], p[n])
  BY <1>1, <1>3 DEF Before
<1>7. /\ DOMAIN Load(Saved(s)) = 1..N
      /\ \A n \in 1..N : Load(Saved(s))[n] = Saved(s)[p[n]].item
  <2>. HIDE DEF p
  <2>. QED BY <1>5, <1>6, LoadInOrder
<1>8. Load(Saved(s)) = s
  <2>1. \A n \in 1..N : Load(Saved(s))[n] = s[n]
    BY <1>3, <1>7
  <2>2. Load(Saved(s)) = [n \in 1..N |-> Load(Saved(s))[n]]
    BY <1>7 DEF Load
  <2>. QED BY <1>1, <2>1, <2>2
<1>9. Held(Saved(s)) = Members(s)
  BY <1>1, <1>2, <1>3 DEF Held, Members
<1>. QED BY <1>4, <1>8, <1>9

(* A table whose order nobody set, or only the backfill.                    *)
Plain(T) == (\A i \in DOMAIN T : T[i].order = 0) \/ (\A i \in DOMAIN T : T[i].order = i)

LEMMA PlainOrder ==
  ASSUME NEW Items, NEW T \in Tables(Items), Plain(T)
  PROVE  \A n \in 1..Len(T) : Load(T)[n] = T[n].item
<1>. DEFINE N == Len(T)
            p == [n \in 1..N |-> n]
<1>1. N \in Nat /\ DOMAIN T = 1..N /\ IsTable(T, N)
  BY TableFacts
<1>. HIDE DEF N
<1>2. /\ p \in [1..N -> 1..N]
      /\ \A m, n \in 1..N : p[m] = p[n] => m = n
      /\ \A m, n \in 1..N : m < n => Before(T, p[m], p[n])
  BY <1>1 DEF Before, Plain
<1>3. \A n \in 1..N : Load(T)[n] = T[p[n]].item
  <2>. HIDE DEF p
  <2>. QED BY <1>1, <1>2, LoadInOrder
<1>. QED BY <1>3 DEF N

LEMMA BackfilledTable ==
  ASSUME NEW Items, NEW T \in Tables(Items)
  PROVE  /\ Backfilled(T) \in Tables(Items) /\ Held(Backfilled(T)) = Held(T)
         /\ Plain(T) => Plain(Backfilled(T)) /\ Load(Backfilled(T)) = Load(T)
<1>. DEFINE N == Len(T)
            B == Backfilled(T)
<1>1. /\ N \in Nat /\ DOMAIN T = 1..N
      /\ \A i \in 1..N : T[i] \in Rows(Items)
      /\ \A i, j \in 1..N : T[i].item.id = T[j].item.id => i = j
  BY TableFacts
<1>2. /\ DOMAIN B = 1..N
      /\ \A i \in 1..N : /\ B[i] \in Rows(Items) /\ B[i].item = T[i].item
                         /\ B[i].order = IF T[i].order = 0 THEN i ELSE T[i].order
  BY <1>1 DEF Backfilled, Rows
<1>3. B = [i \in 1..N |-> B[i]]
  BY <1>1 DEF Backfilled
<1>. HIDE DEF B, N
<1>4. B \in Tables(Items)
  <2>1. B \in Seq(Rows(Items))
    BY <1>1, <1>2, <1>3
  <2>. QED BY <1>1, <1>2, <2>1 DEF Tables
<1>5. Held(B) = Held(T)
  BY <1>1, <1>2 DEF Held
<1>6. ASSUME Plain(T)
      PROVE  Plain(B) /\ Load(B) = Load(T)
  <2>1. Plain(B)
    BY <1>1, <1>2, <1>6 DEF Plain
  <2>2. Len(B) = N
    BY <1>1, <1>2, <1>4, TableFacts
  <2>3. \A n \in 1..N : Load(B)[n] = Load(T)[n]
    <3>1. \A n \in 1..N : Load(T)[n] = T[n].item
      BY <1>6, PlainOrder DEF N
    <3>2. \A n \in 1..N : Load(B)[n] = B[n].item
      BY <1>4, <2>1, <2>2, PlainOrder
    <3>. QED BY <1>2, <3>1, <3>2
  <2>4. DOMAIN Load(B) = 1..N /\ DOMAIN Load(T) = 1..N
    BY <1>1, <1>2 DEF Load
  <2>. QED BY <2>1, <2>3, <2>4 DEF Load
<1>. QED BY <1>4, <1>5, <1>6 DEF B

------------------------------------------------------------------------------
(* What the handlers make of a list.                                        *)

LEMMA FindFacts ==
  ASSUME NEW s, NEW id, Has(s, id)
  PROVE  Find(s, id) \in DOMAIN s /\ s[Find(s, id)].id = id
BY DEF Has, Find

LEMMA FindAt ==
  ASSUME NEW Items, NEW s \in Lists(Items), NEW n \in DOMAIN s
  PROVE  Has(s, s[n].id) /\ Find(s, s[n].id) = n
<1>1. Has(s, s[n].id)
  BY DEF Has
<1>. QED BY <1>1, FindFacts, ListFacts

LEMMA UnsortedTable ==
  ASSUME NEW Items, NEW s \in Lists(Items)
  PROVE  /\ Unsorted(s) \in Tables(Items) /\ Plain(Unsorted(s))
         /\ Held(Unsorted(s)) = Members(s)
<1>. DEFINE N == Len(s)
            U == Unsorted(s)
<1>1. /\ N \in Nat /\ DOMAIN s = 1..N /\ \A n \in 1..N : s[n] \in Items
      /\ \A m, n \in 1..N : s[m].id = s[n].id => m = n
  BY ListFacts
<1>. HIDE DEF N
<1>2. U = [n \in 1..N |-> U[n]] /\ DOMAIN U = 1..N
  BY <1>1 DEF Unsorted
<1>3. \A n \in 1..N : U[n] \in Rows(Items) /\ U[n].item = s[n] /\ U[n].order = 0
  BY <1>1 DEF Unsorted, Rows
<1>. HIDE DEF U
<1>4. U \in Seq(Rows(Items))
  BY <1>1, <1>2, <1>3
<1>5. U \in Tables(Items)
  BY <1>1, <1>2, <1>3, <1>4 DEF Tables
<1>6. Plain(U)
  BY <1>2, <1>3 DEF Plain
<1>7. Held(U) = Members(s)
  BY <1>1, <1>2, <1>3 DEF Held, Members
<1>. QED BY <1>5, <1>6, <1>7 DEF U

LEMMA PutList ==
  ASSUME NEW Items, NEW s \in Lists(Items), NEW x \in Items
  PROVE  /\ Put(s, x) \in Lists(Items)
         /\ Members(Put(s, x)) = {y \in Members(s) : y.id # x.id} \cup {x}
<1>. DEFINE N == Len(s)
            P == Put(s, x)
<1>1. /\ s \in Seq(Items) /\ N \in Nat /\ DOMAIN s = 1..N /\ \A n \in 1..N : s[n] \in Items
      /\ \A m, n \in 1..N : s[m].id = s[n].id => m = n
  BY ListFacts
<1>. HIDE DEF N
<1>2. CASE Has(s, x.id)
  <2>1. PICK f \in 1..N : f = Find(s, x.id) /\ s[f].id = x.id
    BY <1>1, <1>2, FindFacts
  <2>2. P = [s EXCEPT ![f] = x]
    BY <1>2, <2>1 DEF Put
  <2>3. P \in Seq(Items) /\ DOMAIN P = 1..N /\ P[f] = x /\ \A n \in 1..N : n # f => P[n] = s[n]
    BY <1>1, <2>1, <2>2
  <2>. HIDE DEF P
  <2>4. \A m, n \in 1..N : P[m].id = P[n].id => m = n
    BY <1>1, <2>1, <2>3
  <2>5. Members(P) = {y \in Members(s) : y.id # x.id} \cup {x}
    <3>1. \A n \in 1..N : n # f => s[n].id # x.id
      BY <1>1, <2>1
    <3>. QED BY <1>1, <2>1, <2>3, <3>1 DEF Members
  <2>. QED BY <2>3, <2>4, <2>5, ListFacts DEF P
<1>3. CASE ~Has(s, x.id)
  <2>1. P = Append(s, x) /\ \A n \in 1..N : s[n].id # x.id
    BY <1>1, <1>3 DEF Put, Has
  <2>2. P \in Seq(Items) /\ DOMAIN P = 1..N + 1 /\ P[N + 1] = x /\ \A n \in 1..N : P[n] = s[n]
    BY <1>1, <2>1 DEF N
  <2>. HIDE DEF P
  <2>3. \A m, n \in 1..N + 1 : P[m].id = P[n].id => m = n
    <3>1. \A n \in 1..N + 1 : n \in 1..N \/ n = N + 1
      BY <1>1
    <3>. QED BY <1>1, <2>1, <2>2, <3>1
  <2>4. Members(P) = {y \in Members(s) : y.id # x.id} \cup {x}
    <3>1. \A n \in 1..N + 1 : n \in 1..N \/ n = N + 1
      BY <1>1
    <3>2. 1..N \subseteq 1..N + 1 /\ N + 1 \in 1..N + 1
      BY <1>1
    <3>. QED BY <1>1, <2>1, <2>2, <3>1, <3>2 DEF Members
  <2>. QED BY <2>2, <2>3, <2>4, ListFacts DEF P
<1>. QED BY <1>2, <1>3

LEMMA WithoutList ==
  ASSUME NEW Items, NEW s \in Lists(Items), NEW id, Has(s, id)
  PROVE  /\ Without(s, id) \in Lists(Items)
         /\ Members(Without(s, id)) = {y \in Members(s) : y.id # id}
<1>. DEFINE N == Len(s)
            W == Without(s, id)
<1>1. /\ s \in Seq(Items) /\ N \in Nat /\ DOMAIN s = 1..N /\ \A n \in 1..N : s[n] \in Items
      /\ \A m, n \in 1..N : s[m].id = s[n].id => m = n
  BY ListFacts
<1>. HIDE DEF N
<1>2. PICK f \in 1..N : f = Find(s, id) /\ s[f].id = id
  BY <1>1, FindFacts
<1>3. W = [n \in 1..N - 1 |-> IF n < f THEN s[n] ELSE s[n + 1]] /\ N - 1 \in Nat
  BY <1>1, <1>2 DEF Without, N
<1>. DEFINE g == [n \in 1..N - 1 |-> IF n < f THEN n ELSE n + 1]
<1>4. /\ \A n \in 1..N - 1 : g[n] \in 1..N /\ g[n] # f
      /\ \A m, n \in 1..N - 1 : g[m] = g[n] => m = n
      /\ \A k \in 1..N : k # f => \E n \in 1..N - 1 : g[n] = k
  <2>1. \A n \in 1..N - 1 : g[n] = IF n < f THEN n ELSE n + 1
    OBVIOUS
  <2>. HIDE DEF g
  <2>2. ASSUME NEW k \in 1..N, k # f
        PROVE  \E n \in 1..N - 1 : g[n] = k
    <3>1. CASE k < f
      <4>1. k \in 1..N - 1
        BY <1>1, <1>2, <3>1
      <4>. QED BY <2>1, <3>1, <4>1
    <3>2. CASE f < k
      <4>1. k - 1 \in 1..N - 1 /\ ~(k - 1 < f) /\ (k - 1) + 1 = k
        BY <1>1, <1>2, <3>2
      <4>. QED BY <2>1, <4>1
    <3>. QED BY <1>1, <1>2, <2>2, <3>1, <3>2
  <2>3. \A n \in 1..N - 1 : g[n] \in 1..N /\ g[n] # f
    BY <1>1, <1>2, <2>1
  <2>4. \A m, n \in 1..N - 1 : g[m] = g[n] => m = n
    BY <1>1, <1>2, <2>1
  <2>. QED BY <2>2, <2>3, <2>4
<1>5. DOMAIN W = 1..N - 1 /\ \A n \in 1..N - 1 : W[n] = s[g[n]]
  BY <1>1, <1>2, <1>3
<1>6. W = [n \in 1..N - 1 |-> W[n]]
  BY <1>3
<1>. HIDE DEF g, W
<1>7. W \in Seq(Items)
  BY <1>1, <1>3, <1>4, <1>5, <1>6
<1>8. \A m, n \in DOMAIN W : W[m].id = W[n].id => m = n
  BY <1>1, <1>4, <1>5, SMTT(30)
<1>9. Members(W) = {y \in Members(s) : y.id # id}
  <2>1. \A k \in 1..N : k # f => s[k].id # id
    BY <1>1, <1>2
  <2>2. \A n \in 1..N - 1 : W[n].id # id /\ \E k \in 1..N : W[n] = s[k]
    BY <1>4, <1>5, <2>1
  <2>3. \A k \in 1..N : s[k].id # id => \E n \in 1..N - 1 : W[n] = s[k]
    BY <1>2, <1>4, <1>5
  <2>4. Members(W) = {W[n] : n \in 1..N - 1} /\ Members(s) = {s[k] : k \in 1..N}
    BY <1>1, <1>5 DEF Members
  <2>. QED BY <2>2, <2>3, <2>4
<1>. QED BY <1>7, <1>8, <1>9, ListFacts DEF W

(* What disableOrphanSchedules makes of one schedule.                       *)
Disabled(y, ts) ==
  IF y.enabled /\ ~Has(ts, y.task)
  THEN [y EXCEPT !.enabled = FALSE, !.detail = "no task"] ELSE y

LEMMA DisabledSchedule ==
  ASSUME NEW ts, NEW y \in Schedule
  PROVE  /\ Disabled(y, ts) \in Schedule /\ Disabled(y, ts).id = y.id
         /\ Disabled(y, ts).task = y.task
         /\ Disabled(y, ts).enabled => Has(ts, y.task)
<1>. DEFINE off == [y EXCEPT !.enabled = FALSE, !.detail = "no task"]
<1>1. off \in Schedule /\ off.id = y.id /\ off.task = y.task /\ ~off.enabled
  BY DEF Schedule
<1>. HIDE DEF off
<1>2. CASE y.enabled /\ ~Has(ts, y.task)
  <2>1. Disabled(y, ts) = off
    BY <1>2 DEF Disabled, off
  <2>. QED BY <1>1, <2>1
<1>3. CASE ~(y.enabled /\ ~Has(ts, y.task))
  <2>1. Disabled(y, ts) = y
    BY <1>3 DEF Disabled
  <2>2. y.enabled => Has(ts, y.task)
    BY <1>3
  <2>. QED BY <2>1, <2>2, Zenon
<1>. QED BY <1>2, <1>3

LEMMA OrphansDisabledList ==
  ASSUME NEW ts, NEW ss \in Lists(Schedule)
  PROVE  /\ OrphansDisabled(ts, ss) \in Lists(Schedule)
         /\ Members(OrphansDisabled(ts, ss)) = {Disabled(y, ts) : y \in Members(ss)}
<1>. DEFINE N == Len(ss)
            D == OrphansDisabled(ts, ss)
<1>1. /\ ss \in Seq(Schedule) /\ N \in Nat /\ DOMAIN ss = 1..N /\ \A n \in 1..N : ss[n] \in Schedule
      /\ \A m, n \in 1..N : ss[m].id = ss[n].id => m = n
  BY ListFacts
<1>. HIDE DEF N
<1>2. /\ D = [n \in 1..N |-> D[n]]
      /\ \A n \in 1..N : D[n] = Disabled(ss[n], ts)
  BY <1>1 DEF OrphansDisabled, Disabled
<1>. HIDE DEF D
<1>3. \A n \in 1..N : D[n] \in Schedule /\ D[n].id = ss[n].id
  BY <1>1, <1>2, DisabledSchedule
<1>4. D \in Seq(Schedule) /\ DOMAIN D = 1..N
  BY <1>1, <1>2, <1>3
<1>5. \A m, n \in DOMAIN D : D[m].id = D[n].id => m = n
  BY <1>1, <1>3, <1>4
<1>6. Members(D) = {Disabled(y, ts) : y \in Members(ss)}
  <2>1. Members(D) = {D[n] : n \in 1..N} /\ Members(ss) = {ss[n] : n \in 1..N}
    BY <1>1, <1>4 DEF Members
  <2>2. \A x \in Members(D) : \E y \in Members(ss) : x = Disabled(y, ts)
    BY <1>2, <2>1
  <2>3. \A y \in Members(ss) : Disabled(y, ts) \in Members(D)
    BY <1>2, <2>1
  <2>. QED BY <2>2, <2>3
<1>. QED BY <1>4, <1>5, <1>6, ListFacts DEF D

(* A reorder of the table is the reorder of the list.                       *)
LEMMA ResortedTable ==
  ASSUME NEW Items, NEW T \in Tables(Items), NEW X, NEW ids \in Seq(X), NEW base,
         ValidReorder(ids, base, Load(T))
  PROVE  /\ Resorted(T, ids) \in Tables(Items)
         /\ Load(Resorted(T, ids)) = Ordered(Load(T), ids)
         /\ Held(Resorted(T, ids)) = Held(T)
<1>. DEFINE N == Len(T)
            L == Load(T)
            R == Resorted(T, ids)
            p == [n \in 1..N |-> CHOOSE i \in 1..N : T[i].item = L[Find(L, ids[n])]]
<1>1. /\ N \in Nat /\ DOMAIN T = 1..N /\ IsTable(T, N)
      /\ \A i \in 1..N : T[i] \in Rows(Items)
      /\ \A i, j \in 1..N : T[i].item.id = T[j].item.id => i = j
  BY TableFacts
<1>2. /\ DOMAIN L = 1..N /\ Len(L) = N
      /\ \A n \in 1..N : \E i \in 1..N : L[n] = T[i].item
  BY <1>1, LoadPermutes, LoadList
<1>3. /\ DOMAIN ids = 1..N
      /\ \A m, n \in 1..N : ids[m] = ids[n] => m = n
      /\ \A n \in 1..N : Has(L, ids[n])
  <2>1. ValidReorder(ids, base, L)
    OBVIOUS
  <2>. HIDE DEF N, L
  <2>2. DOMAIN ids = 1..Len(ids) /\ Len(ids) = N
    BY <1>2, <2>1 DEF ValidReorder
  <2>. QED BY <2>1, <2>2 DEF ValidReorder, Distinct
<1>. HIDE DEF N, L
<1>4. ASSUME NEW n \in 1..N
      PROVE  p[n] \in 1..N /\ T[p[n]].item = L[Find(L, ids[n])] /\ T[p[n]].item.id = ids[n]
  <2>1. Find(L, ids[n]) \in 1..N /\ L[Find(L, ids[n])].id = ids[n]
    <3>1. Has(L, ids[n])
      BY <1>3
    <3>. QED BY <1>2, <3>1, FindFacts, SMTT(30)
  <2>2. \E i \in 1..N : T[i].item = L[Find(L, ids[n])]
    BY <1>2, <2>1
  <2>3. p[n] = CHOOSE i \in 1..N : T[i].item = L[Find(L, ids[n])]
    OBVIOUS
  <2>. HIDE DEF p
  <2>. QED BY <2>1, <2>2, <2>3
<1>5. p \in [1..N -> 1..N]
  <2>1. \A n \in 1..N : p[n] \in 1..N
    BY <1>4
  <2>. QED BY <2>1
<1>. HIDE DEF p
<1>6. \A m, n \in 1..N : p[m] = p[n] => m = n
  BY <1>3, <1>4
<1>7. /\ R = [i \in 1..N |-> R[i]]
      /\ \A i \in 1..N :
           R[i] = IF \E n \in 1..N : ids[n] = T[i].item.id
                  THEN [T[i] EXCEPT !.order = (CHOOSE n \in 1..N : ids[n] = T[i].item.id) - 1]
                  ELSE T[i]
  BY <1>1, <1>3 DEF Resorted
<1>. HIDE DEF R
<1>8. ASSUME NEW i \in 1..N
      PROVE  R[i] \in Rows(Items) /\ R[i].item = T[i].item /\ R[i].order \in Nat
  <2>1. T[i] \in Rows(Items) /\ T[i].order \in Nat
    BY <1>1 DEF Rows
  <2>2. CASE \E n \in 1..N : ids[n] = T[i].item.id
    <3>1. PICK k \in 1..N : k = CHOOSE n \in 1..N : ids[n] = T[i].item.id
      BY <2>2
    <3>2. R[i] = [T[i] EXCEPT !.order = k - 1] /\ k - 1 \in Nat
      BY <1>1, <1>7, <2>2, <3>1
    <3>. QED BY <2>1, <3>2 DEF Rows
  <2>3. CASE ~\E n \in 1..N : ids[n] = T[i].item.id
    BY <1>7, <2>1, <2>3
  <2>. QED BY <2>2, <2>3
<1>9. ASSUME NEW n \in 1..N
      PROVE  R[p[n]].order = n - 1
  <2>1. p[n] \in 1..N /\ ids[n] = T[p[n]].item.id
    BY <1>4
  <2>2. (CHOOSE m \in 1..N : ids[m] = T[p[n]].item.id) = n
    BY <1>3, <2>1
  <2>3. R[p[n]] = [T[p[n]] EXCEPT !.order = n - 1]
    BY <1>7, <2>1, <2>2
  <2>4. T[p[n]] \in Rows(Items)
    BY <1>1, <2>1
  <2>. QED BY <2>3, <2>4 DEF Rows
<1>10. DOMAIN R = 1..N /\ IsTable(R, N)
  BY <1>1, <1>7, <1>8 DEF IsTable
<1>11. R \in Tables(Items)
  <2>1. R \in Seq(Rows(Items))
    BY <1>1, <1>7, <1>8
  <2>. QED BY <1>1, <1>8, <1>10, <2>1 DEF Tables
<1>12. \A m, n \in 1..N : m < n => Before(R, p[m], p[n])
  BY <1>1, <1>9 DEF Before
<1>13. /\ DOMAIN Load(R) = 1..N
       /\ \A n \in 1..N : Load(R)[n] = R[p[n]].item
  BY <1>5, <1>6, <1>10, <1>12, LoadInOrder
<1>14. Load(R) = Ordered(L, ids)
  <2>1. \A n \in 1..N : Load(R)[n] = L[Find(L, ids[n])]
    BY <1>4, <1>8, <1>13
  <2>2. Load(R) = [n \in 1..N |-> Load(R)[n]]
    BY <1>13 DEF Load
  <2>. QED BY <1>3, <2>1, <2>2 DEF Ordered
<1>15. Held(R) = Held(T)
  BY <1>1, <1>8, <1>10, SMTT(30) DEF Held
<1>. QED BY <1>11, <1>14, <1>15 DEF R, L

------------------------------------------------------------------------------
(* The invariant.                                                           *)

(* What a restart would load is the configuration c.                        *)
Agrees(c) ==
  /\ Load(store.tasks) = c.tasks
  /\ Load(store.schedules) = c.schedules
  /\ store.settings = c.settings \/ ignored

(* The phases that are reached only with the column of k backfilled and     *)
(* marked.                                                                  *)
Past(k) ==
  (IF k = "tasks" THEN {"schedules", "mark schedules"} ELSE {})
    \cup {"seed", "import", "load", "resave", "read"} \cup Up

ConfInv ==
  /\ TypeOK
  /\ store.tasks \in Tables(Task) /\ store.schedules \in Tables(Schedule)
  /\ phase \in {"import", "load", "resave", "read"} \cup Up => store.settings # NoSettings
  /\ phase \in Up => Agrees(IF pending = NoChange THEN memory ELSE pending)
  /\ pending # NoChange => phase \in Up
  /\ phase = "resave" => Load(store.tasks) = memory.tasks
  /\ phase = "started" => ~OrphanStored
  /\ ignored \/ \A k \in Kinds : k \in store.marked \/ (Plain(store[k]) /\ phase \notin Past(k))

(* What no step may do to the items, besides: a task or schedule goes only  *)
(* by a delete or an import, a last result changes only by a run or where   *)
(* the schedule is disabled without its task, and no orphan appears.        *)
TasksStay ==
  \A x \in Held(store.tasks) :
    \/ \E y \in Held(store'.tasks) : y.id = x.id
    \/ DeleteTask(x.id) \/ \E ts \in Imports : ReplaceTasks(ts)

SchedulesStay ==
  \A x \in Held(store.schedules) :
    (\E y \in Held(store'.schedules) : y.id = x.id) \/ DeleteSchedule(x.id)

SameResult(x, y) == x.last = y.last /\ x.detail = y.detail

TaskGone(x, y, ts) ==
  /\ x.enabled /\ \A u \in ts : u.id # x.task
  /\ y = [x EXCEPT !.enabled = FALSE, !.detail = "no task"]

ResultsStay ==
  \A x \in Held(store.schedules), y \in Held(store'.schedules) :
    x.id = y.id => \/ SameResult(x, y)
                   \/ \E r \in Results : RecordResult(x.id, r)
                   \/ TaskGone(x, y, Held(store'.tasks))

Harmless == TasksStay /\ SchedulesStay /\ ResultsStay /\ (OrphanStored' => OrphanStored)

(* An enabled schedule among ss whose task is not among ts.                 *)
Orphan(ts, ss) == \E x \in ss : x.enabled /\ \A y \in ts : y.id # x.task

LEMMA OrphanStoredIsOrphan ==
  OrphanStored <=> Orphan(Held(store.tasks), Held(store.schedules))
BY DEF OrphanStored, EnabledOrphan, Stored, Orphan, Held

LEMMA OrphanStoredNext ==
  OrphanStored' <=> Orphan(Held(store'.tasks), Held(store'.schedules))
BY DEF OrphanStored, EnabledOrphan, Stored, Orphan, Held

LEMMA HeldDistinct ==
  ASSUME NEW Items, NEW T \in Tables(Items), NEW x \in Held(T), NEW y \in Held(T), x.id = y.id
  PROVE  x = y
<1>1. PICK i \in DOMAIN T : x = T[i].item
  BY DEF Held
<1>2. PICK j \in DOMAIN T : y = T[j].item
  BY DEF Held
<1>. QED BY <1>1, <1>2 DEF Tables

(* The schedules that are left are as they were.                            *)
LEMMA SameResults ==
  ASSUME ConfInv, Held(store'.schedules) \subseteq Held(store.schedules)
  PROVE  ResultsStay
<1>1. \A x, y \in Held(store.schedules) : x.id = y.id => x = y
  BY HeldDistinct DEF ConfInv
<1>. QED BY <1>1, Zenon DEF ResultsStay, SameResult

(* The schedules stay as they are and no task goes.                         *)
LEMMA TasksGrow ==
  ASSUME ConfInv, Held(store'.schedules) = Held(store.schedules),
         \A x \in Held(store.tasks) : \E y \in Held(store'.tasks) : y.id = x.id
  PROVE  Harmless
<1>1. OrphanStored' => OrphanStored
  BY OrphanStoredIsOrphan, OrphanStoredNext DEF Orphan
<1>2. ResultsStay
  BY SameResults
<1>. QED BY <1>1, <1>2 DEF Harmless, TasksStay, SchedulesStay

LEMMA NothingChanges ==
  ASSUME ConfInv, Held(store'.schedules) = Held(store.schedules),
         Held(store'.tasks) = Held(store.tasks)
  PROVE  Harmless
BY TasksGrow

LEMMA TablesAreSequences ==
  ASSUME NEW Items, NEW T \in Tables(Items)
  PROVE  T \in Seq(Rows(Items))
BY DEF Tables

StoreType ==
  [tasks : Tables(Task), schedules : Tables(Schedule),
   settings : Settings \cup {NoSettings}, marked : SUBSET Kinds]

LEMMA StoreFacts ==
  ASSUME ConfInv
  PROVE  store \in StoreType
BY DEF ConfInv, TypeOK, StoreType

LEMMA ConfTypes ==
  ASSUME NEW S \in StoreType
  PROVE  S \in [tasks : Seq(Rows(Task)), schedules : Seq(Rows(Schedule)),
                settings : Settings \cup {NoSettings}, marked : SUBSET Kinds]
BY TablesAreSequences DEF StoreType

------------------------------------------------------------------------------
(* The start-up.                                                            *)

LEMMA EmptyList ==
  ASSUME NEW Items
  PROVE  <<>> \in Lists(Items)
<1>1. <<>> \in Seq(Items)
  OBVIOUS
<1>2. DOMAIN <<>> = {}
  OBVIOUS
<1>3. \A m, n \in DOMAIN <<>> : <<>>[m].id = <<>>[n].id => m = n
  BY <1>2
<1>. QED BY <1>1, <1>3, ListFacts, Zenon

LEMMA InitKeeps ==
  ASSUME Init
  PROVE  ConfInv
<1>1. PICK ts \in OldTasks, ss \in OldSchedules, x \in Settings \cup {NoSettings} :
        store = [tasks |-> Unsorted(ts), schedules |-> Unsorted(ss), settings |-> x, marked |-> {}]
  BY DEF Init
<1>2. /\ store.tasks \in Tables(Task) /\ Plain(store.tasks)
      /\ store.schedules \in Tables(Schedule) /\ Plain(store.schedules)
  BY <1>1, UnsortedTable, ConfigurationAssumption
<1>3. store \in StoreType
  BY <1>1, <1>2 DEF StoreType
<1>4. memory \in Configurations
  <2>1. <<>> \in Lists(Task) /\ <<>> \in Lists(Schedule)
    BY EmptyList
  <2>. QED BY <2>1, ConfigurationAssumption DEF Init, Blank, Configurations
<1>5. TypeOK
  <2>1. store \in [tasks : Seq(Rows(Task)), schedules : Seq(Rows(Schedule)),
                   settings : Settings \cup {NoSettings}, marked : SUBSET Kinds]
    BY <1>3, ConfTypes
  <2>2. legacy \in LegacyLists /\ pending = NoChange /\ phase = "down" /\ ignored = FALSE
    BY DEF Init
  <2>. QED BY <1>4, <2>1, <2>2 DEF TypeOK, Booting
<1>6. phase = "down" /\ pending = NoChange
  BY DEF Init
<1>7. \A k \in Kinds : Plain(store[k])
  BY <1>2 DEF Kinds
<1>. QED BY <1>2, <1>5, <1>6, <1>7 DEF ConfInv, Past, Up

(* A step of the start-up changes the store to S and the memory to m.       *)
LEMMA StartUpKeeps ==
  ASSUME ConfInv, phase \in Booting, phase' \in Booting, pending' = pending, legacy' = legacy,
         store' \in StoreType, memory' \in Configurations, ignored' \in BOOLEAN,
         phase' \in {"import", "load", "resave", "read"} => store'.settings # NoSettings,
         phase' = "resave" => Load(store'.tasks) = memory'.tasks,
         ignored' \/ \A k \in Kinds : k \in store'.marked \/ (Plain(store'[k]) /\ phase' \notin Past(k))
  PROVE  ConfInv'
<1>1. pending = NoChange /\ phase \notin Up /\ phase' \notin Up
  BY DEF ConfInv, Booting, Up
<1>2. TypeOK'
  BY ConfTypes DEF ConfInv, TypeOK
<1>3. store'.tasks \in Tables(Task) /\ store'.schedules \in Tables(Schedule)
  BY DEF StoreType
<1>4. phase' # "started"
  BY <1>1 DEF Up
<1>. QED BY <1>1, <1>2, <1>3, <1>4 DEF ConfInv, Past

(* What BootKeeps says.                                                     *)
BootKept ==
  /\ Load(store'.schedules) = Load(store.schedules) \/ ignored'
  /\ Load(store'.tasks) = Load(store.tasks) \/ store.tasks = <<>> \/ ignored'
  /\ store'.settings = store.settings \/ store.settings = NoSettings

Safe == ConfInv' /\ Harmless /\ (phase \in Booting => BootKept)

LEMMA StoreStays ==
  ASSUME ConfInv, store' = store
  PROVE  Harmless /\ BootKept
<1>1. Held(store'.tasks) = Held(store.tasks) /\ Held(store'.schedules) = Held(store.schedules)
  OBVIOUS
<1>. QED BY <1>1, NothingChanges DEF BootKept

LEMMA BootStep ==
  ASSUME ConfInv, Boot
  PROVE  Safe
<1>1. /\ phase = "down" /\ phase' = "tasks" /\ store' = store /\ legacy' = legacy
      /\ memory' = memory /\ pending' = pending /\ ignored' = ignored
  BY DEF Boot, Reach
<1>2. /\ phase \in Booting /\ phase' \in Booting /\ \A k \in Kinds : phase' \notin Past(k)
  BY <1>1 DEF Booting, Past, Up, Kinds
<1>3. /\ store' \in StoreType /\ memory' \in Configurations /\ ignored' \in BOOLEAN
      /\ ignored' \/ \A k \in Kinds : k \in store'.marked \/ Plain(store'[k])
  BY <1>1, StoreFacts DEF ConfInv, TypeOK
<1>4. ConfInv'
  BY <1>1, <1>2, <1>3, StartUpKeeps
<1>. QED BY <1>1, <1>4, StoreStays DEF Safe

LEMMA SkipBackfillStep ==
  ASSUME ConfInv, NEW k \in Kinds, NEW next, SkipBackfill(k, next),
         \/ k = "tasks" /\ next = "schedules"
         \/ k = "schedules" /\ next = "seed"
  PROVE  Safe
<1>1. /\ phase = k /\ k \in store.marked /\ phase' = next /\ store' = store /\ legacy' = legacy
      /\ memory' = memory /\ pending' = pending /\ ignored' = ignored
  BY DEF SkipBackfill, Reach
<1>2. /\ phase \in Booting /\ phase' \in Booting
      /\ phase' \notin {"import", "load", "resave", "read"}
      /\ \A i \in Kinds : i # k /\ phase' \in Past(i) => phase \in Past(i)
  BY <1>1 DEF Booting, Past, Up, Kinds
<1>3. /\ store' \in StoreType /\ memory' \in Configurations /\ ignored' \in BOOLEAN
  BY <1>1, StoreFacts DEF ConfInv, TypeOK
<1>4. ignored' \/ \A i \in Kinds : i \in store'.marked \/ (Plain(store'[i]) /\ phase' \notin Past(i))
  BY <1>1, <1>2 DEF ConfInv
<1>5. ConfInv'
  BY <1>1, <1>2, <1>3, <1>4, StartUpKeeps
<1>. QED BY <1>1, <1>5, StoreStays DEF Safe

LEMMA BackfillStep ==
  ASSUME ConfInv, NEW k \in Kinds, NEW next, Backfill(k, next),
         \/ k = "tasks" /\ next = "mark tasks"
         \/ k = "schedules" /\ next = "mark schedules"
  PROVE  Safe
<1>1. /\ phase = k /\ phase' = next /\ store' = [store EXCEPT ![k] = Backfilled(@)]
      /\ legacy' = legacy /\ memory' = memory /\ pending' = pending
      /\ ignored' \in BOOLEAN
  BY DEF Backfill, Reach, Unmarked, ConfInv, TypeOK
<1>0. ~ignored' =>
        /\ k \notin store.marked
        /\ \A i \in Kinds : i \in store.marked \/ (Plain(store[i]) /\ phase \notin Past(i))
  <2>1. ~ignored' => ~ignored /\ k \notin store.marked
    BY Zenon DEF Backfill, Unmarked
  <2>2. ~ignored =>
          \A i \in Kinds : i \in store.marked \/ (Plain(store[i]) /\ phase \notin Past(i))
    BY Zenon DEF ConfInv
  <2>. QED BY <2>1, <2>2
<1>2. /\ phase \in Booting /\ phase' \in Booting
      /\ phase' \notin {"import", "load", "resave", "read"}
      /\ phase' \notin Past(k)
      /\ \A i \in Kinds : phase' \in Past(i) => phase \in Past(i)
  BY <1>1 DEF Booting, Past, Up, Kinds
<1>3. store \in StoreType /\ memory \in Configurations
  BY StoreFacts DEF ConfInv, TypeOK
<1>4. /\ store'.tasks = IF k = "tasks" THEN Backfilled(store.tasks) ELSE store.tasks
      /\ store'.schedules = IF k = "schedules" THEN Backfilled(store.schedules) ELSE store.schedules
      /\ store'.settings = store.settings /\ store'.marked = store.marked
      /\ store' = [tasks |-> store'.tasks, schedules |-> store'.schedules,
                   settings |-> store.settings, marked |-> store.marked]
  BY <1>1, <1>3 DEF Kinds, StoreType
<1>5. /\ Backfilled(store.tasks) \in Tables(Task)
      /\ Held(Backfilled(store.tasks)) = Held(store.tasks)
      /\ Plain(store.tasks) => /\ Plain(Backfilled(store.tasks))
                               /\ Load(Backfilled(store.tasks)) = Load(store.tasks)
  BY BackfilledTable DEF ConfInv
<1>6. /\ Backfilled(store.schedules) \in Tables(Schedule)
      /\ Held(Backfilled(store.schedules)) = Held(store.schedules)
      /\ Plain(store.schedules) => /\ Plain(Backfilled(store.schedules))
                                   /\ Load(Backfilled(store.schedules)) = Load(store.schedules)
  BY BackfilledTable DEF ConfInv
<1>7. store'.tasks \in Tables(Task) /\ store'.schedules \in Tables(Schedule)
  BY <1>4, <1>5, <1>6 DEF ConfInv
<1>8. store' \in StoreType
  BY <1>3, <1>4, <1>7 DEF StoreType
<1>9. ~ignored' => Plain(store[k]) /\ Plain(store'[k]) /\ Load(store'[k]) = Load(store[k])
  <2>1. ~ignored' => Plain(store[k])
    BY <1>0
  <2>2. CASE k = "tasks"
    BY <1>4, <1>5, <2>1, <2>2
  <2>3. CASE k = "schedules"
    BY <1>4, <1>6, <2>1, <2>3
  <2>. QED BY <2>2, <2>3 DEF Kinds
<1>10. \A i \in Kinds : i # k => store'[i] = store[i]
  BY <1>4 DEF Kinds
<1>11. ignored' \/ \A i \in Kinds : i \in store'.marked \/ (Plain(store'[i]) /\ phase' \notin Past(i))
  <2>. SUFFICES ASSUME ~ignored', NEW i \in Kinds
                PROVE  i \in store'.marked \/ (Plain(store'[i]) /\ phase' \notin Past(i))
    OBVIOUS
  <2>1. CASE i = k
    BY <1>2, <1>9, <2>1
  <2>2. CASE i # k
    <3>1. i \in store.marked \/ (Plain(store[i]) /\ phase \notin Past(i))
      BY <1>0
    <3>. QED BY <1>2, <1>4, <1>10, <2>2, <3>1
  <2>. QED BY <2>1, <2>2
<1>12. ConfInv'
  BY <1>1, <1>2, <1>3, <1>8, <1>11, StartUpKeeps
<1>13. Harmless
  BY <1>4, <1>5, <1>6, NothingChanges
<1>14. BootKept
  BY <1>4, <1>9 DEF BootKept, Kinds
<1>. QED BY <1>12, <1>13, <1>14 DEF Safe

LEMMA MarkStep ==
  ASSUME ConfInv, NEW k \in Kinds, NEW here, NEW next, Mark(k, here, next),
         \/ k = "tasks" /\ here = "mark tasks" /\ next = "schedules"
         \/ k = "schedules" /\ here = "mark schedules" /\ next = "seed"
  PROVE  Safe
<1>1. /\ phase = here /\ phase' = next
      /\ legacy' = legacy /\ memory' = memory /\ pending' = pending
      /\ \/ store' = [store EXCEPT !.marked = @ \cup {k}] /\ ignored' = ignored
         \/ store' = store /\ ignored'
      /\ ignored' \in BOOLEAN
  BY DEF Mark, Reach, ConfInv, TypeOK
<1>0. ~ignored' =>
        /\ store' = [store EXCEPT !.marked = @ \cup {k}]
        /\ \A i \in Kinds : i \in store.marked \/ (Plain(store[i]) /\ phase \notin Past(i))
  <2>1. ~ignored' => ~ignored /\ store' = [store EXCEPT !.marked = @ \cup {k}]
    BY Zenon DEF Mark
  <2>2. ~ignored =>
          \A i \in Kinds : i \in store.marked \/ (Plain(store[i]) /\ phase \notin Past(i))
    BY Zenon DEF ConfInv
  <2>. QED BY <2>1, <2>2
<1>2. /\ phase \in Booting /\ phase' \in Booting
      /\ phase' \notin {"import", "load", "resave", "read"}
      /\ \A i \in Kinds : i # k /\ phase' \in Past(i) => phase \in Past(i)
  BY <1>1 DEF Booting, Past, Up, Kinds
<1>3. store \in StoreType /\ memory \in Configurations
  BY StoreFacts DEF ConfInv, TypeOK
<1>4. /\ store'.tasks = store.tasks /\ store'.schedules = store.schedules
      /\ store'.settings = store.settings
      /\ store'.marked = store.marked \cup {k} \/ (store'.marked = store.marked /\ ignored')
      /\ store' = [tasks |-> store.tasks, schedules |-> store.schedules,
                   settings |-> store.settings, marked |-> store'.marked]
  BY <1>1, <1>3 DEF StoreType
<1>5. store' \in StoreType
  BY <1>3, <1>4 DEF StoreType
<1>6. ignored' \/ \A i \in Kinds : i \in store'.marked \/ (Plain(store'[i]) /\ phase' \notin Past(i))
  <2>. SUFFICES ASSUME ~ignored', NEW i \in Kinds
                PROVE  i \in store'.marked \/ (Plain(store'[i]) /\ phase' \notin Past(i))
    OBVIOUS
  <2>1. store'.marked = store.marked \cup {k}
    BY <1>0, <1>3 DEF StoreType
  <2>2. store'[i] = store[i]
    BY <1>4 DEF Kinds
  <2>3. i \in store.marked \/ (Plain(store[i]) /\ phase \notin Past(i))
    BY <1>0
  <2>. QED BY <1>2, <2>1, <2>2, <2>3
<1>7. ConfInv'
  BY <1>1, <1>2, <1>3, <1>5, <1>6, StartUpKeeps
<1>8. Harmless /\ BootKept
  BY <1>4, NothingChanges DEF BootKept
<1>. QED BY <1>7, <1>8 DEF Safe

(* Both tables are backfilled and marked, unless an error was ignored.      *)
LEMMA BothMarked ==
  ASSUME ConfInv, phase \in {"seed", "import", "load", "resave", "read"} \cup Up
  PROVE  ignored \/ \A k \in Kinds : k \in store.marked
BY DEF ConfInv, Past

LEMMA SeedStep ==
  ASSUME ConfInv, SeedSettings
  PROVE  Safe
<1>1. /\ phase = "seed" /\ phase' = "import" /\ legacy' = legacy /\ memory' = memory
      /\ pending' = pending /\ ignored' = ignored
      /\ store' = [store EXCEPT !.settings = IF @ = NoSettings THEN DefaultSettings ELSE @]
  BY DEF SeedSettings, Reach
<1>2. phase \in Booting /\ phase' \in Booting /\ phase' # "resave"
  BY <1>1 DEF Booting
<1>3. store \in StoreType /\ memory \in Configurations /\ ignored' \in BOOLEAN
  BY <1>1, StoreFacts DEF ConfInv, TypeOK
<1>4. /\ store'.tasks = store.tasks /\ store'.schedules = store.schedules
      /\ store'.settings = IF store.settings = NoSettings THEN DefaultSettings ELSE store.settings
      /\ store'.marked = store.marked
      /\ store' = [tasks |-> store.tasks, schedules |-> store.schedules,
                   settings |-> store'.settings, marked |-> store.marked]
  BY <1>1, <1>3 DEF StoreType
<1>5. store'.settings \in Settings /\ store'.settings # NoSettings
  BY <1>3, <1>4, ConfigurationAssumption DEF StoreType
<1>6. store' \in StoreType
  BY <1>3, <1>4, <1>5 DEF StoreType
<1>7. ignored' \/ \A k \in Kinds : k \in store'.marked
  BY <1>1, <1>4, BothMarked
<1>8. ConfInv'
  BY <1>1, <1>2, <1>3, <1>5, <1>6, <1>7, StartUpKeeps
<1>9. Harmless /\ BootKept
  BY <1>4, NothingChanges DEF BootKept
<1>. QED BY <1>8, <1>9 DEF Safe

(* The table of tasks is replaced by a saved list.                          *)
LEMMA TasksSavedTable ==
  ASSUME ConfInv, NEW ts \in Lists(Task), store' = [store EXCEPT !.tasks = Saved(ts)]
  PROVE  /\ store' \in StoreType /\ store'.tasks = Saved(ts) /\ Load(store'.tasks) = ts
         /\ Held(store'.tasks) = Members(ts)
         /\ store'.schedules = store.schedules /\ store'.settings = store.settings
         /\ store'.marked = store.marked
<1>1. store \in StoreType
  BY StoreFacts
<1>2. Saved(ts) \in Tables(Task) /\ Load(Saved(ts)) = ts /\ Held(Saved(ts)) = Members(ts)
  BY SavedTable
<1>. QED BY <1>1, <1>2 DEF StoreType

LEMMA ImportStep ==
  ASSUME ConfInv, ImportLegacy
  PROVE  Safe
<1>1. /\ phase = "import" /\ phase' = "load" /\ legacy' = legacy /\ memory' = memory
      /\ pending' = pending /\ ignored' = ignored
  BY DEF ImportLegacy, Reach
<1>2. phase \in Booting /\ phase' \in Booting /\ phase' # "resave" /\ store.settings # NoSettings
  BY <1>1 DEF Booting, ConfInv
<1>3. store \in StoreType /\ memory \in Configurations /\ ignored' \in BOOLEAN
      /\ legacy \in Seq(Task)
  BY <1>1, StoreFacts, ConfigurationAssumption DEF ConfInv, TypeOK
<1>4. ignored \/ \A k \in Kinds : k \in store.marked
  BY <1>1, BothMarked
<1>5. CASE store.tasks = <<>> /\ Distinct(Ids(legacy)) /\ store' = [store EXCEPT !.tasks = Saved(legacy)]
  <2>1. legacy \in Lists(Task)
    BY <1>3, <1>5 DEF Lists
  <2>2. /\ store' \in StoreType /\ store'.schedules = store.schedules
        /\ store'.settings = store.settings /\ store'.marked = store.marked
    BY <1>5, <2>1, TasksSavedTable
  <2>3. ConfInv'
    BY <1>1, <1>2, <1>3, <1>4, <2>2, StartUpKeeps
  <2>4. Held(store.tasks) = {}
    BY <1>5 DEF Held
  <2>5. Harmless
    BY <2>2, <2>4, TasksGrow
  <2>. QED BY <1>5, <2>2, <2>3, <2>5 DEF Safe, BootKept
<1>6. CASE store' = store
  <2>1. ConfInv'
    BY <1>1, <1>2, <1>3, <1>4, <1>6, StartUpKeeps
  <2>. QED BY <1>6, <2>1, StoreStays DEF Safe
<1>. QED BY <1>5, <1>6 DEF ImportLegacy

LEMMA LoadTasksStep ==
  ASSUME ConfInv, LoadTasks
  PROVE  Safe
<1>1. /\ phase = "load" /\ phase' = "resave" /\ legacy' = legacy /\ store' = store
      /\ pending' = pending /\ ignored' = ignored
      /\ memory' = [memory EXCEPT !.tasks = Load(store.tasks)]
  BY DEF LoadTasks, Reach
<1>2. phase \in Booting /\ phase' \in Booting /\ store.settings # NoSettings
  BY <1>1 DEF Booting, ConfInv
<1>3. store \in StoreType /\ memory \in Configurations /\ ignored' \in BOOLEAN
  BY <1>1, StoreFacts DEF ConfInv, TypeOK
<1>4. Load(store.tasks) \in Lists(Task)
  BY LoadList DEF ConfInv
<1>5. memory' \in Configurations /\ memory'.tasks = Load(store.tasks)
  BY <1>1, <1>3, <1>4 DEF Configurations
<1>6. ignored' \/ \A k \in Kinds : k \in store'.marked
  BY <1>1, BothMarked
<1>7. ConfInv'
  BY <1>1, <1>2, <1>3, <1>5, <1>6, StartUpKeeps
<1>. QED BY <1>1, <1>7, StoreStays DEF Safe

LEMMA ResaveStep ==
  ASSUME ConfInv, ResaveTasks
  PROVE  Safe
<1>1. /\ phase = "resave" /\ phase' = "read" /\ legacy' = legacy /\ memory' = memory
      /\ pending' = pending /\ ignored' = ignored
      /\ store' = [store EXCEPT !.tasks = Saved(memory.tasks)]
  BY DEF ResaveTasks, Reach
<1>2. phase \in Booting /\ phase' \in Booting /\ phase' # "resave" /\ store.settings # NoSettings
  BY <1>1 DEF Booting, ConfInv
<1>3. memory \in Configurations /\ ignored' \in BOOLEAN /\ memory.tasks \in Lists(Task)
      /\ Load(store.tasks) = memory.tasks
  BY <1>1 DEF ConfInv, TypeOK, Configurations
<1>4. /\ store' \in StoreType /\ Load(store'.tasks) = memory.tasks
      /\ Held(store'.tasks) = Members(memory.tasks)
      /\ store'.schedules = store.schedules
      /\ store'.settings = store.settings /\ store'.marked = store.marked
  BY <1>1, <1>3, TasksSavedTable
<1>5. Held(store'.tasks) = Held(store.tasks)
  <2>1. Members(Load(store.tasks)) = Held(store.tasks)
    BY LoadList DEF ConfInv
  <2>. QED BY <1>3, <1>4, <2>1
<1>6. ignored' \/ \A k \in Kinds : k \in store'.marked
  BY <1>1, <1>4, BothMarked
<1>7. ConfInv'
  BY <1>1, <1>2, <1>3, <1>4, <1>6, StartUpKeeps
<1>8. Harmless /\ BootKept
  BY <1>3, <1>4, <1>5, NothingChanges DEF BootKept
<1>. QED BY <1>7, <1>8 DEF Safe

LEMMA LoadRestStep ==
  ASSUME ConfInv, LoadRest
  PROVE  Safe
<1>1. /\ phase = "read" /\ phase' = "listening" /\ legacy' = legacy /\ store' = store
      /\ pending' = pending
      /\ \/ memory' = View(store) /\ ignored' = ignored
         \/ memory' = [View(store) EXCEPT !.settings = memory.settings] /\ ignored'
      /\ ignored' \in BOOLEAN
  BY DEF LoadRest, Reach, ConfInv, TypeOK
<1>2. /\ phase' \in Booting \cup Up /\ phase \notin Up /\ phase' # "started" /\ phase' # "resave"
      /\ phase' \in Up
  BY <1>1 DEF Booting, Up
<1>3. store.settings \in Settings /\ store \in StoreType /\ memory.settings \in Settings
      /\ pending' = NoChange /\ legacy \in LegacyLists
  BY <1>1, <1>2, StoreFacts DEF ConfInv, TypeOK, Configurations
<1>4. Load(store.tasks) \in Lists(Task) /\ Load(store.schedules) \in Lists(Schedule)
  BY LoadList DEF ConfInv
<1>5. /\ memory'.tasks = Load(store.tasks) /\ memory'.schedules = Load(store.schedules)
      /\ memory'.settings = store.settings \/ (memory'.settings = memory.settings /\ ignored')
      /\ memory' = [tasks |-> memory'.tasks, schedules |-> memory'.schedules,
                    settings |-> memory'.settings]
  BY <1>1 DEF View
<1>6. memory' \in Configurations
  BY <1>3, <1>4, <1>5 DEF Configurations
<1>7. Agrees(memory)'
  BY <1>1, <1>5 DEF Agrees
<1>8. ignored \/ \A k \in Kinds : k \in store.marked
  BY <1>1, BothMarked
<1>9. ignored' \/ \A k \in Kinds : k \in store'.marked
  BY <1>1, <1>8
<1>10. TypeOK'
  BY <1>1, <1>2, <1>3, <1>6, ConfTypes DEF TypeOK
<1>11. store'.tasks \in Tables(Task) /\ store'.schedules \in Tables(Schedule)
       /\ store'.settings # NoSettings
  BY <1>1, <1>3, ConfigurationAssumption DEF ConfInv
<1>12. ConfInv'
  BY <1>1, <1>2, <1>3, <1>7, <1>9, <1>10, <1>11 DEF ConfInv
<1>. QED BY <1>1, <1>12, StoreStays DEF Safe

LEMMA CrashStep ==
  ASSUME ConfInv, Crash
  PROVE  Safe
<1>1. /\ phase' = "down" /\ legacy' = legacy /\ store' = store
      /\ pending' = NoChange /\ ignored' = ignored /\ memory' = Blank
  BY DEF Crash, Reach
<1>2. /\ phase' \in Booting \cup Up /\ phase' # "started" /\ phase' # "resave"
      /\ phase' \notin Up /\ phase' \notin {"import", "load", "resave", "read"} \cup Up
      /\ \A k \in Kinds : phase' \notin Past(k)
  BY <1>1 DEF Booting, Up, Past, Kinds
<1>3. Blank \in Configurations
  <2>1. <<>> \in Lists(Task) /\ <<>> \in Lists(Schedule)
    BY EmptyList
  <2>. QED BY <2>1, ConfigurationAssumption DEF Blank, Configurations
<1>4. TypeOK'
  BY <1>1, <1>2, <1>3 DEF ConfInv, TypeOK
<1>5. ignored' \/ \A k \in Kinds : k \in store'.marked \/ (Plain(store'[k]) /\ phase' \notin Past(k))
  BY <1>1, <1>2 DEF ConfInv
<1>6. ConfInv'
  BY <1>1, <1>2, <1>4, <1>5 DEF ConfInv
<1>. QED BY <1>1, <1>6, StoreStays DEF Safe

------------------------------------------------------------------------------
(* The handlers.                                                            *)

LEMMA ReadyFacts ==
  ASSUME ConfInv, Ready
  PROVE  /\ phase \in Up /\ pending = NoChange
         /\ store \in StoreType /\ store.settings \in Settings /\ store.settings # NoSettings
         /\ memory \in Configurations
         /\ memory.tasks \in Lists(Task) /\ memory.schedules \in Lists(Schedule)
         /\ memory.settings \in Settings
         /\ Load(store.tasks) = memory.tasks /\ Members(memory.tasks) = Held(store.tasks)
         /\ Load(store.schedules) = memory.schedules
         /\ Members(memory.schedules) = Held(store.schedules)
         /\ store.settings = memory.settings \/ ignored
         /\ phase = "started" => ~OrphanStored
<1>1. phase \in Up /\ pending = NoChange
  BY DEF Ready
<1>2. Agrees(memory)
  BY <1>1 DEF ConfInv
<1>3. Members(Load(store.tasks)) = Held(store.tasks)
      /\ Members(Load(store.schedules)) = Held(store.schedules)
  BY LoadList DEF ConfInv
<1>4. store \in StoreType /\ memory \in Configurations
  BY StoreFacts DEF ConfInv, TypeOK
<1>5. /\ memory.tasks \in Lists(Task) /\ memory.schedules \in Lists(Schedule)
      /\ memory.settings \in Settings
  BY <1>4 DEF Configurations
<1>6. store.settings # NoSettings /\ store.settings \in Settings
  BY <1>1, <1>4 DEF ConfInv, StoreType
<1>7. phase = "started" => ~OrphanStored
  BY DEF ConfInv
<1>. QED BY <1>1, <1>2, <1>3, <1>4, <1>5, <1>6, <1>7 DEF Agrees

(* A transaction that writes what the memory will be.                       *)
LEMMA CommitKeeps ==
  ASSUME ConfInv, Ready, NEW S \in StoreType, NEW new \in Configurations, Commit(S, new),
         S.marked = store.marked, S.settings # NoSettings,
         Load(S.tasks) = new.tasks, Load(S.schedules) = new.schedules,
         S.settings = new.settings \/ ignored,
         OrphanStored' => OrphanStored
  PROVE  ConfInv'
<1>1. /\ store' = S /\ pending' = new /\ legacy' = legacy /\ memory' = memory
      /\ phase' = phase /\ ignored' = ignored
  BY DEF Commit
<1>2. phase \in Up /\ pending' # NoChange
  BY <1>1, ReadyFacts, ConfigurationAssumption
<1>3. TypeOK'
  BY <1>1, ConfTypes DEF ConfInv, TypeOK
<1>4. Agrees(pending)'
  BY <1>1 DEF Agrees
<1>5. store'.tasks \in Tables(Task) /\ store'.schedules \in Tables(Schedule)
  BY <1>1 DEF StoreType
<1>6. ignored \/ \A k \in Kinds : k \in store.marked
  BY <1>2, BothMarked
<1>7. ignored' \/ \A k \in Kinds : k \in store'.marked
  BY <1>1, <1>6
<1>8. phase' # "resave"
  BY <1>1, <1>2 DEF Up
<1>9. phase' = "started" => ~OrphanStored'
  BY <1>1, ReadyFacts
<1>. QED BY <1>1, <1>2, <1>3, <1>4, <1>5, <1>7, <1>8, <1>9 DEF ConfInv

LEMMA SaveTasksKeeps ==
  ASSUME ConfInv, Ready, NEW ts \in Lists(Task), SaveTasks(ts), OrphanStored' => OrphanStored
  PROVE  ConfInv'
<1>. DEFINE S == [store EXCEPT !.tasks = Saved(ts)]
            new == [memory EXCEPT !.tasks = ts]
<1>1. /\ store \in StoreType /\ memory \in Configurations
      /\ Load(store.schedules) = memory.schedules
      /\ store.settings # NoSettings
      /\ store.settings = memory.settings \/ ignored
  BY ReadyFacts
<1>2. Saved(ts) \in Tables(Task) /\ Load(Saved(ts)) = ts
  BY SavedTable
<1>3. /\ S \in StoreType /\ S.tasks = Saved(ts) /\ S.schedules = store.schedules
      /\ S.settings = store.settings /\ S.marked = store.marked
  BY <1>1, <1>2 DEF StoreType
<1>4. /\ new \in Configurations /\ new.tasks = ts /\ new.schedules = memory.schedules
      /\ new.settings = memory.settings
  BY <1>1 DEF Configurations
<1>5. Commit(S, new)
  BY DEF SaveTasks
<1>. HIDE DEF S, new
<1>. QED BY <1>1, <1>2, <1>3, <1>4, <1>5, CommitKeeps

LEMMA SaveSchedulesKeeps ==
  ASSUME ConfInv, Ready, NEW ss \in Lists(Schedule), SaveSchedules(ss), OrphanStored' => OrphanStored
  PROVE  ConfInv'
<1>. DEFINE S == [store EXCEPT !.schedules = Saved(ss)]
            new == [memory EXCEPT !.schedules = ss]
<1>1. /\ store \in StoreType /\ memory \in Configurations
      /\ Load(store.tasks) = memory.tasks
      /\ store.settings # NoSettings
      /\ store.settings = memory.settings \/ ignored
  BY ReadyFacts
<1>2. Saved(ss) \in Tables(Schedule) /\ Load(Saved(ss)) = ss
  BY SavedTable
<1>3. /\ S \in StoreType /\ S.schedules = Saved(ss) /\ S.tasks = store.tasks
      /\ S.settings = store.settings /\ S.marked = store.marked
  BY <1>1, <1>2 DEF StoreType
<1>4. /\ new \in Configurations /\ new.schedules = ss /\ new.tasks = memory.tasks
      /\ new.settings = memory.settings
  BY <1>1 DEF Configurations
<1>5. Commit(S, new)
  BY DEF SaveSchedules
<1>. HIDE DEF S, new
<1>. QED BY <1>1, <1>2, <1>3, <1>4, <1>5, CommitKeeps

(* What a handler of tasks and one of schedules does to the items.          *)
LEMMA SaveTasksItems ==
  ASSUME ConfInv, Ready, NEW ts \in Lists(Task), SaveTasks(ts)
  PROVE  Held(store'.tasks) = Members(ts) /\ store'.schedules = store.schedules
<1>1. store' = [store EXCEPT !.tasks = Saved(ts)]
  BY DEF SaveTasks, Commit
<1>. QED BY <1>1, TasksSavedTable

LEMMA SaveSchedulesItems ==
  ASSUME ConfInv, Ready, NEW ss \in Lists(Schedule), SaveSchedules(ss)
  PROVE  Held(store'.schedules) = Members(ss) /\ store'.tasks = store.tasks
<1>1. store' = [store EXCEPT !.schedules = Saved(ss)] /\ store \in StoreType
  BY StoreFacts DEF SaveSchedules, Commit
<1>2. Held(Saved(ss)) = Members(ss)
  BY SavedTable
<1>. QED BY <1>1, <1>2 DEF StoreType

LEMMA ApplyStep ==
  ASSUME ConfInv, Apply
  PROVE  Safe
<1>1. /\ phase \in Up /\ pending # NoChange /\ memory' = pending /\ pending' = NoChange
      /\ store' = store /\ legacy' = legacy /\ phase' = phase /\ ignored' = ignored
  BY DEF Apply
<1>2. phase' \notin Booting /\ phase' # "resave"
  BY <1>1 DEF Up, Booting
<1>3. Agrees(pending) /\ TypeOK
  BY <1>1 DEF ConfInv
<1>4. Agrees(memory)' /\ TypeOK'
  BY <1>1, <1>3 DEF Agrees, TypeOK
<1>5. OrphanStored' <=> OrphanStored
  BY <1>1, OrphanStoredIsOrphan, OrphanStoredNext
<1>6. ConfInv'
  BY <1>1, <1>2, <1>4, <1>5 DEF ConfInv
<1>. QED BY <1>1, <1>2, <1>6, StoreStays DEF Safe

LEMMA HasIsMember ==
  ASSUME NEW s, NEW id
  PROVE  Has(s, id) <=> \E y \in Members(s) : y.id = id
BY DEF Has, Members

LEMMA FoundIsMember ==
  ASSUME NEW Items, NEW s \in Lists(Items), NEW id, Has(s, id)
  PROVE  /\ Find(s, id) \in DOMAIN s
         /\ s[Find(s, id)] \in Members(s) /\ s[Find(s, id)] \in Items
         /\ s[Find(s, id)].id = id
<1>1. Find(s, id) \in DOMAIN s /\ s[Find(s, id)].id = id
  BY FindFacts
<1>2. s \in Seq(Items)
  BY ListFacts
<1>. QED BY <1>1, <1>2 DEF Members

LEMMA ReadyIsNotBooting ==
  ASSUME Ready
  PROVE  phase \notin Booting
BY DEF Ready, Up, Booting

(* A handler that puts a task into the list.                                *)
LEMMA PutTaskStep ==
  ASSUME ConfInv, Ready, NEW t \in Task, SaveTasks(Put(memory.tasks, t))
  PROVE  Safe
<1>1. memory.tasks \in Lists(Task) /\ Members(memory.tasks) = Held(store.tasks)
  BY ReadyFacts
<1>2. /\ Put(memory.tasks, t) \in Lists(Task)
      /\ Members(Put(memory.tasks, t)) = {y \in Held(store.tasks) : y.id # t.id} \cup {t}
  BY <1>1, PutList
<1>3. /\ Held(store'.tasks) = {y \in Held(store.tasks) : y.id # t.id} \cup {t}
      /\ store'.schedules = store.schedules
  BY <1>2, SaveTasksItems
<1>4. Harmless
  BY <1>3, TasksGrow
<1>5. ConfInv'
  BY <1>2, <1>4, SaveTasksKeeps DEF Harmless
<1>. QED BY <1>4, <1>5, ReadyIsNotBooting DEF Safe

LEMMA SetRestartStep ==
  ASSUME ConfInv, NEW id, NEW on \in BOOLEAN, SetRestartOnCrash(id, on)
  PROVE  Safe
<1>. DEFINE n == Find(memory.tasks, id)
            t == [memory.tasks[n] EXCEPT !.restart = on]
<1>1. Ready /\ Has(memory.tasks, id) /\ SaveTasks([memory.tasks EXCEPT ![n] = t])
  BY DEF SetRestartOnCrash
<1>2. memory.tasks \in Lists(Task)
  BY <1>1, ReadyFacts
<1>3. memory.tasks[n] \in Task /\ memory.tasks[n].id = id
  BY <1>1, <1>2, FoundIsMember
<1>4. t \in Task /\ t.id = id
  BY <1>3 DEF Task
<1>. HIDE DEF t
<1>5. [memory.tasks EXCEPT ![n] = t] = Put(memory.tasks, t)
  BY <1>1, <1>4 DEF Put
<1>6. SaveTasks(Put(memory.tasks, t))
  BY <1>1, <1>5
<1>. QED BY <1>1, <1>4, <1>6, PutTaskStep

LEMMA DeleteTaskStep ==
  ASSUME ConfInv, NEW id, DeleteTask(id)
  PROVE  Safe
<1>1. /\ Ready /\ Has(memory.tasks, id) /\ SaveTasks(Without(memory.tasks, id))
      /\ \A n \in DOMAIN memory.schedules : memory.schedules[n].task # id
  BY DEF DeleteTask
<1>2. /\ memory.tasks \in Lists(Task) /\ Members(memory.tasks) = Held(store.tasks)
      /\ Members(memory.schedules) = Held(store.schedules)
  BY <1>1, ReadyFacts
<1>3. /\ Without(memory.tasks, id) \in Lists(Task)
      /\ Members(Without(memory.tasks, id)) = {y \in Held(store.tasks) : y.id # id}
  BY <1>1, <1>2, WithoutList
<1>4. /\ Held(store'.tasks) = {y \in Held(store.tasks) : y.id # id}
      /\ store'.schedules = store.schedules
  BY <1>1, <1>3, SaveTasksItems
<1>5. \A x \in Held(store.schedules) : x.task # id
  BY <1>1, <1>2 DEF Members
<1>6. OrphanStored' => OrphanStored
  BY <1>4, <1>5, OrphanStoredIsOrphan, OrphanStoredNext DEF Orphan
<1>7. ResultsStay
  BY <1>4, SameResults
<1>8. TasksStay /\ SchedulesStay
  <2>1. \A x \in Held(store.tasks) : x.id = id \/ \E y \in Held(store'.tasks) : y.id = x.id
    BY <1>4
  <2>. QED BY <1>4, <2>1 DEF TasksStay, SchedulesStay
<1>9. ConfInv'
  BY <1>1, <1>3, <1>6, SaveTasksKeeps
<1>. QED BY <1>1, <1>6, <1>7, <1>8, <1>9, ReadyIsNotBooting DEF Safe, Harmless

LEMMA ReorderTasksStep ==
  ASSUME ConfInv, NEW ids \in Orders, NEW base, ReorderTasks(ids, base)
  PROVE  Safe
<1>. DEFINE S == [store EXCEPT !.tasks = Resorted(@, ids)]
            new == [memory EXCEPT !.tasks = Ordered(@, ids)]
<1>1. Ready /\ ValidReorder(ids, base, memory.tasks) /\ Commit(S, new)
  BY DEF ReorderTasks
<1>2. /\ store \in StoreType /\ memory \in Configurations
      /\ Load(store.schedules) = memory.schedules
      /\ Load(store.tasks) = memory.tasks
      /\ store.settings # NoSettings
      /\ store.settings = memory.settings \/ ignored
      /\ store.tasks \in Tables(Task)
  BY <1>1, ReadyFacts DEF ConfInv
<1>3. /\ Resorted(store.tasks, ids) \in Tables(Task)
      /\ Load(Resorted(store.tasks, ids)) = Ordered(memory.tasks, ids)
      /\ Held(Resorted(store.tasks, ids)) = Held(store.tasks)
  <2>1. ids \in Seq(TaskIds \cup ScheduleIds)
    BY ConfigurationAssumption
  <2>. QED BY <1>1, <1>2, <2>1, ResortedTable
<1>4. Ordered(memory.tasks, ids) \in Lists(Task)
  BY <1>3, LoadList
<1>5. /\ S \in StoreType /\ S.tasks = Resorted(store.tasks, ids) /\ S.schedules = store.schedules
      /\ S.settings = store.settings /\ S.marked = store.marked
  BY <1>2, <1>3 DEF StoreType
<1>6. /\ new \in Configurations /\ new.tasks = Ordered(memory.tasks, ids)
      /\ new.schedules = memory.schedules /\ new.settings = memory.settings
  BY <1>2, <1>4 DEF Configurations
<1>. HIDE DEF S, new
<1>7. store' = S
  BY <1>1 DEF Commit
<1>8. Harmless
  BY <1>3, <1>5, <1>7, NothingChanges
<1>9. ConfInv'
  BY <1>1, <1>2, <1>3, <1>5, <1>6, <1>8, CommitKeeps DEF Harmless
<1>. QED BY <1>1, <1>8, <1>9, ReadyIsNotBooting DEF Safe

LEMMA ReorderSchedulesStep ==
  ASSUME ConfInv, NEW ids \in Orders, NEW base, ReorderSchedules(ids, base)
  PROVE  Safe
<1>. DEFINE S == [store EXCEPT !.schedules = Resorted(@, ids)]
            new == [memory EXCEPT !.schedules = Ordered(@, ids)]
<1>1. Ready /\ ValidReorder(ids, base, memory.schedules) /\ Commit(S, new)
  BY DEF ReorderSchedules
<1>2. /\ store \in StoreType /\ memory \in Configurations
      /\ Load(store.schedules) = memory.schedules
      /\ Load(store.tasks) = memory.tasks
      /\ store.settings # NoSettings
      /\ store.settings = memory.settings \/ ignored
      /\ store.schedules \in Tables(Schedule)
  BY <1>1, ReadyFacts DEF ConfInv
<1>3. /\ Resorted(store.schedules, ids) \in Tables(Schedule)
      /\ Load(Resorted(store.schedules, ids)) = Ordered(memory.schedules, ids)
      /\ Held(Resorted(store.schedules, ids)) = Held(store.schedules)
  <2>1. ids \in Seq(TaskIds \cup ScheduleIds)
    BY ConfigurationAssumption
  <2>. QED BY <1>1, <1>2, <2>1, ResortedTable
<1>4. Ordered(memory.schedules, ids) \in Lists(Schedule)
  BY <1>3, LoadList
<1>5. /\ S \in StoreType /\ S.schedules = Resorted(store.schedules, ids) /\ S.tasks = store.tasks
      /\ S.settings = store.settings /\ S.marked = store.marked
  BY <1>2, <1>3 DEF StoreType
<1>6. /\ new \in Configurations /\ new.schedules = Ordered(memory.schedules, ids)
      /\ new.tasks = memory.tasks /\ new.settings = memory.settings
  BY <1>2, <1>4 DEF Configurations
<1>. HIDE DEF S, new
<1>7. store' = S
  BY <1>1 DEF Commit
<1>8. Harmless
  BY <1>3, <1>5, <1>7, NothingChanges
<1>9. ConfInv'
  BY <1>1, <1>2, <1>3, <1>5, <1>6, <1>8, CommitKeeps DEF Harmless
<1>. QED BY <1>1, <1>8, <1>9, ReadyIsNotBooting DEF Safe

LEMMA UpdateSettingsStep ==
  ASSUME ConfInv, NEW x \in SettingsInputs, UpdateSettings(x)
  PROVE  Safe
<1>. DEFINE S == [store EXCEPT !.settings = Normalized(x)]
            new == [memory EXCEPT !.settings = Normalized(x)]
<1>1. Ready /\ x.level \in Levels /\ Commit(S, new)
  BY DEF UpdateSettings
<1>2. /\ store \in StoreType /\ memory \in Configurations
      /\ Load(store.schedules) = memory.schedules
      /\ Load(store.tasks) = memory.tasks
  BY <1>1, ReadyFacts
<1>3. Normalized(x) \in Settings /\ Normalized(x) # NoSettings
  <2>1. /\ x = [level |-> x.level, size |-> x.size] /\ x.size \in Nat
        /\ MinSize \in Nat /\ MaxSize \in Nat /\ MinSize <= MaxSize
    BY ConfigurationAssumption
  <2>. DEFINE z == IF x.size < MinSize THEN MinSize ELSE IF x.size > MaxSize THEN MaxSize ELSE x.size
  <2>2. z \in MinSize..MaxSize
    BY <2>1
  <2>3. Normalized(x) = [x EXCEPT !.size = z]
    BY DEF Normalized
  <2>. HIDE DEF z
  <2>4. Normalized(x) = [level |-> x.level, size |-> z]
    BY <2>1, <2>3
  <2>5. Normalized(x) \in Settings
    BY <1>1, <2>2, <2>4 DEF Settings
  <2>. QED BY <2>5, ConfigurationAssumption
<1>4. /\ S \in StoreType /\ S.schedules = store.schedules /\ S.tasks = store.tasks
      /\ S.settings = Normalized(x) /\ S.marked = store.marked
  BY <1>2, <1>3 DEF StoreType
<1>5. /\ new \in Configurations /\ new.schedules = memory.schedules
      /\ new.tasks = memory.tasks /\ new.settings = Normalized(x)
  BY <1>2, <1>3 DEF Configurations
<1>. HIDE DEF S, new
<1>6. store' = S
  BY <1>1 DEF Commit
<1>7. Harmless
  BY <1>4, <1>6, NothingChanges
<1>8. ConfInv'
  BY <1>1, <1>2, <1>3, <1>4, <1>5, <1>7, CommitKeeps DEF Harmless
<1>. QED BY <1>1, <1>7, <1>8, ReadyIsNotBooting DEF Safe

(* A handler that puts a schedule into the list.  Its task is there, or it  *)
(* was enabled for that task before; its last result is the old one, or its *)
(* run has recorded it.                                                     *)
LEMMA PutScheduleStep ==
  ASSUME ConfInv, Ready, NEW s \in Schedule, SaveSchedules(Put(memory.schedules, s)),
         s.enabled => \/ \E y \in Held(store.tasks) : y.id = s.task
                      \/ \E x \in Held(store.schedules) : x.enabled /\ x.task = s.task,
         \A x \in Held(store.schedules) :
           x.id = s.id => SameResult(x, s) \/ \E r \in Results : RecordResult(s.id, r)
  PROVE  Safe
<1>1. /\ memory.schedules \in Lists(Schedule) /\ Members(memory.schedules) = Held(store.schedules)
  BY ReadyFacts
<1>2. /\ Put(memory.schedules, s) \in Lists(Schedule)
      /\ Members(Put(memory.schedules, s)) = {y \in Held(store.schedules) : y.id # s.id} \cup {s}
  BY <1>1, PutList
<1>3. /\ Held(store'.schedules) = {y \in Held(store.schedules) : y.id # s.id} \cup {s}
      /\ store'.tasks = store.tasks
  BY <1>2, SaveSchedulesItems
<1>4. OrphanStored' => OrphanStored
  BY <1>3, OrphanStoredIsOrphan, OrphanStoredNext DEF Orphan
<1>5. ResultsStay
  <2>1. \A x, y \in Held(store.schedules) : x.id = y.id => x = y
    BY HeldDistinct DEF ConfInv
  <2>. SUFFICES ASSUME NEW x \in Held(store.schedules), NEW y \in Held(store'.schedules),
                       x.id = y.id
                PROVE  SameResult(x, y) \/ \E r \in Results : RecordResult(x.id, r)
    BY DEF ResultsStay
  <2>2. y = s \/ y = x
    BY <1>3, <2>1
  <2>. QED BY <2>2 DEF SameResult
<1>6. TasksStay /\ SchedulesStay
  BY <1>3 DEF TasksStay, SchedulesStay
<1>7. ConfInv'
  BY <1>2, <1>4, SaveSchedulesKeeps
<1>. QED BY <1>4, <1>5, <1>6, <1>7, ReadyIsNotBooting DEF Safe, Harmless

LEMMA UpsertScheduleStep ==
  ASSUME ConfInv, NEW s \in Schedule, UpsertSchedule(s)
  PROVE  Safe
<1>. DEFINE ss == memory.schedules
            l == IF Has(ss, s.id) THEN ss[Find(ss, s.id)].last ELSE "never"
            d == IF Has(ss, s.id) THEN ss[Find(ss, s.id)].detail ELSE "none"
            x == [s EXCEPT !.last = l, !.detail = d]
<1>1. Ready /\ Has(memory.tasks, s.task) /\ SaveSchedules(Put(ss, x))
  BY DEF UpsertSchedule
<1>2. /\ ss \in Lists(Schedule) /\ Members(ss) = Held(store.schedules)
      /\ Members(memory.tasks) = Held(store.tasks)
  BY <1>1, ReadyFacts
<1>3. Has(ss, s.id) => /\ ss[Find(ss, s.id)] \in Held(store.schedules)
                       /\ ss[Find(ss, s.id)] \in Schedule
                       /\ ss[Find(ss, s.id)].id = s.id
  BY <1>2, FoundIsMember
<1>. HIDE DEF ss
<1>4. l \in Results \cup {"never"} /\ d \in Results \cup {"none", "no task"}
  BY <1>3 DEF Schedule
<1>5. \A y \in Held(store.schedules) : y.id = s.id => y.last = l /\ y.detail = d
  <2>. SUFFICES ASSUME NEW y \in Held(store.schedules), y.id = s.id
                PROVE  y.last = l /\ y.detail = d
    OBVIOUS
  <2>1. Has(ss, s.id)
    BY <1>2, HasIsMember
  <2>2. y = ss[Find(ss, s.id)]
    BY <1>3, <2>1, HeldDistinct DEF ConfInv
  <2>. QED BY <2>1, <2>2
<1>. HIDE DEF l, d
<1>6. x \in Schedule /\ x.id = s.id /\ x.task = s.task /\ x.last = l /\ x.detail = d
  BY <1>4 DEF Schedule
<1>7. \E y \in Held(store.tasks) : y.id = x.task
  BY <1>1, <1>2, <1>6, HasIsMember
<1>8. SaveSchedules(Put(memory.schedules, x))
  BY <1>1 DEF ss
<1>. HIDE DEF x
<1>9. \A y \in Held(store.schedules) : y.id = x.id => SameResult(y, x)
  BY <1>5, <1>6 DEF SameResult
<1>. QED BY <1>1, <1>6, <1>7, <1>8, <1>9, PutScheduleStep

(* A field of the schedule id is set.                                       *)
LEMMA EditScheduleStep ==
  ASSUME ConfInv, Ready, NEW id, Has(memory.schedules, id), NEW x \in Schedule,
         LET n == Find(memory.schedules, id)
         IN /\ x.id = id /\ x.task = memory.schedules[n].task
            /\ x.enabled => \/ Has(memory.tasks, x.task)
                            \/ memory.schedules[n].enabled
            /\ SameResult(memory.schedules[n], x) \/ \E r \in Results : RecordResult(id, r)
            /\ SaveSchedules([memory.schedules EXCEPT ![n] = x])
  PROVE  Safe
<1>. DEFINE n == Find(memory.schedules, id)
            old == memory.schedules[n]
<1>1. /\ memory.schedules \in Lists(Schedule) /\ Members(memory.schedules) = Held(store.schedules)
      /\ Members(memory.tasks) = Held(store.tasks)
  BY ReadyFacts
<1>2. old \in Held(store.schedules) /\ old.id = id
  BY <1>1, FoundIsMember
<1>3. \A y \in Held(store.schedules) : y.id = x.id => y = old
  BY <1>2, HeldDistinct DEF ConfInv
<1>4. [memory.schedules EXCEPT ![n] = x] = Put(memory.schedules, x)
  BY DEF Put
<1>5. SaveSchedules(Put(memory.schedules, x))
  BY <1>4
<1>6. x.enabled => \/ \E y \in Held(store.tasks) : y.id = x.task
                   \/ \E y \in Held(store.schedules) : y.enabled /\ y.task = x.task
  BY <1>1, <1>2, HasIsMember
<1>7. \A y \in Held(store.schedules) :
        y.id = x.id => SameResult(y, x) \/ \E r \in Results : RecordResult(x.id, r)
  BY <1>3
<1>. QED BY <1>5, <1>6, <1>7, PutScheduleStep

LEMMA SetScheduleEnabledStep ==
  ASSUME ConfInv, NEW id, NEW on \in BOOLEAN, SetScheduleEnabled(id, on)
  PROVE  Safe
<1>. DEFINE n == Find(memory.schedules, id)
            x == [memory.schedules[n] EXCEPT !.enabled = on]
<1>1. /\ Ready /\ Has(memory.schedules, id)
      /\ on => Has(memory.tasks, memory.schedules[n].task)
      /\ SaveSchedules([memory.schedules EXCEPT ![n] = x])
  BY DEF SetScheduleEnabled
<1>2. memory.schedules[n] \in Schedule /\ memory.schedules[n].id = id
  BY <1>1, ReadyFacts, FoundIsMember
<1>3. /\ x \in Schedule /\ x.id = id /\ x.task = memory.schedules[n].task /\ (x.enabled <=> on)
      /\ SameResult(memory.schedules[n], x)
  BY <1>2 DEF Schedule, SameResult
<1>. HIDE DEF x
<1>. QED BY <1>1, <1>3, EditScheduleStep

LEMMA RecordResultStep ==
  ASSUME ConfInv, NEW id, NEW r \in Results, RecordResult(id, r)
  PROVE  Safe
<1>. DEFINE n == Find(memory.schedules, id)
            x == [memory.schedules[n] EXCEPT !.last = r, !.detail = r]
<1>1. /\ Ready /\ Has(memory.schedules, id)
      /\ SaveSchedules([memory.schedules EXCEPT ![n] = x])
  BY DEF RecordResult
<1>2. memory.schedules[n] \in Schedule /\ memory.schedules[n].id = id
  BY <1>1, ReadyFacts, FoundIsMember
<1>3. /\ x \in Schedule /\ x.id = id /\ x.task = memory.schedules[n].task
      /\ x.enabled = memory.schedules[n].enabled
  BY <1>2 DEF Schedule
<1>. HIDE DEF x
<1>. QED BY <1>1, <1>3, EditScheduleStep

LEMMA DeleteScheduleStep ==
  ASSUME ConfInv, NEW id, DeleteSchedule(id)
  PROVE  Safe
<1>1. /\ Ready /\ Has(memory.schedules, id) /\ SaveSchedules(Without(memory.schedules, id))
  BY DEF DeleteSchedule
<1>2. memory.schedules \in Lists(Schedule) /\ Members(memory.schedules) = Held(store.schedules)
  BY <1>1, ReadyFacts
<1>3. /\ Without(memory.schedules, id) \in Lists(Schedule)
      /\ Members(Without(memory.schedules, id)) = {y \in Held(store.schedules) : y.id # id}
  BY <1>1, <1>2, WithoutList
<1>4. /\ Held(store'.schedules) = {y \in Held(store.schedules) : y.id # id}
      /\ store'.tasks = store.tasks
  BY <1>1, <1>3, SaveSchedulesItems
<1>5. OrphanStored' => OrphanStored
  BY <1>4, OrphanStoredIsOrphan, OrphanStoredNext DEF Orphan
<1>6. ResultsStay
  BY <1>4, SameResults
<1>7. TasksStay /\ SchedulesStay
  <2>1. \A x \in Held(store.schedules) : x.id = id \/ \E y \in Held(store'.schedules) : y.id = x.id
    BY <1>4
  <2>. QED BY <1>4, <2>1 DEF TasksStay, SchedulesStay
<1>8. ConfInv'
  BY <1>1, <1>3, <1>5, SaveSchedulesKeeps
<1>. QED BY <1>1, <1>5, <1>6, <1>7, <1>8, ReadyIsNotBooting DEF Safe, Harmless

(* Once the orphans are disabled there is none, and every schedule keeps its*)
(* ID and its last result, or loses its detail to the reason.               *)
LEMMA OrphansGone ==
  ASSUME NEW ts, NEW ss \in Lists(Schedule)
  PROVE  /\ ~Orphan(Members(ts), Members(OrphansDisabled(ts, ss)))
         /\ \A x \in Members(ss) : \E y \in Members(OrphansDisabled(ts, ss)) : y.id = x.id
         /\ \A y \in Members(OrphansDisabled(ts, ss)) :
              \E x \in Members(ss) :
                x.id = y.id /\ (SameResult(x, y) \/ TaskGone(x, y, Members(ts)))
<1>. DEFINE D == Members(OrphansDisabled(ts, ss))
<1>1. D = {Disabled(y, ts) : y \in Members(ss)} /\ \A y \in Members(ss) : y \in Schedule
  <2>1. D = {Disabled(y, ts) : y \in Members(ss)}
    BY OrphansDisabledList
  <2>2. ss \in Seq(Schedule)
    BY ListFacts
  <2>3. \A y \in Members(ss) : y \in Schedule
    BY <2>2 DEF Members
  <2>. QED BY <2>1, <2>3
<1>2. ASSUME NEW y \in Schedule
      PROVE  /\ Disabled(y, ts).id = y.id /\ Disabled(y, ts).task = y.task
             /\ Disabled(y, ts).enabled => Has(ts, y.task)
             /\ SameResult(y, Disabled(y, ts)) \/ TaskGone(y, Disabled(y, ts), Members(ts))
  <2>1. CASE y.enabled /\ ~Has(ts, y.task)
    <3>1. \A u \in Members(ts) : u.id # y.task
      BY <2>1, HasIsMember
    <3>2. Disabled(y, ts) = [y EXCEPT !.enabled = FALSE, !.detail = "no task"]
      BY <2>1, Zenon DEF Disabled
    <3>3. TaskGone(y, Disabled(y, ts), Members(ts))
      BY <2>1, <3>1, <3>2, Zenon DEF TaskGone
    <3>. QED BY <3>3, DisabledSchedule
  <2>2. CASE ~(y.enabled /\ ~Has(ts, y.task))
    <3>1. Disabled(y, ts) = y
      BY <2>2, Zenon DEF Disabled
    <3>2. SameResult(y, Disabled(y, ts))
      BY <3>1 DEF SameResult
    <3>. QED BY <3>2, DisabledSchedule
  <2>. QED BY <2>1, <2>2
<1>. HIDE DEF D
<1>3. ~Orphan(Members(ts), D)
  BY <1>1, <1>2, HasIsMember DEF Orphan
<1>4. \A x \in Members(ss) : \E y \in D : y.id = x.id
  BY <1>1, <1>2
<1>5. \A y \in D : \E x \in Members(ss) :
        x.id = y.id /\ (SameResult(x, y) \/ TaskGone(x, y, Members(ts)))
  BY <1>1, <1>2
<1>. QED BY <1>3, <1>4, <1>5 DEF D

LEMMA ReplaceTasksStep ==
  ASSUME ConfInv, NEW ts \in Imports, ReplaceTasks(ts)
  PROVE  Safe
<1>. DEFINE ss == OrphansDisabled(ts, memory.schedules)
            S == [store EXCEPT !.tasks = Saved(ts), !.schedules = Saved(ss)]
            new == [memory EXCEPT !.tasks = ts, !.schedules = ss]
<1>1. Ready /\ Distinct(Ids(ts)) /\ Commit(S, new)
  BY DEF ReplaceTasks
<1>2. /\ store \in StoreType /\ memory \in Configurations
      /\ store.settings # NoSettings
      /\ store.settings = memory.settings \/ ignored
      /\ memory.schedules \in Lists(Schedule)
      /\ Members(memory.schedules) = Held(store.schedules)
  BY <1>1, ReadyFacts
<1>3. ts \in Lists(Task) /\ ss \in Lists(Schedule)
  <2>1. ts \in Seq(Task)
    BY ConfigurationAssumption
  <2>. QED BY <1>1, <1>2, <2>1, OrphansDisabledList DEF Lists
<1>4. /\ ~Orphan(Members(ts), Members(ss))
      /\ \A x \in Held(store.schedules) : \E y \in Members(ss) : y.id = x.id
      /\ \A y \in Members(ss) : \E x \in Held(store.schedules) :
           x.id = y.id /\ (SameResult(x, y) \/ TaskGone(x, y, Members(ts)))
  BY <1>2, OrphansGone
<1>. HIDE DEF ss
<1>5. /\ Saved(ts) \in Tables(Task) /\ Load(Saved(ts)) = ts /\ Held(Saved(ts)) = Members(ts)
      /\ Saved(ss) \in Tables(Schedule) /\ Load(Saved(ss)) = ss /\ Held(Saved(ss)) = Members(ss)
  BY <1>3, SavedTable
<1>6. /\ S \in StoreType /\ S.tasks = Saved(ts) /\ S.schedules = Saved(ss)
      /\ S.settings = store.settings /\ S.marked = store.marked
  BY <1>2, <1>5 DEF StoreType
<1>7. /\ new \in Configurations /\ new.tasks = ts /\ new.schedules = ss
      /\ new.settings = memory.settings
  BY <1>2, <1>3 DEF Configurations
<1>. HIDE DEF S, new
<1>8. store' = S
  BY <1>1 DEF Commit
<1>9. Held(store'.tasks) = Members(ts) /\ Held(store'.schedules) = Members(ss)
  BY <1>5, <1>6, <1>8
<1>10. OrphanStored' => OrphanStored
  BY <1>4, <1>9, OrphanStoredNext
<1>11. TasksStay /\ SchedulesStay
  BY <1>4, <1>9 DEF TasksStay, SchedulesStay
<1>12. ResultsStay
  <2>1. \A x, y \in Held(store.schedules) : x.id = y.id => x = y
    BY HeldDistinct DEF ConfInv
  <2>2. \A y \in Held(store'.schedules) : \E x \in Held(store.schedules) :
          x.id = y.id /\ (SameResult(x, y) \/ TaskGone(x, y, Held(store'.tasks)))
    BY <1>4, <1>9
  <2>. QED BY <2>1, <2>2 DEF ResultsStay
<1>13. ConfInv'
  BY <1>1, <1>2, <1>5, <1>6, <1>7, <1>10, CommitKeeps
<1>. QED BY <1>1, <1>10, <1>11, <1>12, <1>13, ReadyIsNotBooting DEF Safe, Harmless

LEMMA StartSchedulerStep ==
  ASSUME ConfInv, StartScheduler
  PROVE  Safe
<1>. DEFINE ss == OrphansDisabled(memory.tasks, memory.schedules)
<1>1. /\ phase = "listening" /\ pending = NoChange /\ phase' = "started"
      /\ legacy' = legacy /\ memory' = memory /\ ignored' = ignored
      /\ \/ ss = memory.schedules /\ store' = store /\ pending' = pending
         \/ /\ ss # memory.schedules
            /\ store' = [store EXCEPT !.schedules = Saved(ss)]
            /\ pending' = [memory EXCEPT !.schedules = ss]
  BY DEF StartScheduler, Reach
<1>2. Ready /\ phase' \in Up /\ phase' # "resave" /\ phase \notin Booting
  BY <1>1 DEF Ready, Up, Booting
<1>3. /\ store \in StoreType /\ memory \in Configurations
      /\ store.settings # NoSettings
      /\ Load(store.tasks) = memory.tasks /\ Load(store.schedules) = memory.schedules
      /\ store.settings = memory.settings \/ ignored
      /\ memory.schedules \in Lists(Schedule)
      /\ Members(memory.schedules) = Held(store.schedules)
      /\ Members(memory.tasks) = Held(store.tasks)
  BY <1>2, ReadyFacts
<1>4. /\ ss \in Lists(Schedule)
      /\ ~Orphan(Held(store.tasks), Members(ss))
      /\ \A x \in Held(store.schedules) : \E y \in Members(ss) : y.id = x.id
      /\ \A y \in Members(ss) : \E x \in Held(store.schedules) :
           x.id = y.id /\ (SameResult(x, y) \/ TaskGone(x, y, Held(store.tasks)))
  BY <1>3, OrphansDisabledList, OrphansGone
<1>. HIDE DEF ss
<1>5. ignored \/ \A k \in Kinds : k \in store.marked
  BY <1>1, BothMarked DEF Up
<1>6. /\ Saved(ss) \in Tables(Schedule) /\ Load(Saved(ss)) = ss /\ Held(Saved(ss)) = Members(ss)
  BY <1>4, SavedTable
<1>7. CASE ss = memory.schedules /\ store' = store /\ pending' = pending
  <2>1. ~OrphanStored'
    BY <1>3, <1>4, <1>7, OrphanStoredNext
  <2>2. TypeOK'
    BY <1>1, <1>2, <1>7 DEF ConfInv, TypeOK
  <2>3. Agrees(memory)'
    BY <1>1, <1>3, <1>7 DEF Agrees
  <2>4. ignored' \/ \A k \in Kinds : k \in store'.marked
    BY <1>1, <1>5, <1>7
  <2>5. ConfInv'
    BY <1>1, <1>2, <1>3, <1>7, <2>1, <2>2, <2>3, <2>4 DEF ConfInv
  <2>. QED BY <1>2, <1>7, <2>5, StoreStays DEF Safe
<1>8. CASE store' = [store EXCEPT !.schedules = Saved(ss)] /\ pending' = [memory EXCEPT !.schedules = ss]
  <2>1. /\ store' \in StoreType /\ store'.schedules = Saved(ss) /\ store'.tasks = store.tasks
        /\ store'.settings = store.settings /\ store'.marked = store.marked
    BY <1>3, <1>6, <1>8 DEF StoreType
  <2>2. /\ pending' \in Configurations /\ pending'.schedules = ss
        /\ pending'.tasks = memory.tasks /\ pending'.settings = memory.settings
    BY <1>3, <1>4, <1>8 DEF Configurations
  <2>3. ~OrphanStored'
    BY <1>4, <1>6, <2>1, OrphanStoredNext
  <2>4. pending' # NoChange
    BY <2>2, ConfigurationAssumption
  <2>5. TypeOK'
    BY <1>1, <1>2, <2>1, <2>2, ConfTypes DEF ConfInv, TypeOK
  <2>6. Agrees(pending)'
    BY <1>1, <1>3, <1>6, <2>1, <2>2 DEF Agrees
  <2>7. ignored' \/ \A k \in Kinds : k \in store'.marked
    BY <1>1, <1>5, <2>1
  <2>8. store'.tasks \in Tables(Task) /\ store'.schedules \in Tables(Schedule)
    BY <2>1 DEF StoreType
  <2>9. ConfInv'
    BY <1>1, <1>2, <1>3, <2>1, <2>3, <2>4, <2>5, <2>6, <2>7, <2>8 DEF ConfInv
  <2>10. TasksStay /\ SchedulesStay
    BY <1>4, <1>6, <2>1 DEF TasksStay, SchedulesStay
  <2>11. ResultsStay
    <3>1. \A x, y \in Held(store.schedules) : x.id = y.id => x = y
      BY HeldDistinct DEF ConfInv
    <3>. QED BY <1>4, <1>6, <2>1, <3>1 DEF ResultsStay
  <2>. QED BY <1>2, <2>3, <2>9, <2>10, <2>11 DEF Safe, Harmless
<1>. QED BY <1>1, <1>7, <1>8

LEMMA StutterStep ==
  ASSUME ConfInv, UNCHANGED vars
  PROVE  Safe
<1>1. /\ store' = store /\ legacy' = legacy /\ memory' = memory /\ pending' = pending
      /\ phase' = phase /\ ignored' = ignored
  BY DEF vars
<1>2. OrphanStored' <=> OrphanStored
  BY <1>1, OrphanStoredIsOrphan, OrphanStoredNext
<1>3. TypeOK' /\ (\A c : Agrees(c)' <=> Agrees(c))
  BY <1>1 DEF ConfInv, TypeOK, Agrees
<1>4. ConfInv'
  BY <1>1, <1>2, <1>3 DEF ConfInv, Agrees
<1>. QED BY <1>1, <1>4, StoreStays DEF Safe

LEMMA ConfStep ==
  ASSUME ConfInv, [Next]_vars
  PROVE  Safe
<1>1. CASE StartUp
  <2>1. "tasks" \in Kinds /\ "schedules" \in Kinds
    BY DEF Kinds
  <2>. QED BY <1>1, <2>1, BootStep, SkipBackfillStep, BackfillStep, MarkStep, SeedStep, ImportStep,
              LoadTasksStep, ResaveStep, LoadRestStep DEF StartUp
<1>2. CASE EditTasks
  <2>1. ASSUME NEW t \in TaskInputs, UpsertTask(t) \/ SetRestartOnCrash(t.id, t.restart)
        PROVE  Safe
    <3>1. t \in Task /\ t.restart \in BOOLEAN
      BY ConfigurationAssumption DEF Task
    <3>. QED BY <2>1, <3>1, PutTaskStep, SetRestartStep DEF UpsertTask
  <2>2. ASSUME NEW id \in TaskIds, DeleteTask(id)
        PROVE  Safe
    BY <2>2, DeleteTaskStep
  <2>3. ASSUME NEW ts \in Imports, ReplaceTasks(ts)
        PROVE  Safe
    BY <2>3, ReplaceTasksStep
  <2>4. ASSUME NEW ids \in Orders, NEW base \in Orders, ReorderTasks(ids, base)
        PROVE  Safe
    BY <2>4, ReorderTasksStep
  <2>. QED BY <1>2, <2>1, <2>2, <2>3, <2>4 DEF EditTasks
<1>3. CASE EditSchedules
  <2>1. ASSUME NEW s \in ScheduleInputs, UpsertSchedule(s)
        PROVE  Safe
    BY <2>1, UpsertScheduleStep, ConfigurationAssumption
  <2>2. ASSUME NEW id \in ScheduleIds, DeleteSchedule(id)
        PROVE  Safe
    BY <2>2, DeleteScheduleStep
  <2>3. ASSUME NEW id \in ScheduleIds, NEW on \in BOOLEAN, SetScheduleEnabled(id, on)
        PROVE  Safe
    BY <2>3, SetScheduleEnabledStep
  <2>4. ASSUME NEW id \in ScheduleIds, NEW r \in Results, RecordResult(id, r)
        PROVE  Safe
    BY <2>4, RecordResultStep
  <2>5. ASSUME NEW ids \in Orders, NEW base \in Orders, ReorderSchedules(ids, base)
        PROVE  Safe
    BY <2>5, ReorderSchedulesStep
  <2>. QED BY <1>3, <2>1, <2>2, <2>3, <2>4, <2>5 DEF EditSchedules
<1>4. ASSUME NEW x \in SettingsInputs, UpdateSettings(x)
      PROVE  Safe
  BY <1>4, UpdateSettingsStep
<1>. QED BY <1>1, <1>2, <1>3, <1>4, StartSchedulerStep, CrashStep, ApplyStep, StutterStep DEF Next

THEOREM ConfInvariant == Spec => []ConfInv
<1>1. Init => ConfInv
  BY InitKeeps
<1>2. ConfInv /\ [Next]_vars => ConfInv'
  BY ConfStep DEF Safe
<1>. QED BY <1>1, <1>2, PTL DEF Spec

(* The memory holds lists of tasks and schedules with an ID each and sound  *)
(* settings, the database rows that load as such.                           *)
THEOREM ConfigurationTypes == Spec => []TypeOK
<1>1. ConfInv => TypeOK
  BY DEF ConfInv
<1>. QED BY <1>1, ConfInvariant, PTL

(* Between two handlers the memory is what a restart would load: the saves  *)
(* and reorders of the store (task_store.go, reorder.go) give back through  *)
(* Load the list, in its order, that the handler puts into the memory.      *)
THEOREM MemoryMatchesDisk == Spec => []MemoryIsDisk
<1>1. ConfInv => MemoryIsDisk
  BY DEF ConfInv, MemoryIsDisk, Ready, Agrees
<1>. QED BY <1>1, ConfInvariant, PTL

(* Once cron runs, no enabled schedule is without its task, and no step     *)
(* (delete, import, edit, crash) leaves one in the database                 *)
(* (disableOrphanSchedules).                                                *)
THEOREM OrphansStayAway == Spec => NoOrphans
<1>1. ConfInv => (phase = "started" /\ pending = NoChange =>
          \A n \in DOMAIN memory.schedules :
            ~EnabledOrphan(memory.schedules[n], {memory.tasks[m].id : m \in DOMAIN memory.tasks}))
  <2>. SUFFICES ASSUME ConfInv, phase = "started", pending = NoChange, NEW n \in DOMAIN memory.schedules
                PROVE  ~EnabledOrphan(memory.schedules[n], {memory.tasks[m].id : m \in DOMAIN memory.tasks})
    OBVIOUS
  <2>1. Ready
    BY DEF Ready, Up
  <2>2. /\ Members(memory.tasks) = Held(store.tasks)
        /\ Members(memory.schedules) = Held(store.schedules)
        /\ ~OrphanStored
    BY <2>1, ReadyFacts
  <2>3. ~Orphan(Members(memory.tasks), Members(memory.schedules))
    BY <2>2, OrphanStoredIsOrphan
  <2>. QED BY <2>3 DEF Orphan, Members, EnabledOrphan
<1>2. ConfInv /\ [Next]_vars => [OrphanStored' => OrphanStored]_vars
  BY ConfStep DEF Safe, Harmless
<1>. QED BY <1>1, <1>2, ConfInvariant, PTL DEF Spec, NoOrphans

(* A start-up, cut short at any step and repeated, loads every task and     *)
(* schedule in the order it was left (initSchema, bootstrapFromJSONIfNeeded,*)
(* NewRuntime).                                                             *)
THEOREM RestartsKeep == Spec => BootKeeps
<1>1. ConfInv /\ [Next]_vars =>
        [(phase \in Booting) =>
           /\ View(store').schedules = View(store).schedules \/ ignored'
           /\ View(store').tasks = View(store).tasks \/ store.tasks = <<>> \/ ignored'
           /\ store'.settings = store.settings \/ store.settings = NoSettings]_vars
  BY ConfStep DEF Safe, BootKept, View
<1>. QED BY <1>1, ConfInvariant, PTL DEF Spec, BootKeeps

(* No step but a delete or an import takes a task out of the table, none but*)
(* a delete a schedule (runtime.go, schedule_runtime.go, reorder.go).       *)
THEOREM DeletesAloneRemove == Spec => OnlyDeletesRemove
<1>1. ConfInv /\ [Next]_vars =>
        [/\ \A id \in Stored(store.tasks) \ Stored(store'.tasks) :
              DeleteTask(id) \/ \E ts \in Imports : ReplaceTasks(ts)
         /\ \A id \in Stored(store.schedules) \ Stored(store'.schedules) :
              DeleteSchedule(id)]_vars
  <2>. SUFFICES ASSUME TasksStay, SchedulesStay
                PROVE  /\ \A id \in Stored(store.tasks) \ Stored(store'.tasks) :
                            DeleteTask(id) \/ \E ts \in Imports : ReplaceTasks(ts)
                       /\ \A id \in Stored(store.schedules) \ Stored(store'.schedules) :
                            DeleteSchedule(id)
    BY ConfStep DEF Safe, Harmless
  <2>1. \A T, id : id \in Stored(T) <=> \E x \in Held(T) : x.id = id
    BY DEF Stored, Held
  <2>2. ASSUME NEW id \in Stored(store.tasks), id \notin Stored(store'.tasks)
        PROVE  DeleteTask(id) \/ \E ts \in Imports : ReplaceTasks(ts)
    BY <2>1, <2>2 DEF TasksStay
  <2>3. ASSUME NEW id \in Stored(store.schedules), id \notin Stored(store'.schedules)
        PROVE  DeleteSchedule(id)
    BY <2>1, <2>3 DEF SchedulesStay
  <2>. QED BY <2>2, <2>3
<1>. QED BY <1>1, ConfInvariant, PTL DEF Spec, OnlyDeletesRemove

(* The run history of a schedule that stays changes by recordScheduleResult *)
(* alone, but for the detail that disableOrphanSchedules overwrites where it*)
(* disables the schedule because its task is gone.                          *)
THEOREM HistoryIsKept == Spec => HistoryKept
<1>1. ConfInv /\ [Next]_vars =>
        [\A m \in DOMAIN store.schedules, n \in DOMAIN store'.schedules :
           LET old == store.schedules[m].item
               new == store'.schedules[n].item
           IN old.id = new.id =>
                \/ new.last = old.last /\ new.detail = old.detail
                \/ \E r \in Results : RecordResult(old.id, r)
                \/ /\ EnabledOrphan(old, Stored(store'.tasks))
                   /\ new = [old EXCEPT !.enabled = FALSE, !.detail = "no task"]]_vars
  <2>. SUFFICES ASSUME ResultsStay
                PROVE  \A m \in DOMAIN store.schedules, n \in DOMAIN store'.schedules :
                         LET old == store.schedules[m].item
                             new == store'.schedules[n].item
                         IN old.id = new.id =>
                              \/ new.last = old.last /\ new.detail = old.detail
                              \/ \E r \in Results : RecordResult(old.id, r)
                              \/ /\ EnabledOrphan(old, Stored(store'.tasks))
                                 /\ new = [old EXCEPT !.enabled = FALSE, !.detail = "no task"]
    BY ConfStep DEF Safe, Harmless
  <2>1. \A m \in DOMAIN store.schedules : store.schedules[m].item \in Held(store.schedules)
    BY DEF Held
  <2>2. \A n \in DOMAIN store'.schedules : store'.schedules[n].item \in Held(store'.schedules)
    BY DEF Held
  <2>3. ASSUME NEW x, NEW y, TaskGone(x, y, Held(store'.tasks))
        PROVE  EnabledOrphan(x, Stored(store'.tasks))
    BY <2>3 DEF TaskGone, EnabledOrphan, Stored, Held
  <2>. QED BY <2>1, <2>2, <2>3 DEF ResultsStay, SameResult, TaskGone
<1>. QED BY <1>1, ConfInvariant, PTL DEF Spec, HistoryKept
==============================================================================
