---------------------------- MODULE SessionsProofs ----------------------------
(***************************************************************************)
(* Theorems about Sessions, for every set of tokens, keys, requests, auth  *)
(* commands and addresses, and every window and limit.                     *)
(*                                                                         *)
(* That a session which was logged out or revoked stays so rests on tokens *)
(* being handed out once: only a login makes a row, and for a token nobody *)
(* has had before.  That the key in use is the key in the file rests on    *)
(* the check of the auth commands, which an instance that started while    *)
(* none was under way keeps in force.  That a login is refused exactly     *)
(* over the limit rests on the limiter dropping nothing that is in the     *)
(* window.                                                                 *)
(***************************************************************************)
EXTENDS Sessions, FiniteSetTheorems, SequenceTheorems, WellFoundedInduction, TLAPS

Types ==
  /\ keyFile \in Keys \cup {NoFile, Empty}
  /\ DOMAIN rows \subseteq Tokens /\ rows \in [DOMAIN rows -> RowType]
  /\ unlinked \in BOOLEAN
  /\ inst \in [pc : {"down", "locked", "create", "fill", "loaded", "up"},
               key : Keys \cup {NoKey}]
  /\ request \in [Requests -> [pc : {"idle", "handler", "act", "stream"},
                               kind : {"none", "touch", "logout", "stream"},
                               token : Tokens \cup {NoToken}]]
  /\ command \in [Commands -> [pc : {"idle", "write", "fill", "drop"},
                               key : Keys \cup {NoKey}]]
  /\ {issued, loggedOut, revoked} \subseteq SUBSET Tokens
  /\ raced \in BOOLEAN

(* What the store holds has been handed out by a login, and what a command  *)
(* revoked is gone from the database that the next start opens.             *)
StoreInv ==
  /\ DOMAIN rows \subseteq issued /\ loggedOut \subseteq issued /\ revoked \subseteq issued
  /\ \A r \in Requests : request[r].pc # "idle" => request[r].token \in issued
  /\ LogoutSticks
  /\ ~unlinked => \A t \in revoked : t \notin DOMAIN rows

(* From the moment an instance takes the lock with no command under way, no *)
(* command gets past its check, and the key file is the instance's own.     *)
KeyInv ==
  /\ inst.pc \notin {"down", "locked"} => inst.key \in Keys
  /\ \A c \in Commands : command[c].pc = "fill" => command[c].key \in Keys
  /\ ~raced /\ inst.pc # "down" =>
       /\ \A c \in Commands : command[c].pc = "idle"
       /\ inst.pc \in {"loaded", "up"} => keyFile = inst.key

Inv == Types /\ StoreInv /\ KeyInv

USE SessionsAssumption, EmptyAssumption DEF store, limits, history

LEMMA InitInv == Init => Inv
<1>. SUFFICES ASSUME Init PROVE Inv
  OBVIOUS
<1>1. DOMAIN rows = {} /\ rows \in [DOMAIN rows -> RowType]
  BY DEF Init, Nobody
<1>2. Types
  BY <1>1 DEF Init, Types, Down, Waiting, NotRun
<1>3. StoreInv
  BY <1>1 DEF Init, StoreInv, LogoutSticks, Waiting
<1>4. KeyInv
  BY DEF Init, KeyInv, Down, NotRun
<1>. QED BY <1>2, <1>3, <1>4 DEF Inv

------------------------------------------------------------------------------
(* The rows that the statements of the store leave.                         *)

LEMMA CreatedRows ==
  ASSUME Types, NEW t \in Tokens, inst.key \in Keys
  PROVE  DOMAIN Created(t) = DOMAIN rows \cup {t} /\ Created(t) \in [DOMAIN Created(t) -> RowType]
<1>1. [key |-> inst.key, left |-> MaxIdle] \in RowType
  BY DEF RowType
<1>. QED BY <1>1 DEF Created, Types

LEMMA TouchedRows ==
  ASSUME Types, NEW t
  PROVE  DOMAIN Touched(t) = DOMAIN rows /\ Touched(t) \in [DOMAIN rows -> RowType]
<1>1. \A u \in DOMAIN rows : [rows[u] EXCEPT !.left = MaxIdle] \in RowType
  BY DEF Types, RowType
<1>. QED BY <1>1 DEF Touched, Types

LEMMA RestrictedRows ==
  ASSUME Types, NEW S \in SUBSET DOMAIN rows
  PROVE  DOMAIN Restrict(rows, S) = S /\ Restrict(rows, S) \in [S -> RowType]
BY DEF Restrict, Types

LEMMA OlderRows ==
  ASSUME Types
  PROVE  [t \in DOMAIN rows |-> [rows[t] EXCEPT !.left = OneLess(@)]] \in [DOMAIN rows -> RowType]
<1>1. \A t \in DOMAIN rows : rows[t] \in RowType
  BY DEF Types
<1>2. \A m \in 0..MaxIdle : OneLess(m) \in 0..MaxIdle
  BY DEF OneLess
<1>3. \A t \in DOMAIN rows : [rows[t] EXCEPT !.left = OneLess(@)] \in RowType
  BY <1>1, <1>2 DEF RowType
<1>. QED BY <1>3

(* A step that makes no row, hands out no token and revokes nothing.        *)
LEMMA FewerRows ==
  ASSUME StoreInv, DOMAIN rows' \subseteq DOMAIN rows,
         \A r \in Requests : request'[r].pc # "idle" => request'[r].token \in issued,
         UNCHANGED <<unlinked, issued, loggedOut, revoked>>
  PROVE  StoreInv'
BY DEF StoreInv, LogoutSticks

------------------------------------------------------------------------------
(* Every step of the instance keeps the invariant.                          *)
LEMMA InstanceInv == ASSUME Inv, Instance PROVE Inv'
<1>. USE DEF Inv
<1>1. CASE Lock
  <2>1. Types'
    BY <1>1 DEF Lock, Types, Down
  <2>2. KeyInv'
    BY <1>1 DEF Lock, KeyInv, Down, Types
  <2>. QED BY <1>1, <2>1, <2>2 DEF Lock, StoreInv, LogoutSticks
<1>2. CASE ReadKey
  <2>1. Types'
    BY <1>2 DEF ReadKey, Types, Down
  <2>2. KeyInv'
    BY <1>2 DEF ReadKey, KeyInv, Down, Types
  <2>. QED BY <1>2, <2>1, <2>2 DEF ReadKey, StoreInv, LogoutSticks
<1>3. CASE CreateKey
  <2>1. Types'
    BY <1>3 DEF CreateKey, Types, KeyInv
  <2>2. KeyInv'
    BY <1>3 DEF CreateKey, KeyInv, Types
  <2>. QED BY <1>3, <2>1, <2>2 DEF CreateKey, StoreInv, LogoutSticks
<1>4. CASE Serve
  <2>1. Types'
    BY <1>4 DEF Serve, Types
  <2>2. KeyInv'
    BY <1>4 DEF Serve, KeyInv, Types
  <2>. QED BY <1>4, <2>1, <2>2 DEF Serve, StoreInv, LogoutSticks
<1>5. CASE InstanceEnds
  <2>1. DOMAIN Nobody = {} /\ Nobody \in [DOMAIN Nobody -> RowType]
    BY DEF Nobody
  <2>2. Types'
    BY <1>5, <2>1 DEF InstanceEnds, Types, Down, Waiting
  <2>3. KeyInv'
    BY <1>5 DEF InstanceEnds, KeyInv, Down
  <2>4. StoreInv'
    BY <1>5, <2>1 DEF InstanceEnds, StoreInv, LogoutSticks, Waiting
  <2>. QED BY <2>2, <2>3, <2>4
<1>6. CASE Purge
  <2>1. DOMAIN rows' \subseteq DOMAIN rows /\ rows' \in [DOMAIN rows' -> RowType]
    BY <1>6, RestrictedRows DEF Purge, Purged
  <2>2. Types'
    BY <1>6, <2>1 DEF Purge, Types
  <2>3. StoreInv'
    BY <1>6, <2>1, FewerRows DEF Purge, StoreInv
  <2>. QED BY <1>6, <2>2, <2>3 DEF Purge, KeyInv
<1>. QED BY <1>1, <1>2, <1>3, <1>4, <1>5, <1>6 DEF Instance

LEMMA LoginInv ==
  ASSUME Inv, NEW t \in Tokens, NEW a \in Addresses, Login(t, a) PROVE Inv'
<1>. USE DEF Inv
<1>1. KeyInv'
  BY DEF Login, KeyInv
<1>2. CASE rows' = Created(t) /\ issued' = issued \cup {t}
  <2>1. DOMAIN rows' = DOMAIN rows \cup {t} /\ rows' \in [DOMAIN rows' -> RowType]
    BY <1>2, CreatedRows DEF Login, KeyInv
  <2>2. Types'
    BY <1>2, <2>1 DEF Login, Types
  <2>3. StoreInv'
    BY <1>2, <2>1 DEF Login, StoreInv, LogoutSticks
  <2>. QED BY <1>1, <2>2, <2>3
<1>3. CASE UNCHANGED <<rows, issued>>
  BY <1>1, <1>3 DEF Login, Types, StoreInv, LogoutSticks
<1>. QED BY <1>2, <1>3 DEF Login

------------------------------------------------------------------------------
(* So does every step of a request and of an auth command.                  *)
LEMMA EndedTypes ==
  ASSUME Types, NEW r \in Requests, Ended(r)
  PROVE  /\ request' \in [Requests -> [pc : {"idle", "handler", "act", "stream"},
                                       kind : {"none", "touch", "logout", "stream"},
                                       token : Tokens \cup {NoToken}]]
         /\ \A s \in Requests : request'[s].pc # "idle" => request'[s] = request[s]
BY DEF Ended, Types, Waiting

LEMMA HandlerInv == ASSUME Inv, NEW r \in Requests, Handler(r) PROVE Inv'
<1>. USE DEF Inv
<1>1. ASSUME NEW kind \in {"touch", "logout", "stream"}, NEW t \in Tokens, Arrive(r, kind, t)
      PROVE  Inv'
  <2>1. Types'
    BY <1>1 DEF Arrive, Types
  <2>2. StoreInv'
    BY <1>1 DEF Arrive, Live, StoreInv, LogoutSticks, Types
  <2>. QED BY <1>1, <2>1, <2>2 DEF Arrive, KeyInv
<1>2. CASE Look(r) \/ StreamTick(r) \/ RequestFails(r)
  <2>1. (request' = [request EXCEPT ![r].pc = "act"] /\ Look(r)) \/ Ended(r)
    BY <1>2 DEF Look, StreamTick, RequestFails
  <2>2. UNCHANGED <<store, inst, command, limits, history>>
    BY <1>2 DEF Look, StreamTick, RequestFails
  <2>3. Types'
    <3>1. CASE request' = [request EXCEPT ![r].pc = "act"]
      BY <2>2, <3>1 DEF Types
    <3>2. CASE Ended(r)
      BY <2>2, <3>2, EndedTypes DEF Types
    <3>. QED BY <2>1, <3>1, <3>2
  <2>4. \A s \in Requests : request'[s].pc # "idle" => request'[s].token \in issued
    BY <2>1, EndedTypes DEF StoreInv, Types, Look
  <2>5. StoreInv'
    BY <2>2, <2>4, FewerRows
  <2>. QED BY <2>2, <2>3, <2>5 DEF KeyInv
<1>3. CASE Touch(r)
  <2>1. DOMAIN rows' = DOMAIN rows /\ rows' \in [DOMAIN rows' -> RowType]
    BY <1>3, TouchedRows DEF Touch
  <2>2. Types'
    BY <1>3, <2>1, EndedTypes DEF Touch, Types
  <2>3. StoreInv'
    BY <1>3, <2>1, EndedTypes, FewerRows DEF Touch, StoreInv
  <2>. QED BY <1>3, <2>2, <2>3 DEF Touch, KeyInv
<1>4. CASE Logout(r)
  <2>1. /\ DOMAIN rows' = DOMAIN rows \ {request[r].token}
        /\ rows' \in [DOMAIN rows' -> RowType]
    BY <1>4, RestrictedRows DEF Logout, Deleted
  <2>2. request[r].token \in issued
    BY <1>4 DEF Logout, StoreInv
  <2>3. Types'
    BY <1>4, <2>1, <2>2, EndedTypes DEF Logout, Types
  <2>4. StoreInv'
    BY <1>4, <2>1, <2>2, EndedTypes DEF Logout, StoreInv, LogoutSticks
  <2>. QED BY <1>4, <2>3, <2>4 DEF Logout, KeyInv
<1>. QED BY <1>1, <1>2, <1>3, <1>4 DEF Handler

LEMMA AuthInv == ASSUME Inv, NEW c \in Commands, Auth(c) PROVE Inv'
<1>. USE DEF Inv
<1>1. ASSUME NEW k \in Keys \cup {NoKey}, AuthChecks(c, k) PROVE Inv'
  <2>1. Types'
    BY <1>1 DEF AuthChecks, Types
  <2>2. KeyInv'
    BY <1>1 DEF AuthChecks, KeyInv, Types
  <2>. QED BY <1>1, <2>1, <2>2 DEF AuthChecks, StoreInv, LogoutSticks
<1>2. CASE AuthWrites(c)
  <2>1. command[c] \in [pc : {"idle", "write", "fill", "drop"}, key : Keys \cup {NoKey}]
    BY DEF Types
  <2>2. Types'
    BY <1>2, <2>1 DEF AuthWrites, Types, KeyInv
  <2>3. KeyInv'
    BY <1>2, <2>1 DEF AuthWrites, KeyInv, Types
  <2>. QED BY <1>2, <2>2, <2>3 DEF AuthWrites, StoreInv, LogoutSticks
<1>3. CASE AuthDrops(c)
  <2>1. DOMAIN Nobody = {} /\ Nobody \in [DOMAIN Nobody -> RowType]
    BY DEF Nobody
  <2>2. Types'
    BY <1>3, <2>1 DEF AuthDrops, Types, NotRun
  <2>3. KeyInv'
    BY <1>3 DEF AuthDrops, KeyInv, Types, NotRun
  <2>4. StoreInv'
    BY <1>3, <2>1 DEF AuthDrops, StoreInv, LogoutSticks
  <2>. QED BY <2>2, <2>3, <2>4
<1>4. CASE AuthEnds(c)
  <2>1. Types'
    BY <1>4 DEF AuthEnds, Types, NotRun
  <2>2. KeyInv'
    BY <1>4 DEF AuthEnds, KeyInv, Types, NotRun
  <2>. QED BY <1>4, <2>1, <2>2 DEF AuthEnds, StoreInv, LogoutSticks
<1>. QED BY <1>1, <1>2, <1>3, <1>4 DEF Auth

LEMMA NextInv == Inv /\ [Next]_vars => Inv'
<1>. SUFFICES ASSUME Inv, [Next]_vars PROVE Inv'
  OBVIOUS
<1>1. ASSUME NEW a \in Addresses, LoginFails(a) PROVE Inv'
  BY <1>1 DEF LoginFails, Inv, Types, StoreInv, LogoutSticks, KeyInv
<1>2. CASE Tick
  <2>1. DOMAIN rows' = DOMAIN rows /\ rows' \in [DOMAIN rows' -> RowType]
    BY <1>2, OlderRows DEF Tick, Inv
  <2>. QED BY <1>2, <2>1, FewerRows DEF Tick, Inv, Types, StoreInv, KeyInv
<1>3. CASE Minute
  BY <1>3 DEF Minute, Inv, Types, StoreInv, LogoutSticks, KeyInv
<1>4. CASE UNCHANGED vars
  BY <1>4 DEF vars, Inv, Types, StoreInv, LogoutSticks, KeyInv
<1>. QED BY <1>1, <1>2, <1>3, <1>4, InstanceInv, LoginInv, HandlerInv, AuthInv DEF Next

LEMMA InvAlways == Spec => []Inv
BY InitInv, NextInv, PTL DEF Spec

(* A session that was logged out has no row any more, whatever requests of  *)
(* it were under way, and no login gets its token (session.go:129, 143).    *)
THEOREM LogoutsStick == Spec => []LogoutSticks
<1>1. Inv => LogoutSticks
  BY DEF Inv, StoreInv
<1>. QED BY <1>1, InvAlways, PTL

(* Once auth set or reset has reported success, no session from before it   *)
(* authenticates, unless the instance had the removed database open         *)
(* (cli.go:450).                                                            *)
THEOREM RevokedStay == Spec => []RevokedGone
<1>1. Inv => RevokedGone
  BY DEF Inv, StoreInv, RevokedGone, Live
<1>. QED BY <1>1, InvAlways, PTL

(* An instance that started while no auth command was under way serves with *)
(* the key in the file (cli.go:399, key.go:32).                             *)
THEOREM KeysInUse == Spec => []KeyInUse
<1>1. Inv => KeyInUse
  BY DEF Inv, KeyInv, KeyInUse
<1>. QED BY <1>1, InvAlways, PTL

------------------------------------------------------------------------------
(* The limiter: failures of one address, oldest first.                      *)

Failures == Seq(0..Window)

Ordered(s) == \A i, j \in DOMAIN s : i <= j => s[i] <= s[j]

(* The failures that count for more than m minutes yet.                     *)
Counting(s, m) == {i \in DOMAIN s : s[i] > m}

LEMMA LeastNatural ==
  ASSUME NEW S \in SUBSET Nat, S # {}
  PROVE  \E n \in S : \A m \in S : n <= m
<1>. DEFINE Part(n) == S \cap 0..n
            Parts   == {Part(n) : n \in S}
<1>1. \A n \in S : IsFiniteSet(Part(n)) /\ n \in Part(n)
  <2>. SUFFICES ASSUME NEW n \in S PROVE IsFiniteSet(Part(n)) /\ n \in Part(n)
    OBVIOUS
  <2>1. n \in Nat /\ 0 \in Int /\ n \in Int
    OBVIOUS
  <2>2. IsFiniteSet(0..n)
    BY <2>1, FS_Interval
  <2>3. IsFiniteSet(Part(n))
    BY <2>2, FS_Intersection
  <2>. QED BY <2>1, <2>3
<1>2. Parts \subseteq FiniteSubsetsOf(S) /\ Parts # {}
  BY <1>1 DEF FiniteSubsetsOf
<1>3. PICK P \in Parts : \A Q \in Parts : ~(<<Q, P>> \in StrictSubsetOrdering(S))
  BY <1>2, WFMin, FS_StrictSubsetOrderingWellFounded
<1>4. PICK n \in S : P = Part(n)
  BY <1>3
<1>5. ASSUME NEW m \in S, m < n PROVE FALSE
  <2>1. Part(m) \subseteq Part(n) /\ n \notin Part(m)
    BY <1>5
  <2>2. <<Part(m), P>> \in StrictSubsetOrdering(S)
    BY <1>1, <1>4, <2>1 DEF StrictSubsetOrdering
  <2>. QED BY <1>3, <2>2
<1>. QED BY <1>5

LEMMA FailureTypes ==
  ASSUME NEW s \in Failures
  PROVE  /\ Window \in Nat \ {0}
         /\ Len(s) \in Nat /\ DOMAIN s = 1..Len(s)
         /\ \A i \in 1..Len(s) : s[i] \in Nat /\ s[i] <= Window
BY DEF Failures

LEMMA CountingFinite ==
  ASSUME NEW s \in Failures, NEW m \in Nat
  PROVE  IsFiniteSet(Counting(s, m)) /\ Cardinality(Counting(s, m)) \in Nat
<1>1. 1 \in Int /\ Len(s) \in Int
  BY FailureTypes
<1>2. IsFiniteSet(1..Len(s))
  BY <1>1, FS_Interval
<1>3. Counting(s, m) \in SUBSET (1..Len(s))
  BY FailureTypes DEF Counting
<1>. QED BY <1>2, <1>3, FS_Subset, FS_CardinalityType

(* The failures that have left the window are the first ones.               *)
LEMMA ExpiredFirst ==
  ASSUME NEW s \in Failures, Ordered(s)
  PROVE  /\ Expired(s) \in 0..Len(s)
         /\ \A i \in DOMAIN s : s[i] = 0 <=> i <= Expired(s)
<1>. DEFINE S == Counting(s, 0) \cup {Len(s) + 1}
<1>1. S \in SUBSET Nat /\ S # {}
  BY FailureTypes DEF Counting
<1>2. PICK n \in S : \A m \in S : n <= m
  BY <1>1, LeastNatural
<1>3. n - 1 \in 0..Len(s)
  BY <1>2, FailureTypes DEF Counting
<1>4. ASSUME NEW i \in DOMAIN s PROVE s[i] = 0 <=> i <= n - 1
  <2>1. s[i] = 0 \/ i \in S
    BY FailureTypes DEF Counting
  <2>2. CASE i <= n - 1
    <3>1. n \in Nat /\ i \in Nat
      BY <1>1, FailureTypes
    <3>2. i \notin S
      BY <1>2, <2>2, <3>1
    <3>. QED BY <2>1, <2>2, <3>2
  <2>3. CASE i > n - 1
    BY <1>2, <2>3, FailureTypes DEF Counting, Ordered
  <2>. QED BY <1>3, <2>2, <2>3, FailureTypes
<1>5. \E k \in 0..Len(s) : \A i \in DOMAIN s : s[i] = 0 <=> i <= k
  BY <1>3, <1>4
<1>. QED BY <1>5 DEF Expired

(* Recent keeps what counts, in its order.                                  *)
LEMMA RecentFailures ==
  ASSUME NEW s \in Failures, Ordered(s)
  PROVE  /\ Recent(s) \in Failures /\ Ordered(Recent(s))
         /\ \A m \in Nat : Cardinality(Counting(Recent(s), m)) = Cardinality(Counting(s, m))
         /\ Len(Recent(s)) = Cardinality(Counting(s, 0))
<1>. DEFINE k == Expired(s)
            r == Recent(s)
<1>1. k \in 0..Len(s) /\ \A i \in DOMAIN s : s[i] = 0 <=> i <= k
  BY ExpiredFirst
<1>a. r = SubSeq(s, k + 1, Len(s))
  BY DEF Recent
<1>b. Len(s) \in Nat /\ DOMAIN s = 1..Len(s) /\ k \in Nat /\ k <= Len(s)
  BY <1>1, FailureTypes
<1>. HIDE DEF k, r
<1>2. r \in Failures /\ Len(r) = Len(s) - k /\ \A i \in 1..Len(r) : r[i] = s[i + k]
  <2>1. k + 1 \in Int /\ Len(s) \in Int /\ \A i \in k + 1..Len(s) : s[i] \in 0..Window
    BY <1>b, FailureTypes
  <2>2. /\ r \in Failures
        /\ Len(r) = IF k + 1 <= Len(s) THEN Len(s) - (k + 1) + 1 ELSE 0
        /\ \A i \in 1..Len(s) - (k + 1) + 1 : r[i] = s[k + 1 + i - 1]
    BY <1>a, <2>1, SubSeqProperties, SMTT(30) DEF Failures
  <2>3. Len(r) = Len(s) - k
    <3>1. CASE k = Len(s)
      BY <1>b, <2>2, <3>1
    <3>2. CASE k + 1 <= Len(s)
      <4>1. Len(r) = Len(s) - (k + 1) + 1
        BY <2>2, <3>2
      <4>. QED BY <1>b, <4>1
    <3>3. Len(s) \in Nat /\ k \in Nat /\ k <= Len(s)
      BY <1>b
    <3>. QED BY <3>1, <3>2, <3>3
  <2>4. ASSUME NEW i \in 1..Len(r) PROVE r[i] = s[i + k]
    <3>1. i \in 1..Len(s) - (k + 1) + 1 /\ k + 1 + i - 1 = i + k
      BY <1>b, <2>3
    <3>2. r[i] = s[k + 1 + i - 1]
      BY <2>2, <3>1
    <3>. QED BY <3>1, <3>2
  <2>. QED BY <2>2, <2>3, <2>4
<1>c. Len(r) \in Nat /\ DOMAIN r = 1..Len(r) /\ \A i \in 1..Len(r) : i + k \in DOMAIN s
  BY <1>b, <1>2, FailureTypes
<1>3. Ordered(r)
  <2>. SUFFICES ASSUME NEW i \in 1..Len(r), NEW j \in 1..Len(r), i <= j PROVE r[i] <= r[j]
    BY <1>c DEF Ordered
  <2>1. i + k \in DOMAIN s /\ j + k \in DOMAIN s /\ i + k <= j + k
    BY <1>b, <1>c
  <2>. QED BY <1>2, <2>1 DEF Ordered
<1>4. ASSUME NEW m \in Nat PROVE Cardinality(Counting(r, m)) = Cardinality(Counting(s, m))
  <2>. DEFINE f == [i \in Counting(r, m) |-> i + k]
  <2>1. f \in [Counting(r, m) -> Counting(s, m)]
    BY <1>b, <1>c, <1>2 DEF Counting
  <2>2. \A i, j \in Counting(r, m) : f[i] = f[j] => i = j
    BY <1>1, <1>2, FailureTypes DEF Counting
  <2>3. ASSUME NEW j \in Counting(s, m) PROVE \E i \in Counting(r, m) : f[i] = j
    <3>1. j \in 1..Len(s) /\ j > k
      BY <1>1, FailureTypes DEF Counting
    <3>2. j - k \in 1..Len(r) /\ r[j - k] = s[j]
      BY <1>1, <1>2, <3>1, FailureTypes
    <3>3. j - k \in Counting(r, m)
      BY <1>2, <3>2, FailureTypes DEF Counting
    <3>. QED BY <3>1, <3>3, <1>1, FailureTypes
  <2>4. f \in Bijection(Counting(r, m), Counting(s, m))
    BY <2>1, <2>2, <2>3 DEF Bijection, Injection, IsInjective, Surjection
  <2>. QED BY <1>2, <2>4, CountingFinite, FS_Bijection DEF ExistsBijection
<1>5. Counting(r, 0) = 1..Len(r)
  <2>. SUFFICES ASSUME NEW i \in 1..Len(r) PROVE r[i] > 0
    BY <1>c DEF Counting
  <2>1. i + k \in DOMAIN s /\ ~(i + k <= k) /\ r[i] = s[i + k]
    BY <1>b, <1>c, <1>2
  <2>. QED BY <1>1, <2>1, FailureTypes
<1>6. Cardinality(Counting(r, 0)) = Len(r)
  BY <1>2, <1>5, FS_Interval, FailureTypes
<1>. QED BY <1>2, <1>3, <1>4, <1>6 DEF r

(* A failure more is the last one and counts for the whole window.          *)
LEMMA OneMore ==
  ASSUME NEW s \in Failures, Ordered(s)
  PROVE  /\ Append(s, Window) \in Failures /\ Ordered(Append(s, Window))
         /\ \A m \in Nat : Cardinality(Counting(Append(s, Window), m))
                             = Cardinality(Counting(s, m)) + (IF m < Window THEN 1 ELSE 0)
<1>. DEFINE r == Append(s, Window)
<1>1. /\ r \in Failures /\ Len(r) = Len(s) + 1
      /\ \A i \in 1..Len(s) : r[i] = s[i]
      /\ r[Len(s) + 1] = Window
  BY FailureTypes DEF Failures
<1>. HIDE DEF r
<1>2. Ordered(r)
  BY <1>1, FailureTypes DEF Ordered
<1>3. DOMAIN r = 1..Len(s) + 1 /\ DOMAIN s = 1..Len(s) /\ Len(s) \in Nat
  BY <1>1, FailureTypes
<1>4. \A i \in DOMAIN r : i = Len(s) + 1 \/ (i \in DOMAIN s /\ r[i] = s[i])
  BY <1>1, <1>3
<1>5. \A i \in DOMAIN s : i \in DOMAIN r /\ r[i] = s[i]
  BY <1>1, <1>3
<1>6. ASSUME NEW m \in Nat
      PROVE  Cardinality(Counting(r, m))
               = Cardinality(Counting(s, m)) + (IF m < Window THEN 1 ELSE 0)
  <2>1. Len(s) + 1 \notin Counting(s, m)
    BY FailureTypes DEF Counting
  <2>2. CASE m < Window
    <3>1. Counting(r, m) = Counting(s, m) \cup {Len(s) + 1}
      <4>1. Len(s) + 1 \in DOMAIN r /\ r[Len(s) + 1] > m
        BY <1>1, <1>3, <2>2, FailureTypes
      <4>. QED BY <1>4, <1>5, <4>1 DEF Counting
    <3>. QED BY <2>1, <2>2, <3>1, CountingFinite, FS_AddElement
  <2>3. CASE ~(m < Window)
    <3>1. Counting(r, m) = Counting(s, m)
      <4>1. ~(r[Len(s) + 1] > m)
        BY <1>1, <2>3, FailureTypes
      <4>. QED BY <1>4, <1>5, <4>1 DEF Counting
    <3>. QED BY <2>3, <3>1, CountingFinite
  <2>. QED BY <2>2, <2>3
<1>. QED BY <1>1, <1>2, <1>6 DEF r

(* A minute later a failure counts for as much less.                        *)
LEMMA Aged ==
  ASSUME NEW s \in Failures, Ordered(s)
  PROVE  LET r == [i \in DOMAIN s |-> OneLess(s[i])]
         IN  /\ r \in Failures /\ Ordered(r)
             /\ \A m \in Nat : Counting(r, m) = Counting(s, m + 1)
<1>. DEFINE r == [i \in DOMAIN s |-> OneLess(s[i])]
<1>1. \A i \in 1..Len(s) : OneLess(s[i]) \in 0..Window
  BY FailureTypes DEF OneLess
<1>2. r \in Failures /\ DOMAIN r = DOMAIN s
  <2>. DEFINE n == Len(s)
  <2>1. n \in Nat /\ DOMAIN s = 1..n
    BY FailureTypes
  <2>. HIDE DEF n
  <2>2. r \in [1..n -> 0..Window]
    BY <1>1, <2>1 DEF n
  <2>. QED BY <2>1, <2>2 DEF Failures
<1>3. Ordered(r)
  BY <1>2, FailureTypes DEF Ordered, OneLess
<1>4. \A m \in Nat : Counting(r, m) = Counting(s, m + 1)
  BY FailureTypes, SMTT(30) DEF Counting, OneLess
<1>. QED BY <1>2, <1>3, <1>4

(* R are the failures of s that were answered 429.                          *)
Before(s, i) == {j \in Counting(s, 0) : j < i}
Answers(s, R) ==
  /\ R \subseteq DOMAIN s
  /\ Cardinality(Counting(s, 0) \ R) <= MaxFail
  /\ \A i \in DOMAIN s :
       s[i] = Window => (i \in R <=> Cardinality(Before(s, i)) >= MaxFail)

(* A failure more is refused when as many count as the limit allows.        *)
LEMMA AnswersMore ==
  ASSUME NEW s \in Failures, Ordered(s), NEW R, Answers(s, R), NEW Q,
         Q = IF Cardinality(Counting(s, 0)) + 1 > MaxFail THEN R \cup {Len(s) + 1} ELSE R
  PROVE  Answers(Append(s, Window), Q)
<1>. DEFINE r == Append(s, Window)
            l == Len(s) + 1
<1>1. /\ r \in Failures /\ Len(r) = l
      /\ \A i \in 1..Len(s) : r[i] = s[i]
      /\ r[l] = Window
  BY FailureTypes DEF Failures
<1>2. DOMAIN s = 1..Len(s) /\ Len(s) \in Nat /\ Window \in Nat /\ Window > 0
  BY FailureTypes
<1>. HIDE DEF r
<1>3. DOMAIN r = DOMAIN s \cup {l} /\ l \notin DOMAIN s /\ \A i \in DOMAIN s : i < l
  BY <1>1, <1>2, FailureTypes
<1>4. \A i \in DOMAIN s : r[i] = s[i]
  BY <1>1, <1>2
<1>. HIDE DEF l
<1>5. Counting(r, 0) = Counting(s, 0) \cup {l}
  BY <1>1, <1>2, <1>3, <1>4 DEF Counting
<1>6. Counting(s, 0) \subseteq DOMAIN s
  BY DEF Counting
<1>7. \A i \in DOMAIN s : Before(r, i) = Before(s, i)
  <2>. SUFFICES ASSUME NEW i \in DOMAIN s PROVE Before(r, i) = Before(s, i)
    OBVIOUS
  <2>1. ~(l < i)
    <3>1. i \in Nat /\ i < l /\ l \in Nat
      BY <1>2, <1>3 DEF l
    <3>. QED BY <3>1
  <2>. QED BY <1>5, <2>1 DEF Before
<1>8. Before(r, l) = Counting(s, 0)
  <2>1. ~(l < l)
    BY <1>2 DEF l
  <2>. QED BY <1>3, <1>5, <1>6, <2>1 DEF Before
<1>9. /\ IsFiniteSet(Counting(s, 0)) /\ Cardinality(Counting(s, 0)) \in Nat
      /\ IsFiniteSet(Counting(r, 0))
  BY <1>1, CountingFinite
<1>10. R \subseteq DOMAIN s /\ l \notin R
  BY <1>3 DEF Answers
<1>11. Q \subseteq DOMAIN r
  BY <1>3, <1>10 DEF l
<1>12. l \in Q <=> Cardinality(Counting(s, 0)) >= MaxFail
  <2>1. l \in Q <=> Cardinality(Counting(s, 0)) + 1 > MaxFail
    BY <1>10 DEF l
  <2>. QED BY <1>9, <2>1
<1>13. \A i \in DOMAIN s : i \in Q <=> i \in R
  BY <1>3 DEF l
<1>14. Cardinality(Counting(r, 0) \ Q) <= MaxFail
  <2>1. CASE l \in Q
    <3>1. Counting(r, 0) \ Q = Counting(s, 0) \ R
      BY <1>5, <1>6, <1>3, <1>13, <2>1
    <3>. QED BY <3>1 DEF Answers
  <2>2. CASE l \notin Q
    <3>1. ~(Cardinality(Counting(s, 0)) >= MaxFail)
      BY <1>12, <2>2
    <3>2. Cardinality(Counting(r, 0)) = Cardinality(Counting(s, 0)) + 1
      BY <1>3, <1>5, <1>6, <1>9, FS_AddElement
    <3>3. Counting(r, 0) \ Q \in SUBSET Counting(r, 0)
      OBVIOUS
    <3>4. /\ Cardinality(Counting(r, 0) \ Q) <= Cardinality(Counting(r, 0))
          /\ IsFiniteSet(Counting(r, 0) \ Q)
      BY <1>9, <3>3, FS_Subset
    <3>5. Cardinality(Counting(r, 0) \ Q) \in Nat
      BY <3>4, FS_CardinalityType
    <3>. QED BY <1>9, <3>1, <3>2, <3>4, <3>5
  <2>. QED BY <2>1, <2>2
<1>15. ASSUME NEW i \in DOMAIN r, r[i] = Window
       PROVE  i \in Q <=> Cardinality(Before(r, i)) >= MaxFail
  <2>1. CASE i = l
    BY <1>8, <1>12, <2>1
  <2>2. CASE i \in DOMAIN s
    BY <1>4, <1>7, <1>13, <1>15, <2>2 DEF Answers
  <2>. QED BY <1>3, <2>1, <2>2
<1>. QED BY <1>11, <1>14, <1>15 DEF Answers, r

(* A minute later fewer failures count, and the answers are what they were. *)
LEMMA AnswersAged ==
  ASSUME NEW s \in Failures, Ordered(s), NEW R, Answers(s, R)
  PROVE  Answers([i \in DOMAIN s |-> OneLess(s[i])], R)
<1>. DEFINE r == [i \in DOMAIN s |-> OneLess(s[i])]
<1>1. DOMAIN r = DOMAIN s
  OBVIOUS
<1>2. Counting(r, 0) \subseteq Counting(s, 0)
  <2>1. \A i \in DOMAIN s : s[i] \in Nat /\ r[i] = OneLess(s[i])
    BY FailureTypes
  <2>2. \A i \in DOMAIN s : r[i] > 0 => s[i] > 0
    BY <2>1 DEF OneLess
  <2>. HIDE DEF r
  <2>. QED BY <1>1, <2>2 DEF Counting
<1>3. \A i \in DOMAIN r : r[i] # Window
  <2>1. \A i \in DOMAIN s : s[i] \in Nat /\ s[i] <= Window
    BY FailureTypes
  <2>. QED BY <2>1, FailureTypes DEF OneLess
<1>. HIDE DEF r
<1>4. Cardinality(Counting(r, 0) \ R) <= MaxFail
  <2>1. Counting(r, 0) \ R \in SUBSET (Counting(s, 0) \ R)
    BY <1>2
  <2>2. Counting(s, 0) \ R \in SUBSET Counting(s, 0)
    OBVIOUS
  <2>3. IsFiniteSet(Counting(s, 0) \ R)
    BY <2>2, CountingFinite, FS_Subset
  <2>4. /\ Cardinality(Counting(r, 0) \ R) <= Cardinality(Counting(s, 0) \ R)
        /\ IsFiniteSet(Counting(r, 0) \ R)
    BY <2>1, <2>3, FS_Subset
  <2>5. Cardinality(Counting(r, 0) \ R) \in Nat /\ Cardinality(Counting(s, 0) \ R) \in Nat
    BY <2>3, <2>4, FS_CardinalityType
  <2>6. Cardinality(Counting(s, 0) \ R) <= MaxFail
    BY DEF Answers
  <2>. QED BY <2>4, <2>5, <2>6
<1>5. R \subseteq DOMAIN r
  BY <1>1 DEF Answers
<1>. QED BY <1>3, <1>4, <1>5 DEF Answers, r

(* The limiter drops only what has left the window: at every age it counts  *)
(* as many failures as there were since the last right key.                 *)
LimitInv ==
  /\ hits \in [Addresses -> Failures] /\ failed \in [Addresses -> Failures]
  /\ refused \in [Addresses -> SUBSET Nat]
  /\ \A a \in Addresses :
       /\ Ordered(hits[a]) /\ Ordered(failed[a])
       /\ \A m \in Nat :
            Cardinality(Counting(hits[a], m)) = Cardinality(Counting(failed[a], m))
       /\ Answers(failed[a], refused[a])

LEMMA NoneCounting ==
  /\ <<>> \in Failures /\ Ordered(<<>>) /\ Answers(<<>>, {})
  /\ \A m \in Nat : Cardinality(Counting(<<>>, m)) = 0
<1>1. <<>> \in Failures /\ Ordered(<<>>) /\ \A m \in Nat : Counting(<<>>, m) = {}
  BY DEF Failures, Ordered, Counting
<1>2. DOMAIN <<>> = {} /\ Counting(<<>>, 0) \ {} = {}
  BY <1>1
<1>3. Cardinality({}) = 0
  BY FS_EmptySet
<1>4. Answers(<<>>, {})
  BY <1>2, <1>3 DEF Answers
<1>. QED BY <1>1, <1>3, <1>4

LEMMA NoFailureLimit ==
  hits' = NoFailure /\ failed' = NoFailure /\ refused' = NoRefusal => LimitInv'
BY NoneCounting DEF NoFailure, NoRefusal, LimitInv

LEMMA LoginFailsLimit ==
  ASSUME LimitInv, NEW a \in Addresses, LoginFails(a) PROVE LimitInv'
<1>. DEFINE now  == Append(Recent(hits[a]), Window)
            more == Append(failed[a], Window)
            H(m) == Cardinality(Counting(hits[a], m))
            F(m) == Cardinality(Counting(failed[a], m))
            More(m) == IF m < Window THEN 1 ELSE 0
            over == IF F(0) + 1 > MaxFail THEN refused[a] \cup {Len(failed[a]) + 1}
                    ELSE refused[a]
<1>1. /\ hits[a] \in Failures /\ Ordered(hits[a])
      /\ failed[a] \in Failures /\ Ordered(failed[a])
      /\ \A m \in Nat : H(m) = F(m)
      /\ Answers(failed[a], refused[a]) /\ refused[a] \in SUBSET Nat
  BY DEF LimitInv
<1>2. /\ now \in Failures /\ Ordered(now) /\ Len(now) = H(0) + 1
      /\ \A m \in Nat : Cardinality(Counting(now, m)) = H(m) + More(m)
  <2>1. Recent(hits[a]) \in Failures /\ Ordered(Recent(hits[a])) /\ Len(Recent(hits[a])) = H(0)
    BY <1>1, RecentFailures
  <2>2. Len(now) = Len(Recent(hits[a])) + 1
    BY <2>1 DEF Failures
  <2>3. \A m \in Nat : Cardinality(Counting(Recent(hits[a]), m)) = H(m)
    BY <1>1, RecentFailures
  <2>. HIDE DEF H
  <2>. QED BY <2>1, <2>2, <2>3, OneMore
<1>3. /\ more \in Failures /\ Ordered(more)
      /\ \A m \in Nat : Cardinality(Counting(more, m)) = F(m) + More(m)
  BY <1>1, OneMore
<1>4. Answers(more, over)
  BY <1>1, AnswersMore
<1>5. over \in SUBSET Nat
  BY <1>1, FailureTypes
<1>6. /\ hits' = [hits EXCEPT ![a] = now]
      /\ failed' = [failed EXCEPT ![a] = more]
      /\ refused' = IF Len(now) > MaxFail
                    THEN [refused EXCEPT ![a] = @ \cup {Len(failed[a]) + 1}] ELSE refused
  BY DEF LoginFails, Kept
<1>7. Len(now) = F(0) + 1
  BY <1>1, <1>2
<1>8. /\ refused' \in [Addresses -> SUBSET Nat] /\ refused'[a] = over
      /\ \A b \in Addresses \ {a} : refused'[b] = refused[b]
  <2>1. refused \in [Addresses -> SUBSET Nat]
    BY DEF LimitInv
  <2>2. refused' = IF F(0) + 1 > MaxFail
                   THEN [refused EXCEPT ![a] = @ \cup {Len(failed[a]) + 1}] ELSE refused
    BY <1>6, <1>7
  <2>. HIDE DEF F
  <2>. QED BY <1>5, <2>1, <2>2
<1>. HIDE DEF now, more, over
<1>9. /\ hits' \in [Addresses -> Failures] /\ failed' \in [Addresses -> Failures]
      /\ hits'[a] = now /\ failed'[a] = more
      /\ \A b \in Addresses \ {a} : hits'[b] = hits[b] /\ failed'[b] = failed[b]
  BY <1>2, <1>3, <1>6 DEF LimitInv
<1>10. ASSUME NEW m \in Nat
       PROVE  Cardinality(Counting(hits'[a], m)) = Cardinality(Counting(failed'[a], m))
  <2>1. H(m) = F(m)
    BY <1>1
  <2>. HIDE DEF H, F, More
  <2>. QED BY <1>2, <1>3, <1>9, <2>1
<1>11. Ordered(hits'[a]) /\ Ordered(failed'[a]) /\ Answers(failed'[a], refused'[a])
  BY <1>2, <1>3, <1>4, <1>8, <1>9
<1>12. ASSUME NEW b \in Addresses
       PROVE  /\ Ordered(hits'[b]) /\ Ordered(failed'[b])
              /\ \A m \in Nat :
                   Cardinality(Counting(hits'[b], m)) = Cardinality(Counting(failed'[b], m))
              /\ Answers(failed'[b], refused'[b])
  <2>1. CASE b = a
    BY <1>10, <1>11, <2>1
  <2>2. CASE b # a
    <3>1. hits'[b] = hits[b] /\ failed'[b] = failed[b] /\ refused'[b] = refused[b]
      BY <1>8, <1>9, <2>2
    <3>. QED BY <3>1 DEF LimitInv
  <2>. QED BY <2>1, <2>2
<1>. QED BY <1>8, <1>9, <1>12 DEF LimitInv

LEMMA MinuteLimit == ASSUME LimitInv, Minute PROVE LimitInv'
<1>. DEFINE Older(s) == [i \in DOMAIN s |-> OneLess(s[i])]
<1>1. /\ hits' = [a \in Addresses |-> Older(hits[a])]
      /\ failed' = [a \in Addresses |-> Older(failed[a])]
      /\ refused' = refused
  BY DEF Minute
<1>2. ASSUME NEW a \in Addresses
      PROVE  /\ hits'[a] \in Failures /\ failed'[a] \in Failures
             /\ Ordered(hits'[a]) /\ Ordered(failed'[a])
             /\ \A m \in Nat : /\ Counting(hits'[a], m) = Counting(hits[a], m + 1)
                               /\ Counting(failed'[a], m) = Counting(failed[a], m + 1)
  BY <1>1, Aged DEF LimitInv
<1>3. ASSUME NEW a \in Addresses PROVE Answers(failed'[a], refused'[a])
  <2>1. failed[a] \in Failures /\ Ordered(failed[a]) /\ Answers(failed[a], refused[a])
    BY DEF LimitInv
  <2>. QED BY <1>1, <2>1, AnswersAged
<1>4. hits' \in [Addresses -> Failures] /\ failed' \in [Addresses -> Failures]
  BY <1>1, <1>2
<1>5. ASSUME NEW a \in Addresses, NEW m \in Nat
      PROVE  Cardinality(Counting(hits'[a], m)) = Cardinality(Counting(failed'[a], m))
  <2>1. m + 1 \in Nat
    OBVIOUS
  <2>2. Cardinality(Counting(hits[a], m + 1)) = Cardinality(Counting(failed[a], m + 1))
    BY <2>1 DEF LimitInv
  <2>. QED BY <1>2, <2>2
<1>6. refused' \in [Addresses -> SUBSET Nat]
  BY <1>1 DEF LimitInv
<1>. QED BY <1>2, <1>3, <1>4, <1>5, <1>6 DEF LimitInv

LEMMA LimitNext == LimitInv /\ [Next]_vars => LimitInv'
<1>. SUFFICES ASSUME LimitInv, [Next]_vars PROVE LimitInv'
  OBVIOUS
<1>1. CASE UNCHANGED limits
  BY <1>1 DEF LimitInv
<1>2. ASSUME NEW t \in Tokens, NEW a \in Addresses, Login(t, a) PROVE LimitInv'
  BY <1>2, NoneCounting DEF Login, LimitInv
<1>3. CASE InstanceEnds
  BY <1>3, NoFailureLimit DEF InstanceEnds
<1>4. CASE Instance
  BY <1>1, <1>3, <1>4 DEF Instance, Lock, ReadKey, CreateKey, Serve, Purge
<1>5. ASSUME NEW r \in Requests, Handler(r) PROVE LimitInv'
  BY <1>1, <1>5 DEF Handler, Arrive, Look, Touch, Logout, StreamTick, RequestFails
<1>6. ASSUME NEW c \in Commands, Auth(c) PROVE LimitInv'
  BY <1>1, <1>6 DEF Auth, AuthChecks, AuthWrites, AuthDrops, AuthEnds
<1>7. CASE Tick \/ UNCHANGED vars
  BY <1>1, <1>7 DEF Tick, vars
<1>. QED BY <1>2, <1>4, <1>5, <1>6, <1>7, LoginFailsLimit, MinuteLimit DEF Next

LEMMA LimitAlways == Spec => []LimitInv
<1>1. Init => LimitInv
  BY NoneCounting DEF Init, NoFailure, NoRefusal, LimitInv
<1>. QED BY <1>1, LimitNext, PTL DEF Spec

(* A failed login is answered 429 exactly when the limit is reached by the  *)
(* failures in the window since the last right key, whatever the window and *)
(* the limit are, and however late the limiter drops what has left the      *)
(* window (rate.go:30, service.go:206).                                     *)
THEOREM RefusalsOverLimit == Spec => []RefusedOverLimit
<1>1. LimitInv => RefusedOverLimit
  <2>. SUFFICES ASSUME LimitInv, NEW a \in Addresses
                PROVE  LET recent == {i \in DOMAIN failed[a] : failed[a][i] > 0}
                       IN /\ Cardinality(recent \ refused[a]) <= MaxFail
                          /\ \A i \in DOMAIN failed[a] :
                               failed[a][i] = Window =>
                                 (i \in refused[a]
                                    <=> Cardinality({j \in recent : j < i}) >= MaxFail)
    BY DEF RefusedOverLimit
  <2>1. Answers(failed[a], refused[a])
    BY DEF LimitInv
  <2>. QED BY <2>1 DEF Answers, Before, Counting
<1>. QED BY <1>1, LimitAlways, PTL

(* Every variable of the session module keeps its type.                     *)
THEOREM SessionTypes == Spec => []TypeOK
<1>1. Inv /\ LimitInv => TypeOK
  BY DEF Inv, Types, LimitInv, Failures, TypeOK
<1>. QED BY <1>1, InvAlways, LimitAlways, PTL
==============================================================================
