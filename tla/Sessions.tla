------------------------------- MODULE Sessions -------------------------------
(***************************************************************************)
(* The browser sessions and the access key: internal/auth, the start-up in *)
(* internal/app/app.go, the commands auth set and auth reset of cli.go and *)
(* the event streams of internal/api/server.go.                            *)
(*                                                                         *)
(* Three kinds of actors meet.  A zlt instance reads or creates the key    *)
(* file, opens the session database and serves.  Its requests run side by  *)
(* side: a request looks its session up in the middleware, again in the    *)
(* handler, and acts after that, each with a statement of its own.  The    *)
(* auth commands are other processes: they look once whether an instance   *)
(* runs and change the key and the database after that, whoever starts     *)
(* meanwhile.                                                              *)
(*                                                                         *)
(* A row of the database keeps how long its session has left: Tick counts  *)
(* it down, and at 0 it has expired.  An instance whose database file was  *)
(* removed works on with the unlinked file, which is gone when it ends.    *)
(***************************************************************************)
EXTENDS Naturals, Sequences, FiniteSets, Functions

CONSTANTS
  Tokens,     \* session tokens; a login takes one that was never issued
  Keys,       \* access keys
  Requests,   \* request goroutines
  Commands,   \* processes that run zlt auth
  Addresses,  \* source addresses of logins
  MaxIdle,    \* SessionMaxIdle, in ticks
  Window,     \* loginLimiter.window, in minutes
  MaxFail,    \* loginLimiter.maxFail
  MaxHits,    \* bound: failed logins of one address in a row
  NoFile, NoKey, NoToken

ASSUME SessionsAssumption ==
  /\ {MaxIdle, Window, MaxFail, MaxHits} \subseteq Nat \ {0}
  /\ NoFile \notin Keys /\ NoKey \notin Keys /\ NoToken \notin Tokens

Empty == "empty"   \* a key file that os.WriteFile has truncated and not filled
ASSUME EmptyAssumption == Empty \notin Keys \cup {NoFile}

VARIABLES
  keyFile,    \* data/auth.key
  rows,       \* the sessions table that is open, or else the one in data/auth.db
  unlinked,   \* the instance's database file has been removed under it
  inst,       \* the zlt instance: where it is and the key it holds
  request,    \* request goroutine -> what it is doing
  command,    \* zlt auth process -> what it is doing
  hits,       \* address -> its failed logins, as the minutes they still count
  failed,     \* history: the same for all its failures since it gave the right key
  refused,    \* history: address -> those of them, by number, that were answered 429
  issued,     \* history: tokens that a login has handed out
  loggedOut,  \* history: tokens that a logout has deleted
  revoked,    \* history: tokens issued before an auth command reported success
  raced       \* history: an auth command was under way when the instance started

store   == <<keyFile, rows, unlinked>>
limits  == <<hits, failed, refused>>
history == <<issued, loggedOut, revoked, raced>>
vars    == <<store, inst, request, command, limits, history>>

RowType == [key : Keys, left : 0..MaxIdle]

Down    == [pc |-> "down", key |-> NoKey]
Waiting == [pc |-> "idle", kind |-> "none", token |-> NoToken]
NotRun  == [pc |-> "idle", key |-> NoKey]

TypeOK ==
  /\ keyFile \in Keys \cup {NoFile, Empty}
  /\ DOMAIN rows \subseteq Tokens /\ rows \in [DOMAIN rows -> RowType]
  /\ unlinked \in BOOLEAN
  /\ inst \in [pc : {"down", "locked", "create", "fill", "loaded", "up"},
               key : Keys \cup {NoKey}]
  /\ request \in [Requests -> [pc : {"idle", "handler", "act", "stream"},
                               kind : {"none", "touch", "logout", "stream"},
                               token : Tokens \cup {NoToken}]]
  /\ command \in [Commands -> [pc : {"idle", "write", "fill", "drop"},
                               key : Keys \cup {NoKey}]]
  /\ {hits, failed} \subseteq [Addresses -> Seq(0..Window)]
  /\ refused \in [Addresses -> SUBSET Nat]
  /\ {issued, loggedOut, revoked} \subseteq SUBSET Tokens
  /\ raced \in BOOLEAN

Nobody    == [t \in {} |-> NoToken]
NoFailure == [a \in Addresses |-> <<>>]
NoRefusal == [a \in Addresses |-> {}]

Init ==
  /\ keyFile \in Keys \cup {NoFile}
  /\ rows = Nobody
  /\ unlinked = FALSE
  /\ inst = Down
  /\ request = [r \in Requests |-> Waiting]
  /\ command = [c \in Commands |-> NotRun]
  /\ hits = NoFailure /\ failed = NoFailure /\ refused = NoRefusal
  /\ issued = {} /\ loggedOut = {} /\ revoked = {}
  /\ raced = FALSE

------------------------------------------------------------------------------
(* The session store.                                                      *)

(* Create: a row for t, good for MaxIdle ticks.                             *)
Created(t) ==
  [u \in DOMAIN rows \cup {t} |->
     IF u = t THEN [key |-> inst.key, left |-> MaxIdle] ELSE rows[u]]

(* Lookup: a session under the key that the instance holds, not expired.    *)
Live(t) == t \in DOMAIN rows /\ rows[t].key = inst.key /\ rows[t].left > 0

(* Faulty variants: INSERT OR REPLACE in place of UPDATE, and a new period  *)
(* that counts from the end of the old one.                                 *)
TouchedAnyway(t) == Created(t)
TouchedFurther(t) ==
  IF t \in DOMAIN rows THEN [rows EXCEPT ![t].left = @ + MaxIdle] ELSE rows

(* Touch: an UPDATE, which finds nothing when the row is gone.  It does not *)
(* ask whether the session has expired since it was looked up.              *)
Touched(t) ==
  IF t \in DOMAIN rows THEN [rows EXCEPT ![t].left = MaxIdle] ELSE rows

Deleted(t) == Restrict(rows, DOMAIN rows \ {t})

(* PurgeExpired *)
Purged == Restrict(rows, {t \in DOMAIN rows : rows[t].left > 0})

------------------------------------------------------------------------------
(* The instance.                                                            *)

(* acquirePIDFile has written the pid file: see InstanceLock.               *)
Lock ==
  /\ inst.pc = "down"
  /\ inst' = [Down EXCEPT !.pc = "locked"]
  /\ raced' = \E c \in Commands : command[c].pc # "idle"
  /\ UNCHANGED <<store, request, command, limits, issued, loggedOut, revoked>>

(* A key that RandomSecret has made: no session was issued under it.        *)
Random(k) == \A t \in DOMAIN rows : rows[t].key # k

(* LoadOrCreateKey reads the file.  An empty one ends the start.            *)
ReadKey ==
  /\ inst.pc = "locked"
  /\ \/ keyFile \in Keys /\ inst' = [pc |-> "loaded", key |-> keyFile]
     \/ keyFile = Empty /\ inst' = Down
     \/ keyFile = NoFile /\ \E k \in Keys : Random(k) /\ inst' = [pc |-> "create", key |-> k]
  /\ UNCHANGED <<store, request, command, limits, history>>

(* LoadOrCreateKey writes the new key: os.WriteFile truncates, then fills.  *)
CreateKey ==
  /\ \/ inst.pc = "create" /\ keyFile' = Empty /\ inst' = [inst EXCEPT !.pc = "fill"]
     \/ inst.pc = "fill" /\ keyFile' = inst.key /\ inst' = [inst EXCEPT !.pc = "loaded"]
  /\ UNCHANGED <<rows, unlinked, request, command, limits, history>>

(* NewSessionStore and NewService, and the server starts.                   *)
Serve ==
  /\ inst.pc = "loaded"
  /\ inst' = [inst EXCEPT !.pc = "up"]
  /\ UNCHANGED <<store, request, command, limits, history>>

(* The instance stops, fails to start or is killed, and its requests and    *)
(* failure counts end with it.  The next start finds no unlinked database.  *)
InstanceEnds ==
  /\ inst.pc # "down"
  /\ inst' = Down
  /\ raced' = FALSE
  /\ rows' = IF unlinked THEN Nobody ELSE rows
  /\ unlinked' = FALSE
  /\ request' = [r \in Requests |-> Waiting]
  /\ hits' = NoFailure /\ failed' = NoFailure /\ refused' = NoRefusal
  /\ UNCHANGED <<keyFile, command, issued, loggedOut, revoked>>

(* PurgeExpired of the start and of every hour.                             *)
Purge ==
  /\ inst.pc = "up"
  /\ Purged # rows
  /\ rows' = Purged
  /\ UNCHANGED <<keyFile, unlinked, inst, request, command, limits, history>>

------------------------------------------------------------------------------
(* Logins.                                                                 *)

(* HandleLogin with the right key, over the limit or not: it is compared    *)
(* before the limiter is asked.  Create may fail.                           *)
Login(t, a) ==
  /\ inst.pc = "up"
  /\ t \notin issued
  /\ hits' = [hits EXCEPT ![a] = <<>>]
  /\ failed' = [failed EXCEPT ![a] = <<>>] /\ refused' = [refused EXCEPT ![a] = {}]
  /\ \/ rows' = Created(t) /\ issued' = issued \cup {t}
     \/ UNCHANGED <<rows, issued>>
  /\ UNCHANGED <<keyFile, unlinked, inst, request, command, loggedOut, revoked, raced>>

(* The failures are in the order of their times, so the k that have left    *)
(* the window are the first k.                                              *)
Expired(s) == CHOOSE k \in 0..Len(s) : \A i \in DOMAIN s : s[i] = 0 <=> i <= k
Recent(s)  == SubSeq(s, Expired(s) + 1, Len(s))

(* Faulty variant: the count starts anew before the key has been compared.  *)
KeptSinceLast(a) == <<>>

(* recordFailure drops what has left the window.                            *)
Kept(a) == Recent(hits[a])

(* Bounds: as many failures, and only before the first session is issued:   *)
(* the limiter shares nothing with the sessions but the reset by a login.   *)
MayFail(a) == Len(failed[a]) < MaxHits /\ issued = {}

(* HandleLogin with a wrong key: recordFailure, which the limiter counts    *)
(* whatever the answer is, 401 within the limit and 429 over it.            *)
LoginFails(a) ==
  LET now == Append(Kept(a), Window)
  IN /\ inst.pc = "up"
     /\ MayFail(a)
     /\ hits' = [hits EXCEPT ![a] = now]
     /\ failed' = [failed EXCEPT ![a] = Append(@, Window)]
     /\ refused' = IF Len(now) > MaxFail
                   THEN [refused EXCEPT ![a] = @ \cup {Len(failed[a]) + 1}]
                   ELSE refused
     /\ UNCHANGED <<store, inst, request, command, history>>

------------------------------------------------------------------------------
(* Requests of a session.                                                  *)

(* Middleware: a request of a live session, with its CSRF token where that  *)
(* is asked for, goes on to its handler; any other one is refused.          *)
Arrive(r, kind, t) ==
  /\ inst.pc = "up" /\ request[r].pc = "idle"
  /\ Live(t)
  /\ request' = [request EXCEPT ![r] =
       [pc |-> IF kind = "stream" THEN "stream" ELSE "handler", kind |-> kind, token |-> t]]
  /\ UNCHANGED <<store, inst, command, limits, history>>

Ended(r) == request' = [request EXCEPT ![r] = Waiting]

(* HandleTouch and HandleLogout look the session up once more.              *)
Look(r) ==
  /\ request[r].pc = "handler"
  /\ IF Live(request[r].token) THEN request' = [request EXCEPT ![r].pc = "act"] ELSE Ended(r)
  /\ UNCHANGED <<store, inst, command, limits, history>>

Touch(r) ==
  /\ request[r].pc = "act" /\ request[r].kind = "touch"
  /\ rows' = Touched(request[r].token)
  /\ Ended(r)
  /\ UNCHANGED <<keyFile, unlinked, inst, command, limits, history>>

Logout(r) ==
  /\ request[r].pc = "act" /\ request[r].kind = "logout"
  /\ rows' = Deleted(request[r].token)
  /\ loggedOut' = loggedOut \cup {request[r].token}
  /\ Ended(r)
  /\ UNCHANGED <<keyFile, unlinked, inst, command, limits, issued, revoked, raced>>

(* Faulty variant: a stream looks at nothing but the time.                  *)
StreamTickOnExpiry(r) ==
  LET t == request[r].token
  IN /\ request[r].pc = "stream"
     /\ t \in DOMAIN rows /\ rows[t].left = 0
     /\ Ended(r)
     /\ UNCHANGED <<store, inst, command, limits, history>>

(* sseGuard on a tick of a stream: it closes when the session is not live.  *)
StreamTick(r) ==
  /\ request[r].pc = "stream"
  /\ ~Live(request[r].token)
  /\ Ended(r)
  /\ UNCHANGED <<store, inst, command, limits, history>>

(* A statement of the store fails, or the browser is gone: nothing is done. *)
RequestFails(r) ==
  /\ request[r].pc # "idle"
  /\ Ended(r)
  /\ UNCHANGED <<store, inst, command, limits, history>>

------------------------------------------------------------------------------
(* zlt auth set k and, with NoKey, zlt auth reset.                          *)

(* Faulty variant: the command does not ask for the instance.               *)
AuthChecksNothing(c, k) ==
  /\ command[c].pc = "idle"
  /\ command' = [command EXCEPT ![c] = [pc |-> "write", key |-> k]]
  /\ UNCHANGED <<store, inst, request, limits, history>>

(* The instance must be stopped when the command looks, or without its pid  *)
(* file, which only a command under way at its start can have removed       *)
(* (NotTakenAway of InstanceLock).                                          *)
AuthChecks(c, k) ==
  /\ command[c].pc = "idle"
  /\ inst.pc = "down" \/ raced
  /\ command' = [command EXCEPT ![c] = [pc |-> "write", key |-> k]]
  /\ UNCHANGED <<store, inst, request, limits, history>>

(* A reset removes the key; a set truncates the file and fills it.          *)
AuthWrites(c) ==
  /\ \/ /\ command[c].pc = "write" /\ command[c].key = NoKey
        /\ keyFile' = NoFile
        /\ command' = [command EXCEPT ![c].pc = "drop"]
     \/ /\ command[c].pc = "write" /\ command[c].key # NoKey
        /\ keyFile' = Empty
        /\ command' = [command EXCEPT ![c].pc = "fill"]
     \/ /\ command[c].pc = "fill"
        /\ keyFile' = command[c].key
        /\ command' = [command EXCEPT ![c].pc = "drop"]
  /\ UNCHANGED <<rows, unlinked, inst, request, limits, history>>

(* Faulty variant: the sessions are left to the change of the key.          *)
AuthKeepsSessions(c) ==
  /\ command[c].pc = "drop"
  /\ revoked' = issued
  /\ command' = [command EXCEPT ![c] = NotRun]
  /\ UNCHANGED <<store, inst, request, limits, issued, loggedOut, raced>>

(* The database is removed, and the command reports success.                *)
AuthDrops(c) ==
  /\ command[c].pc = "drop"
  /\ IF inst.pc = "up"
     THEN unlinked' = TRUE /\ UNCHANGED rows
     ELSE rows' = Nobody /\ UNCHANGED unlinked
  /\ revoked' = issued
  /\ command' = [command EXCEPT ![c] = NotRun]
  /\ UNCHANGED <<keyFile, inst, request, limits, issued, loggedOut, raced>>

(* The command fails or is killed between two steps.                        *)
AuthEnds(c) ==
  /\ command[c].pc # "idle"
  /\ command' = [command EXCEPT ![c] = NotRun]
  /\ UNCHANGED <<store, inst, request, limits, history>>

------------------------------------------------------------------------------
(* Time, in the units of the sessions and of the limiter.                  *)

OneLess(m) == IF m > 0 THEN m - 1 ELSE 0

Tick ==
  /\ Purged # Nobody
  /\ rows' = [t \in DOMAIN rows |-> [rows[t] EXCEPT !.left = OneLess(@)]]
  /\ UNCHANGED <<keyFile, unlinked, inst, request, command, limits, history>>

Minute ==
  LET Older(f) == [a \in Addresses |-> [i \in DOMAIN f[a] |-> OneLess(f[a][i])]]
  IN /\ \E a \in Addresses : Kept(a) # <<>>
     /\ hits' = Older(hits) /\ failed' = Older(failed)
     /\ UNCHANGED <<store, inst, request, command, refused, history>>

Instance == Lock \/ ReadKey \/ CreateKey \/ Serve \/ InstanceEnds \/ Purge

Handler(r) ==
  \/ \E kind \in {"touch", "logout", "stream"}, t \in Tokens : Arrive(r, kind, t)
  \/ Look(r) \/ Touch(r) \/ Logout(r) \/ StreamTick(r) \/ RequestFails(r)

Auth(c) ==
  \/ \E k \in Keys \cup {NoKey} : AuthChecks(c, k)
  \/ AuthWrites(c) \/ AuthDrops(c) \/ AuthEnds(c)

Next ==
  \/ Instance
  \/ \E t \in Tokens, a \in Addresses : Login(t, a)
  \/ \E a \in Addresses : LoginFails(a)
  \/ \E r \in Requests : Handler(r)
  \/ \E c \in Commands : Auth(c)
  \/ Tick \/ Minute

Spec == Init /\ [][Next]_vars

(* The ticker of a stream goes on until the stream is closed.               *)
FairSpec == Spec /\ \A r \in Requests : WF_vars(StreamTick(r))

------------------------------------------------------------------------------
(* Properties.                                                              *)

(* A session that was logged out never authenticates again: a touch that    *)
(* looked it up before the logout does not bring it back (session.go:129).  *)
LogoutSticks == \A t \in loggedOut : t \notin DOMAIN rows

(* After auth set or reset has reported success no session issued before    *)
(* authenticates any more, even when the key is set to what it was before   *)
(* (cli.go:450): not in an instance that starts later, and not in one that  *)
(* runs unless it had opened the database when the command removed it.      *)
RevokedGone == inst.pc = "up" /\ ~unlinked => \A t \in revoked : ~Live(t)

(* An instance serves with the key in the file (cli.go:399, key.go:32): no  *)
(* auth command changes it under a running instance, unless one was under   *)
(* way when the instance started.                                           *)
KeyInUse == inst.pc = "up" /\ ~raced => keyFile = inst.key

(* A failed login is answered 429 exactly when MaxFail failures of its      *)
(* address, answered either way, are in the window since its last right     *)
(* key; so at most MaxFail in a window are answered 401, and nobody is held *)
(* to failures from before a success (rate.go:10, 30).  It is the answer    *)
(* that is limited and not the guesses: service.go:191 compares first.      *)
RefusedOverLimit ==
  \A a \in Addresses :
    LET recent == {i \in DOMAIN failed[a] : failed[a][i] > 0}
    IN /\ Cardinality(recent \ refused[a]) <= MaxFail
       /\ \A i \in DOMAIN failed[a] :
            failed[a][i] = Window =>
              (i \in refused[a] <=> Cardinality({j \in recent : j < i}) >= MaxFail)

(* An event stream of a session that was logged out is closed (server.go:401).*)
StreamsEnd ==
  \A r \in Requests :
    request[r].pc = "stream" /\ request[r].token \in loggedOut ~> request[r].pc # "stream"
==============================================================================
