----------------------------- MODULE InstanceLock ----------------------------
(***************************************************************************)
(* One instance of zlt per working directory: the pid file and its lock    *)
(* (internal/app/pidfile.go), the life of a zlt that serves                *)
(* (RunWithOptions in app.go), and the commands start, stop, restart and   *)
(* auth set/reset (daemon.go, daemon_unix.go, cli.go), on unix.            *)
(*                                                                         *)
(* The operating system gives a pid that has become free to any program,   *)
(* drops the flock of a process that ends, and keeps a child that nobody   *)
(* has waited for as a zombie.  A command is a process too, but what       *)
(* matters of its pid is only that a pid file may name it by then: such    *)
(* zlt processes are "cli" below.  All zlt processes run one executable,    *)
(* which nobody replaces or deletes meanwhile.                             *)
(***************************************************************************)
EXTENDS FiniteSets

CONSTANTS
  Pids,     \* process numbers
  Commands, \* the commands given
  Tokens,   \* the random tokens of pid files
  None      \* no token, pid, command or file

(* pidFilePayload; zlt is whether it has the path of the executable.        *)
Payloads == [pid : Pids, zlt : BOOLEAN, token : Tokens \cup {None}]

ASSUME InstanceAssumption ==
  /\ Pids \cap Commands = {}
  /\ None \notin Pids \cup Commands \cup Tokens \cup Payloads

VARIABLES
  proc,   \* what has a pid, and how far a zlt that serves has come
  own,    \* pidLock.Token of the zlt at a pid
  flock,  \* who has the lock of zlt.pid.lock
  file,   \* zlt.pid
  cmd     \* the commands

vars == <<proc, own, flock, file, cmd>>

Waiting    == {"launched"}                            \* before the lock
Acquiring  == {"locked", "writing"}                   \* acquirePIDFile
Instance   == {"booting", "up", "serving", "stopping", "releasing", "removing"}
Zlt        == Waiting \cup Acquiring \cup Instance \cup {"refused", "cli"}
Occupants  == Zlt \cup {"free", "program", "hidden", "zombie"}
StartSteps == {"check", "spawn", "phase1", "phase2"}
StopSteps  == {"verify", "kill", "poll", "release", "compare", "unlink"}
AuthSteps  == {"clear"}
Ends       == {"ok", "failed"}

NoCommand == [step |-> "new", restart |-> FALSE, lock |-> None, child |-> None]

Exists(p) == proc[p] # "free"

(* The last line: the pid of a child that a start waits for is not given    *)
(* away.                                                                    *)
TypeOK ==
  /\ proc \in [Pids -> Occupants]
  /\ own \in [Pids -> Tokens \cup {None}]
  /\ flock \in Pids \cup Commands \cup {None}
  /\ file \in Payloads \cup {None}
  /\ cmd \in [Commands -> [step : {"new"} \cup StartSteps \cup StopSteps \cup AuthSteps \cup Ends,
                           restart : BOOLEAN, lock : Payloads \cup {None}, child : Pids \cup {None}]]
  /\ \A c \in Commands : cmd[c].child # None => Exists(cmd[c].child)

(* A zlt of long ago may have left a file without a path or a token.        *)
Init ==
  /\ proc = [p \in Pids |-> "free"]
  /\ own = [p \in Pids |-> None]
  /\ flock = None
  /\ file \in {None} \cup [pid : Pids, zlt : {FALSE}, token : {None}]
  /\ cmd = [c \in Commands |-> NoCommand]

------------------------------------------------------------------------------
(* Who has a pid.                                                           *)

Image(p) ==
  CASE proc[p] \in Zlt              -> "zlt"
    [] proc[p] = "program"          -> "other"
    [] proc[p] \in {"hidden", "zombie"} -> "unreadable"
    [] OTHER                        -> "none"

ProcessMatches(f) == Exists(f.pid) /\ (f.zlt => Image(f.pid) # "other")

DetachedMatches(f) == Image(f.pid) = "zlt"
DetachedDiffers(f) == Image(f.pid) \in {"other", "none"}

IsOwn(p) == file # None /\ file.pid = p /\ file.zlt /\ file.token = own[p]

Known == {file} \cup {cmd[c].lock : c \in Commands}

NewTokens == Tokens \ ({own[p] : p \in Pids} \cup {f.token : f \in Known \ {None}})

(* The process p ends: its start, if that is still there, never waits for   *)
(* it.                                                                      *)
HasParent(p) == \E c \in Commands : cmd[c].child = p

\* Mutant: start waits for the child in the background.
Ended(p) == IF HasParent(p) THEN "zombie" ELSE "free"

Exit(p) ==
  /\ proc' = [proc EXCEPT ![p] = Ended(p)]
  /\ own' = [own EXCEPT ![p] = IF HasParent(p) THEN @ ELSE None]
  /\ flock' = IF flock = p THEN None ELSE flock

------------------------------------------------------------------------------
(* RunWithOptions.                                                          *)

At(p, step) == proc[p] = step
Step(p, step) == proc' = [proc EXCEPT ![p] = step]

Launch(p) ==
  /\ At(p, "free") /\ Step(p, "launched")
  /\ UNCHANGED <<own, flock, file, cmd>>

TakeLock(p) ==
  /\ At(p, "launched") /\ flock = None
  /\ flock' = p
  /\ Step(p, "locked")
  /\ UNCHANGED <<own, file, cmd>>

(* handleAlreadyRunning only shows who the file names, then zlt ends.       *)
LockHeld(p) ==
  /\ At(p, "launched") /\ flock # None
  /\ Step(p, "refused")
  /\ UNCHANGED <<own, flock, file, cmd>>

Named == file # None /\ ProcessMatches(file)

CheckFile(p) ==
  /\ At(p, "locked")
  /\ IF Named
     THEN Step(p, "refused") /\ flock' = None
     ELSE Step(p, "writing") /\ UNCHANGED flock
  /\ UNCHANGED <<own, file, cmd>>

\* Mutant: the lock file is closed when acquirePIDFile returns.
WriteUnlocked(p) ==
  /\ At(p, "writing")
  /\ \E t \in NewTokens :
       /\ file' = [pid |-> p, zlt |-> TRUE, token |-> t]
       /\ own' = [own EXCEPT ![p] = t]
  /\ Step(p, "booting")
  /\ flock' = None
  /\ UNCHANGED cmd

Write(p) ==
  /\ At(p, "writing")
  /\ \E t \in NewTokens :
       /\ file' = [pid |-> p, zlt |-> TRUE, token |-> t]
       /\ own' = [own EXCEPT ![p] = t]
  /\ Step(p, "booting")
  /\ UNCHANGED <<flock, cmd>>

(* NewRuntime, initAuth and StartHTTP, all of which may fail.               *)
Boot(p) ==
  /\ At(p, "booting") /\ Step(p, "up")
  /\ UNCHANGED <<own, flock, file, cmd>>

BootFails(p) ==
  /\ proc[p] \in {"booting", "up"}
  /\ Step(p, "releasing")
  /\ UNCHANGED <<own, flock, file, cmd>>

Serve(p) ==
  /\ At(p, "up") /\ Step(p, "serving")
  /\ UNCHANGED <<own, flock, file, cmd>>

(* runHeadless, after a signal, or the user quits the tray.                 *)
Interrupt(p) ==
  /\ At(p, "serving") /\ Step(p, "stopping")
  /\ UNCHANGED <<own, flock, file, cmd>>

Shutdown(p) ==
  /\ At(p, "stopping") /\ Step(p, "releasing")
  /\ UNCHANGED <<own, flock, file, cmd>>

Release(p) ==
  /\ At(p, "releasing")
  /\ IF IsOwn(p) THEN Step(p, "removing") /\ UNCHANGED <<own, flock>>
                 ELSE Exit(p)
  /\ UNCHANGED <<file, cmd>>

Remove(p) ==
  /\ At(p, "removing")
  /\ file' = None
  /\ Exit(p)
  /\ UNCHANGED cmd

(* The process ends: another program or command, a zlt that was refused or  *)
(* could not write its file, and any zlt that is killed.                    *)
Die(p) ==
  /\ proc[p] \notin {"free", "zombie"}
  /\ Exit(p)
  /\ UNCHANGED <<file, cmd>>

(* A process that has nothing to do with the file gets the pid.             *)
Reuse(p) ==
  /\ At(p, "free")
  /\ \E o \in {"program", "hidden", "cli"} : Step(p, o)
  /\ UNCHANGED <<own, flock, file, cmd>>

------------------------------------------------------------------------------
(* Commands.                                                                *)

Does(c, step) == cmd[c].step = step
Goto(c, step) == cmd' = [cmd EXCEPT ![c].step = step]

(* Nothing is left of the command but its result, and its dead child goes.  *)
Finish(c, result) ==
  LET child == cmd[c].child
      reaped == {p \in Pids : p = child /\ proc[p] = "zombie"}
  IN /\ cmd' = [cmd EXCEPT ![c] = [NoCommand EXCEPT !.step = result]]
     /\ proc' = [p \in Pids |-> IF p \in reaped THEN "free" ELSE proc[p]]
     /\ own' = [p \in Pids |-> IF p \in reaped THEN None ELSE own[p]]
     /\ flock' = IF flock = c THEN None ELSE flock

(* The user gives start, stop, restart, or auth set or reset; a command     *)
(* may be interrupted anywhere, and its own file operations may fail.       *)
Give(c) ==
  /\ Does(c, "new")
  /\ \/ Goto(c, "check")
     \/ /\ file # None
        /\ \E again \in BOOLEAN :
             cmd' = [cmd EXCEPT ![c].step = "verify", ![c].lock = file, ![c].restart = again]
     \/ file # None /\ ~Named /\ Goto(c, "clear")
  /\ UNCHANGED <<proc, own, flock, file>>

Interrupted(c) ==
  /\ cmd[c].step \notin {"new"} \cup Ends
  /\ Finish(c, "failed")
  /\ UNCHANGED file

(* start: ensureNotRunning, then the child, then waitForDetachedStart.      *)
Check(c) ==
  /\ Does(c, "check") /\ ~Named
  /\ Goto(c, "spawn")
  /\ UNCHANGED <<proc, own, flock, file>>

\* Mutant: start writes the file for its child.
SpawnPrewriting(c) ==
  /\ Does(c, "spawn")
  /\ \E p \in Pids, t \in NewTokens :
       /\ At(p, "free") /\ Step(p, "launched")
       /\ cmd' = [cmd EXCEPT ![c].step = "phase1", ![c].child = p]
       /\ file' = [pid |-> p, zlt |-> TRUE, token |-> t]
  /\ UNCHANGED <<own, flock>>

Spawn(c) ==
  /\ Does(c, "spawn")
  /\ \E p \in Pids :
       /\ At(p, "free") /\ Step(p, "launched")
       /\ cmd' = [cmd EXCEPT ![c].step = "phase1", ![c].child = p]
  /\ UNCHANGED <<own, flock, file>>

SeesOwner(c) ==
  /\ Does(c, "phase1")
  /\ file # None /\ file.pid = cmd[c].child
  /\ Goto(c, "phase2")
  /\ UNCHANGED <<proc, own, flock, file>>

(* Any server that answers at the address will do: it may be another one.   *)
SeesServer(c) ==
  /\ Does(c, "phase2")
  /\ Exists(cmd[c].child)
  /\ Finish(c, "ok")
  /\ UNCHANGED file

(* stop: stopDetached, and Release of a lock that was only read.            *)
Verify(c) ==
  /\ Does(c, "verify")
  /\ \/ DetachedMatches(cmd[c].lock) /\ Goto(c, "kill")
     \/ DetachedDiffers(cmd[c].lock) /\ Goto(c, "release")
  /\ UNCHANGED <<proc, own, flock, file>>

(* SIGTERM ends a zlt that does not listen for it yet, or no more, or has a *)
(* tray, and most other programs.                                           *)
Signalled(p) ==
  \/ At(p, "serving") /\ Step(p, "stopping") /\ UNCHANGED <<own, flock>>
  \/ proc[p] \in {"stopping", "zombie"} /\ UNCHANGED <<proc, own, flock>>
  \/ proc[p] \in Occupants \ {"free", "zombie", "hidden", "stopping"} /\ Exit(p)

(* A kill that finds nobody is an error of stop, os.ErrNotExist, after the  *)
(* same Release; restart goes on.  The model tells it from a success        *)
(* nowhere.                                                                 *)
Kill(c) ==
  /\ Does(c, "kill")
  /\ LET p == cmd[c].lock.pid
     IN \/ At(p, "free") /\ Goto(c, "release") /\ UNCHANGED <<proc, own, flock>>
        \/ Signalled(p) /\ Goto(c, "poll")
  /\ UNCHANGED file

\* Mutant: when the service does not stop in time, stop goes on all the same.
PollForgiving(c) ==
  /\ Does(c, "poll")
  /\ Goto(c, "release")
  /\ UNCHANGED <<proc, own, flock, file>>

Poll(c) ==
  /\ Does(c, "poll")
  /\ DetachedDiffers(cmd[c].lock)
  /\ Goto(c, "release")
  /\ UNCHANGED <<proc, own, flock, file>>

(* The recorded service has gone: stop is done, and restart goes on.        *)
StopEnds(c) ==
  IF cmd[c].restart
  THEN /\ cmd' = [cmd EXCEPT ![c] = [NoCommand EXCEPT !.step = "check"]]
       /\ flock' = IF flock = c THEN None ELSE flock
       /\ UNCHANGED <<proc, own>>
  ELSE Finish(c, "ok")

\* Mutant: Release does without the lock when it cannot have it.
RelockHeldAnyway(c) ==
  /\ Does(c, "release") /\ flock # None
  /\ Goto(c, "compare")
  /\ UNCHANGED <<proc, own, flock, file>>

RelockHeld(c) ==
  /\ Does(c, "release") /\ flock # None
  /\ StopEnds(c)
  /\ UNCHANGED file

Relock(c) ==
  /\ Does(c, "release") /\ flock = None
  /\ flock' = c
  /\ Goto(c, "compare")
  /\ UNCHANGED <<proc, own, file>>

Compare(c) ==
  /\ Does(c, "compare")
  /\ IF file = cmd[c].lock THEN Goto(c, "unlink") /\ UNCHANGED <<proc, own, flock>>
                           ELSE StopEnds(c)
  /\ UNCHANGED file

Unlink(c) ==
  /\ Does(c, "unlink")
  /\ file' = None
  /\ StopEnds(c)

(* auth set and reset take no lock.  What they do to the key and to the     *)
(* sessions is not part of this module.                                     *)
Clear(c) ==
  /\ Does(c, "clear")
  /\ file' = None
  /\ Finish(c, "ok")

------------------------------------------------------------------------------
Process(p) ==
  \/ Launch(p) \/ TakeLock(p) \/ LockHeld(p) \/ CheckFile(p) \/ Write(p)
  \/ Boot(p) \/ BootFails(p) \/ Serve(p) \/ Interrupt(p) \/ Shutdown(p)
  \/ Release(p) \/ Remove(p) \/ Die(p) \/ Reuse(p)

Command(c) ==
  \/ Give(c) \/ Interrupted(c) \/ Check(c) \/ Spawn(c) \/ SeesOwner(c) \/ SeesServer(c)
  \/ Verify(c) \/ Kill(c) \/ Poll(c) \/ RelockHeld(c) \/ Relock(c) \/ Compare(c) \/ Unlink(c)
  \/ Clear(c)

Next == \/ \E p \in Pids : Process(p)
        \/ \E c \in Commands : Command(c)

Spec == Init /\ [][Next]_vars

------------------------------------------------------------------------------
(* There is one instance: of all zlt that have got past acquirePIDFile one  *)
(* at most has not ended, whatever is killed, removed and reused meanwhile, *)
(* and while there is one, no stop removes what it believes to be stale.    *)
OneInstance ==
  \A p \in Pids : proc[p] \in Instance =>
    /\ \A q \in Pids \ {p} : proc[q] \notin Instance
    /\ \A c \in Commands : cmd[c].step \notin {"compare", "unlink"}

(* As long as there is an instance, the file, if there is one (auth may     *)
(* have removed it), names it, so that status and stop never speak of       *)
(* another process.                                                         *)
FileIsOwners ==
  \A p \in Pids : proc[p] \in Instance /\ file # None => IsOwn(p)

(* Only the instance itself and auth ever take the file of an instance      *)
(* away.                                                                    *)
NotTakenAway ==
  [][\A p \in Pids :
       (proc[p] \in Instance /\ proc'[p] \in Instance /\ IsOwn(p) /\ file' # file)
         => \E c \in Commands : Does(c, "clear") /\ ~Does(c, "clear")']_vars

(* stop succeeds, and restart goes on, only once the service that the file  *)
(* named is gone.                                                           *)
StopDone ==
  [][\A c \in Commands :
       (cmd[c].step \in StopSteps /\ cmd'[c].step \in {"ok", "check"}
         /\ cmd[c].lock.token # None)
         => \A p \in Pids : proc[p] \in Instance => own[p] # cmd[c].lock.token]_vars

(* errAlreadyRunning is for a lock that a live instance holds: a start that *)
(* finds a file with a path is refused only while there is another zlt or a *)
(* stop that removes the file.                                              *)
RefusedByInstance ==
  [][\A p \in Pids :
       (proc[p] \in Waiting \cup Acquiring /\ proc'[p] = "refused" /\ file # None /\ file.zlt)
         => \/ \E q \in Pids \ {p} : proc[q] \in Zlt \cup {"hidden", "zombie"}
            \/ \E c \in Commands : cmd[c].step \in {"compare", "unlink"}]_vars
==============================================================================
