-------------------------- MODULE InstanceLockProofs -------------------------
(***************************************************************************)
(* Proofs about InstanceLock for any number of processes and commands.     *)
(* Whoever is past acquirePIDFile, or removes a file as stale, has the     *)
(* lock.  Since the lock goes to a process that ends there only when it    *)
(* has ended, nobody writes or removes the file under an instance; only    *)
(* auth, which takes no lock, does remove it.  A stop waits for the end of *)
(* the process whose token the file had: no later one has that token.      *)
(***************************************************************************)
EXTENDS InstanceLock, TLAPS

Steps == {"new"} \cup StartSteps \cup StopSteps \cup AuthSteps \cup Ends

CommandRecords == [step : Steps, restart : BOOLEAN, lock : Payloads \cup {None},
                   child : Pids \cup {None}]

Types ==
  /\ proc \in [Pids -> Occupants]
  /\ own \in [Pids -> Tokens \cup {None}]
  /\ flock \in Pids \cup Commands \cup {None}
  /\ file \in Payloads \cup {None}
  /\ cmd \in [Commands -> CommandRecords]

LockDiscipline ==
  /\ \A p \in Pids : proc[p] \in Acquiring \cup Instance => flock = p
  /\ \A c \in Commands : cmd[c].step \in {"compare", "unlink"} => flock = c

(* Every child has one parent, and its pid is taken.                        *)
Children ==
  /\ \A c \in Commands : cmd[c].child # None => Exists(cmd[c].child)
  /\ \A c, d \in Commands : cmd[c].child = cmd[d].child /\ cmd[c].child # None => c = d

(* A stop has read a file.                                                  *)
Aims == \A c \in Commands : cmd[c].step \in StopSteps => cmd[c].lock # None

Inv == Types /\ LockDiscipline /\ Children /\ Aims /\ FileIsOwners

USE InstanceAssumption DEF Waiting, Acquiring, Instance, Zlt, Occupants, StartSteps, StopSteps,
                           AuthSteps, Ends, Steps

LEMMA InitInv == Init => Inv
<1>. SUFFICES ASSUME Init PROVE Inv
  OBVIOUS
<1>1. NoCommand \in CommandRecords /\ NoCommand.step = "new" /\ NoCommand.child = None
  BY DEF NoCommand, CommandRecords
<1>2. file \in Payloads \cup {None}
  BY DEF Init, Payloads
<1>3. Types
  BY <1>1, <1>2 DEF Init, Types
<1>4. LockDiscipline
  BY <1>1 DEF Init, LockDiscipline
<1>5. Children
  BY <1>1 DEF Init, Children
<1>6. Aims
  BY <1>1 DEF Init, Aims
<1>7. FileIsOwners
  BY DEF Init, FileIsOwners
<1>. QED BY <1>3, <1>4, <1>5, <1>6, <1>7 DEF Inv

------------------------------------------------------------------------------
(* How a process ends, moves on, and how a command does.                    *)

(* No command but one that goes on with a stop does anything.               *)
Quiet ==
  /\ cmd' \in [Commands -> CommandRecords]
  /\ \A c \in Commands :
       /\ cmd'[c].child = cmd[c].child
       /\ cmd'[c].step \in {"compare", "unlink"} => cmd'[c].step = cmd[c].step
       /\ cmd'[c].step \in StopSteps => cmd'[c].lock # None

LEMMA UnchangedIsQuiet == Inv /\ UNCHANGED cmd => Quiet
  BY DEF Inv, Types, Aims, Quiet

LEMMA EndsWell ==
  ASSUME Inv, NEW p \in Pids, proc[p] # "free", Exit(p), Quiet,
         file' = file \/ (file' = None /\ proc[p] = "removing")
  PROVE  Inv'
<1>1. Types'
  BY DEF Inv, Types, Exit, Ended, Quiet
<1>2. LockDiscipline'
  BY DEF Inv, Types, LockDiscipline, Exit, Ended, Quiet
<1>3. Children'
  <2>. SUFFICES ASSUME NEW c \in Commands, cmd[c].child # None
                PROVE  proc'[cmd[c].child] # "free"
    BY DEF Inv, Children, Exists, Quiet
  <2>. QED BY DEF Inv, Types, Children, Exists, Exit, Ended, HasParent, CommandRecords
<1>4. Aims'
  BY DEF Aims, Quiet
<1>5. FileIsOwners'
  BY DEF Inv, Types, FileIsOwners, IsOwn, Exit, Ended
<1>. QED BY <1>1, <1>2, <1>3, <1>4, <1>5 DEF Inv

(* A process moves on without a word to anyone, and keeps the lock if it    *)
(* needs it.                                                                *)
LEMMA MovesWell ==
  ASSUME Inv, NEW p \in Pids, NEW s \in Occupants \ {"free"}, Step(p, s),
         s \in Acquiring \cup Instance => flock' = p,
         s \in Instance => proc[p] \in Instance,
         \/ flock' = flock
         \/ flock = None /\ flock' = p
         \/ flock = p /\ flock' = None,
         UNCHANGED <<own, file>>, Quiet
  PROVE  Inv'
<1>1. Types'
  BY DEF Inv, Types, Step, Quiet
<1>2. LockDiscipline'
  BY DEF Inv, Types, LockDiscipline, Step, Quiet
<1>3. Children'
  BY DEF Inv, Types, Children, Exists, Step, CommandRecords, Quiet
<1>4. Aims'
  BY DEF Aims, Quiet
<1>5. FileIsOwners'
  BY DEF Inv, Types, FileIsOwners, IsOwn, Step
<1>. QED BY <1>1, <1>2, <1>3, <1>4, <1>5 DEF Inv

LEMMA CommandGoesWell ==
  ASSUME Inv, NEW c \in Commands, NEW r \in CommandRecords,
         cmd' = [cmd EXCEPT ![c] = r], r.child \in {cmd[c].child, None},
         r.step \in {"compare", "unlink"} => flock' = c,
         r.step \in StopSteps => r.lock # None,
         flock' = flock \/ (flock = None /\ flock' = c),
         UNCHANGED <<proc, own, file>>
  PROVE  Inv'
<1>1. Types'
  BY DEF Inv, Types
<1>2. LockDiscipline'
  BY DEF Inv, Types, LockDiscipline
<1>3. Children'
  BY DEF Inv, Types, Children, Exists
<1>4. Aims'
  BY DEF Inv, Types, Aims
<1>5. FileIsOwners'
  BY DEF Inv, Types, FileIsOwners, IsOwn
<1>. QED BY <1>1, <1>2, <1>3, <1>4, <1>5 DEF Inv

LEMMA FinishesWell ==
  ASSUME Inv, NEW c \in Commands, NEW result \in Ends, Finish(c, result),
         file' = file \/ file' = None
  PROVE  Inv'
<1>. DEFINE r == [NoCommand EXCEPT !.step = result]
<1>0. r \in CommandRecords /\ r.step = result /\ r.child = None
  BY DEF NoCommand, CommandRecords
<1>1. cmd' = [cmd EXCEPT ![c] = r]
  BY DEF Finish
<1>. HIDE DEF r
<1>2. Types'
  BY <1>0, <1>1 DEF Inv, Types, Finish
<1>3. LockDiscipline'
  BY <1>0, <1>1 DEF Inv, Types, LockDiscipline, Finish
<1>4. Children'
  BY <1>0, <1>1 DEF Inv, Types, Children, Exists, Finish, CommandRecords
<1>5. Aims'
  BY <1>0, <1>1 DEF Inv, Types, Aims
<1>6. FileIsOwners'
  BY DEF Inv, Types, FileIsOwners, IsOwn, Finish
<1>. QED BY <1>2, <1>3, <1>4, <1>5, <1>6 DEF Inv
------------------------------------------------------------------------------
(* The actions.                                                             *)

LEMMA WriteStep ==
  ASSUME Inv, NEW p \in Pids, Write(p)
  PROVE  Inv'
<1>1. PICK t \in NewTokens : /\ file' = [pid |-> p, zlt |-> TRUE, token |-> t]
                             /\ own' = [own EXCEPT ![p] = t]
  BY DEF Write
<1>2. t \in Tokens
  BY DEF NewTokens
<1>3. Types'
  BY <1>1, <1>2 DEF Inv, Types, Write, At, Step, Payloads
<1>4. LockDiscipline'
  BY DEF Inv, Types, LockDiscipline, Write, At, Step
<1>5. Children'
  BY DEF Inv, Types, Children, Exists, Write, At, Step, CommandRecords
<1>6. IsOwn(p)'
  <2>1. file' \in Payloads
    BY <1>1, <1>2 DEF Payloads
  <2>. QED BY <1>1, <2>1 DEF Inv, Types, IsOwn
<1>7. \A q \in Pids \ {p} : proc'[q] \notin Instance
  BY DEF Inv, Types, LockDiscipline, Write, At, Step
<1>8. FileIsOwners'
  BY <1>6, <1>7 DEF FileIsOwners
<1>9. Aims'
  BY DEF Inv, Aims, Write
<1>. QED BY <1>3, <1>4, <1>5, <1>8, <1>9 DEF Inv

LEMMA ProcessStep ==
  ASSUME Inv, NEW p \in Pids, Process(p)
  PROVE  Inv'
<1>1. proc[p] \in Occupants /\ (proc[p] \in Acquiring \cup Instance => flock = p)
  BY DEF Inv, Types, LockDiscipline
<1>0. UNCHANGED cmd => Quiet
  BY UnchangedIsQuiet
<1>2. CASE Launch(p)
  BY <1>2, <1>0, MovesWell DEF Launch, At
<1>3. CASE TakeLock(p)
  BY <1>3, <1>0, MovesWell DEF TakeLock, At
<1>4. CASE LockHeld(p)
  BY <1>4, <1>0, MovesWell DEF LockHeld, At
<1>5. CASE CheckFile(p)
  BY <1>1, <1>5, <1>0, MovesWell DEF CheckFile, At
<1>6. CASE Write(p)
  BY <1>6, WriteStep
<1>7. CASE Boot(p) \/ BootFails(p) \/ Serve(p) \/ Interrupt(p) \/ Shutdown(p)
  BY <1>1, <1>7, <1>0, MovesWell DEF Boot, BootFails, Serve, Interrupt, Shutdown, At
<1>8. CASE Release(p)
  BY <1>1, <1>8, <1>0, MovesWell, EndsWell DEF Release, At
<1>9. CASE Remove(p) \/ Die(p)
  BY <1>0, <1>9, EndsWell DEF Remove, Die, At
<1>10. CASE Reuse(p)
  BY <1>10, <1>0, MovesWell DEF Reuse, At
<1>. QED BY <1>2, <1>3, <1>4, <1>5, <1>6, <1>7, <1>8, <1>9, <1>10 DEF Process

LEMMA SpawnStep ==
  ASSUME Inv, NEW c \in Commands, Spawn(c)
  PROVE  Inv'
<1>1. PICK p \in Pids :
        /\ At(p, "free") /\ Step(p, "launched")
        /\ cmd' = [cmd EXCEPT ![c].step = "phase1", ![c].child = p]
  BY DEF Spawn
<1>2. /\ cmd' \in [Commands -> CommandRecords]
      /\ cmd'[c].step = "phase1" /\ cmd'[c].child = p
      /\ \A d \in Commands \ {c} : cmd'[d] = cmd[d]
  <2>. DEFINE r == [cmd[c] EXCEPT !.step = "phase1", !.child = p]
  <2>1. cmd \in [Commands -> CommandRecords]
    BY DEF Inv, Types
  <2>2. cmd[c] \in CommandRecords
    BY <2>1
  <2>3. r \in CommandRecords /\ r.step = "phase1" /\ r.child = p
    BY <2>2 DEF CommandRecords
  <2>4. cmd' = [cmd EXCEPT ![c] = r]
    BY <1>1, <2>1
  <2>. HIDE DEF r
  <2>. QED BY <2>1, <2>3, <2>4
<1>3. Types'
  BY <1>1, <1>2 DEF Inv, Types, Spawn, Step
<1>4. LockDiscipline'
  BY <1>1, <1>2 DEF Inv, Types, LockDiscipline, Spawn, At, Step
<1>5. Children'
  BY <1>1, <1>2 DEF Inv, Types, Children, Exists, At, Step, CommandRecords
<1>6. Aims'
  BY <1>2 DEF Inv, Aims
<1>7. FileIsOwners'
  BY <1>1 DEF Inv, Types, FileIsOwners, IsOwn, Spawn, At, Step
<1>. QED BY <1>3, <1>4, <1>5, <1>6, <1>7 DEF Inv

LEMMA GotoWell ==
  ASSUME Inv, NEW c \in Commands, NEW s \in Steps, Goto(c, s),
         s \in {"compare", "unlink"} => flock' = c,
         s \in StopSteps => cmd[c].step \in StopSteps,
         flock' = flock \/ (flock = None /\ flock' = c),
         UNCHANGED <<proc, own, file>>
  PROVE  Inv'
<1>. DEFINE r == [cmd[c] EXCEPT !.step = s]
<1>1. /\ r \in CommandRecords /\ r.step = s /\ r.child = cmd[c].child
      /\ s \in StopSteps => r.lock # None
  BY SMTT(30) DEF Inv, Types, Aims, CommandRecords
<1>2. cmd' = [cmd EXCEPT ![c] = r]
  BY DEF Goto
<1>. HIDE DEF r
<1>. QED BY <1>1, <1>2, CommandGoesWell

LEMMA GiveStep ==
  ASSUME Inv, NEW c \in Commands, Give(c)
  PROVE  Inv'
<1>1. CASE Goto(c, "check") \/ Goto(c, "clear")
  BY <1>1, GotoWell DEF Give
<1>2. CASE file # None /\ \E again \in BOOLEAN :
              cmd' = [cmd EXCEPT ![c].step = "verify", ![c].lock = file, ![c].restart = again]
  <2>1. PICK again \in BOOLEAN :
          cmd' = [cmd EXCEPT ![c].step = "verify", ![c].lock = file, ![c].restart = again]
    BY <1>2
  <2>. DEFINE r == [cmd[c] EXCEPT !.step = "verify", !.lock = file, !.restart = again]
  <2>2. r \in CommandRecords /\ r.step = "verify" /\ r.child = cmd[c].child /\ r.lock = file
    BY ZenonT(30) DEF Inv, Types, CommandRecords
  <2>3. cmd' = [cmd EXCEPT ![c] = r]
    BY <2>1
  <2>. HIDE DEF r
  <2>. QED BY <1>2, <2>2, <2>3, CommandGoesWell DEF Give
<1>. QED BY <1>1, <1>2 DEF Give

LEMMA KillStep ==
  ASSUME Inv, NEW c \in Commands, Kill(c)
  PROVE  Inv'
<1>. DEFINE p == cmd[c].lock.pid
<1>1. cmd[c].lock # None /\ cmd[c] \in CommandRecords
  BY DEF Kill, Does, Inv, Types, Aims
<1>2. p \in Pids /\ proc[p] \in Occupants
  BY <1>1 DEF Inv, Types, CommandRecords, Payloads
<1>3. CASE Goto(c, "release") /\ UNCHANGED <<proc, own, flock>>
  BY <1>3, GotoWell DEF Kill, Does
<1>4. CASE Goto(c, "poll") /\ Signalled(p)
  <2>1. Quiet
    BY <1>1, <1>4 DEF Goto, Quiet, Inv, Types, Aims, CommandRecords
  <2>2. CASE At(p, "serving") /\ Step(p, "stopping") /\ UNCHANGED <<own, flock>>
    <3>1. flock = p
      BY <1>2, <2>2 DEF Inv, LockDiscipline, At
    <3>. QED BY <1>2, <2>1, <2>2, <3>1, MovesWell DEF Kill, At
  <2>3. CASE UNCHANGED <<proc, own, flock>>
    BY <1>4, <2>3, GotoWell DEF Kill, Does
  <2>4. CASE proc[p] # "free" /\ Exit(p)
    BY <1>2, <2>1, <2>4, EndsWell DEF Kill
  <2>. QED BY <1>4, <2>2, <2>3, <2>4 DEF Signalled
<1>. QED BY <1>3, <1>4 DEF Kill

LEMMA StopEndsWell ==
  ASSUME Inv, NEW c \in Commands, StopEnds(c), file' = file \/ file' = None
  PROVE  Inv'
<1>1. CASE ~cmd[c].restart
  BY <1>1, FinishesWell DEF StopEnds
<1>2. CASE cmd[c].restart
  <2>. DEFINE r == [NoCommand EXCEPT !.step = "check"]
  <2>1. r \in CommandRecords /\ r.step = "check" /\ r.child = None
    BY DEF NoCommand, CommandRecords
  <2>2. cmd' = [cmd EXCEPT ![c] = r] /\ flock' = IF flock = c THEN None ELSE flock
    BY <1>2 DEF StopEnds
  <2>. HIDE DEF r
  <2>3. UNCHANGED <<proc, own>>
    BY <1>2 DEF StopEnds
  <2>4. Types'
    BY <2>1, <2>2, <2>3 DEF Inv, Types
  <2>5. LockDiscipline'
    BY <2>1, <2>2, <2>3 DEF Inv, Types, LockDiscipline
  <2>6. Children'
    BY <2>1, <2>2, <2>3 DEF Inv, Types, Children, Exists
  <2>7. Aims'
    BY <2>1, <2>2 DEF Inv, Types, Aims
  <2>8. FileIsOwners'
    BY <2>3 DEF Inv, Types, FileIsOwners, IsOwn
  <2>. QED BY <2>4, <2>5, <2>6, <2>7, <2>8 DEF Inv
<1>. QED BY <1>1, <1>2

LEMMA CommandStep ==
  ASSUME Inv, NEW c \in Commands, Command(c)
  PROVE  Inv'
<1>1. CASE Give(c)
  BY <1>1, GiveStep
<1>2. CASE Interrupted(c) \/ SeesServer(c) \/ Clear(c)
  BY <1>2, FinishesWell DEF Interrupted, SeesServer, Clear
<1>3. CASE Check(c) \/ SeesOwner(c)
  BY <1>3, GotoWell DEF Check, SeesOwner
<1>4. CASE Spawn(c)
  BY <1>4, SpawnStep
<1>5. CASE Verify(c) \/ Poll(c) \/ Relock(c)
  BY <1>5, GotoWell DEF Verify, Poll, Relock, Does
<1>6. CASE Kill(c)
  BY <1>6, KillStep
<1>7. CASE RelockHeld(c) \/ Unlink(c)
  BY <1>7, StopEndsWell DEF RelockHeld, Unlink
<1>8. CASE Compare(c)
  <2>1. flock = c
    BY <1>8 DEF Inv, LockDiscipline, Compare, Does
  <2>. QED BY <1>8, <2>1, GotoWell, StopEndsWell DEF Compare, Does
<1>. QED BY <1>1, <1>2, <1>3, <1>4, <1>5, <1>6, <1>7, <1>8 DEF Command

THEOREM InstanceInvariant == Spec => []Inv
<1>1. Inv /\ [Next]_vars => Inv'
  <2>. SUFFICES ASSUME Inv, [Next]_vars PROVE Inv'
    OBVIOUS
  <2>1. CASE \E p \in Pids : Process(p)
    BY <2>1, ProcessStep
  <2>2. CASE \E c \in Commands : Command(c)
    BY <2>2, CommandStep
  <2>3. CASE UNCHANGED vars
    BY <2>3 DEF vars, Inv, Types, LockDiscipline, Children, Exists, Aims, FileIsOwners, IsOwn
  <2>. QED BY <2>1, <2>2, <2>3 DEF Next
<1>. QED BY <1>1, InitInv, PTL DEF Spec

------------------------------------------------------------------------------
(* The variables stay within their types, and no child that a start waits   *)
(* for loses its pid.                                                       *)
THEOREM InstanceTypes == Spec => []TypeOK
<1>1. Inv => TypeOK
  BY DEF Inv, Types, Children, TypeOK, CommandRecords
<1>. QED BY <1>1, InstanceInvariant, PTL

(* At most one zlt is past acquirePIDFile (pidfile.go:39), and no stop      *)
(* removes a file meanwhile.                                                *)
THEOREM AtMostOneInstance == Spec => []OneInstance
<1>1. Inv => OneInstance
  BY DEF Inv, LockDiscipline, OneInstance
<1>. QED BY <1>1, InstanceInvariant, PTL

(* The file names the instance or is not there.                             *)
THEOREM FileNamesOwner == Spec => []FileIsOwners
<1>1. Inv => FileIsOwners
  BY DEF Inv
<1>. QED BY <1>1, InstanceInvariant, PTL

(* Neither another zlt nor a stop (Release, pidfile.go:140) takes the file  *)
(* of an instance away.                                                     *)
THEOREM FileStays == Spec => NotTakenAway
<1>. DEFINE Goal == \A p \in Pids :
              (proc[p] \in Instance /\ proc'[p] \in Instance /\ IsOwn(p) /\ file' # file)
                => \E c \in Commands : Does(c, "clear") /\ ~Does(c, "clear")'
<1>1. Inv /\ [Next]_vars => [Goal]_vars
  <2>. SUFFICES ASSUME Inv, Next, NEW p \in Pids,
                       proc[p] \in Instance, proc'[p] \in Instance, file' # file
                PROVE  \E c \in Commands : Does(c, "clear") /\ ~Does(c, "clear")'
    BY DEF vars
  <2>1. flock = p
    BY DEF Inv, LockDiscipline
  <2>2. CASE \E q \in Pids : Process(q)
    <3>1. PICK q \in Pids : Write(q) \/ Remove(q)
      BY <2>2 DEF Process, Launch, TakeLock, LockHeld, CheckFile, Boot, BootFails, Serve,
                  Interrupt, Shutdown, Release, Die, Reuse
    <3>2. q = p
      BY <2>1, <3>1 DEF Inv, LockDiscipline, Write, Remove, At
    <3>. QED BY <3>1, <3>2 DEF Inv, Types, Write, Remove, At, Exit, Ended
  <2>3. CASE \E c \in Commands : Command(c)
    <3>1. PICK c \in Commands : Unlink(c) \/ Clear(c)
      BY <2>3 DEF Command, Give, Interrupted, Check, Spawn, SeesOwner, SeesServer, Verify, Kill,
                  Poll, RelockHeld, Relock, Compare
    <3>2. ~Unlink(c)
      BY <2>1 DEF Inv, LockDiscipline, Unlink, Does
    <3>3. Does(c, "clear") /\ ~Does(c, "clear")'
      BY <3>1, <3>2 DEF Clear, Does, Finish, NoCommand, Inv, Types
    <3>. QED BY <3>3
  <2>. QED BY <2>2, <2>3 DEF Next
<1>. QED BY <1>1, InstanceInvariant, PTL DEF Spec, NotTakenAway
------------------------------------------------------------------------------
(* A stop knows the instance it has to end by the token in the file that it *)
(* read.  A token is not given again while anybody remembers it, so a       *)
(* process that has the token of a file is the one the file names, and a    *)
(* stop that has once found that pid free, or another program's, never      *)
(* meets the token again: not when the pid goes to the next zlt either.     *)

Gone == {"release", "compare", "unlink"}

HasToken(p) == proc[p] \in Instance /\ own[p] # None

(* The token of a process goes with the process, or stays with its zombie.  *)
TokenTypes == \A p \in Pids : own[p] # None => proc[p] \in Instance \cup {"zombie"}

TokensApart == \A p, q \in Pids : own[p] = own[q] /\ own[p] # None => p = q

FilesName ==
  \A p \in Pids : \A f \in Known \ {None} : own[p] = f.token /\ own[p] # None => f.pid = p

StoppedIsGone ==
  \A c \in Commands : cmd[c].step \in Gone =>
    \A p \in Pids : HasToken(p) => own[p] # cmd[c].lock.token

Traced == TokenTypes /\ TokensApart /\ FilesName /\ StoppedIsGone

(* A step that gives no new token: processes move on or end, the file stays *)
(* or goes, a command may remember the file, and one that takes its service *)
(* for gone has seen it.                                                    *)
Fades ==
  /\ \A p \in Pids :
       /\ own'[p] \in {own[p], None}
       /\ own'[p] # None => proc'[p] \in Instance \cup {"zombie"}
       /\ HasToken(p)' => HasToken(p)
  /\ file' \in {file, None}
  /\ \A c \in Commands :
       /\ cmd'[c].lock \in {cmd[c].lock, file, None}
       /\ cmd'[c].step \in Gone =>
            /\ cmd'[c].lock = cmd[c].lock
            /\ \/ cmd[c].step \in Gone
               \/ \A p \in Pids : HasToken(p) => own[p] # cmd[c].lock.token

LEMMA FadingKeepsTraced ==
  ASSUME Traced, Fades
  PROVE  Traced'
<1>1. TokenTypes'
  BY DEF Fades, TokenTypes
<1>2. TokensApart'
  BY DEF Fades, Traced, TokensApart
<1>3. FilesName'
  <2>1. \A f \in Known' \ {None} : f \in Known
    BY DEF Fades, Known
  <2>. QED BY <2>1 DEF Fades, Traced, FilesName
<1>4. StoppedIsGone'
  <2>. SUFFICES ASSUME NEW c \in Commands, cmd'[c].step \in Gone,
                       NEW p \in Pids, HasToken(p)'
                PROVE  own'[p] # cmd'[c].lock.token
    BY DEF StoppedIsGone
  <2>1. HasToken(p) /\ own'[p] = own[p] /\ cmd'[c].lock = cmd[c].lock
    BY DEF Fades, HasToken
  <2>. QED BY <2>1 DEF Fades, Traced, StoppedIsGone
<1>. QED BY <1>1, <1>2, <1>3, <1>4 DEF Traced

LEMMA WriteIsTraced ==
  ASSUME Inv, Traced, NEW p \in Pids, Write(p)
  PROVE  Traced'
<1>1. PICK t \in NewTokens : /\ file' = [pid |-> p, zlt |-> TRUE, token |-> t]
                             /\ own' = [own EXCEPT ![p] = t]
  BY DEF Write
<1>2. /\ t \in Tokens
      /\ \A q \in Pids : own[q] # t
      /\ \A f \in Known \ {None} : f.token # t
  BY DEF NewTokens
<1>3. own'[p] = t /\ \A q \in Pids \ {p} : own'[q] = own[q]
  BY <1>1 DEF Inv, Types
<1>4. proc'[p] = "booting" /\ \A q \in Pids \ {p} : proc'[q] = proc[q]
  BY DEF Inv, Types, Write, Step
<1>5. UNCHANGED cmd
  BY DEF Write
<1>6. TokenTypes'
  BY <1>3, <1>4 DEF Traced, TokenTypes
<1>7. TokensApart'
  BY <1>2, <1>3 DEF Traced, TokensApart
<1>8. FilesName'
  <2>1. \A f \in Known' \ {None} : f \in Known \/ f = file'
    BY <1>5 DEF Known
  <2>2. file'.pid = p /\ file'.token = t
    BY <1>1
  <2>. QED BY <1>2, <1>3, <2>1, <2>2 DEF Traced, FilesName
<1>9. StoppedIsGone'
  <2>. SUFFICES ASSUME NEW c \in Commands, cmd[c].step \in Gone,
                       NEW q \in Pids, HasToken(q)'
                PROVE  own'[q] # cmd[c].lock.token
    BY <1>5 DEF StoppedIsGone
  <2>1. CASE q = p
    <3>1. cmd[c].lock \in Known \ {None}
      BY DEF Inv, Aims, Known, Gone
    <3>. QED BY <1>2, <1>3, <2>1, <3>1
  <2>2. CASE q # p
    BY <1>3, <1>4, <2>2 DEF Traced, StoppedIsGone, HasToken
  <2>. QED BY <2>1, <2>2
<1>. QED BY <1>6, <1>7, <1>8, <1>9 DEF Traced

(* A process that does not write gives no token to anybody.                 *)
LEMMA ProcessIsTraced ==
  ASSUME Inv, Traced, NEW p \in Pids, Process(p)
  PROVE  Traced'
<1>1. CASE Write(p)
  BY <1>1, WriteIsTraced
<1>2. CASE ~Write(p)
  <2>1. /\ UNCHANGED cmd
        /\ file' \in {file, None}
        /\ \/ /\ UNCHANGED own
              /\ \E s \in Occupants : Step(p, s) /\ (s \in Instance => proc[p] \in Instance)
              /\ proc[p] \notin {"zombie"}
              /\ proc[p] \in Instance => proc'[p] \in Instance
           \/ Exit(p)
    BY <1>2 DEF Process, Launch, TakeLock, LockHeld, CheckFile, Boot, BootFails, Serve,
                Interrupt, Shutdown, Release, Remove, Die, Reuse, At, Step, Inv, Types
  <2>2. \A q \in Pids \ {p} : own'[q] = own[q] /\ proc'[q] = proc[q]
    BY <2>1 DEF Inv, Types, Exit, Step
  <2>3. /\ own'[p] \in {own[p], None}
        /\ own'[p] # None => proc'[p] \in Instance \cup {"zombie"}
        /\ HasToken(p)' => HasToken(p)
    BY <2>1 DEF Inv, Types, Exit, Ended, Step, HasToken, Traced, TokenTypes
  <2>4. Fades
    BY <2>1, <2>2, <2>3 DEF Fades, Traced, TokenTypes, HasToken, Gone
  <2>. QED BY <2>4, FadingKeepsTraced
<1>. QED BY <1>1, <1>2

(* No process changes but those that end, and of those the token goes.      *)
Calm ==
  \A p \in Pids :
    \/ own'[p] = own[p] /\ proc'[p] = proc[p]
    \/ own'[p] = own[p] /\ proc[p] \in Instance /\ proc'[p] \in Instance \cup {"zombie"}
    \/ own'[p] = None

LEMMA CalmFades ==
  ASSUME Inv, Traced, NEW c \in Commands, Calm, file' \in {file, None},
         \A d \in Commands \ {c} : cmd'[d] = cmd[d],
         cmd'[c].lock \in {cmd[c].lock, file, None},
         cmd'[c].step \in Gone =>
            /\ cmd'[c].lock = cmd[c].lock
            /\ \/ cmd[c].step \in Gone
               \/ \A p \in Pids : HasToken(p) => own[p] # cmd[c].lock.token
  PROVE  Traced'
<1>1. \A p \in Pids :
        /\ own'[p] \in {own[p], None}
        /\ own'[p] # None => proc'[p] \in Instance \cup {"zombie"}
        /\ HasToken(p)' => HasToken(p)
  BY DEF Calm, HasToken, Traced, TokenTypes
<1>2. Fades
  BY <1>1 DEF Fades
<1>. QED BY <1>2, FadingKeepsTraced

(* A pid that is free or another program's has no token, and then nobody    *)
(* has the one of the file that names it.                                   *)
LEMMA SeenGone ==
  ASSUME Inv, Traced, NEW c \in Commands, cmd[c].step \in StopSteps,
         DetachedDiffers(cmd[c].lock) \/ At(cmd[c].lock.pid, "free")
  PROVE  \A p \in Pids : HasToken(p) => own[p] # cmd[c].lock.token
<1>. SUFFICES ASSUME NEW p \in Pids, HasToken(p), own[p] = cmd[c].lock.token
              PROVE  FALSE
  OBVIOUS
<1>1. cmd[c].lock \in Known \ {None}
  BY DEF Inv, Aims, Known
<1>2. cmd[c].lock.pid = p
  BY <1>1 DEF Traced, FilesName, HasToken
<1>. QED BY <1>2 DEF HasToken, DetachedDiffers, Image, At

LEMMA FinishIsTraced ==
  ASSUME Inv, Traced, NEW c \in Commands, NEW result \in Ends, Finish(c, result),
         file' \in {file, None}
  PROVE  Traced'
<1>1. Calm
  BY DEF Finish, Calm
<1>2. cmd'[c].lock = None /\ cmd'[c].step = result
  BY DEF Finish, NoCommand, Inv, Types
<1>3. \A d \in Commands \ {c} : cmd'[d] = cmd[d]
  BY DEF Finish, Inv, Types
<1>. QED BY <1>1, <1>2, <1>3, CalmFades DEF Gone

LEMMA StopEndsTraced ==
  ASSUME Inv, Traced, NEW c \in Commands, StopEnds(c), file' \in {file, None}
  PROVE  Traced'
<1>1. CASE ~cmd[c].restart
  BY <1>1, FinishIsTraced DEF StopEnds
<1>2. CASE cmd[c].restart
  <2>1. Calm
    BY <1>2 DEF StopEnds, Calm
  <2>2. cmd'[c].lock = None /\ cmd'[c].step = "check"
    BY <1>2 DEF StopEnds, NoCommand, Inv, Types
  <2>3. \A d \in Commands \ {c} : cmd'[d] = cmd[d]
    BY <1>2 DEF StopEnds, Inv, Types
  <2>. QED BY <2>1, <2>2, <2>3, CalmFades DEF Gone
<1>. QED BY <1>1, <1>2

LEMMA GotoIsTraced ==
  ASSUME Inv, Traced, NEW c \in Commands, NEW s \in Steps, Goto(c, s), Calm, UNCHANGED file,
         s \in Gone => \/ cmd[c].step \in Gone
                       \/ \A p \in Pids : HasToken(p) => own[p] # cmd[c].lock.token
  PROVE  Traced'
<1>1. cmd'[c].lock = cmd[c].lock /\ cmd'[c].step = s
  BY DEF Goto, Inv, Types, CommandRecords
<1>2. \A d \in Commands \ {c} : cmd'[d] = cmd[d]
  BY DEF Goto, Inv, Types
<1>. QED BY <1>1, <1>2, CalmFades

LEMMA GiveIsTraced ==
  ASSUME Inv, Traced, NEW c \in Commands, Give(c)
  PROVE  Traced'
<1>1. Calm
  BY DEF Give, Calm
<1>2. /\ cmd'[c].lock \in {cmd[c].lock, file}
      /\ cmd'[c].step \in {"check", "verify", "clear"}
      /\ \A d \in Commands \ {c} : cmd'[d] = cmd[d]
  BY DEF Give, Goto, Inv, Types, CommandRecords
<1>. QED BY <1>1, <1>2, CalmFades DEF Give, Gone

LEMMA SpawnIsTraced ==
  ASSUME Inv, Traced, NEW c \in Commands, Spawn(c)
  PROVE  Traced'
<1>1. PICK p \in Pids :
        /\ At(p, "free") /\ Step(p, "launched")
        /\ cmd' = [cmd EXCEPT ![c].step = "phase1", ![c].child = p]
  BY DEF Spawn
<1>2. own[p] = None
  BY <1>1 DEF Traced, TokenTypes, At
<1>3. Calm
  BY <1>1, <1>2 DEF Spawn, Calm, Step, Inv, Types
<1>4. /\ cmd'[c].lock = cmd[c].lock /\ cmd'[c].step = "phase1"
      /\ \A d \in Commands \ {c} : cmd'[d] = cmd[d]
  BY <1>1 DEF Inv, Types, CommandRecords
<1>. QED BY <1>3, <1>4, CalmFades DEF Spawn, Gone

LEMMA KillIsTraced ==
  ASSUME Inv, Traced, NEW c \in Commands, Kill(c)
  PROVE  Traced'
<1>. DEFINE p == cmd[c].lock.pid
<1>1. cmd[c].step = "kill"
  BY DEF Kill, Does
<1>2. CASE At(p, "free") /\ Goto(c, "release") /\ UNCHANGED <<proc, own, flock>>
  <2>1. Calm
    BY <1>2 DEF Calm
  <2>2. \A q \in Pids : HasToken(q) => own[q] # cmd[c].lock.token
    BY <1>1, <1>2, SeenGone
  <2>. QED BY <1>2, <2>1, <2>2, GotoIsTraced DEF Kill
<1>3. CASE Signalled(p) /\ Goto(c, "poll")
  <2>1. Calm
    BY <1>3 DEF Signalled, Exit, Ended, At, Step, Calm, Inv, Types, Traced, TokenTypes
  <2>. QED BY <1>3, <2>1, GotoIsTraced DEF Kill, Gone
<1>. QED BY <1>2, <1>3 DEF Kill

LEMMA CommandIsTraced ==
  ASSUME Inv, Traced, NEW c \in Commands, Command(c)
  PROVE  Traced'
<1>0. UNCHANGED <<proc, own>> => Calm
  BY DEF Calm
<1>1. CASE Give(c)
  BY <1>1, GiveIsTraced
<1>2. CASE Interrupted(c) \/ SeesServer(c) \/ Clear(c)
  BY <1>2, FinishIsTraced DEF Interrupted, SeesServer, Clear
<1>3. CASE Check(c) \/ SeesOwner(c)
  BY <1>0, <1>3, GotoIsTraced DEF Check, SeesOwner, Gone
<1>4. CASE Spawn(c)
  BY <1>4, SpawnIsTraced
<1>5. CASE Verify(c) \/ Poll(c)
  BY <1>0, <1>5, GotoIsTraced, SeenGone DEF Verify, Poll, Does, Gone
<1>6. CASE Kill(c)
  BY <1>6, KillIsTraced
<1>7. CASE Relock(c)
  BY <1>0, <1>7, GotoIsTraced DEF Relock, Does, Gone
<1>8. CASE RelockHeld(c) \/ Unlink(c)
  BY <1>8, StopEndsTraced DEF RelockHeld, Unlink
<1>9. CASE Compare(c)
  BY <1>0, <1>9, GotoIsTraced, StopEndsTraced DEF Compare, Does, Gone
<1>. QED BY <1>1, <1>2, <1>3, <1>4, <1>5, <1>6, <1>7, <1>8, <1>9 DEF Command

LEMMA TracedInvariant == Spec => [](Inv /\ Traced)
<1>1. Init => Traced
  <2>. SUFFICES ASSUME Init PROVE Traced
    OBVIOUS
  <2>1. \A c \in Commands : cmd[c].step = "new"
    BY DEF Init, NoCommand
  <2>2. \A p \in Pids : own[p] = None
    BY DEF Init
  <2>. QED BY <2>1, <2>2 DEF Traced, TokenTypes, TokensApart, FilesName, StoppedIsGone, Gone,
                             HasToken
<1>2. Inv /\ Traced /\ [Next]_vars => Traced'
  <2>. SUFFICES ASSUME Inv, Traced, [Next]_vars PROVE Traced'
    OBVIOUS
  <2>1. CASE \E p \in Pids : Process(p)
    BY <2>1, ProcessIsTraced
  <2>2. CASE \E c \in Commands : Command(c)
    BY <2>2, CommandIsTraced
  <2>3. CASE UNCHANGED vars
    BY <2>3 DEF vars, Traced, TokenTypes, TokensApart, FilesName, StoppedIsGone, HasToken, Known
  <2>. QED BY <2>1, <2>2, <2>3 DEF Next
<1>. QED BY <1>1, <1>2, InstanceInvariant, PTL DEF Spec

(* A stop reports success, and a restart starts the next zlt, only once the *)
(* instance whose file it read is no more (stopDetached, daemon_unix.go),   *)
(* whoever has its pid by then.                                             *)
THEOREM StopsAreComplete == Spec => StopDone
<1>. DEFINE Goal == \A c \in Commands :
              (cmd[c].step \in StopSteps /\ cmd'[c].step \in {"ok", "check"}
                /\ cmd[c].lock.token # None)
                => \A p \in Pids : proc[p] \in Instance => own[p] # cmd[c].lock.token
<1>1. Inv /\ Traced /\ [Next]_vars => [Goal]_vars
  <2>. SUFFICES ASSUME Inv, Traced, Next, NEW c \in Commands,
                       cmd[c].step \in StopSteps, cmd'[c].step \in {"ok", "check"},
                       cmd[c].lock.token # None,
                       NEW p \in Pids, proc[p] \in Instance, own[p] = cmd[c].lock.token
                PROVE  FALSE
    BY DEF vars
  <2>1. PICK d \in Commands : Command(d)
    BY DEF Next, Process, Launch, TakeLock, LockHeld, CheckFile, Write, Boot, BootFails, Serve,
           Interrupt, Shutdown, Release, Remove, Die, Reuse
  <2>2. d = c
    BY <2>1 DEF Command, Give, Interrupted, Check, Spawn, SeesOwner, SeesServer, Verify, Kill,
                Poll, RelockHeld, Relock, Compare, Unlink, Clear, Goto, Finish, StopEnds,
                Inv, Types
  <2>3. cmd[c].step \in Gone
    BY <2>1, <2>2 DEF Command, Give, Interrupted, Check, Spawn, SeesOwner, SeesServer, Verify,
                Kill, Poll, RelockHeld, Relock, Compare, Unlink, Clear, Goto, Does, Finish,
                NoCommand, Gone, Inv, Types, CommandRecords
  <2>. QED BY <2>3 DEF Traced, StoppedIsGone, HasToken
<1>. QED BY <1>1, TracedInvariant, PTL DEF Spec, StopDone
==============================================================================
