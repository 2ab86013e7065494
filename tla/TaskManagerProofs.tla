-------------------------- MODULE TaskManagerProofs --------------------------
(***************************************************************************)
(* Theorems about TaskManager, for every set of tasks, pids, callers and   *)
(* goroutine identities and every configuration, with or without processes *)
(* to adopt: the types, and whose process is whose.  No launched process   *)
(* is lost, no command line has two, and a health stop hits the run that   *)
(* its monitor watched.                                                    *)
(***************************************************************************)
EXTENDS TaskManager, TLAPS

TableType  == proc \in [Tasks -> ProcType]
ThreadsType == thread \in [Threads -> ThreadType]
TimersType == timer \in [Timers -> Tasks \cup {NoTask}]
OsTypeOK   == os \in [Pids -> OsType]

------------------------------------------------------------------------------
(* Types of the constant records and of the sections the handlers share.   *)

(* A new task record, the absent one and an idle thread have their types.   *)
LEMMA ConstantTypes ==
  /\ Idle \in ThreadType
  /\ NoProcess \in OsType
  /\ Absent \in ProcType
  /\ \A c \in ConfigType : NewProc(c) \in ProcType
<1> USE IdentityAssumption
<1>1. Idle \in ThreadType
  BY DEF Idle, ThreadType
<1>2. NoProcess \in OsType
  BY DEF NoProcess, OsType
<1>3. \A c \in ConfigType : NewProc(c) \in ProcType
  BY DEF NewProc, ProcType, Terminal
<1>4. Absent \in ProcType
  BY <1>3 DEF Absent, NoConfig, ConfigType
<1> QED BY <1>1, <1>2, <1>3, <1>4

(* Starting a monitor leaves a well-typed table and well-typed threads.     *)
LEMMA StartMonitorType ==
  ASSUME TypeOK, NEW t \in Tasks, NEW q \in ProcType, StartMonitor(t, q)
  PROVE  TableType' /\ ThreadsType'
<1>1. CASE q.cfg.health
  <2>1. PICK h \in FreeChans :
           /\ SetProc(t, [q EXCEPT !.health = h, !.failures = 0])
           /\ thread' = [thread EXCEPT ![h] = Watching(t, q.pid)]
    BY <1>1 DEF StartMonitor
  <2>2. [q EXCEPT !.health = h, !.failures = 0] \in ProcType
    BY DEF ProcType, FreeChans
  <2>3. Watching(t, q.pid) \in ThreadType
    BY ConstantTypes DEF Watching, Idle, ThreadType, ProcType
  <2> QED BY <2>1, <2>2, <2>3 DEF TypeOK, SetProc, TableType, ThreadsType
<1>2. CASE ~q.cfg.health
  <2>1. MonitorStopped(q) \in ProcType
    BY DEF MonitorStopped, ProcType
  <2> QED BY <1>2, <2>1 DEF StartMonitor, TypeOK, SetProc, TableType, ThreadsType
<1> QED BY <1>1, <1>2

(* Scheduling a restart leaves a well-typed table and well-typed timers.    *)
LEMMA PrepareRestartType ==
  ASSUME TypeOK, NEW t \in Tasks, NEW q \in ProcType, PrepareRestart(t, q)
  PROVE  TableType' /\ TimersType'
<1>0. q.count + 1 \in Nat
  BY DEF ProcType
<1> DEFINE n == q.count + 1
<1> HIDE DEF n
<1>a. n \in Nat
  BY <1>0 DEF n
<1>1. CASE q.cfg.restart /\ WithinBudget(q)
  <2>1. PICK r \in FreeTimers :
           /\ SetProc(t, [q EXCEPT !.count = @ + 1, !.restart = r])
           /\ timer' = [timer EXCEPT ![r] = t]
    BY <1>1 DEF PrepareRestart
  <2>2. [q EXCEPT !.count = n, !.restart = r] \in ProcType
    BY <1>a DEF ProcType, FreeTimers
  <2>3. [q EXCEPT !.count = @ + 1, !.restart = r] \in ProcType
    BY <2>2 DEF n
  <2> QED BY <2>3, <2>1, <2>2 DEF TypeOK, SetProc, TableType, TimersType
<1>2. CASE ~(q.cfg.restart /\ WithinBudget(q))
  <2>1. [q EXCEPT !.count = n, !.restart = NoTimer] \in ProcType
    BY <1>a DEF ProcType
  <2>2. [q EXCEPT !.count = @ + 1, !.restart = NoTimer] \in ProcType
    BY <2>1 DEF n
  <2> QED BY <1>2, <2>2 DEF PrepareRestart, TypeOK, SetProc, TableType, TimersType
<1> QED BY <1>1, <1>2

(* The same for the end of a stop.                                          *)
LEMMA FinalizeStopType ==
  ASSUME TypeOK, NEW t \in Tasks, NEW q \in ProcType, FinalizeStop(t, q)
  PROVE  TableType' /\ TimersType'
<1> DEFINE q0 == [q EXCEPT !.reason = "none", !.failures = 0]
<1>1. /\ [q0 EXCEPT !.status = "failed"] \in ProcType
      /\ [q0 EXCEPT !.status = "stopped", !.count = 0] \in ProcType
  BY DEF ProcType, Terminal
<1>2. CASE q.reason = "health"
  <2>1. PrepareRestart(t, [q0 EXCEPT !.status = "failed"])
    BY <1>2 DEF FinalizeStop
  <2> QED BY <1>1, <2>1, PrepareRestartType
<1>3. CASE q.reason # "health"
  BY <1>1, <1>3 DEF FinalizeStop, TypeOK, SetProc, TableType, TimersType
<1> QED BY <1>2, <1>3

(* What a launch does to the processes of the machine.                      *)
Launched(t, k) == os' = WithChild(k, t, Matches(t))

(* What the lookup saw is forgotten: what it answered is what counts.       *)
LEMMA LaunchCases ==
  ASSUME NEW t, NEW q0, Launch(t, q0)
  PROVE  LET q == [q0 EXCEPT !.reason = "none"]
         IN \/ \E p \in Matches(t) :
                 /\ StartMonitor(t, [q EXCEPT !.status = "running", !.pid = p])
                 /\ UNCHANGED os
            \/ \E k \in FreePids :
                 /\ Launched(t, k)
                 /\ StartMonitor(t, [q EXCEPT !.status = "running", !.pid = k, !.cmd = k])
            \/ /\ SetProc(t, [q EXCEPT !.status = "failed"])
               /\ UNCHANGED <<os, thread>>
<1> Matches(t) \ {} = Matches(t)
  OBVIOUS
<1> QED BY Zenon DEF Launch, Launched

LEMMA LaunchedEffect ==
  ASSUME TypeOK, NEW t \in Tasks, NEW k \in Pids, Launched(t, k)
  PROVE  /\ os' \in [Pids -> OsType]
         /\ /\ os'[k].st = "running" /\ os'[k].owner = t
            /\ os'[k].prog = Program[t] /\ ~os'[k].missed
         /\ \A p \in Pids : p # k =>
              /\ os'[p].st = os[p].st /\ os'[p].owner = os[p].owner
              /\ os'[p].prog = os[p].prog
              /\ os'[p].missed = (os[p].missed \/ p \in Matches(t))
<1> DEFINE new == [st |-> "running", owner |-> t, prog |-> Program[t], missed |-> FALSE]
           old(p) == [os[p] EXCEPT !.missed = TRUE]
<1>1. new \in OsType /\ new.st = "running" /\ new.owner = t
      /\ new.prog = Program[t] /\ ~new.missed
  BY DEF OsType, Programs
<1>2. ASSUME NEW p \in Pids
      PROVE  /\ os[p] \in OsType /\ old(p) \in OsType
             /\ old(p).st = os[p].st /\ old(p).owner = os[p].owner
             /\ old(p).prog = os[p].prog /\ old(p).missed
  BY DEF TypeOK, OsType
<1>3. os' = [p \in Pids |-> IF p = k THEN new
                            ELSE IF p \in Matches(t) THEN old(p) ELSE os[p]]
  BY DEF Launched, WithChild
<1>4. \A p \in Pids : os[p].missed \in BOOLEAN
  BY <1>2 DEF OsType
<1> HIDE DEF new, old
<1>5. os' \in [Pids -> OsType]
  BY <1>1, <1>2, <1>3
<1>6. os'[k] = new
  BY <1>3
<1>7. ASSUME NEW p \in Pids, p # k
      PROVE  os'[p] = IF p \in Matches(t) THEN old(p) ELSE os[p]
  BY <1>3, <1>7
<1>8. ASSUME NEW p \in Pids, p # k
      PROVE  /\ os'[p].st = os[p].st /\ os'[p].owner = os[p].owner
             /\ os'[p].prog = os[p].prog
             /\ os'[p].missed = (os[p].missed \/ p \in Matches(t))
  <2>1. CASE p \in Matches(t)
    BY <1>2, <1>7, <1>8, <2>1, Zenon
  <2>2. CASE p \notin Matches(t)
    BY <1>4, <1>7, <1>8, <2>2, Zenon
  <2> QED BY <2>1, <2>2
<1> QED BY <1>1, <1>5, <1>6, <1>8

(* A launch, an adoption or a failed launch keeps every table well typed.   *)
LEMMA LaunchType ==
  ASSUME TypeOK, NEW t \in Tasks, NEW q0 \in ProcType, Launch(t, q0)
  PROVE  TableType' /\ ThreadsType' /\ OsTypeOK'
<1> DEFINE q == [q0 EXCEPT !.reason = "none"]
<1>1. /\ [q EXCEPT !.status = "failed"] \in ProcType
      /\ \A p \in Pids : /\ [q EXCEPT !.status = "running", !.pid = p] \in ProcType
                         /\ [q EXCEPT !.status = "running", !.pid = p, !.cmd = p] \in ProcType
  BY DEF ProcType, Terminal
<1>2. ASSUME NEW p \in Matches(t),
             StartMonitor(t, [q EXCEPT !.status = "running", !.pid = p]), UNCHANGED os
      PROVE  TableType' /\ ThreadsType' /\ OsTypeOK'
  <2>1. [q EXCEPT !.status = "running", !.pid = p] \in ProcType
    BY <1>1 DEF Matches
  <2> QED BY <1>2, <2>1, StartMonitorType DEF TypeOK, OsTypeOK
<1>3. ASSUME NEW p \in FreePids, Launched(t, p),
             StartMonitor(t, [q EXCEPT !.status = "running", !.pid = p, !.cmd = p])
      PROVE  TableType' /\ ThreadsType' /\ OsTypeOK'
  <2>1. [q EXCEPT !.status = "running", !.pid = p, !.cmd = p] \in ProcType
    BY <1>1 DEF FreePids
  <2>2. OsTypeOK'
    BY <1>3, LaunchedEffect DEF FreePids, OsTypeOK
  <2> QED BY <1>3, <2>1, <2>2, StartMonitorType
<1>4. ASSUME SetProc(t, [q EXCEPT !.status = "failed"]), UNCHANGED <<os, thread>>
      PROVE  TableType' /\ ThreadsType' /\ OsTypeOK'
  BY <1>1, <1>4 DEF TypeOK, SetProc, TableType, ThreadsType, OsTypeOK
<1> QED BY <1>2, <1>3, <1>4, LaunchCases

(* So does the beginning of a stop.                                         *)
LEMMA BeginStopType ==
  ASSUME TypeOK, NEW t \in Tasks, NEW x \in Threads, NEW q \in ProcType,
         NEW why \in {"user", "health"}, BeginStop(x, t, q, why)
  PROVE  TableType' /\ ThreadsType'
<1>1. [MonitorStopped(q) EXCEPT !.status = "stopping", !.reason = why] \in ProcType
  BY DEF MonitorStopped, ProcType
<1>2. TableType'
  BY <1>1 DEF BeginStop, SetProc, TypeOK, TableType
<1>3. ThreadsType'
  <2>1. q.pid \in Pids \cup {NoPid} /\ q.cmd \in Pids \cup {NoPid}
    BY DEF ProcType
  <2> DEFINE pc == IF q.cmd = NoPid THEN "kill" ELSE "term"
             pid == IF q.cmd = NoPid THEN q.pid ELSE q.cmd
             th == [thread[x] EXCEPT !.pc = pc, !.task = t, !.pid = pid, !.done = FALSE]
  <2>2. pc \in {"kill", "term"} /\ pid \in Pids \cup {NoPid} /\ thread[x] \in ThreadType
    BY <2>1 DEF TypeOK
  <2>3. thread' = [thread EXCEPT ![x] = th]
    BY DEF BeginStop
  <2> HIDE DEF pc, pid
  <2>4. th \in ThreadType
    BY <2>2 DEF ThreadType
  <2> QED BY <2>3, <2>4 DEF TypeOK, ThreadsType
<1> QED BY <1>2, <1>3

(* Killing a process and forgetting an ended thread keep the types.         *)
LEMMA KilledType ==
  ASSUME TypeOK, NEW p PROVE Killed(p) \in [Pids -> OsType]
<1>1. CASE p \in Pids
  <2>1. os[p] \in OsType /\ [os[p] EXCEPT !.st = "crashed"] \in OsType
    BY <1>1 DEF TypeOK, OsType
  <2> QED BY <1>1, <2>1, ConstantTypes DEF Killed, TypeOK
<1>2. CASE p \notin Pids
  BY <1>2 DEF Killed, TypeOK
<1> QED BY <1>1, <1>2

LEMMA ThreadEndsType ==
  ASSUME TypeOK, NEW x \in Threads, ThreadEnds(x) PROVE ThreadsType'
BY ConstantTypes DEF ThreadEnds, TypeOK, ThreadsType

------------------------------------------------------------------------------
(* An import installs a well-typed table and well-typed monitors.           *)
LEMMA InstalledType ==
  ASSUME NEW M \in SUBSET Tasks, NEW C \in SUBSET Chans,
         NEW c \in [M -> Configs], NEW a \in Adoptions(M), NEW h \in Channels(M, C),
         NEW th \in [Threads -> ThreadType],
         \A t \in M : h[t] # NoChan <=> NeedsChannel(c, a, t)
  PROVE  /\ InstalledProcs(M, c, a, h) \in [Tasks -> ProcType]
         /\ InstalledThreads(M, c, a, h, th) \in [Threads -> ThreadType]
<1>1. ASSUME NEW t \in M
      PROVE  /\ c[t] \in ConfigType
             /\ a[t] \in Pids \cup {NoPid}
             /\ h[t] \in Chans \cup {NoChan}
  BY ConfigAssumption DEF Adoptions, Channels
<1>2. ASSUME NEW t \in M PROVE Installed(c[t], a[t], h[t]) \in ProcType
  <2>1. NewProc(c[t]) \in ProcType
    BY <1>1, ConstantTypes
  <2>2. (IF a[t] # NoPid /\ c[t].health THEN h[t] ELSE NoChan) \in Chans \cup {NoChan}
    BY <1>1
  <2> QED BY <1>1, <2>1, <2>2, ZenonT(30) DEF Installed, ProcType, Terminal
<1>3. InstalledProcs(M, c, a, h) \in [Tasks -> ProcType]
  BY <1>2, ConstantTypes DEF InstalledProcs
<1>4. ASSUME NEW t \in M PROVE Watching(t, a[t]) \in ThreadType
  BY <1>1, ConstantTypes DEF Watching, Idle, ThreadType
<1>5. ASSUME NEW x \in Threads, \E t \in M : h[t] = x
      PROVE  (CHOOSE t \in M : h[t] = x) \in M
  BY <1>5
<1>6. InstalledThreads(M, c, a, h, th) \in [Threads -> ThreadType]
  BY <1>4, <1>5 DEF InstalledThreads
<1> QED BY <1>3, <1>6

(* The initial states are well typed.                                       *)
LEMMA InitType == Init => TypeOK
<1> SUFFICES ASSUME Init PROVE TypeOK
  OBVIOUS
<1>1. os \in [Pids -> OsType]
  BY ConstantTypes DEF Init, ExternalStates, OsType
<1>2. PICK c \in [managed -> Configs], a \in Adoptions(managed), h \in Channels(managed, Chans) :
        /\ \A t \in managed : h[t] # NoChan <=> NeedsChannel(c, a, t)
        /\ proc = InstalledProcs(managed, c, a, h)
        /\ thread = InstalledThreads(managed, c, a, h, [x \in Threads |-> Idle])
  BY DEF Init
<1>3. [x \in Threads |-> Idle] \in [Threads -> ThreadType]
  BY ConstantTypes
<1>4. managed \in SUBSET Tasks
  BY DEF Init
<1>5. proc \in [Tasks -> ProcType] /\ thread \in [Threads -> ThreadType]
  BY <1>2, <1>3, <1>4, InstalledType
<1> QED BY <1>1, <1>4, <1>5 DEF Init, TypeOK

------------------------------------------------------------------------------
(* Every step keeps the types: one lemma per group of actions.             *)
LEMMA ConfigureType == ASSUME TypeOK, Configure PROVE TypeOK'
<1>1. ASSUME NEW M \in SUBSET Tasks, ReplaceTasks(M) PROVE TypeOK'
  <2>1. PICK c \in [M -> Configs], a \in Adoptions(M), h \in Channels(M, FreeChans) :
          /\ \A t \in M : h[t] # NoChan <=> NeedsChannel(c, a, t)
          /\ proc' = InstalledProcs(M, c, a, h)
          /\ thread' = InstalledThreads(M, c, a, h, thread)
    BY <1>1 DEF ReplaceTasks
  <2>2. FreeChans \in SUBSET Chans
    BY DEF FreeChans
  <2>3. proc' \in [Tasks -> ProcType] /\ thread' \in [Threads -> ThreadType]
    BY <2>1, <2>2, InstalledType DEF TypeOK
  <2> QED BY <1>1, <2>3 DEF ReplaceTasks, TypeOK
<1>2. ASSUME NEW t \in Tasks, NEW c \in Configs, EditTask(t, c) PROVE TypeOK'
  <2>1. c \in ConfigType
    BY ConfigAssumption
  <2>2. NewProc(c) \in ProcType
    BY <2>1, ConstantTypes
  <2>3. proc[t] \in ProcType
    BY DEF TypeOK
  <2>4. [proc[t] EXCEPT !.cfg = c, !.restart = NoTimer, !.count = 0] \in ProcType
    BY <2>1, <2>3 DEF ProcType
  <2> QED BY <1>2, <2>2, <2>4 DEF EditTask, SetProc, TypeOK
<1>3. ASSUME NEW t \in Tasks, NEW b \in BOOLEAN, SetRestartOnCrash(t, b) PROVE TypeOK'
  <2>1. proc[t] \in ProcType
    BY DEF TypeOK
  <2>2. [proc[t].cfg EXCEPT !.restart = b] \in ConfigType
    BY <2>1 DEF ProcType, ConfigType
  <2>3. (IF b THEN proc[t].restart ELSE NoTimer) \in Timers \cup {NoTimer}
    BY <2>1 DEF ProcType
  <2>4. [proc[t] EXCEPT !.cfg.restart = b,
                        !.restart = IF b THEN @ ELSE NoTimer] \in ProcType
    BY <2>1, <2>2, <2>3 DEF ProcType
  <2> QED BY <1>3, <2>4 DEF SetRestartOnCrash, SetProc, TypeOK
<1>4. ASSUME NEW t \in Tasks, RemoveTask(t) PROVE TypeOK'
  BY <1>4, ConstantTypes DEF RemoveTask, SetProc, TypeOK
<1> QED BY <1>1, <1>2, <1>3, <1>4 DEF Configure

LEMMA CommandType == ASSUME TypeOK, Command PROVE TypeOK'
<1>1. ASSUME NEW t \in Tasks PROVE Fresh(t) \in ProcType
  BY ZenonT(30) DEF Fresh, TypeOK, ProcType
<1>2. ASSUME NEW t \in Tasks, StartRefused(t) PROVE TypeOK'
  BY <1>1, <1>2 DEF StartRefused, SetProc, TypeOK
<1>3. ASSUME NEW t \in Tasks, Start(t) PROVE TypeOK'
  <2>1. Launch(t, Fresh(t))
    BY <1>3 DEF Start
  <2>2. TableType' /\ ThreadsType' /\ OsTypeOK'
    BY <1>1, <2>1, LaunchType
  <2> QED BY <1>3, <2>2 DEF Start, TypeOK, TableType, ThreadsType, OsTypeOK
<1>4. ASSUME NEW x \in Callers, NEW t \in Tasks, StopCall(x, t) PROVE TypeOK'
  <2> DEFINE q == [proc[t] EXCEPT !.restart = NoTimer, !.reason = "user"]
  <2>1. q \in ProcType
    BY ZenonT(30) DEF TypeOK, ProcType
  <2>2. CASE q.status \in Terminal
    BY <1>4, <2>1, <2>2 DEF StopCall, SetProc, TypeOK
  <2>3. CASE q.status \notin Terminal
    <3>1. BeginStop(x, t, q, "user")
      BY <1>4, <2>3 DEF StopCall
    <3>2. x \in Threads
      BY DEF Threads
    <3>3. TableType' /\ ThreadsType'
      BY <2>1, <3>1, <3>2, BeginStopType
    <3> QED BY <1>4, <3>3 DEF StopCall, TypeOK, TableType, ThreadsType
  <2> QED BY <2>2, <2>3
<1> QED BY <1>2, <1>3, <1>4 DEF Command

LEMMA StopStepType == ASSUME TypeOK, NEW x \in Threads, StopStep(x) PROVE TypeOK'
<1>1. ASSUME KillAdopted(x) PROVE TypeOK'
  <2>1. CASE thread' = [thread EXCEPT ![x].pc = "finalize"] /\ os' = Killed(thread[x].pid) /\ UNCHANGED asked
    <3>1. [thread[x] EXCEPT !.pc = "finalize"] \in ThreadType
      BY DEF TypeOK, ThreadType
    <3> QED BY <1>1, <2>1, <3>1, KilledType DEF KillAdopted, TypeOK
  <2>2. CASE StopFails(x) /\ UNCHANGED os
    BY <1>1, <2>2, ThreadEndsType DEF KillAdopted, StopFails, TypeOK, ThreadsType
  <2> QED BY <1>1, <2>1, <2>2 DEF KillAdopted
<1>2. ASSUME FinalizeAdopted(x) PROVE TypeOK'
  <2> DEFINE t == thread[x].task
             q == [proc[t] EXCEPT !.pid = NoPid]
  <2>1. ThreadsType'
    BY <1>2, ThreadEndsType DEF FinalizeAdopted
  <2>2. CASE Live(t)
    <3>1. t \in Tasks
      BY <2>2 DEF Live, TypeOK
    <3>2. q \in ProcType
      BY <3>1 DEF TypeOK, ProcType
    <3>3. TableType' /\ TimersType'
      BY <1>2, <2>2, <3>1, <3>2, FinalizeStopType DEF FinalizeAdopted
    <3> QED BY <1>2, <2>1, <3>3 DEF FinalizeAdopted, TypeOK, TableType, ThreadsType, TimersType
  <2>3. CASE ~Live(t)
    BY <1>2, <2>1, <2>3 DEF FinalizeAdopted, TypeOK, ThreadsType
  <2> QED BY <2>2, <2>3
<1>3. ASSUME StopReturns(x) PROVE TypeOK'
  BY <1>3, ThreadEndsType DEF StopReturns, TypeOK, ThreadsType
<1>4. ASSUME ForceStop(x) PROVE TypeOK'
  <2>1. CASE thread' = [thread EXCEPT ![x].pc = "forced"] /\ os' = Killed(thread[x].pid) /\ UNCHANGED asked
    <3>1. [thread[x] EXCEPT !.pc = "forced"] \in ThreadType
      BY DEF TypeOK, ThreadType
    <3> QED BY <1>4, <2>1, <3>1, KilledType DEF ForceStop, TypeOK
  <2>2. CASE StopFails(x) /\ UNCHANGED os
    BY <1>4, <2>2, ThreadEndsType DEF ForceStop, StopFails, TypeOK, ThreadsType
  <2> QED BY <1>4, <2>1, <2>2 DEF ForceStop
<1>5. ASSUME GiveUp(x) PROVE TypeOK'
  BY <1>5, ThreadEndsType DEF GiveUp, StopFails, TypeOK, ThreadsType
<1> QED BY <1>1, <1>2, <1>3, <1>4, <1>5 DEF StopStep

LEMMA MonitorType == ASSUME TypeOK, NEW h \in Chans, Monitor(h) PROVE TypeOK'
<1> h \in Threads
  BY DEF Threads
<1>1. ASSUME ProbeFails(h) PROVE TypeOK'
  <2> DEFINE t == thread[h].task
             n == proc[t].failures + 1
             m == thread[h].fails + 1
             pc == IF n >= HealthThreshold THEN "tripped" ELSE thread[h].pc
  <2>1. t \in Tasks
    BY <1>1 DEF ProbeFails, Watches, Live, TypeOK
  <2>2. proc[t] \in ProcType /\ thread[h] \in ThreadType
    BY <2>1 DEF TypeOK
  <2>3. n \in Nat /\ m \in Nat
    BY <2>2 DEF ProcType, ThreadType
  <2>4. pc \in {"tripped", "watching"}
    BY <1>1 DEF ProbeFails
  <2>5. proc' = [proc EXCEPT ![t] = [proc[t] EXCEPT !.failures = n]]
    BY <1>1 DEF ProbeFails, SetProc
  <2>6. thread' = [thread EXCEPT ![h] = [thread[h] EXCEPT !.fails = m, !.pc = pc]]
    BY <1>1 DEF ProbeFails
  <2> HIDE DEF n, m, pc
  <2>7. [proc[t] EXCEPT !.failures = n] \in ProcType
    BY <2>2, <2>3 DEF ProcType
  <2>8. [thread[h] EXCEPT !.fails = m, !.pc = pc] \in ThreadType
    BY <2>2, <2>3, <2>4 DEF ThreadType
  <2> QED BY <1>1, <2>5, <2>6, <2>7, <2>8 DEF ProbeFails, TypeOK
<1>2. ASSUME ProbeSucceeds(h) PROVE TypeOK'
  <2> DEFINE t == thread[h].task
  <2>1. t \in Tasks
    BY <1>2 DEF ProbeSucceeds, Watches, Live, TypeOK
  <2>2. [proc[t] EXCEPT !.failures = 0] \in ProcType
    BY <2>1 DEF TypeOK, ProcType
  <2>3. [thread[h] EXCEPT !.fails = 0] \in ThreadType
    BY DEF TypeOK, ThreadType
  <2> QED BY <1>2, <2>2, <2>3 DEF ProbeSucceeds, SetProc, TypeOK
<1>3. ASSUME HealthStop(h) PROVE TypeOK'
  <2> DEFINE t == thread[h].task
  <2>1. CASE BeginStop(h, t, proc[t], "health") /\ Live(t)
    <3>1. t \in Tasks /\ proc[t] \in ProcType
      BY <2>1 DEF Live, TypeOK
    <3>2. TableType' /\ ThreadsType'
      BY <2>1, <3>1, BeginStopType
    <3> QED BY <1>3, <3>2 DEF HealthStop, TypeOK, TableType, ThreadsType
  <2>2. CASE thread' = [thread EXCEPT ![h] = Idle] /\ UNCHANGED proc
    BY <1>3, <2>2, ConstantTypes DEF HealthStop, TypeOK
  <2> QED BY <1>3, <2>1, <2>2 DEF HealthStop
<1>4. ASSUME MonitorEnds(h) PROVE TypeOK'
  BY <1>4, ThreadEndsType DEF MonitorEnds, TypeOK, ThreadsType
<1> QED BY <1>1, <1>2, <1>3, <1>4 DEF Monitor

LEMMA ReapType == ASSUME TypeOK, NEW p \in Pids, Reap(p) PROVE TypeOK'
<1> DEFINE t == os[p].owner
           q == [MonitorStopped(proc[t]) EXCEPT !.cmd = NoPid, !.pid = NoPid]
<1>1. t \in Tasks
  BY DEF Reap, TypeOK, OsType
<1>2. q \in ProcType
  <2>1. proc[t] \in ProcType
    BY <1>1 DEF TypeOK
  <2>2. MonitorStopped(proc[t]) \in ProcType
    BY <2>1 DEF MonitorStopped, ProcType
  <2> QED BY <2>2 DEF ProcType
<1>3. os' \in [Pids -> OsType]
  BY ConstantTypes DEF Reap, TypeOK
<1>4. ThreadsType'
  <2>1. \A x \in Threads : thread[x] \in ThreadType /\ [thread[x] EXCEPT !.done = TRUE] \in ThreadType
    BY ZenonT(30) DEF TypeOK, ThreadType
  <2> QED BY <2>1 DEF Reap, ThreadsType
<1>5. TableType' /\ TimersType'
  <2>1. CASE UNCHANGED <<proc, timer>>
    BY <2>1 DEF TypeOK, TableType, TimersType
  <2>2. CASE FinalizeStop(t, q)
    BY <1>1, <1>2, <2>2, FinalizeStopType
  <2>3. CASE PrepareRestart(t, [q EXCEPT !.status = "exited"])
    <3>1. [q EXCEPT !.status = "exited"] \in ProcType
      BY <1>2 DEF ProcType, Terminal
    <3> QED BY <1>1, <2>3, <3>1, PrepareRestartType
  <2>4. CASE SetProc(t, [q EXCEPT !.status = "stopped", !.count = 0]) /\ UNCHANGED timer
    <3>1. [q EXCEPT !.status = "stopped", !.count = 0] \in ProcType
      BY <1>2 DEF ProcType, Terminal
    <3> QED BY <2>4, <3>1 DEF SetProc, TypeOK, TableType, TimersType
  <2> QED BY <2>1, <2>2, <2>3, <2>4 DEF Reap
<1> QED BY <1>3, <1>4, <1>5 DEF Reap, TypeOK, TableType, ThreadsType, TimersType

LEMMA TimerFiresType == ASSUME TypeOK, NEW r \in Timers, TimerFires(r) PROVE TypeOK'
<1> DEFINE t == timer[r]
           q == [proc[t] EXCEPT !.restart = NoTimer]
<1>1. t \in Tasks
  BY DEF TimerFires, TypeOK
<1>2. q \in ProcType
  BY <1>1 DEF TypeOK, ProcType
<1>3. TimersType'
  BY DEF TimerFires, TypeOK, TimersType
<1>4. CASE UNCHANGED <<proc, thread, os, autos>>
  BY <1>3, <1>4 DEF TimerFires, TypeOK, TimersType
<1>5. CASE SetProc(t, q) /\ UNCHANGED <<thread, os, autos>>
  BY <1>2, <1>3, <1>5 DEF TimerFires, SetProc, TypeOK, TimersType
<1>6. CASE Launch(t, q) /\ autos' = [autos EXCEPT ![t] = @ + 1]
  <2>1. TableType' /\ ThreadsType' /\ OsTypeOK'
    BY <1>1, <1>2, <1>6, LaunchType
  <2>2. autos' \in [Tasks -> Nat]
    BY <1>1, <1>6 DEF TypeOK
  <2> QED BY <1>3, <2>1, <2>2 DEF TimerFires, TypeOK, TableType, ThreadsType, TimersType, OsTypeOK
<1> QED BY <1>4, <1>5, <1>6 DEF TimerFires

LEMMA EnvironmentType == ASSUME TypeOK, Environment PROVE TypeOK'
<1>1. ASSUME NEW p \in Pids, NEW how \in {"clean", "crashed"}, ChildExits(p, how) PROVE TypeOK'
  <2>1. [os[p] EXCEPT !.st = how] \in OsType
    BY DEF TypeOK, OsType
  <2> QED BY <1>1, <2>1 DEF ChildExits, TypeOK
<1>2. ASSUME NEW p \in Pids, NEW g \in Programs, ExternalStarts(p, g) PROVE TypeOK'
  <2>1. [st |-> "running", owner |-> NoTask, prog |-> g, missed |-> FALSE] \in OsType
    BY DEF OsType
  <2> QED BY <1>2, <2>1 DEF ExternalStarts, TypeOK
<1>3. ASSUME NEW p \in Pids, ExternalExits(p) PROVE TypeOK'
  BY <1>3, ConstantTypes DEF ExternalExits, TypeOK
<1> QED BY <1>1, <1>2, <1>3 DEF Environment

LEMMA NextType == ASSUME TypeOK, [Next]_vars PROVE TypeOK'
<1>1. CASE UNCHANGED vars
  BY <1>1 DEF vars, TypeOK
<1>2. CASE Next
  BY <1>2, ConfigureType, CommandType, StopStepType, MonitorType, ReapType,
     TimerFiresType, EnvironmentType DEF Next
<1> QED BY <1>1, <1>2

(* The manager's table, its threads, its timers and the processes always    *)
(* have their types; in particular no index ever leaves the known tasks.    *)
THEOREM TypeCorrect == Spec => []TypeOK
<1>1. Init => TypeOK
  BY InitType
<1>2. TypeOK /\ [Next]_vars => TypeOK'
  BY NextType
<1> QED BY <1>1, <1>2, PTL DEF Spec

------------------------------------------------------------------------------
(* What the shared sections do to the record of their task, field by field. *)

(* The record of t becomes q1, and no other record changes.                 *)
Becomes(t, q1) == q1 \in ProcType /\ proc' = [proc EXCEPT ![t] = q1]

SameRun(q1, q) == q1.cfg = q.cfg /\ q1.pid = q.pid /\ q1.cmd = q.cmd

LEMMA StartMonitorEffect ==
  ASSUME TypeOK, NEW t \in Tasks, NEW q \in ProcType, StartMonitor(t, q)
  PROVE  \E q1 : /\ Becomes(t, q1) /\ SameRun(q1, q)
                 /\ q1.status = q.status /\ q1.reason = q.reason
                 /\ q1.restart = q.restart /\ q1.count = q.count
<1>1. ASSUME NEW h \in Chans \cup {NoChan},
             proc' = [proc EXCEPT ![t] = [q EXCEPT !.health = h, !.failures = 0]]
      PROVE  \E q1 : /\ Becomes(t, q1) /\ SameRun(q1, q)
                     /\ q1.status = q.status /\ q1.reason = q.reason
                     /\ q1.restart = q.restart /\ q1.count = q.count
  <2> DEFINE q1 == [q EXCEPT !.health = h, !.failures = 0]
  <2>1. q1 \in ProcType
    BY DEF ProcType
  <2>2. /\ SameRun(q1, q) /\ q1.status = q.status /\ q1.reason = q.reason
        /\ q1.restart = q.restart /\ q1.count = q.count
    BY DEF ProcType, SameRun
  <2> WITNESS q1
  <2> QED BY <1>1, <2>1, <2>2 DEF Becomes
<1>2. CASE q.cfg.health
  BY <1>1, <1>2 DEF StartMonitor, SetProc, FreeChans
<1>3. CASE ~q.cfg.health
  BY <1>1, <1>3 DEF StartMonitor, SetProc, MonitorStopped
<1> QED BY <1>2, <1>3

LEMMA PrepareRestartEffect ==
  ASSUME TypeOK, NEW t \in Tasks, NEW q \in ProcType, PrepareRestart(t, q)
  PROVE  \E q1 : /\ Becomes(t, q1) /\ SameRun(q1, q)
                 /\ q1.status = q.status /\ q1.reason = q.reason /\ q1.health = q.health
                 /\ q1.count = q.count + 1
                 /\ q1.failures = q.failures
                 /\ q1.restart # NoTimer => q.cfg.restart /\ WithinBudget(q)
<1> DEFINE n == q.count + 1
<1>1. n \in Nat
  BY DEF ProcType
<1>2. PICK r \in Timers \cup {NoTimer} :
        /\ proc' = [proc EXCEPT ![t] = [q EXCEPT !.count = n, !.restart = r]]
        /\ r # NoTimer => q.cfg.restart /\ WithinBudget(q)
  BY DEF PrepareRestart, SetProc, FreeTimers
<1> HIDE DEF n
<1> DEFINE q1 == [q EXCEPT !.count = n, !.restart = r]
<1>3. q1 \in ProcType
  BY <1>1 DEF ProcType
<1>4. /\ SameRun(q1, q) /\ q1.status = q.status /\ q1.reason = q.reason
      /\ q1.health = q.health /\ q1.count = n /\ q1.restart = r
      /\ q1.failures = q.failures
  BY DEF ProcType, SameRun
<1> WITNESS q1
<1> QED BY <1>2, <1>3, <1>4 DEF Becomes, n

(* A stop ends in "stopped" with no retry counted, or after a health stop   *)
(* in "failed"; the reason is used up either way.                           *)
LEMMA FinalizeStopEffect ==
  ASSUME TypeOK, NEW t \in Tasks, NEW q \in ProcType, FinalizeStop(t, q)
  PROVE  \E q1 : /\ Becomes(t, q1) /\ SameRun(q1, q) /\ q1.reason = "none"
                 /\ q1.health = q.health /\ q1.failures = 0
                 /\ IF q.reason = "health"
                    THEN /\ q1.status = "failed" /\ q1.count = q.count + 1
                         /\ q1.restart # NoTimer => q.cfg.restart /\ WithinBudget(q)
                    ELSE q1.status = "stopped" /\ q1.restart = q.restart
<1> DEFINE q0 == [q EXCEPT !.reason = "none", !.failures = 0]
<1>1. CASE q.reason = "health"
  <2> DEFINE q2 == [q0 EXCEPT !.status = "failed"]
  <2>1. q2 \in ProcType
    BY DEF ProcType, Terminal
  <2>2. /\ SameRun(q2, q) /\ q2.status = "failed" /\ q2.reason = "none"
        /\ q2.health = q.health /\ q2.count = q.count /\ q2.cfg = q.cfg
        /\ q2.failures = 0
    BY DEF ProcType, SameRun
  <2>3. PrepareRestart(t, q2)
    BY <1>1 DEF FinalizeStop
  <2> HIDE DEF q2
  <2> QED BY <1>1, <2>1, <2>2, <2>3, PrepareRestartEffect DEF SameRun, WithinBudget
<1>2. CASE q.reason # "health"
  <2> DEFINE q1 == [q0 EXCEPT !.status = "stopped", !.count = 0]
  <2>1. q1 \in ProcType
    BY DEF ProcType, Terminal
  <2>2. /\ SameRun(q1, q) /\ q1.status = "stopped"
        /\ q1.reason = "none" /\ q1.restart = q.restart /\ q1.health = q.health
        /\ q1.failures = 0
    BY DEF ProcType, SameRun
  <2> WITNESS q1
  <2> QED BY <1>2, <2>1, <2>2 DEF FinalizeStop, SetProc, Becomes
<1> QED BY <1>1, <1>2

LEMMA BeginStopEffect ==
  ASSUME TypeOK, NEW t \in Tasks, NEW x, NEW q \in ProcType,
         NEW why \in {"user", "health"}, BeginStop(x, t, q, why)
  PROVE  \E q1 : /\ Becomes(t, q1) /\ SameRun(q1, q) /\ q1.restart = q.restart
                 /\ q1.status = "stopping" /\ q1.reason = why
                 /\ q1.health = NoChan /\ q1.count = q.count
<1> DEFINE q1 == [MonitorStopped(q) EXCEPT !.status = "stopping", !.reason = why]
<1>1. q1 \in ProcType
  BY DEF MonitorStopped, ProcType
<1>2. /\ SameRun(q1, q) /\ q1.restart = q.restart
      /\ q1.status = "stopping" /\ q1.reason = why
      /\ q1.health = NoChan /\ q1.count = q.count
  BY DEF MonitorStopped, ProcType, SameRun
<1> WITNESS q1
<1> QED BY <1>1, <1>2 DEF BeginStop, SetProc, Becomes

(* A launch adopts a matching process, or gives the task one with a pid     *)
(* that nobody had, or fails.                                               *)
LEMMA LaunchEffect ==
  ASSUME TypeOK, NEW t \in Tasks, NEW q \in ProcType, Launch(t, q)
  PROVE  \E q1 : /\ Becomes(t, q1) /\ q1.restart = q.restart
                 /\ q1.cfg = q.cfg /\ q1.count = q.count
                 /\ \/ /\ q1.pid \in Matches(t) /\ UNCHANGED os
                       /\ q1.cmd = q.cmd /\ q1.status = "running"
                    \/ /\ q1.status = "running"
                       /\ \E p \in FreePids : /\ q1.pid = p /\ q1.cmd = p
                                              /\ Launched(t, p)
                    \/ /\ UNCHANGED os
                       /\ q1.cmd = q.cmd /\ q1.status = "failed"
<1> DEFINE q0 == [q EXCEPT !.reason = "none"]
<1>1. CASE \E p \in Matches(t) :
             /\ StartMonitor(t, [q0 EXCEPT !.status = "running", !.pid = p])
             /\ UNCHANGED os
  <2>1. PICK p \in Matches(t) : StartMonitor(t, [q0 EXCEPT !.status = "running", !.pid = p])
    BY <1>1
  <2> DEFINE q2 == [q0 EXCEPT !.status = "running", !.pid = p]
  <2>2. q2 \in ProcType
    BY DEF ProcType, Matches
  <2>3. /\ q2.status = "running" /\ q2.cmd = q.cmd /\ q2.restart = q.restart
        /\ q2.cfg = q.cfg /\ q2.count = q.count /\ q2.pid = p
    BY DEF ProcType
  <2> HIDE DEF q2
  <2>4. PICK q1 : /\ Becomes(t, q1) /\ SameRun(q1, q2) /\ q1.status = q2.status
                  /\ q1.restart = q2.restart /\ q1.count = q2.count
    BY <2>1, <2>2, StartMonitorEffect DEF q2
  <2> QED BY <1>1, <2>3, <2>4 DEF SameRun
<1>2. CASE \E p \in FreePids :
             /\ Launched(t, p)
             /\ StartMonitor(t, [q0 EXCEPT !.status = "running", !.pid = p, !.cmd = p])
  <2>1. PICK p \in FreePids :
           /\ Launched(t, p)
           /\ StartMonitor(t, [q0 EXCEPT !.status = "running", !.pid = p, !.cmd = p])
    BY <1>2
  <2> DEFINE q2 == [q0 EXCEPT !.status = "running", !.pid = p, !.cmd = p]
  <2>2. q2 \in ProcType
    BY DEF ProcType, FreePids
  <2>3. /\ q2.status = "running" /\ q2.pid = p /\ q2.cmd = p /\ q2.restart = q.restart
        /\ q2.cfg = q.cfg /\ q2.count = q.count
    BY DEF ProcType
  <2> HIDE DEF q2
  <2>4. PICK q1 : /\ Becomes(t, q1) /\ SameRun(q1, q2) /\ q1.status = q2.status
                  /\ q1.restart = q2.restart /\ q1.count = q2.count
    BY <2>1, <2>2, StartMonitorEffect DEF q2
  <2> QED BY <2>1, <2>3, <2>4 DEF SameRun
<1>3. CASE /\ SetProc(t, [q0 EXCEPT !.status = "failed"])
           /\ UNCHANGED os
  <2> DEFINE q1 == [q0 EXCEPT !.status = "failed"]
  <2>1. q1 \in ProcType
    BY DEF ProcType, Terminal
  <2>2. /\ q1.status = "failed" /\ q1.cmd = q.cmd /\ q1.restart = q.restart
        /\ q1.cfg = q.cfg /\ q1.count = q.count
    BY DEF ProcType
  <2> WITNESS q1
  <2> QED BY <1>3, <2>1, <2>2 DEF SetProc, Becomes
<1> QED BY <1>1, <1>2, <1>3, LaunchCases

------------------------------------------------------------------------------
(* Ownership.  ChildOwned is not inductive: that a second launch cannot     *)
(* displace a process needs the converse, that a cmd is a live child.       *)
OwnInv ==
  \A p \in Pids, t \in Tasks :
    (Child(p, t) => Live(t)) /\ (Child(p, t) <=> proc[t].cmd = p)

LEMMA OwnStable ==
  ASSUME OwnInv, managed \subseteq managed',
         \A t \in Tasks : proc'[t].cmd = proc[t].cmd,
         \A p \in Pids, t \in Tasks : Child(p, t)' <=> Child(p, t)
  PROVE  OwnInv'
BY DEF OwnInv, Live

LEMMA SameChildren ==
  ASSUME UNCHANGED os PROVE \A p \in Pids, t \in Tasks : Child(p, t)' <=> Child(p, t)
BY DEF Child

LEMMA KilledChildren ==
  ASSUME TypeOK, NEW k, os' = Killed(k)
  PROVE  \A p \in Pids, t \in Tasks : Child(p, t)' <=> Child(p, t)
<1> SUFFICES ASSUME NEW p \in Pids, NEW t \in Tasks PROVE Child(p, t)' <=> Child(p, t)
  OBVIOUS
<1>1. CASE p # k
  BY <1>1 DEF Killed, Child, TypeOK
<1>2. CASE p = k /\ os[p].st = "running" /\ os[p].owner = NoTask
  BY <1>2, IdentityAssumption DEF Killed, Child, TypeOK, NoProcess
<1>3. CASE p = k /\ os[p].st = "running" /\ os[p].owner # NoTask
  BY <1>3 DEF Killed, Child, TypeOK, OsType
<1>4. CASE p = k /\ os[p].st # "running"
  BY <1>4 DEF Killed, Child, TypeOK
<1> QED BY <1>1, <1>2, <1>3, <1>4

(* A task that is not busy, or not managed, has no process.                 *)
LEMMA IdleTask ==
  ASSUME TypeOK, OwnInv, NEW t \in Tasks, Live(t) => ~Busy(proc[t])
  PROVE  proc[t].cmd = NoPid /\ \A p \in Pids : ~Child(p, t)
<1>1. proc[t].cmd \in Pids \cup {NoPid}
  BY DEF TypeOK, ProcType
<1>2. CASE Live(t)
  BY <1>1, <1>2, IdentityAssumption DEF OwnInv, Busy
<1>3. CASE ~Live(t)
  BY <1>1, <1>3 DEF OwnInv
<1> QED BY <1>2, <1>3

(* The record of t changes and keeps its cmd.                               *)
LEMMA BecomesKeepsCmd ==
  ASSUME TypeOK, NEW t \in Tasks, NEW q1, Becomes(t, q1), q1.cmd = proc[t].cmd
  PROVE  \A u \in Tasks : proc'[u].cmd = proc[u].cmd
BY DEF Becomes, TypeOK

(* A launch for an idle task: its new process is its cmd.                   *)
LEMMA LaunchOwn ==
  ASSUME TypeOK, OwnInv, NEW t \in Tasks, NEW q \in ProcType, Launch(t, q),
         Live(t), q.cmd = NoPid, proc[t].cmd = NoPid, managed' = managed
  PROVE  OwnInv'
<1>1. PICK q1 :
        /\ Becomes(t, q1)
        /\ \/ UNCHANGED os /\ q1.cmd = q.cmd
           \/ \E p \in FreePids : q1.cmd = p /\ Launched(t, p)
  BY LaunchEffect
<1>2. CASE UNCHANGED os /\ q1.cmd = q.cmd
  <2>1. \A u \in Tasks : proc'[u].cmd = proc[u].cmd
    BY <1>1, <1>2, BecomesKeepsCmd
  <2> QED BY <1>2, <2>1, SameChildren, OwnStable
<1>3. CASE \E p \in FreePids : q1.cmd = p /\ Launched(t, p)
  <2>1. PICK k \in FreePids : q1.cmd = k /\ Launched(t, k)
    BY <1>3
  <2>2. k \in Pids /\ os[k].st = "free"
    BY DEF FreePids
  <2>3. proc'[t].cmd = k /\ \A u \in Tasks : u # t => proc'[u] = proc[u]
    BY <1>1, <2>1 DEF Becomes, TypeOK
  <2>4. \A u \in Tasks : proc[u].cmd # k
    BY <2>2 DEF OwnInv, Child
  <2>5. ASSUME NEW p \in Pids, NEW u \in Tasks
        PROVE  Child(p, u)' <=> IF p = k THEN u = t ELSE Child(p, u)
    <3>1. CASE p = k
      BY <2>1, <2>2, <3>1, LaunchedEffect DEF Child
    <3>2. CASE p # k
      BY <2>1, <2>2, <3>2, LaunchedEffect DEF Child
    <3> QED BY <3>1, <3>2
  <2>6. \A p \in Pids : ~Child(p, t)
    BY IdentityAssumption DEF OwnInv
  <2>7. ASSUME NEW p \in Pids, NEW u \in Tasks
        PROVE  (Child(p, u)' => Live(u)') /\ (Child(p, u)' <=> proc'[u].cmd = p)
    <3>1. CASE p = k
      BY <2>3, <2>4, <2>5, <3>1 DEF Live
    <3>2. CASE p # k /\ u = t
      BY <2>3, <2>5, <2>6, <3>2 DEF Live
    <3>3. CASE p # k /\ u # t
      BY <2>3, <2>5, <3>3 DEF OwnInv, Live
    <3> QED BY <3>1, <3>2, <3>3
  <2> QED BY <2>7 DEF OwnInv
<1> QED BY <1>1, <1>2, <1>3

(* An import launches nothing.                                              *)
LEMMA InstalledIdle ==
  ASSUME NEW M, NEW c, NEW a, NEW h, NEW t \in Tasks
  PROVE  InstalledProcs(M, c, a, h)[t].cmd = NoPid
<1>1. Absent.cmd = NoPid
  BY DEF Absent, NewProc
<1>2. Installed(c[t], a[t], h[t]).cmd = NoPid
  BY DEF Installed, NewProc
<1> QED BY <1>1, <1>2 DEF InstalledProcs

LEMMA InitForeign == ASSUME Init PROVE \A p \in Pids : os[p].owner = NoTask
<1> DEFINE foreign == [st : {"running"}, owner : {NoTask}, prog : Programs, missed : {FALSE}]
<1>1. os \in [Pids -> {NoProcess} \cup foreign]
  BY DEF Init, ExternalStates
<1>2. NoProcess.owner = NoTask /\ \A f \in foreign : f.owner = NoTask
  BY DEF NoProcess
<1> HIDE DEF foreign
<1> QED BY <1>1, <1>2

LEMMA InitOwn == Init => OwnInv
<1> SUFFICES ASSUME Init PROVE OwnInv
  OBVIOUS
<1>1. \A p \in Pids : os[p].owner = NoTask
  BY InitForeign
<1>2. \A t \in Tasks : proc[t].cmd = NoPid
  BY InstalledIdle DEF Init
<1> QED BY <1>1, <1>2, IdentityAssumption DEF OwnInv, Child

LEMMA ConfigureOwn == ASSUME TypeOK, OwnInv, Configure PROVE OwnInv'
<1>1. ASSUME NEW M \in SUBSET Tasks, ReplaceTasks(M) PROVE OwnInv'
  <2>1. \A t \in Tasks : proc[t].cmd = NoPid
    BY <1>1, IdleTask DEF ReplaceTasks, Live
  <2>2. \A t \in Tasks : proc'[t].cmd = NoPid
    BY <1>1, InstalledIdle DEF ReplaceTasks
  <2>3. \A p \in Pids, t \in Tasks : ~Child(p, t)
    BY <2>1, IdentityAssumption DEF OwnInv
  <2> QED BY <1>1, <2>2, <2>3, IdentityAssumption DEF ReplaceTasks, OwnInv, Child
<1>2. ASSUME NEW t \in Tasks, NEW c \in Configs, EditTask(t, c) PROVE OwnInv'
  <2>1. proc[t].cmd = NoPid
    BY <1>2, IdleTask DEF EditTask
  <2>2. proc'[t].cmd = NoPid /\ \A u \in Tasks : u # t => proc'[u] = proc[u]
    BY <1>2, <2>1 DEF EditTask, SetProc, TypeOK, NewProc, ProcType
  <2> QED BY <1>2, <2>1, <2>2, SameChildren, OwnStable DEF EditTask
<1>3. ASSUME NEW t \in Tasks, NEW b \in BOOLEAN, SetRestartOnCrash(t, b) PROVE OwnInv'
  <2>1. \A u \in Tasks : proc'[u].cmd = proc[u].cmd
    BY <1>3 DEF SetRestartOnCrash, SetProc, TypeOK, ProcType
  <2> QED BY <1>3, <2>1, SameChildren, OwnStable DEF SetRestartOnCrash
<1>4. ASSUME NEW t \in Tasks, RemoveTask(t) PROVE OwnInv'
  <2>1. proc[t].cmd = NoPid /\ \A p \in Pids : ~Child(p, t)
    BY <1>4, IdleTask DEF RemoveTask
  <2>2. proc'[t].cmd = NoPid /\ \A u \in Tasks : u # t => proc'[u] = proc[u]
    BY <1>4 DEF RemoveTask, SetProc, TypeOK, Absent, NewProc
  <2>3. \A p \in Pids, u \in Tasks : Child(p, u)' <=> Child(p, u)
    BY <1>4, SameChildren DEF RemoveTask
  <2> QED BY <1>4, <2>1, <2>2, <2>3 DEF RemoveTask, OwnInv, Live
<1> QED BY <1>1, <1>2, <1>3, <1>4 DEF Configure

LEMMA CommandOwn == ASSUME TypeOK, OwnInv, Command PROVE OwnInv'
<1>1. ASSUME NEW t \in Tasks
      PROVE  Fresh(t) \in ProcType /\ Fresh(t).cmd = proc[t].cmd
  BY ZenonT(30) DEF Fresh, TypeOK, ProcType
<1>2. ASSUME NEW t \in Tasks, StartRefused(t) PROVE OwnInv'
  <2>1. \A u \in Tasks : proc'[u].cmd = proc[u].cmd
    BY <1>1, <1>2 DEF StartRefused, SetProc, TypeOK
  <2> QED BY <1>2, <2>1, SameChildren, OwnStable DEF StartRefused
<1>3. ASSUME NEW t \in Tasks, Start(t) PROVE OwnInv'
  <2>1. proc[t].cmd = NoPid
    BY <1>3, IdleTask DEF Start
  <2> QED BY <1>1, <1>3, <2>1, LaunchOwn DEF Start
<1>4. ASSUME NEW x \in Callers, NEW t \in Tasks, StopCall(x, t) PROVE OwnInv'
  <2> DEFINE q == [proc[t] EXCEPT !.restart = NoTimer, !.reason = "user"]
  <2>1. q \in ProcType /\ q.cmd = proc[t].cmd
    BY ZenonT(30) DEF TypeOK, ProcType
  <2>2. CASE SetProc(t, q)
    <3>1. \A u \in Tasks : proc'[u].cmd = proc[u].cmd
      BY <2>1, <2>2 DEF SetProc, TypeOK
    <3> QED BY <1>4, <3>1, SameChildren, OwnStable DEF StopCall
  <2>3. CASE BeginStop(x, t, q, "user")
    <3> HIDE DEF q
    <3>1. PICK q1 : Becomes(t, q1) /\ SameRun(q1, q)
      BY <2>1, <2>3, BeginStopEffect
    <3>2. \A u \in Tasks : proc'[u].cmd = proc[u].cmd
      BY <2>1, <3>1, BecomesKeepsCmd DEF SameRun
    <3> QED BY <1>4, <3>2, SameChildren, OwnStable DEF StopCall
  <2> QED BY <1>4, <2>2, <2>3 DEF StopCall
<1> QED BY <1>2, <1>3, <1>4 DEF Command

LEMMA StopStepOwn == ASSUME TypeOK, OwnInv, NEW x \in Threads, StopStep(x) PROVE OwnInv'
<1>1. ASSUME KillAdopted(x) \/ ForceStop(x) PROVE OwnInv'
  <2>1. managed' = managed /\ proc' = proc
    BY <1>1 DEF KillAdopted, ForceStop
  <2>2. os' = Killed(thread[x].pid) \/ UNCHANGED os
    BY <1>1 DEF KillAdopted, ForceStop
  <2>3. \A p \in Pids, t \in Tasks : Child(p, t)' <=> Child(p, t)
    BY <2>2, KilledChildren, SameChildren
  <2> QED BY <2>1, <2>3, OwnStable
<1>2. ASSUME FinalizeAdopted(x) PROVE OwnInv'
  <2> DEFINE t == thread[x].task
             q == [proc[t] EXCEPT !.pid = NoPid]
  <2>1. managed' = managed /\ UNCHANGED os
    BY <1>2 DEF FinalizeAdopted
  <2>2. CASE Live(t)
    <3>1. t \in Tasks
      BY <2>2 DEF Live, TypeOK
    <3>2. q \in ProcType /\ q.cmd = proc[t].cmd
      BY <3>1 DEF TypeOK, ProcType
    <3>3. FinalizeStop(t, q)
      BY <1>2, <2>2 DEF FinalizeAdopted
    <3> HIDE DEF q
    <3>4. PICK q1 : Becomes(t, q1) /\ SameRun(q1, q)
      BY <3>1, <3>2, <3>3, FinalizeStopEffect
    <3>5. \A u \in Tasks : proc'[u].cmd = proc[u].cmd
      BY <3>1, <3>2, <3>4, BecomesKeepsCmd DEF SameRun
    <3> QED BY <2>1, <3>5, SameChildren, OwnStable
  <2>3. CASE ~Live(t)
    BY <1>2, <2>1, <2>3, SameChildren, OwnStable DEF FinalizeAdopted
  <2> QED BY <2>2, <2>3
<1>3. ASSUME StopReturns(x) \/ GiveUp(x) PROVE OwnInv'
  BY <1>3, SameChildren, OwnStable DEF StopReturns, GiveUp
<1> QED BY <1>1, <1>2, <1>3 DEF StopStep

LEMMA MonitorOwn == ASSUME TypeOK, OwnInv, NEW h \in Chans, Monitor(h) PROVE OwnInv'
<1> DEFINE t == thread[h].task
<1>0. managed' = managed /\ UNCHANGED os
  BY DEF Monitor, ProbeFails, ProbeSucceeds, HealthStop, MonitorEnds
<1>1. ASSUME NEW n, t \in Tasks, SetProc(t, [proc[t] EXCEPT !.failures = n])
      PROVE  \A u \in Tasks : proc'[u].cmd = proc[u].cmd
  BY <1>1 DEF SetProc, TypeOK, ProcType
<1>2. CASE ProbeFails(h) \/ ProbeSucceeds(h)
  <2>1. t \in Tasks
    BY <1>2 DEF ProbeFails, ProbeSucceeds, Watches, Live, TypeOK
  <2>2. \E n : SetProc(t, [proc[t] EXCEPT !.failures = n])
    BY <1>2 DEF ProbeFails, ProbeSucceeds
  <2> QED BY <1>0, <1>1, <2>1, <2>2, SameChildren, OwnStable
<1>3. CASE HealthStop(h)
  <2>1. CASE BeginStop(h, t, proc[t], "health") /\ Live(t)
    <3>1. t \in Tasks /\ proc[t] \in ProcType /\ h \in Threads
      BY <2>1 DEF Live, TypeOK, Threads
    <3>2. PICK q1 : Becomes(t, q1) /\ SameRun(q1, proc[t])
      BY <2>1, <3>1, BeginStopEffect
    <3>3. \A u \in Tasks : proc'[u].cmd = proc[u].cmd
      BY <3>1, <3>2, BecomesKeepsCmd DEF SameRun
    <3> QED BY <1>0, <3>3, SameChildren, OwnStable
  <2>2. CASE UNCHANGED proc
    BY <1>0, <2>2, SameChildren, OwnStable
  <2> QED BY <1>3, <2>1, <2>2 DEF HealthStop
<1>4. CASE MonitorEnds(h)
  BY <1>0, <1>4, SameChildren, OwnStable DEF MonitorEnds
<1> QED BY <1>2, <1>3, <1>4 DEF Monitor

(* A reaped process is the cmd of its task, so the record is always cleared.*)
LEMMA ReapOwn == ASSUME TypeOK, OwnInv, NEW k \in Pids, Reap(k) PROVE OwnInv'
<1> DEFINE t == os[k].owner
           q == [MonitorStopped(proc[t]) EXCEPT !.cmd = NoPid, !.pid = NoPid]
<1>1. t \in Tasks /\ Child(k, t)
  BY DEF Reap, TypeOK, OsType, Child
<1>2. Live(t) /\ proc[t].cmd = k
  BY <1>1 DEF OwnInv
<1>3. q \in ProcType /\ q.cmd = NoPid
  <2>1. proc[t] \in ProcType
    BY <1>1 DEF TypeOK
  <2>2. MonitorStopped(proc[t]) \in ProcType
    BY <2>1 DEF MonitorStopped, ProcType
  <2> QED BY <2>2 DEF ProcType
<1>4. \/ FinalizeStop(t, q)
      \/ PrepareRestart(t, [q EXCEPT !.status = "exited"])
      \/ SetProc(t, [q EXCEPT !.status = "stopped", !.count = 0])
  BY <1>2 DEF Reap
<1>a. managed' = managed /\ os' = [os EXCEPT ![k] = NoProcess]
  BY DEF Reap
<1> HIDE DEF q
<1>5. PICK q1 : Becomes(t, q1) /\ q1.cmd = NoPid
  <2>1. CASE FinalizeStop(t, q)
    BY <1>1, <1>3, <2>1, FinalizeStopEffect DEF SameRun
  <2>2. CASE PrepareRestart(t, [q EXCEPT !.status = "exited"])
    <3> DEFINE q2 == [q EXCEPT !.status = "exited"]
    <3>1. q2 \in ProcType /\ q2.cmd = NoPid
      BY <1>3 DEF ProcType, Terminal
    <3> HIDE DEF q2
    <3>2. PrepareRestart(t, q2)
      BY <2>2 DEF q2
    <3> QED BY <1>1, <3>1, <3>2, PrepareRestartEffect DEF SameRun
  <2>3. CASE SetProc(t, [q EXCEPT !.status = "stopped", !.count = 0])
    <3> DEFINE q2 == [q EXCEPT !.status = "stopped", !.count = 0]
    <3>1. q2 \in ProcType /\ q2.cmd = NoPid
      BY <1>3 DEF ProcType, Terminal
    <3> QED BY <2>3, <3>1 DEF SetProc, Becomes
  <2> QED BY <1>4, <2>1, <2>2, <2>3
<1>6. proc'[t].cmd = NoPid /\ \A u \in Tasks : u # t => proc'[u] = proc[u]
  BY <1>1, <1>5 DEF Becomes, TypeOK
<1>7. ASSUME NEW p \in Pids, NEW u \in Tasks
      PROVE  Child(p, u)' <=> (p # k /\ Child(p, u))
  BY <1>a DEF Child, TypeOK, NoProcess
<1>8. ASSUME NEW p \in Pids, NEW u \in Tasks
      PROVE  (Child(p, u)' => Live(u)') /\ (Child(p, u)' <=> proc'[u].cmd = p)
  <2>1. CASE u = t
    BY <1>2, <1>6, <1>7, <1>a, <2>1, IdentityAssumption DEF OwnInv, Live
  <2>2. CASE u # t
    <3>1. p = k => ~Child(p, u)
      BY <2>2 DEF Child
    <3> QED BY <1>6, <1>7, <1>a, <2>2, <3>1 DEF OwnInv, Live
  <2> QED BY <2>1, <2>2
<1> QED BY <1>8 DEF OwnInv

LEMMA TimerFiresOwn == ASSUME TypeOK, OwnInv, NEW r \in Timers, TimerFires(r) PROVE OwnInv'
<1> DEFINE t == timer[r]
           q == [proc[t] EXCEPT !.restart = NoTimer]
<1>1. t \in Tasks
  BY DEF TimerFires, TypeOK
<1>2. q \in ProcType /\ q.cmd = proc[t].cmd
  BY <1>1 DEF TypeOK, ProcType
<1>3. managed' = managed
  BY DEF TimerFires
<1>4. CASE UNCHANGED <<proc, os>>
  BY <1>3, <1>4, SameChildren, OwnStable
<1>5. CASE SetProc(t, q) /\ UNCHANGED os
  <2>1. Becomes(t, q)
    BY <1>2, <1>5 DEF SetProc, Becomes
  <2>2. \A u \in Tasks : proc'[u].cmd = proc[u].cmd
    BY <1>1, <1>2, <2>1, BecomesKeepsCmd
  <2> QED BY <1>3, <1>5, <2>2, SameChildren, OwnStable
<1>6. CASE Launch(t, q) /\ Restarting(r) /\ ~Busy(q)
  <2>1. Live(t) /\ q.cmd = NoPid /\ proc[t].cmd = NoPid
    BY <1>2, <1>6 DEF Restarting, Busy
  <2> QED BY <1>1, <1>2, <1>3, <1>6, <2>1, LaunchOwn
<1> QED BY <1>4, <1>5, <1>6 DEF TimerFires

LEMMA EnvironmentOwn == ASSUME TypeOK, OwnInv, Environment PROVE OwnInv'
<1>1. managed' = managed /\ proc' = proc
  BY DEF Environment, ChildExits, ExternalStarts, ExternalExits
<1>2. \A p \in Pids, t \in Tasks : Child(p, t)' <=> Child(p, t)
  <2>1. ASSUME NEW k \in Pids, NEW how \in {"clean", "crashed"}, ChildExits(k, how)
        PROVE  \A p \in Pids, t \in Tasks : Child(p, t)' <=> Child(p, t)
    BY <2>1 DEF ChildExits, Child, TypeOK, OsType
  <2>2. ASSUME NEW k \in Pids, NEW g \in Programs, ExternalStarts(k, g)
        PROVE  \A p \in Pids, t \in Tasks : Child(p, t)' <=> Child(p, t)
    BY <2>2, IdentityAssumption DEF ExternalStarts, FreePids, Child, TypeOK
  <2>3. ASSUME NEW k \in Pids, ExternalExits(k)
        PROVE  \A p \in Pids, t \in Tasks : Child(p, t)' <=> Child(p, t)
    BY <2>3, IdentityAssumption DEF ExternalExits, NoProcess, Child, TypeOK
  <2> QED BY <2>1, <2>2, <2>3 DEF Environment
<1> QED BY <1>1, <1>2, OwnStable

LEMMA NextOwn == ASSUME TypeOK, OwnInv, [Next]_vars PROVE OwnInv'
<1>1. CASE UNCHANGED vars
  BY <1>1, SameChildren, OwnStable DEF vars
<1>2. CASE Next
  BY <1>2, ConfigureOwn, CommandOwn, StopStepOwn, MonitorOwn, ReapOwn,
     TimerFiresOwn, EnvironmentOwn DEF Next
<1> QED BY <1>1, <1>2

LEMMA OwnInvHolds == Spec => []OwnInv
<1>1. Init => OwnInv
  BY InitOwn
<1>2. TypeOK /\ OwnInv /\ [Next]_vars => OwnInv'
  BY NextOwn
<1> QED BY <1>1, <1>2, TypeCorrect, PTL DEF Spec

(* Every process the manager launched and has not reaped belongs to a task  *)
(* that is still managed and is the cmd of that task, whatever is started,  *)
(* stopped, edited, deleted or imported in between (startLocked, wait,      *)
(* ReplaceTasks and RemoveTaskAfterSave of manager.go).                     *)
THEOREM ChildrenOwned == Spec => []ChildOwned
<1>1. OwnInv => ChildOwned
  BY DEF OwnInv, ChildOwned
<1> QED BY <1>1, OwnInvHolds, PTL

------------------------------------------------------------------------------
(* The children of one command line.                                       *)

Owned(p) == os[p].st = "running" /\ os[p].owner # NoTask

(* A step that puts no new process under the manager keeps NoDuplicate.     *)
NothingLaunched ==
  \A p \in Pids : Owned(p)' =>
    Owned(p) /\ os'[p].prog = os[p].prog /\ os'[p].missed = os[p].missed

LEMMA NoDuplicateStable ==
  ASSUME NoDuplicate, NothingLaunched PROVE NoDuplicate'
BY DEF NoDuplicate, NothingLaunched, Owned

LEMMA SameProcesses == ASSUME UNCHANGED os PROVE NothingLaunched
BY DEF NothingLaunched, Owned

LEMMA KilledLaunchesNothing ==
  ASSUME TypeOK, NEW k, os' = Killed(k) PROVE NothingLaunched
<1> SUFFICES ASSUME NEW p \in Pids, Owned(p)'
             PROVE  Owned(p) /\ os'[p].prog = os[p].prog /\ os'[p].missed = os[p].missed
  BY DEF NothingLaunched
<1>1. CASE p # k
  BY <1>1 DEF Killed, Owned, TypeOK
<1>2. CASE p = k
  <2>1. os[p] \in OsType
    BY DEF TypeOK
  <2>2. os'[p].st # "running"
    BY <1>2, <2>1 DEF Killed, TypeOK, OsType, NoProcess
  <2> QED BY <2>2 DEF Owned
<1> QED BY <1>1, <1>2

(* A launch overlooked whatever child matched; an adoption launches nothing.*)
LEMMA LaunchUnique ==
  ASSUME TypeOK, NoDuplicate, NEW t \in Tasks, NEW q \in ProcType, Launch(t, q)
  PROVE  NoDuplicate'
<1>1. CASE UNCHANGED os
  BY <1>1, SameProcesses, NoDuplicateStable
<1>2. CASE \E k \in FreePids : Launched(t, k)
  <2>1. PICK k \in FreePids : Launched(t, k)
    BY <1>2
  <2>2. k \in Pids /\ os'[k].prog = Program[t]
    BY <2>1, LaunchedEffect DEF FreePids
  <2>3. \A p \in Pids : p # k =>
          /\ os'[p].st = os[p].st /\ os'[p].owner = os[p].owner
          /\ os'[p].prog = os[p].prog
          /\ os'[p].missed = (os[p].missed \/ p \in Matches(t))
    BY <2>1, <2>2, LaunchedEffect
  <2>4. \A p \in Pids : p # k /\ Owned(p)' /\ os'[p].prog = Program[t] => os'[p].missed
    BY <2>3 DEF Owned, Matches
  <2>5. \A p, r \in Pids :
          p # k /\ r # k /\ Owned(p)' /\ Owned(r)' /\ os'[p].prog = os'[r].prog
            /\ ~os'[p].missed /\ ~os'[r].missed => p = r
    BY <2>3 DEF NoDuplicate, Owned
  <2>6. ASSUME NEW p \in Pids, NEW r \in Pids, Owned(p)', Owned(r)',
               os'[p].prog = os'[r].prog, ~os'[p].missed, ~os'[r].missed
        PROVE  p = r
    BY <2>2, <2>4, <2>5, <2>6
  <2> QED BY <2>6 DEF NoDuplicate, Owned
<1> QED BY <1>1, <1>2, LaunchEffect

LEMMA NextUnique == ASSUME TypeOK, NoDuplicate, [Next]_vars PROVE NoDuplicate'
<1>1. ASSUME UNCHANGED vars \/ Configure \/ \E h \in Chans : Monitor(h) PROVE NoDuplicate'
  <2>1. UNCHANGED os
    BY <1>1 DEF vars, Configure, ReplaceTasks, EditTask, SetRestartOnCrash, RemoveTask,
       Monitor, ProbeFails, ProbeSucceeds, HealthStop, MonitorEnds
  <2> QED BY <2>1, SameProcesses, NoDuplicateStable
<1>2. ASSUME Command PROVE NoDuplicate'
  <2>1. ASSUME NEW t \in Tasks, Start(t) PROVE NoDuplicate'
    <3>1. Fresh(t) \in ProcType
      BY ZenonT(30) DEF Fresh, TypeOK, ProcType
    <3> QED BY <2>1, <3>1, LaunchUnique DEF Start
  <2>2. ASSUME NEW t \in Tasks, StartRefused(t) \/ \E x \in Callers : StopCall(x, t)
        PROVE  NoDuplicate'
    BY <2>2, SameProcesses, NoDuplicateStable DEF StartRefused, StopCall
  <2> QED BY <1>2, <2>1, <2>2 DEF Command
<1>3. ASSUME NEW x \in Threads, StopStep(x) PROVE NoDuplicate'
  <2>1. UNCHANGED os \/ os' = Killed(thread[x].pid)
    BY <1>3 DEF StopStep, KillAdopted, FinalizeAdopted, StopReturns, ForceStop, GiveUp
  <2> QED BY <2>1, SameProcesses, KilledLaunchesNothing, NoDuplicateStable
<1>4. ASSUME NEW k \in Pids, Reap(k) PROVE NoDuplicate'
  <2>1. os' = [os EXCEPT ![k] = NoProcess]
    BY <1>4 DEF Reap
  <2>2. NothingLaunched
    BY <2>1 DEF NothingLaunched, Owned, NoProcess, TypeOK
  <2> QED BY <2>2, NoDuplicateStable
<1>5. ASSUME NEW r \in Timers, TimerFires(r) PROVE NoDuplicate'
  <2> DEFINE t == timer[r]
             q == [proc[t] EXCEPT !.restart = NoTimer]
  <2>1. CASE UNCHANGED os
    BY <2>1, SameProcesses, NoDuplicateStable
  <2>2. CASE Launch(t, q)
    <3>1. t \in Tasks /\ q \in ProcType
      BY <1>5, SMTT(30) DEF TimerFires, TypeOK, ProcType
    <3> QED BY <2>2, <3>1, LaunchUnique
  <2> QED BY <1>5, <2>1, <2>2 DEF TimerFires
<1>6. ASSUME Environment PROVE NoDuplicate'
  <2>1. NothingLaunched
    BY <1>6 DEF Environment, ChildExits, ExternalStarts, ExternalExits, NothingLaunched,
       Owned, NoProcess, TypeOK, OsType, FreePids
  <2> QED BY <2>1, NoDuplicateStable
<1> QED BY <1>1, <1>2, <1>3, <1>4, <1>5, <1>6 DEF Next

(* The manager has two live children of one command line, of one task or of *)
(* two, only where a lookup overlooked one: startLocked looks for a match   *)
(* and launches under the same lock, and adopts what it finds               *)
(* (findExistingProcess of platform_unix.go, README.md:243).                *)
THEOREM CommandLinesUnique == Spec => []NoDuplicate
<1>1. Init => NoDuplicate
  BY InitForeign DEF NoDuplicate
<1>2. TypeOK /\ NoDuplicate /\ [Next]_vars => NoDuplicate'
  BY NextUnique
<1> QED BY <1>1, <1>2, TypeCorrect, PTL DEF Spec

------------------------------------------------------------------------------
(* The aim of a health stop.                                               *)

(* The thread th of the monitor that the record q of t refers to.           *)
Monitors(q, th, t) ==
  th.pc \in {"watching", "tripped"} =>
    /\ th.task = t
    /\ th.pc = "watching" => th.fails >= q.failures
    /\ q.status \notin Terminal => th.pid = q.pid

RunOK(q) == q.status \notin Terminal /\ q.cmd # NoPid => q.pid = q.cmd

(* A monitor that is still referred to watches the run of the record, and   *)
(* has itself seen every failure the record counts.                         *)
HealthOf(records, threads) ==
  /\ \A h \in Chans : threads[h].pc = "tripped" => threads[h].fails >= HealthThreshold
  /\ \A t \in Tasks : RunOK(records[t])
  /\ \A t \in Tasks, h \in Chans : records[t].health = h => Monitors(records[t], threads[h], t)

HealthInv == HealthOf(proc, thread)

(* Steps that start no monitor, and no run under an old one.                *)
NoNewMonitor ==
  \A h \in Chans : thread'[h].pc \in {"watching", "tripped"} => thread'[h] = thread[h]

Calmer(q1, q) ==
  /\ RunOK(q1)
  /\ \/ q1.health = NoChan
     \/ /\ q1.health = q.health /\ q1.failures \in {0, q.failures}
        /\ q1.status \notin Terminal => q.status \notin Terminal /\ q1.pid = q.pid

LEMMA HealthStable ==
  ASSUME TypeOK, HealthInv, NoNewMonitor, \A t \in Tasks : Calmer(proc'[t], proc[t])
  PROVE  HealthInv'
<1>1. \A h \in Chans : thread'[h].pc = "tripped" => thread'[h].fails >= HealthThreshold
  BY DEF HealthInv, HealthOf, NoNewMonitor
<1>2. \A t \in Tasks : RunOK(proc'[t])
  BY DEF Calmer
<1>3. ASSUME NEW t \in Tasks, NEW h \in Chans, proc'[t].health = h,
             thread'[h].pc \in {"watching", "tripped"}
      PROVE  Monitors(proc'[t], thread'[h], t)
  <2>1. thread'[h] = thread[h] /\ thread[h].fails \in Nat
    BY <1>3 DEF NoNewMonitor, TypeOK, ThreadType, Threads
  <2>2. /\ proc[t].health = h /\ proc'[t].failures \in {0, proc[t].failures}
        /\ proc'[t].status \notin Terminal =>
             proc[t].status \notin Terminal /\ proc'[t].pid = proc[t].pid
    BY <1>3, IdentityAssumption DEF Calmer
  <2>3. Monitors(proc[t], thread[h], t)
    BY <2>2 DEF HealthInv, HealthOf
  <2>4. 0 <= thread[h].fails
    BY <2>1
  <2> QED BY <1>3, <2>1, <2>2, <2>3, <2>4 DEF Monitors
<1>4. \A t \in Tasks, h \in Chans : proc'[t].health = h => Monitors(proc'[t], thread'[h], t)
  BY <1>3 DEF Monitors
<1> QED BY <1>1, <1>2, <1>4 DEF HealthInv, HealthOf

(* One record changes, to a calmer one.                                     *)
LEMMA CalmerStep ==
  ASSUME TypeOK, HealthInv, NoNewMonitor, NEW t \in Tasks, NEW q1,
         proc' = [proc EXCEPT ![t] = q1], Calmer(q1, proc[t])
  PROVE  HealthInv'
<1>1. \A u \in Tasks : Calmer(proc[u], proc[u])
  BY DEF HealthInv, HealthOf, Calmer
<1>2. \A u \in Tasks : proc'[u] = IF u = t THEN q1 ELSE proc[u]
  BY DEF TypeOK
<1> QED BY <1>1, <1>2, HealthStable

LEMMA CalmerSame ==
  ASSUME TypeOK, HealthInv, NoNewMonitor, UNCHANGED proc PROVE HealthInv'
<1>1. \A u \in Tasks : Calmer(proc[u], proc[u])
  BY DEF HealthInv, HealthOf, Calmer
<1> QED BY <1>1, HealthStable

LEMMA ThreadBecomes ==
  ASSUME TypeOK, NEW x \in Threads, NEW th, th.pc \notin {"watching", "tripped"},
         thread' = [thread EXCEPT ![x] = th]
  PROVE  NoNewMonitor
BY DEF NoNewMonitor, TypeOK, Threads

(* One record changes together with the monitor it alone refers to.         *)
LEMMA MonitorStep ==
  ASSUME TypeOK, HealthInv, NEW t \in Tasks, NEW h \in Chans, NEW q1, NEW th,
         proc' = [proc EXCEPT ![t] = q1], thread' = [thread EXCEPT ![h] = th],
         \A u \in Tasks : u # t => proc[u].health # h,
         q1.health = h, RunOK(q1), Monitors(q1, th, t),
         th.pc = "tripped" => th.fails >= HealthThreshold
  PROVE  HealthInv'
<1>1. \A u \in Tasks : proc'[u] = IF u = t THEN q1 ELSE proc[u]
  BY DEF TypeOK
<1>2. \A g \in Chans : thread'[g] = IF g = h THEN th ELSE thread[g]
  BY DEF TypeOK, Threads
<1>3. \A g \in Chans : thread'[g].pc = "tripped" => thread'[g].fails >= HealthThreshold
  BY <1>2 DEF HealthInv, HealthOf
<1>4. \A u \in Tasks : RunOK(proc'[u])
  BY <1>1 DEF HealthInv, HealthOf
<1>5. ASSUME NEW u \in Tasks, NEW g \in Chans, proc'[u].health = g
      PROVE  Monitors(proc'[u], thread'[g], u)
  <2>1. CASE u = t
    BY <1>1, <1>2, <1>5, <2>1
  <2>2. CASE u # t
    BY <1>1, <1>2, <1>5, <2>2 DEF HealthInv, HealthOf
  <2> QED BY <2>1, <2>2
<1> QED BY <1>3, <1>4, <1>5 DEF HealthInv, HealthOf

(* A monitor starts on a channel nobody refers to, with nothing counted.    *)
LEMMA StartMonitorHealth ==
  ASSUME TypeOK, HealthInv, NEW t \in Tasks, NEW q \in ProcType, RunOK(q), StartMonitor(t, q)
  PROVE  HealthInv'
<1>1. CASE q.cfg.health
  <2>1. PICK h \in FreeChans :
           /\ SetProc(t, [q EXCEPT !.health = h, !.failures = 0])
           /\ thread' = [thread EXCEPT ![h] = Watching(t, q.pid)]
    BY <1>1 DEF StartMonitor
  <2> DEFINE q1 == [q EXCEPT !.health = h, !.failures = 0]
             th == Watching(t, q.pid)
  <2>2. h \in Chans /\ h \in Threads /\ \A u \in Tasks : proc[u].health # h
    BY DEF FreeChans, Threads
  <2>3. proc' = [proc EXCEPT ![t] = q1] /\ thread' = [thread EXCEPT ![h] = th]
    BY <2>1 DEF SetProc
  <2>4. /\ q1.status = q.status /\ q1.pid = q.pid /\ q1.cmd = q.cmd
        /\ q1.health = h /\ q1.failures = 0
    BY DEF ProcType
  <2>5. th.pc = "watching" /\ th.task = t /\ th.pid = q.pid /\ th.fails = 0
    BY DEF Watching, Idle
  <2> HIDE DEF q1, th
  <2>6. RunOK(q1) /\ Monitors(q1, th, t)
    BY <2>4, <2>5 DEF RunOK, Monitors
  <2> QED BY <2>2, <2>3, <2>4, <2>5, <2>6, MonitorStep, ZenonT(30)
<1>2. CASE ~q.cfg.health
  <2>1. proc' = [proc EXCEPT ![t] = MonitorStopped(q)] /\ UNCHANGED thread
    BY <1>2 DEF StartMonitor, SetProc
  <2>2. Calmer(MonitorStopped(q), proc[t])
    BY DEF Calmer, MonitorStopped, RunOK, ProcType
  <2>3. NoNewMonitor
    BY <2>1 DEF NoNewMonitor
  <2> QED BY <2>1, <2>2, <2>3, CalmerStep
<1> QED BY <1>1, <1>2

LEMMA LaunchHealth ==
  ASSUME TypeOK, HealthInv, NEW t \in Tasks, NEW q \in ProcType, Launch(t, q),
         q.cmd = NoPid, q.health = proc[t].health, q.failures = proc[t].failures
  PROVE  HealthInv'
<1> DEFINE q0 == [q EXCEPT !.reason = "none"]
<1>1. CASE \E p \in Matches(t) : StartMonitor(t, [q0 EXCEPT !.status = "running", !.pid = p])
  <2>1. PICK p \in Matches(t) : StartMonitor(t, [q0 EXCEPT !.status = "running", !.pid = p])
    BY <1>1
  <2>2. [q0 EXCEPT !.status = "running", !.pid = p] \in ProcType
    BY DEF ProcType, Matches
  <2>3. RunOK([q0 EXCEPT !.status = "running", !.pid = p])
    BY DEF RunOK, ProcType
  <2> QED BY <2>1, <2>2, <2>3, StartMonitorHealth
<1>2. CASE \E p \in FreePids :
             StartMonitor(t, [q0 EXCEPT !.status = "running", !.pid = p, !.cmd = p])
  <2>1. PICK p \in FreePids :
          StartMonitor(t, [q0 EXCEPT !.status = "running", !.pid = p, !.cmd = p])
    BY <1>2
  <2>2. [q0 EXCEPT !.status = "running", !.pid = p, !.cmd = p] \in ProcType
    BY DEF ProcType, FreePids
  <2>3. RunOK([q0 EXCEPT !.status = "running", !.pid = p, !.cmd = p])
    BY DEF RunOK, ProcType
  <2> QED BY <2>1, <2>2, <2>3, StartMonitorHealth
<1>3. CASE SetProc(t, [q0 EXCEPT !.status = "failed"]) /\ UNCHANGED thread
  <2>1. Calmer([q0 EXCEPT !.status = "failed"], proc[t])
    BY DEF Calmer, RunOK, ProcType, Terminal
  <2>2. NoNewMonitor
    BY <1>3 DEF NoNewMonitor
  <2> QED BY <1>3, <2>1, <2>2, CalmerStep DEF SetProc
<1> QED BY <1>1, <1>2, <1>3 DEF Launch

(* An import gives every adopted task a channel of its own.                 *)
LEMMA InstalledHealth ==
  ASSUME NEW M \in SUBSET Tasks, NEW C \in SUBSET Chans,
         NEW c \in [M -> Configs], NEW a \in Adoptions(M), NEW h \in Channels(M, C),
         NEW th \in [Threads -> ThreadType],
         \A t \in M : h[t] # NoChan <=> NeedsChannel(c, a, t),
         \A g \in Chans : th[g].pc = "tripped" => th[g].fails >= HealthThreshold,
         NEW records, records = InstalledProcs(M, c, a, h),
         NEW threads, threads = InstalledThreads(M, c, a, h, th)
  PROVE  HealthOf(records, threads)
<1>1. ASSUME NEW t \in M
      PROVE  /\ records[t].health = (IF a[t] # NoPid /\ c[t].health THEN h[t] ELSE NoChan)
             /\ records[t].pid = a[t] /\ records[t].cmd = NoPid /\ records[t].failures = 0
  BY DEF InstalledProcs, Installed, NewProc
<1>2. ASSUME NEW t \in Tasks \ M PROVE records[t].health = NoChan /\ records[t].cmd = NoPid
  BY DEF InstalledProcs, Absent, NewProc
<1>3. ASSUME NEW g \in Chans
      PROVE  \/ threads[g] = th[g]
             \/ \E t \in M : h[t] = g /\ threads[g] = Watching(t, a[t])
  <2>1. g \in Threads
    BY DEF Threads
  <2> DEFINE W == \E t \in M : h[t] = g /\ a[t] # NoPid /\ c[t].health
  <2>2. CASE W
    <3> DEFINE u == CHOOSE t \in M : h[t] = g
    <3>1. u \in M /\ h[u] = g
      BY <2>2
    <3>2. threads[g] = Watching(u, a[u])
      BY <2>1, <2>2 DEF InstalledThreads
    <3> QED BY <3>1, <3>2
  <2>3. CASE ~W
    BY <2>1, <2>3 DEF InstalledThreads
  <2> QED BY <2>2, <2>3
<1>4. ASSUME NEW t \in M, NEW g \in Chans, records[t].health = g
      PROVE  threads[g] = Watching(t, a[t])
  <2>1. g # NoChan /\ g \in Threads
    BY IdentityAssumption DEF Threads
  <2>2. h[t] = g /\ a[t] # NoPid /\ c[t].health
    BY <1>1, <1>4, <2>1
  <2> DEFINE u == CHOOSE v \in M : h[v] = g
  <2>3. u \in M /\ h[u] = g
    BY <2>2
  <2>4. u = t
    BY <2>1, <2>2, <2>3 DEF Channels
  <2>5. threads[g] = Watching(u, a[u])
    BY <2>1, <2>2 DEF InstalledThreads
  <2> QED BY <2>4, <2>5
<1>5. ASSUME NEW t, NEW p
      PROVE  /\ Watching(t, p).pc = "watching" /\ Watching(t, p).task = t
             /\ Watching(t, p).pid = p /\ Watching(t, p).fails = 0
  BY DEF Watching, Idle
<1>6. \A g \in Chans : threads[g].pc = "tripped" => threads[g].fails >= HealthThreshold
  BY <1>3, <1>5
<1>7. ASSUME NEW t \in Tasks PROVE RunOK(records[t])
  BY <1>1, <1>2 DEF RunOK
<1>8. ASSUME NEW t \in Tasks, NEW g \in Chans, records[t].health = g
      PROVE  Monitors(records[t], threads[g], t)
  <2>1. t \in M
    BY <1>2, <1>8, IdentityAssumption
  <2> QED BY <1>1, <1>4, <1>5, <1>8, <2>1 DEF Monitors
<1> QED BY <1>6, <1>7, <1>8 DEF HealthOf

LEMMA ConfigureHealth == ASSUME TypeOK, HealthInv, Configure PROVE HealthInv'
<1>1. ASSUME NEW M \in SUBSET Tasks, ReplaceTasks(M) PROVE HealthInv'
  <2>1. FreeChans \in SUBSET Chans /\ thread \in [Threads -> ThreadType]
    BY DEF FreeChans, TypeOK
  <2>2. \A g \in Chans : thread[g].pc = "tripped" => thread[g].fails >= HealthThreshold
    BY DEF HealthInv, HealthOf
  <2>3. PICK c \in [M -> Configs], a \in Adoptions(M), h \in Channels(M, FreeChans) :
          /\ \A t \in M : h[t] # NoChan <=> NeedsChannel(c, a, t)
          /\ proc' = InstalledProcs(M, c, a, h)
          /\ thread' = InstalledThreads(M, c, a, h, thread)
    BY <1>1 DEF ReplaceTasks
  <2> QED BY <2>1, <2>2, <2>3, InstalledHealth DEF HealthInv
<1>2. ASSUME UNCHANGED thread PROVE NoNewMonitor
  BY <1>2 DEF NoNewMonitor
<1>3. ASSUME NEW t \in Tasks PROVE proc[t] \in ProcType /\ RunOK(proc[t])
  BY DEF TypeOK, HealthInv, HealthOf
<1>4. ASSUME NEW t \in Tasks, NEW c \in Configs, EditTask(t, c) PROVE HealthInv'
  <2>1. Calmer([proc[t] EXCEPT !.cfg = c, !.restart = NoTimer, !.count = 0], proc[t])
    BY <1>3 DEF Calmer, RunOK, ProcType
  <2>2. Calmer(NewProc(c), proc[t])
    BY DEF Calmer, RunOK, NewProc
  <2> QED BY <1>2, <1>4, <2>1, <2>2, CalmerStep DEF EditTask, SetProc
<1>5. ASSUME NEW t \in Tasks, NEW b \in BOOLEAN, SetRestartOnCrash(t, b) PROVE HealthInv'
  <2> DEFINE r == IF b THEN proc[t].restart ELSE NoTimer
             k == [proc[t].cfg EXCEPT !.restart = b]
             q1 == [proc[t] EXCEPT !.cfg = k, !.restart = r]
  <2>1. Calmer(q1, proc[t])
    <3> HIDE DEF r, k
    <3> QED BY <1>3 DEF Calmer, RunOK, ProcType
  <2>2. proc' = [proc EXCEPT ![t] = q1]
    BY <1>3, <1>5 DEF SetRestartOnCrash, SetProc, ProcType
  <2> QED BY <1>2, <1>5, <2>1, <2>2, CalmerStep DEF SetRestartOnCrash
<1>6. ASSUME NEW t \in Tasks, RemoveTask(t) PROVE HealthInv'
  <2>1. Calmer(Absent, proc[t])
    BY DEF Calmer, RunOK, Absent, NewProc
  <2> QED BY <1>2, <1>6, <2>1, CalmerStep DEF RemoveTask, SetProc
<1> QED BY <1>1, <1>4, <1>5, <1>6 DEF Configure

(* The record at the beginning of a stop refers to no monitor any more.     *)
LEMMA BeginStopHealth ==
  ASSUME TypeOK, HealthInv, NEW t \in Tasks, NEW x \in Threads, NEW q \in ProcType,
         NEW why \in {"user", "health"}, BeginStop(x, t, q, why), RunOK(q),
         q.status \notin Terminal
  PROVE  HealthInv'
<1>1. PICK q1 : /\ Becomes(t, q1) /\ SameRun(q1, q) /\ q1.health = NoChan
  BY BeginStopEffect
<1>2. Calmer(q1, proc[t])
  BY <1>1 DEF Calmer, RunOK, SameRun
<1>3. NoNewMonitor
  <2> DEFINE pc == IF q.cmd = NoPid THEN "kill" ELSE "term"
             pid == IF q.cmd = NoPid THEN q.pid ELSE q.cmd
             th == [thread[x] EXCEPT !.pc = pc, !.task = t, !.pid = pid, !.done = FALSE]
  <2>1. thread' = [thread EXCEPT ![x] = th] /\ thread[x] \in ThreadType
    BY DEF BeginStop, TypeOK
  <2>2. pc \in {"kill", "term"}
    OBVIOUS
  <2>3. th.pc = pc
    <3> HIDE DEF pc, pid
    <3> QED BY <2>1 DEF ThreadType
  <2> HIDE DEF th
  <2> QED BY <2>1, <2>2, <2>3, ThreadBecomes
<1> QED BY <1>1, <1>2, <1>3, CalmerStep DEF Becomes

LEMMA CommandHealth == ASSUME TypeOK, HealthInv, Command PROVE HealthInv'
<1>1. ASSUME NEW t \in Tasks
      PROVE  /\ proc[t] \in ProcType /\ RunOK(proc[t]) /\ Fresh(t) \in ProcType
             /\ Fresh(t).cmd = proc[t].cmd /\ Fresh(t).health = proc[t].health
             /\ Fresh(t).failures = proc[t].failures
  BY ZenonT(30) DEF TypeOK, HealthInv, HealthOf, Fresh, ProcType
<1>2. ASSUME NEW t \in Tasks, StartRefused(t) PROVE HealthInv'
  <2>1. Calmer(Fresh(t), proc[t])
    BY <1>1 DEF Fresh, Calmer, RunOK, ProcType
  <2>2. NoNewMonitor
    BY <1>2 DEF StartRefused, NoNewMonitor
  <2> QED BY <1>2, <2>1, <2>2, CalmerStep DEF StartRefused, SetProc
<1>3. ASSUME NEW t \in Tasks, Start(t) PROVE HealthInv'
  <2>1. proc[t].cmd = NoPid
    BY <1>3 DEF Start, Busy
  <2> QED BY <1>1, <1>3, <2>1, LaunchHealth DEF Start
<1>4. ASSUME NEW x \in Callers, NEW t \in Tasks, StopCall(x, t) PROVE HealthInv'
  <2> DEFINE q == [proc[t] EXCEPT !.restart = NoTimer, !.reason = "user"]
  <2>1. q \in ProcType /\ RunOK(q) /\ Calmer(q, proc[t]) /\ x \in Threads
    BY <1>1, ZenonT(30) DEF ProcType, RunOK, Calmer, Threads
  <2>2. CASE SetProc(t, q) /\ UNCHANGED thread
    BY <2>1, <2>2, CalmerStep DEF SetProc, NoNewMonitor
  <2>3. CASE BeginStop(x, t, q, "user") /\ q.status \notin Terminal
    <3> HIDE DEF q
    <3> QED BY <2>1, <2>3, BeginStopHealth
  <2> QED BY <1>4, <2>2, <2>3 DEF StopCall
<1> QED BY <1>2, <1>3, <1>4 DEF Command

LEMMA StopStepHealth ==
  ASSUME TypeOK, HealthInv, NEW x \in Threads, StopStep(x) PROVE HealthInv'
<1>0. thread[x] \in ThreadType
  BY DEF TypeOK
<1>1. ASSUME ThreadEnds(x) PROVE NoNewMonitor
  <2>1. Idle.pc = "idle"
    BY DEF Idle
  <2> QED BY <1>1, <2>1, ThreadBecomes DEF ThreadEnds
<1>2. ASSUME NEW pc \in {"finalize", "forced"}, thread' = [thread EXCEPT ![x].pc = pc]
      PROVE  NoNewMonitor
  <2>1. [thread[x] EXCEPT !.pc = pc].pc = pc
    BY <1>0 DEF ThreadType
  <2> QED BY <1>2, <2>1, ThreadBecomes
<1>3. CASE KillAdopted(x) \/ ForceStop(x) \/ StopReturns(x) \/ GiveUp(x)
  <2>1. UNCHANGED proc
    BY <1>3 DEF KillAdopted, ForceStop, StopReturns, GiveUp
  <2>2. NoNewMonitor
    BY <1>1, <1>2, <1>3 DEF KillAdopted, ForceStop, StopReturns, GiveUp, StopFails
  <2> QED BY <2>1, <2>2, CalmerSame
<1>4. CASE FinalizeAdopted(x)
  <2> DEFINE t == thread[x].task
             q == [proc[t] EXCEPT !.pid = NoPid]
  <2>1. NoNewMonitor
    BY <1>1, <1>4 DEF FinalizeAdopted
  <2>2. CASE Live(t)
    <3>1. t \in Tasks
      BY <2>2 DEF Live, TypeOK
    <3>2. /\ q \in ProcType /\ q.health = proc[t].health /\ q.failures = proc[t].failures
      BY <3>1 DEF TypeOK, ProcType
    <3>3. FinalizeStop(t, q)
      BY <1>4, <2>2 DEF FinalizeAdopted
    <3> HIDE DEF q
    <3>4. PICK q1 : /\ Becomes(t, q1) /\ q1.health = q.health /\ q1.failures = 0
                    /\ q1.status \in {"failed", "stopped"}
      BY <3>1, <3>2, <3>3, FinalizeStopEffect
    <3>5. Calmer(q1, proc[t])
      BY <3>2, <3>4 DEF Calmer, RunOK, Terminal
    <3> QED BY <2>1, <3>1, <3>4, <3>5, CalmerStep DEF Becomes
  <2>3. CASE ~Live(t)
    BY <1>4, <2>1, <2>3, CalmerSame DEF FinalizeAdopted
  <2> QED BY <2>2, <2>3
<1> QED BY <1>3, <1>4 DEF StopStep

(* The monitor of a current run is referred to by its own task only.        *)
LEMMA WatchedByOne ==
  ASSUME HealthInv, NEW h \in Chans, thread[h].pc = "watching", Watches(h),
         TypeOK, NEW t, t = thread[h].task
  PROVE  /\ t \in Tasks /\ h \in Threads /\ proc[t].health = h
         /\ proc[t] \in ProcType /\ thread[h] \in ThreadType
         /\ RunOK(proc[t]) /\ Monitors(proc[t], thread[h], t)
         /\ \A u \in Tasks : u # t => proc[u].health # h
<1>1. t \in Tasks /\ h \in Threads /\ proc[t].health = h
  BY DEF Watches, Live, TypeOK, Threads
<1>2. ASSUME NEW u \in Tasks, proc[u].health = h PROVE u = t
  BY <1>2 DEF HealthInv, HealthOf, Monitors
<1> QED BY <1>1, <1>2 DEF HealthInv, HealthOf, TypeOK

(* A failure is counted in the record and in the monitor alike.             *)
LEMMA ProbeFailsHealth ==
  ASSUME TypeOK, HealthInv, NEW h \in Chans, ProbeFails(h) PROVE HealthInv'
<1> DEFINE t == thread[h].task
           n == proc[t].failures + 1
           m == thread[h].fails + 1
           pc == IF n >= HealthThreshold THEN "tripped" ELSE "watching"
           q1 == [proc[t] EXCEPT !.failures = n]
           th == [thread[h] EXCEPT !.fails = m, !.pc = pc]
<1>1. thread[h].pc = "watching" /\ Watches(h)
  BY DEF ProbeFails
<1>2. /\ t \in Tasks /\ proc[t].health = h /\ proc[t] \in ProcType
      /\ thread[h] \in ThreadType /\ RunOK(proc[t])
      /\ Monitors(proc[t], thread[h], t)
      /\ \A u \in Tasks : u # t => proc[u].health # h
  BY <1>1, WatchedByOne
<1>3. proc[t].failures \in Nat /\ thread[h].fails \in Nat /\ HealthThreshold \in Nat
  BY <1>2, ConfigAssumption DEF ProcType, ThreadType
<1>4. m >= n
  BY <1>1, <1>2, <1>3 DEF Monitors
<1>5. (pc = "tripped" => m >= HealthThreshold) /\ pc \in {"watching", "tripped"}
  BY <1>3, <1>4
<1>6. proc' = [proc EXCEPT ![t] = q1] /\ thread' = [thread EXCEPT ![h] = th]
  BY <1>1 DEF ProbeFails, SetProc
<1> HIDE DEF n, m, pc
<1>7. /\ q1.status = proc[t].status /\ q1.pid = proc[t].pid /\ q1.cmd = proc[t].cmd
      /\ q1.health = h /\ q1.failures = n
  BY <1>2 DEF ProcType
<1>8. th.pc = pc /\ th.task = t /\ th.pid = thread[h].pid /\ th.fails = m
  BY <1>2 DEF ThreadType
<1> HIDE DEF q1, th
<1>9. RunOK(q1) /\ Monitors(q1, th, t)
  BY <1>1, <1>2, <1>4, <1>7, <1>8 DEF RunOK, Monitors
<1> QED BY <1>2, <1>5, <1>6, <1>7, <1>8, <1>9, MonitorStep

LEMMA ProbeSucceedsHealth ==
  ASSUME TypeOK, HealthInv, NEW h \in Chans, ProbeSucceeds(h) PROVE HealthInv'
<1> DEFINE t == thread[h].task
           q1 == [proc[t] EXCEPT !.failures = 0]
           th == [thread[h] EXCEPT !.fails = 0]
<1>1. thread[h].pc = "watching" /\ Watches(h)
  BY DEF ProbeSucceeds
<1>2. /\ t \in Tasks /\ proc[t].health = h /\ proc[t] \in ProcType
      /\ thread[h] \in ThreadType /\ RunOK(proc[t])
      /\ Monitors(proc[t], thread[h], t)
      /\ \A u \in Tasks : u # t => proc[u].health # h
  BY <1>1, WatchedByOne
<1>3. proc' = [proc EXCEPT ![t] = q1] /\ thread' = [thread EXCEPT ![h] = th]
  BY DEF ProbeSucceeds, SetProc
<1>4. /\ q1.status = proc[t].status /\ q1.pid = proc[t].pid /\ q1.cmd = proc[t].cmd
      /\ q1.health = h /\ q1.failures = 0
  BY <1>2 DEF ProcType
<1>5. th.pc = "watching" /\ th.task = t /\ th.pid = thread[h].pid /\ th.fails = 0
  BY <1>1, <1>2 DEF ThreadType
<1> HIDE DEF q1, th
<1>6. RunOK(q1) /\ Monitors(q1, th, t)
  BY <1>2, <1>4, <1>5, <1>1 DEF RunOK, Monitors
<1> QED BY <1>2, <1>3, <1>4, <1>5, <1>6, MonitorStep

LEMMA HealthStopHealth ==
  ASSUME TypeOK, HealthInv, NEW h \in Chans, HealthStop(h) \/ MonitorEnds(h) PROVE HealthInv'
<1> DEFINE t == thread[h].task
<1>1. h \in Threads
  BY DEF Threads
<1>2. CASE BeginStop(h, t, proc[t], "health") /\ Live(t) /\ proc[t].status \notin Terminal
  <2>1. t \in Tasks /\ proc[t] \in ProcType
    BY <1>2 DEF Live, TypeOK
  <2>2. RunOK(proc[t])
    BY <2>1 DEF HealthInv, HealthOf
  <2> QED BY <1>1, <1>2, <2>1, <2>2, BeginStopHealth
<1>3. CASE thread' = [thread EXCEPT ![h] = Idle] /\ UNCHANGED proc
  <2>1. NoNewMonitor
    BY <1>1, <1>3, ThreadBecomes DEF Idle
  <2> QED BY <1>3, <2>1, CalmerSame
<1> QED BY <1>2, <1>3 DEF HealthStop, MonitorEnds, ThreadEnds

LEMMA ReapHealth == ASSUME TypeOK, HealthInv, NEW k \in Pids, Reap(k) PROVE HealthInv'
<1> DEFINE t == os[k].owner
           q == [MonitorStopped(proc[t]) EXCEPT !.cmd = NoPid, !.pid = NoPid]
<1>1. t \in Tasks /\ proc[t] \in ProcType
  BY DEF Reap, TypeOK, OsType
<1>2. NoNewMonitor
  <2>1. \A x \in Threads :
          thread'[x] = IF thread[x].pc \in {"term", "forced"} /\ thread[x].pid = k
                       THEN [thread[x] EXCEPT !.done = TRUE] ELSE thread[x]
    BY DEF Reap
  <2>2. \A x \in Threads : [thread[x] EXCEPT !.done = TRUE].pc = thread[x].pc
    BY DEF TypeOK, ThreadType
  <2> QED BY <2>1, <2>2 DEF NoNewMonitor, Threads
<1>3. q \in ProcType /\ q.health = NoChan /\ q.cmd = NoPid
  <2>1. MonitorStopped(proc[t]) \in ProcType /\ MonitorStopped(proc[t]).health = NoChan
    BY <1>1 DEF MonitorStopped, ProcType
  <2> QED BY <2>1 DEF ProcType
<1>4. \/ UNCHANGED proc
      \/ FinalizeStop(t, q)
      \/ PrepareRestart(t, [q EXCEPT !.status = "exited"])
      \/ SetProc(t, [q EXCEPT !.status = "stopped", !.count = 0])
  BY DEF Reap
<1> HIDE DEF q
<1>5. CASE UNCHANGED proc
  BY <1>2, <1>5, CalmerSame
<1>6. CASE FinalizeStop(t, q)
  <2>1. PICK q1 : Becomes(t, q1) /\ SameRun(q1, q) /\ q1.health = q.health
    BY <1>1, <1>3, <1>6, FinalizeStopEffect
  <2>2. Calmer(q1, proc[t])
    BY <1>3, <2>1 DEF Calmer, RunOK, SameRun
  <2> QED BY <1>1, <1>2, <2>1, <2>2, CalmerStep DEF Becomes
<1>7. CASE PrepareRestart(t, [q EXCEPT !.status = "exited"])
  <2> DEFINE q2 == [q EXCEPT !.status = "exited"]
  <2>1. q2 \in ProcType /\ q2.cmd = NoPid /\ q2.health = NoChan
    BY <1>3 DEF ProcType, Terminal
  <2> HIDE DEF q2
  <2>2. PrepareRestart(t, q2)
    BY <1>7 DEF q2
  <2>3. PICK q1 : Becomes(t, q1) /\ SameRun(q1, q2) /\ q1.health = q2.health
    BY <1>1, <2>1, <2>2, PrepareRestartEffect
  <2>4. Calmer(q1, proc[t])
    BY <2>1, <2>3 DEF Calmer, RunOK, SameRun
  <2> QED BY <1>1, <1>2, <2>3, <2>4, CalmerStep DEF Becomes
<1>8. CASE SetProc(t, [q EXCEPT !.status = "stopped", !.count = 0])
  <2>1. Calmer([q EXCEPT !.status = "stopped", !.count = 0], proc[t])
    BY <1>3 DEF ProcType, Calmer, RunOK
  <2> QED BY <1>1, <1>2, <1>8, <2>1, CalmerStep DEF SetProc
<1> QED BY <1>4, <1>5, <1>6, <1>7, <1>8

LEMMA TimerFiresHealth ==
  ASSUME TypeOK, HealthInv, NEW r \in Timers, TimerFires(r) PROVE HealthInv'
<1> DEFINE t == timer[r]
           q == [proc[t] EXCEPT !.restart = NoTimer]
<1>1. t \in Tasks /\ proc[t] \in ProcType /\ RunOK(proc[t])
  BY DEF TimerFires, TypeOK, HealthInv, HealthOf
<1>2. /\ q \in ProcType /\ q.health = proc[t].health /\ q.failures = proc[t].failures
      /\ q.cmd = proc[t].cmd /\ Calmer(q, proc[t])
  BY <1>1 DEF ProcType, Calmer, RunOK
<1>3. CASE UNCHANGED <<proc, thread>>
  BY <1>3, CalmerSame DEF NoNewMonitor
<1>4. CASE SetProc(t, q) /\ UNCHANGED thread
  BY <1>1, <1>2, <1>4, CalmerStep DEF SetProc, NoNewMonitor
<1>5. CASE Launch(t, q) /\ ~Busy(q)
  <2>1. q.cmd = NoPid
    BY <1>5 DEF Busy
  <2> QED BY <1>1, <1>2, <1>5, <2>1, LaunchHealth
<1> QED BY <1>3, <1>4, <1>5 DEF TimerFires

LEMMA NextHealth == ASSUME TypeOK, HealthInv, [Next]_vars PROVE HealthInv'
<1>1. CASE UNCHANGED vars \/ Environment
  <2>1. UNCHANGED <<proc, thread>>
    BY <1>1 DEF vars, Environment, ChildExits, ExternalStarts, ExternalExits
  <2> QED BY <2>1, CalmerSame DEF NoNewMonitor
<1>2. ASSUME NEW h \in Chans, Monitor(h) PROVE HealthInv'
  BY <1>2, ProbeFailsHealth, ProbeSucceedsHealth, HealthStopHealth DEF Monitor
<1> QED BY <1>1, <1>2, ConfigureHealth, CommandHealth, StopStepHealth, ReapHealth,
        TimerFiresHealth DEF Next

LEMMA InitHealth == Init => HealthInv
<1> SUFFICES ASSUME Init PROVE HealthInv
  OBVIOUS
<1> DEFINE idle == [x \in Threads |-> Idle]
<1>1. PICK c \in [managed -> Configs], a \in Adoptions(managed), h \in Channels(managed, Chans) :
        /\ \A t \in managed : h[t] # NoChan <=> NeedsChannel(c, a, t)
        /\ proc = InstalledProcs(managed, c, a, h)
        /\ thread = InstalledThreads(managed, c, a, h, idle)
  BY DEF Init
<1>2. idle \in [Threads -> ThreadType]
  BY ConstantTypes
<1>3. \A g \in Chans : idle[g].pc = "tripped" => idle[g].fails >= HealthThreshold
  BY DEF Idle, Threads
<1>4. managed \in SUBSET Tasks /\ Chans \in SUBSET Chans
  BY DEF Init
<1> QED BY <1>1, <1>2, <1>3, <1>4, InstalledHealth DEF HealthInv

(* Only its own HealthStop turns a tripped monitor into a stop.             *)
LEMMA OnlyHealthStop ==
  ASSUME TypeOK, [Next]_vars, NEW h \in Chans,
         thread[h].pc = "tripped", thread'[h].pc \in {"kill", "term"}
  PROVE  HealthStop(h)
<1> h \in Threads /\ h \notin Callers
  BY IdentityAssumption DEF Threads
<1>0. thread'[h].pc # thread[h].pc /\ thread'[h].pc # "idle" /\ thread'[h].pc # "watching"
  OBVIOUS
<1>1. Idle.pc = "idle" /\ \A t, p : Watching(t, p).pc = "watching"
  BY DEF Idle, Watching
<1>2. ASSUME NEW t \in Tasks, NEW q, StartMonitor(t, q) PROVE FALSE
  BY <1>0, <1>1, <1>2 DEF StartMonitor, FreeChans, TypeOK
<1>3. ASSUME NEW t \in Tasks, NEW q, Launch(t, q) PROVE FALSE
  BY <1>0, <1>2, <1>3 DEF Launch
<1>4. ASSUME Configure PROVE FALSE
  <2>1. ASSUME NEW M \in SUBSET Tasks, ReplaceTasks(M) PROVE FALSE
    BY <1>0, <1>1, <2>1 DEF ReplaceTasks, InstalledThreads
  <2> QED BY <1>0, <1>4, <2>1 DEF Configure, EditTask, SetRestartOnCrash, RemoveTask
<1>5. ASSUME Command PROVE FALSE
  <2>1. ASSUME NEW x \in Callers, NEW t \in Tasks, StopCall(x, t) PROVE FALSE
    BY <1>0, <2>1 DEF StopCall, BeginStop, TypeOK
  <2> QED BY <1>0, <1>3, <1>5, <2>1 DEF Command, StartRefused, Start
<1>6. ASSUME NEW x \in Threads, StopStep(x) PROVE FALSE
  <2>1. thread[x].pc \in {"kill", "finalize", "term", "forced"}
    BY <1>6 DEF StopStep, KillAdopted, FinalizeAdopted, StopReturns, ForceStop, GiveUp
  <2>2. thread'[h] = thread[h]
    BY <1>6, <2>1 DEF StopStep, KillAdopted, FinalizeAdopted, StopReturns, ForceStop, GiveUp,
       StopFails, ThreadEnds, TypeOK
  <2> QED BY <1>0, <2>2
<1>7. ASSUME NEW g \in Chans, Monitor(g), ~HealthStop(h) PROVE FALSE
  <2>1. CASE ProbeFails(g) \/ ProbeSucceeds(g) \/ MonitorEnds(g)
    <3>1. g # h
      BY <2>1 DEF ProbeFails, ProbeSucceeds, MonitorEnds
    <3>2. thread'[h] = thread[h]
      BY <2>1, <3>1 DEF ProbeFails, ProbeSucceeds, MonitorEnds, ThreadEnds, TypeOK
    <3> QED BY <1>0, <3>2
  <2>2. CASE HealthStop(g)
    <3>1. g # h
      BY <1>7, <2>2
    <3>2. thread'[h] = thread[h]
      BY <2>2, <3>1 DEF HealthStop, BeginStop, TypeOK
    <3> QED BY <1>0, <3>2
  <2> QED BY <1>7, <2>1, <2>2 DEF Monitor
<1>8. ASSUME NEW k \in Pids, Reap(k) PROVE FALSE
  <2>1. thread'[h] = thread[h]
    BY <1>8 DEF Reap
  <2> QED BY <1>0, <2>1
<1>9. ASSUME NEW r \in Timers, TimerFires(r) PROVE FALSE
  <2>1. timer[r] \in Tasks
    BY <1>9 DEF TimerFires, TypeOK
  <2> QED BY <1>0, <1>3, <1>9, <2>1 DEF TimerFires
<1>10. ASSUME Environment \/ UNCHANGED vars PROVE FALSE
  BY <1>0, <1>10 DEF Environment, ChildExits, ExternalStarts, ExternalExits, vars
<1> QED BY <1>4, <1>5, <1>6, <1>7, <1>8, <1>9, <1>10 DEF Next

LEMMA HealthStopHits ==
  ASSUME TypeOK, HealthInv, NEW h \in Chans, HealthStop(h),
         thread'[h].pc \in {"kill", "term"}
  PROVE  thread'[h].pid = thread[h].pid /\ thread[h].fails >= HealthThreshold
<1> DEFINE t == thread[h].task
<1>1. h \in Threads /\ thread[h].pc = "tripped"
  BY DEF Threads, HealthStop
<1>2. /\ Live(t) /\ proc[t].status \notin Terminal /\ proc[t].health = h
      /\ BeginStop(h, t, proc[t], "health")
  BY <1>1 DEF HealthStop, Idle, TypeOK
<1>3. t \in Tasks
  BY <1>2 DEF Live, TypeOK
<1>4. RunOK(proc[t]) /\ Monitors(proc[t], thread[h], t)
  BY <1>2, <1>3 DEF HealthInv, HealthOf
<1>5. thread'[h].pid = IF proc[t].cmd = NoPid THEN proc[t].pid ELSE proc[t].cmd
  BY <1>1, <1>2 DEF BeginStop, TypeOK, ThreadType
<1> QED BY <1>1, <1>2, <1>4, <1>5 DEF RunOK, Monitors, HealthInv, HealthOf

(* A health stop ends the very process that its monitor probed, and only    *)
(* after HealthThreshold failures in a row which that monitor saw itself:   *)
(* the generation check of stopWithReason and recordHealthFailure.          *)
THEOREM HealthStopsAimed == Spec => HealthStopAim
<1>1. Init => HealthInv
  BY InitHealth
<1>2. TypeOK /\ HealthInv /\ [Next]_vars => HealthInv'
  BY NextHealth
<1> DEFINE Aim == \A h \in Chans :
              thread[h].pc = "tripped" /\ thread'[h].pc \in {"kill", "term"}
                => /\ thread'[h].pid = thread[h].pid
                   /\ thread[h].fails >= HealthThreshold
<1>3. TypeOK /\ HealthInv /\ [Next]_vars => [Aim]_vars
  BY OnlyHealthStop, HealthStopHits
<1> QED BY <1>1, <1>2, <1>3, TypeCorrect, PTL DEF Spec, HealthStopAim
==============================================================================
