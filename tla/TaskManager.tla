----------------------------- MODULE TaskManager -----------------------------
(***************************************************************************)
(* The task manager of internal/process/manager.go: the goroutines that    *)
(* start, watch, stop and restart the supervised processes.                *)
(*                                                                         *)
(* Every handler of the manager runs under Manager.mu, so a handler is one *)
(* action.  A stop is the exception: it gives the lock up while it waits   *)
(* for the process and takes it back, so it is a thread with a pc.         *)
(*                                                                         *)
(* Four kinds of goroutines interact:                                      *)
(*   - the callers of Stop (API requests, scheduled jobs, the shutdown);   *)
(*   - one health monitor per monitored run, named by its stop channel,    *)
(*     which itself becomes a stopping thread when the check fails often;  *)
(*   - one restart timer per scheduled restart, named by its cancel channel*)
(*   - one waiter per launched process, named by the process.              *)
(* Start, UpdateTask, RemoveTask and ReplaceTasks never give up the lock.  *)
(*                                                                         *)
(* Status "starting" is set and left within one critical section of        *)
(* startLocked, no other goroutine can see it, and it has no state here.   *)
(***************************************************************************)
EXTENDS Naturals, FiniteSets

CONSTANTS
  Tasks,            \* task IDs
  Pids,             \* operating-system process identifiers
  ExternalPids,     \* the pids that processes zlt did not start may have
  Callers,          \* threads that may be inside Manager.Stop at one time
  Chans,            \* identities of health-monitor stop channels
  Timers,           \* identities of restart cancel channels
  Program,          \* task -> the command line findExistingProcess looks for
  Configs,          \* the editable configurations of a task
  HealthThreshold,  \* HealthCheckFailureThreshold
  CrashBound,       \* bound: failures in a row the environment may cause
  KillMayFail,      \* may killProcessTree return an error?
  NoTask, NoPid, NoChan, NoTimer

ConfigType == [restart : BOOLEAN, max : Nat, health : BOOLEAN]

ASSUME ConfigAssumption ==
  /\ Configs \subseteq ConfigType
  /\ HealthThreshold \in Nat \ {0}
  /\ CrashBound \in Nat
  /\ KillMayFail \in BOOLEAN

ASSUME IdentityAssumption ==
  /\ ExternalPids \subseteq Pids
  /\ Callers \cap Chans = {}
  /\ NoTask \notin Tasks /\ NoPid \notin Pids
  /\ NoChan \notin Chans /\ NoTimer \notin Timers

VARIABLES
  managed,   \* the keys of Manager.procs
  proc,      \* task -> its managedProcess
  thread,    \* caller or monitor -> what it is doing
  timer,     \* cancel channel -> the task whose restart it delays
  os,        \* pid -> the process that has it
  asked,     \* history: a user Stop was asked for and stands
  autos      \* history: automatic restarts since the last deliberate start

vars == <<managed, proc, thread, timer, os, asked, autos>>

Threads  == Callers \cup Chans
Terminal == {"stopped", "exited", "failed"}
Programs == {Program[t] : t \in Tasks}

Idle   == [pc |-> "idle", task |-> NoTask, pid |-> NoPid, done |-> FALSE, fails |-> 0]
NoProcess == [st |-> "free", owner |-> NoTask, prog |-> NoTask, missed |-> FALSE]

(* A managedProcess as upsertTaskLocked creates it; cmd is the run that the *)
(* manager launched itself, pid alone stands for an adopted process.        *)
NewProc(c) ==
  [cfg |-> c, status |-> "stopped", pid |-> NoPid, cmd |-> NoPid,
   health |-> NoChan, failures |-> 0, restart |-> NoTimer, count |-> 0,
   reason |-> "none"]

NoConfig == [restart |-> FALSE, max |-> 0, health |-> FALSE]
Absent   == NewProc(NoConfig)

ProcType ==
  [cfg : ConfigType, status : Terminal \cup {"running", "stopping"},
   pid : Pids \cup {NoPid}, cmd : Pids \cup {NoPid},
   health : Chans \cup {NoChan}, failures : Nat,
   restart : Timers \cup {NoTimer}, count : Nat,
   reason : {"none", "user", "health"}]

ThreadType ==
  [pc : {"idle", "watching", "tripped", "kill", "finalize", "term", "forced"},
   task : Tasks \cup {NoTask}, pid : Pids \cup {NoPid}, done : BOOLEAN, fails : Nat]

OsType ==
  [st : {"free", "running", "clean", "crashed"},
   owner : Tasks \cup {NoTask}, prog : Programs \cup {NoTask},
   missed : BOOLEAN]  \* history: a launch of its command line did not find it

TypeOK ==
  /\ managed \subseteq Tasks
  /\ proc \in [Tasks -> ProcType]
  /\ thread \in [Threads -> ThreadType]
  /\ timer \in [Timers -> Tasks \cup {NoTask}]
  /\ os \in [Pids -> OsType]
  /\ asked \in [Tasks -> BOOLEAN]
  /\ autos \in [Tasks -> Nat]

------------------------------------------------------------------------------
(* Helpers: fresh identities and the processes of the machine.             *)

FreePids   == {p \in Pids : os[p].owner = NoTask /\ os[p].st = "free"}
FreeChans  == {h \in Chans : thread[h].pc = "idle" /\ \A t \in Tasks : proc[t].health # h}
FreeTimers == {r \in Timers : timer[r] = NoTask /\ \A t \in Tasks : proc[t].restart # r}

Live(t) == t \in managed

(* Faulty variant: zlt's own children are not looked at.                    *)
MatchesForeign(t) ==
  {p \in Pids : os[p].st = "running" /\ os[p].owner = NoTask /\ os[p].prog = Program[t]}

(* The live processes with the program and arguments of the task, whoever   *)
(* started them: what findExistingProcess looks for.                        *)
Matches(t) == {p \in Pids : os[p].st = "running" /\ os[p].prog = Program[t]}

Child(p, t) == os[p].st # "free" /\ os[p].owner = t

(* killProcessTree(p): it answers success when nobody has the pid.          *)
Killed(p) ==
  [os EXCEPT ![p] = IF @.st # "running" THEN @
                    ELSE IF @.owner = NoTask THEN NoProcess
                    ELSE [@ EXCEPT !.st = "crashed"]]

------------------------------------------------------------------------------
(* Sections of code that run under the lock as part of a handler; q is the  *)
(* managedProcess of t as the handler has left it so far.                   *)

SetProc(t, q) == proc' = [proc EXCEPT ![t] = q]

(* stopHealthMonitorLocked *)
MonitorStopped(q) == [q EXCEPT !.health = NoChan, !.failures = 0]

Watching(t, p) == [Idle EXCEPT !.pc = "watching", !.task = t, !.pid = p]

(* startHealthMonitorLocked, the last step of every successful start        *)
StartMonitor(t, q) ==
  IF q.cfg.health
  THEN \E h \in FreeChans :
         /\ SetProc(t, [q EXCEPT !.health = h, !.failures = 0])
         /\ thread' = [thread EXCEPT ![h] = Watching(t, q.pid)]
  ELSE SetProc(t, MonitorStopped(q)) /\ UNCHANGED thread

WithinBudget(q) == q.cfg.max = 0 \/ q.count < q.cfg.max

(* Faulty variant: the timer goroutine is not started.                      *)
PrepareRestartNoTimer(t, q) ==
  IF q.cfg.restart /\ WithinBudget(q)
  THEN \E r \in FreeTimers :
         SetProc(t, [q EXCEPT !.count = @ + 1, !.restart = r]) /\ UNCHANGED timer
  ELSE SetProc(t, [q EXCEPT !.count = @ + 1, !.restart = NoTimer]) /\ UNCHANGED timer

(* prepareRestartLocked: count the failure, drop the previous timer and     *)
(* start a new one when the task may still be restarted.                    *)
PrepareRestart(t, q) ==
  IF q.cfg.restart /\ WithinBudget(q)
  THEN \E r \in FreeTimers :
         /\ SetProc(t, [q EXCEPT !.count = @ + 1, !.restart = r])
         /\ timer' = [timer EXCEPT ![r] = t]
  ELSE SetProc(t, [q EXCEPT !.count = @ + 1, !.restart = NoTimer]) /\ UNCHANGED timer

(* finalizeStopLocked: the reason decides whether the task may come back.   *)
FinalizeStop(t, q) ==
  LET q0 == [q EXCEPT !.reason = "none", !.failures = 0]
  IN  IF q.reason = "health"
      THEN PrepareRestart(t, [q0 EXCEPT !.status = "failed"])
      ELSE SetProc(t, [q0 EXCEPT !.status = "stopped", !.count = 0]) /\ UNCHANGED timer

(* The child k of t, launched while the lookup missed the processes of S.   *)
WithChild(k, t, S) ==
  [p \in Pids |->
     IF p = k
     THEN [st |-> "running", owner |-> t, prog |-> Program[t], missed |-> FALSE]
     ELSE IF p \in S THEN [os[p] EXCEPT !.missed = TRUE] ELSE os[p]]

(* startLocked past its guard.  findExistingProcess sees any part of the    *)
(* matches: ps fails, or a process is passed over because its identity      *)
(* cannot be read, has changed, or is that of an interpreter.  One that it  *)
(* sees is adopted.  When it sees none there is a launch, which may fail.   *)
Launch(t, q0) ==
  LET q == [q0 EXCEPT !.reason = "none"]
  IN \E seen \in SUBSET Matches(t) :
       \/ \E p \in seen :
            /\ StartMonitor(t, [q EXCEPT !.status = "running", !.pid = p])
            /\ UNCHANGED os
       \/ /\ seen = {}
          /\ \E k \in FreePids :
               /\ os' = WithChild(k, t, Matches(t) \ seen)
               /\ StartMonitor(t, [q EXCEPT !.status = "running", !.pid = k, !.cmd = k])
       \/ /\ seen = {}
          /\ SetProc(t, [q EXCEPT !.status = "failed"])
          /\ UNCHANGED <<os, thread>>

(* stopWithReason up to the unlock.  The thread goes on without the lock:   *)
(* "kill" for an adopted process, "term" for a launched one.                *)
BeginStop(x, t, q, why) ==
  /\ SetProc(t, [MonitorStopped(q) EXCEPT !.status = "stopping", !.reason = why])
  /\ thread' = [thread EXCEPT ![x] =
       [@ EXCEPT !.pc   = IF q.cmd = NoPid THEN "kill" ELSE "term",
                 !.task = t,
                 !.pid  = IF q.cmd = NoPid THEN q.pid ELSE q.cmd,
                 !.done = FALSE]]

(* Faulty variant: a stop in progress is overlooked.                        *)
BusyUnlessStopping(q) == q.cmd # NoPid /\ q.status = "running"

(* What start, edit, delete and import refuse to touch.                     *)
Busy(q) == q.cmd # NoPid \/ q.status \notin Terminal

------------------------------------------------------------------------------
(* Manager construction and import: every task gets a new managedProcess,   *)
(* already running if findExistingProcess knows a process for it.           *)

Installed(c, p, h) ==
  [NewProc(c) EXCEPT !.status = IF p = NoPid THEN "stopped" ELSE "running",
                     !.pid = p,
                     !.health = IF p # NoPid /\ c.health THEN h ELSE NoChan]

InstalledProcs(M, c, a, h) ==
  [t \in Tasks |-> IF t \in M THEN Installed(c[t], a[t], h[t]) ELSE Absent]

InstalledThreads(M, c, a, h, th) ==
  [x \in Threads |->
     IF \E t \in M : h[t] = x /\ a[t] # NoPid /\ c[t].health
     THEN LET t == CHOOSE t \in M : h[t] = x IN Watching(t, a[t])
     ELSE th[x]]

(* What findExistingProcess answers for each task of an installed set: a    *)
(* match, or none, as it does when it cannot tell.                          *)
Adoptions(M) ==
  {a \in [M -> Pids \cup {NoPid}] : \A t \in M : a[t] \in Matches(t) \cup {NoPid}}

(* A new stop channel for each task, and none for two of them.              *)
Channels(M, C) ==
  {h \in [M -> C \cup {NoChan}] :
     \A t, u \in M : t # u => h[t] # h[u] \/ h[t] = NoChan}

NeedsChannel(c, a, t) == a[t] # NoPid /\ c[t].health

ExternalStates ==
  {o \in [Pids -> {NoProcess} \cup [st : {"running"}, owner : {NoTask}, prog : Programs,
                                    missed : {FALSE}]] :
     \A p \in Pids \ ExternalPids : o[p] = NoProcess}

(* NewManager.  Processes that survived an earlier zlt may be running.      *)
Init ==
  /\ managed \in SUBSET Tasks
  /\ os \in ExternalStates
  /\ timer = [r \in Timers |-> NoTask]
  /\ asked = [t \in Tasks |-> FALSE]
  /\ autos = [t \in Tasks |-> 0]
  /\ \E c \in [managed -> Configs], a \in Adoptions(managed), h \in Channels(managed, Chans) :
       /\ \A t \in managed : h[t] # NoChan <=> NeedsChannel(c, a, t)
       /\ proc = InstalledProcs(managed, c, a, h)
       /\ thread = InstalledThreads(managed, c, a, h, [x \in Threads |-> Idle])

(* ReplaceTasks after its save: refused while anything runs.  Closing the   *)
(* channels of the old entries is what leaves their timers and monitors     *)
(* without an entry that refers to them.                                    *)
ReplaceTasks(M) ==
  /\ \A t \in managed : ~Busy(proc[t])
  /\ managed' = M
  /\ \E c \in [M -> Configs], a \in Adoptions(M), h \in Channels(M, FreeChans) :
       /\ \A t \in M : h[t] # NoChan <=> NeedsChannel(c, a, t)
       /\ proc' = InstalledProcs(M, c, a, h)
       /\ thread' = InstalledThreads(M, c, a, h, thread)
  /\ asked' = [t \in Tasks |-> FALSE]
  /\ autos' = [t \in Tasks |-> 0]
  /\ UNCHANGED <<timer, os>>

(* UpdateTask with requireStopped, after its save: a new task, or a stopped *)
(* one whose waiting restart and retry count are dropped.                   *)
EditTask(t, c) ==
  /\ Live(t) => ~Busy(proc[t])
  /\ managed' = managed \cup {t}
  /\ SetProc(t, IF Live(t)
                THEN [proc[t] EXCEPT !.cfg = c, !.restart = NoTimer, !.count = 0]
                ELSE NewProc(c))
  /\ autos' = [autos EXCEPT ![t] = 0]
  /\ UNCHANGED <<thread, timer, os, asked>>

(* UpdateTask without requireStopped: the restart policy of a task, running *)
(* or not.  Switching it off also cancels the restart that waits.           *)
SetRestartOnCrash(t, enabled) ==
  /\ Live(t)
  /\ SetProc(t, [proc[t] EXCEPT !.cfg.restart = enabled,
                                !.restart = IF enabled THEN @ ELSE NoTimer])
  /\ UNCHANGED <<managed, thread, timer, os, asked, autos>>

(* RemoveTaskAfterSave *)
RemoveTask(t) ==
  /\ Live(t) /\ ~Busy(proc[t])
  /\ managed' = managed \ {t}
  /\ SetProc(t, Absent)
  /\ asked' = [asked EXCEPT ![t] = FALSE]
  /\ autos' = [autos EXCEPT ![t] = 0]
  /\ UNCHANGED <<thread, timer, os>>

------------------------------------------------------------------------------
(* Start (startLocked with freshRun).  The waiting restart and the retry    *)
(* count are dropped before the guard, so even by a Start that is refused.  *)

Fresh(t) == [proc[t] EXCEPT !.restart = NoTimer, !.count = 0]

StartRefused(t) ==
  /\ Live(t) /\ Busy(proc[t])
  /\ SetProc(t, Fresh(t))
  /\ autos' = [autos EXCEPT ![t] = 0]
  /\ UNCHANGED <<managed, thread, timer, os, asked>>

Start(t) ==
  /\ Live(t) /\ ~Busy(proc[t])
  /\ Launch(t, Fresh(t))
  /\ asked' = [asked EXCEPT ![t] = FALSE]
  /\ autos' = [autos EXCEPT ![t] = 0]
  /\ UNCHANGED <<managed, timer>>

------------------------------------------------------------------------------
(* Stop and its thread.                                                    *)

(* Faulty variant: a Stop of a task that is down does nothing at all.       *)
StopCallIfRunning(x, t) ==
  LET q == [proc[t] EXCEPT !.restart = NoTimer, !.reason = "user"]
  IN /\ thread[x].pc = "idle" /\ Live(t)
     /\ IF q.status \in Terminal
        THEN UNCHANGED <<proc, thread>>
        ELSE BeginStop(x, t, q, "user")
     /\ asked' = [asked EXCEPT ![t] = TRUE]
     /\ UNCHANGED <<managed, timer, os, autos>>

(* stopWithReason for a user.  A task that is down stays so: only the       *)
(* waiting restart is cancelled, and the call has already succeeded.        *)
StopCall(x, t) ==
  LET q == [proc[t] EXCEPT !.restart = NoTimer, !.reason = "user"]
  IN /\ thread[x].pc = "idle" /\ Live(t)
     /\ IF q.status \in Terminal
        THEN SetProc(t, q) /\ UNCHANGED thread
        ELSE BeginStop(x, t, q, "user")
     /\ asked' = [asked EXCEPT ![t] = TRUE]
     /\ UNCHANGED <<managed, timer, os, autos>>

(* Faulty variant: the monitor does not ask whether the run is still its own.*)
HealthStopAnyRun(h) ==
  LET t == thread[h].task
  IN /\ thread[h].pc = "tripped"
     /\ IF Live(t) /\ proc[t].status \notin Terminal
        THEN BeginStop(h, t, proc[t], "health")
        ELSE thread' = [thread EXCEPT ![h] = Idle] /\ UNCHANGED proc
     /\ UNCHANGED <<managed, timer, os, asked, autos>>

(* stopWithReason for a monitor that has seen enough failures.              *)
HealthStop(h) ==
  LET t == thread[h].task
  IN /\ thread[h].pc = "tripped"
     /\ IF Live(t) /\ proc[t].status \notin Terminal /\ proc[t].health = h
        THEN BeginStop(h, t, proc[t], "health")
        ELSE thread' = [thread EXCEPT ![h] = Idle] /\ UNCHANGED proc
     /\ UNCHANGED <<managed, timer, os, asked, autos>>

ThreadEnds(x) == thread' = [thread EXCEPT ![x] = Idle]

(* The call returns an error: it promises nothing about the task.           *)
StopFails(x) ==
  /\ ThreadEnds(x)
  /\ asked' = [asked EXCEPT ![thread[x].task] = FALSE]

(* The kill of an adopted process, without the lock.                        *)
KillAdopted(x) ==
  /\ thread[x].pc = "kill"
  /\ \/ /\ os' = Killed(thread[x].pid)
        /\ thread' = [thread EXCEPT ![x].pc = "finalize"]
        /\ UNCHANGED asked
     \/ /\ KillMayFail
        /\ StopFails(x)
        /\ UNCHANGED os
  /\ UNCHANGED <<managed, proc, timer, autos>>

(* The lock again: whatever entry the task has by now is finalized.         *)
FinalizeAdopted(x) ==
  LET t == thread[x].task
  IN /\ thread[x].pc = "finalize"
     /\ IF Live(t)
        THEN FinalizeStop(t, [proc[t] EXCEPT !.pid = NoPid])
        ELSE UNCHANGED <<proc, timer>>
     /\ ThreadEnds(x)
     /\ UNCHANGED <<managed, os, asked, autos>>

(* Faulty variant: Stop does not wait for the process to be gone.           *)
StopReturnsAtOnce(x) ==
  /\ thread[x].pc \in {"term", "forced"}
  /\ ThreadEnds(x)
  /\ UNCHANGED <<managed, proc, timer, os, asked, autos>>

(* The launched process is gone and its done channel closed.                *)
StopReturns(x) ==
  /\ thread[x].pc \in {"term", "forced"} /\ thread[x].done
  /\ ThreadEnds(x)
  /\ UNCHANGED <<managed, proc, timer, os, asked, autos>>

(* Faulty variant: no timeout, the kill only follows the exit.              *)
ForceStopWhenDone(x) ==
  /\ thread[x].pc = "term" /\ thread[x].done
  /\ thread' = [thread EXCEPT ![x].pc = "forced"]
  /\ UNCHANGED <<managed, proc, timer, os, asked, autos>>

(* The stop timeout: kill the tree and wait once more.  The timeout may win *)
(* the select although done has been closed meanwhile.                      *)
ForceStop(x) ==
  /\ thread[x].pc = "term"
  /\ \/ /\ os' = Killed(thread[x].pid)
        /\ thread' = [thread EXCEPT ![x].pc = "forced"]
        /\ UNCHANGED asked
     \/ /\ KillMayFail
        /\ StopFails(x)
        /\ UNCHANGED os
  /\ UNCHANGED <<managed, proc, timer, autos>>

(* Three seconds after the kill Stop gives up.                              *)
GiveUp(x) ==
  /\ thread[x].pc = "forced"
  /\ StopFails(x)
  /\ UNCHANGED <<managed, proc, timer, os, autos>>

------------------------------------------------------------------------------
(* Faulty variant: a clean exit clears the process but not the status.      *)
ReapKeepingStatus(p) ==
  LET t == os[p].owner
      q == [MonitorStopped(proc[t]) EXCEPT !.cmd = NoPid, !.pid = NoPid]
  IN /\ t # NoTask /\ os[p].st \in {"clean", "crashed"}
     /\ os' = [os EXCEPT ![p] = NoProcess]
     /\ IF os[p].st = "crashed" THEN PrepareRestart(t, [q EXCEPT !.status = "exited"])
        ELSE SetProc(t, q) /\ UNCHANGED timer
     /\ UNCHANGED <<managed, thread, asked, autos>>

(* wait: a launched process has been reaped.  Its record is cleared only if *)
(* it still is the process of the task; every stop that waits is released.  *)
Reap(p) ==
  LET t == os[p].owner
      q == [MonitorStopped(proc[t]) EXCEPT !.cmd = NoPid, !.pid = NoPid]
  IN /\ t # NoTask /\ os[p].st \in {"clean", "crashed"}
     /\ os' = [os EXCEPT ![p] = NoProcess]
     /\ thread' = [x \in Threads |->
          IF thread[x].pc \in {"term", "forced"} /\ thread[x].pid = p
          THEN [thread[x] EXCEPT !.done = TRUE] ELSE thread[x]]
     /\ IF ~(Live(t) /\ proc[t].cmd = p)
        THEN UNCHANGED <<proc, timer>>
        ELSE IF q.status = "stopping" THEN FinalizeStop(t, q)
        ELSE IF os[p].st = "crashed" THEN PrepareRestart(t, [q EXCEPT !.status = "exited"])
        ELSE SetProc(t, [q EXCEPT !.status = "stopped", !.count = 0]) /\ UNCHANGED timer
     /\ UNCHANGED <<managed, asked, autos>>

(* Faulty variant: a timer does not ask whether it is the current one.      *)
RestartingByPolicy(r) ==
  LET t == timer[r] IN Live(t) /\ proc[t].cfg.restart

(* scheduleRestart after its delay.  A timer that was cancelled ends here   *)
(* too: either its select sees the closed channel, or it sees the guard.    *)
Restarting(r) ==
  LET t == timer[r] IN Live(t) /\ proc[t].restart = r /\ proc[t].cfg.restart

TimerFires(r) ==
  LET t == timer[r]
      q == [proc[t] EXCEPT !.restart = NoTimer]
  IN /\ t # NoTask
     /\ timer' = [timer EXCEPT ![r] = NoTask]
     /\ IF ~Restarting(r)
        THEN UNCHANGED <<proc, thread, os, autos>>
        ELSE IF Busy(q) \/ (q.cfg.max > 0 /\ q.count > q.cfg.max)
        THEN SetProc(t, q) /\ UNCHANGED <<thread, os, autos>>
        ELSE Launch(t, q) /\ autos' = [autos EXCEPT ![t] = @ + 1]
     /\ UNCHANGED <<managed, asked>>

------------------------------------------------------------------------------
(* The health monitor: one probe per tick until its channel is closed.     *)

Watches(h) ==
  LET t == thread[h].task
  IN Live(t) /\ proc[t].health = h /\ proc[t].status \notin Terminal

(* A failed probe.  recordHealthFailure counts it only for its own run.     *)
ProbeFails(h) ==
  LET t == thread[h].task
      n == proc[t].failures + 1
  IN /\ thread[h].pc = "watching" /\ proc[t].count < CrashBound
     /\ Watches(h)
     /\ SetProc(t, [proc[t] EXCEPT !.failures = n])
     /\ thread' = [thread EXCEPT ![h] =
          [thread[h] EXCEPT !.fails = @ + 1,
                            !.pc = IF n >= HealthThreshold THEN "tripped" ELSE @]]
     /\ UNCHANGED <<managed, timer, os, asked, autos>>

ProbeSucceeds(h) ==
  LET t == thread[h].task
  IN /\ thread[h].pc = "watching" /\ Watches(h)
     /\ SetProc(t, [proc[t] EXCEPT !.failures = 0])
     /\ thread' = [thread EXCEPT ![h].fails = 0]
     /\ UNCHANGED <<managed, timer, os, asked, autos>>

(* The select of runHealthMonitor sees its closed stop channel.             *)
MonitorEnds(h) ==
  /\ thread[h].pc = "watching"
  /\ \A t \in managed : proc[t].health # h
  /\ ThreadEnds(h)
  /\ UNCHANGED <<managed, proc, timer, os, asked, autos>>

------------------------------------------------------------------------------
(* The environment: processes end by themselves or after SIGTERM, and       *)
(* processes that zlt did not start come and go.                            *)

ChildExits(p, how) ==
  LET t == os[p].owner
  IN /\ t # NoTask /\ os[p].st = "running"
     /\ how = "crashed" => proc[t].count < CrashBound
     /\ os' = [os EXCEPT ![p].st = how]
     /\ UNCHANGED <<managed, proc, thread, timer, asked, autos>>

ExternalStarts(p, g) ==
  /\ p \in ExternalPids \cap FreePids
  /\ os' = [os EXCEPT ![p] =
       [st |-> "running", owner |-> NoTask, prog |-> g, missed |-> FALSE]]
  /\ UNCHANGED <<managed, proc, thread, timer, asked, autos>>

ExternalExits(p) ==
  /\ os[p].st = "running" /\ os[p].owner = NoTask
  /\ os' = [os EXCEPT ![p] = NoProcess]
  /\ UNCHANGED <<managed, proc, thread, timer, asked, autos>>

Configure ==
  \/ \E M \in SUBSET Tasks : ReplaceTasks(M)
  \/ \E t \in Tasks, c \in Configs : EditTask(t, c)
  \/ \E t \in Tasks, b \in BOOLEAN : SetRestartOnCrash(t, b)
  \/ \E t \in Tasks : RemoveTask(t)

Command ==
  \/ \E t \in Tasks : StartRefused(t) \/ Start(t)
  \/ \E x \in Callers, t \in Tasks : StopCall(x, t)

StopStep(x) ==
  KillAdopted(x) \/ FinalizeAdopted(x) \/ StopReturns(x) \/ ForceStop(x) \/ GiveUp(x)

Monitor(h) == ProbeFails(h) \/ ProbeSucceeds(h) \/ HealthStop(h) \/ MonitorEnds(h)

Environment ==
  \/ \E p \in Pids, how \in {"clean", "crashed"} : ChildExits(p, how)
  \/ \E p \in Pids, g \in Programs : ExternalStarts(p, g)
  \/ \E p \in Pids : ExternalExits(p)

Next ==
  \/ Configure
  \/ Command
  \/ \E x \in Threads : StopStep(x)
  \/ \E h \in Chans : Monitor(h)
  \/ \E p \in Pids : Reap(p)
  \/ \E r \in Timers : TimerFires(r)
  \/ Environment

Spec == Init /\ [][Next]_vars

(* Goroutines that the Go scheduler runs to their end: the stopping threads *)
(* (their waits are bounded by timeouts), the waiters, the restart timers   *)
(* and a tripped monitor.  Callers, probes and processes owe nothing.       *)
Fairness ==
  /\ \A x \in Threads : WF_vars(StopStep(x))
  /\ \A h \in Chans : WF_vars(HealthStop(h)) /\ WF_vars(MonitorEnds(h))
  /\ \A p \in Pids : WF_vars(Reap(p))
  /\ \A r \in Timers : WF_vars(TimerFires(r))

FairSpec == Spec /\ Fairness

------------------------------------------------------------------------------
(* Properties.                                                             *)

(* No process is orphaned: every process the manager launched and has not   *)
(* yet reaped belongs to a task that is still managed, and is the cmd of    *)
(* that task.  Remove, import and a second start must never lose one, or no *)
(* later Stop could reach it.                                               *)
ChildOwned ==
  \A p \in Pids, t \in Tasks : Child(p, t) => Live(t) /\ proc[t].cmd = p

(* The shown status is not a lie: a task with a launched process is running *)
(* or stopping, and a task without any process is in a terminal status.     *)
(* Start, Stop, edit, delete and import all decide by the status.           *)
StatusTruth ==
  \A t \in managed :
    /\ proc[t].cmd # NoPid => proc[t].status \notin Terminal /\ proc[t].pid = proc[t].cmd
    /\ proc[t].status \notin Terminal => proc[t].pid # NoPid

(* While a user's Stop stands, nothing is waiting to bring the task back,   *)
(* and a stop that is in progress will not end in a restart even if it was  *)
(* begun by the health monitor.                                             *)
UserStopSticks ==
  \A t \in managed : asked[t] =>
    /\ proc[t].restart = NoTimer
    /\ proc[t].status # "running"
    /\ proc[t].status = "stopping" => proc[t].reason = "user"

(* When a user's Stop stands and no stop of the task is still in progress,  *)
(* no process the manager launched for the task is left: what Stop reports  *)
(* as done is done.                                                         *)
StopIsDone ==
  \A t \in Tasks :
    asked[t] /\ (\A x \in Threads : thread[x].task = t => thread[x].pc \in {"watching", "tripped"})
      => \A p \in Pids : ~Child(p, t)

(* Two live children of one command line, of one task or of two, are only   *)
(* there because the lookup of the later launch overlooked the earlier one: *)
(* a lookup that sees what runs never leads to a duplicate (README.md:243:  *)
(* adopt to avoid a second start, but not what cannot be identified).  So   *)
(* of the children of a command line at most one has never been overlooked. *)
NoDuplicate ==
  \A p, q \in Pids :
    /\ os[p].st = "running" /\ os[q].st = "running" /\ os[p].prog = os[q].prog
    /\ os[p].owner # NoTask /\ os[q].owner # NoTask
    /\ ~os[p].missed /\ ~os[q].missed
    => p = q

(* A health stop hits the run its monitor watched, never a later one of the *)
(* same task that was started while the monitor was on its way to the lock, *)
(* and only on HealthThreshold failures in a row that the monitor saw       *)
(* itself: probes of an earlier run do not count.                           *)
HealthStopAim ==
  [][\A h \in Chans :
       thread[h].pc = "tripped" /\ thread'[h].pc \in {"kill", "term"}
         => /\ thread'[h].pid = thread[h].pid
            /\ thread[h].fails >= HealthThreshold]_vars

(* Whoever is in Stop gets an answer, and a stop in progress comes to its   *)
(* end: the two timeouts and the waiter leave nobody waiting for the others.*)
StopsEnd ==
  /\ \A x \in Callers : thread[x].pc # "idle" ~> thread[x].pc = "idle"
  /\ \A t \in Tasks : proc[t].status = "stopping" ~> proc[t].status # "stopping"

(* A crashed task whose restart is pending is brought back, reported as     *)
(* failed, or its restart is cancelled: it does not stay pending.           *)
RestartHappens ==
  \A t \in Tasks : proc[t].restart # NoTimer ~> proc[t].restart = NoTimer

(* Supervised as TaskManager implements it: the record of a task read off   *)
(* its managedProcess, the processes of the machine and the history.        *)
TaskRecord(t) ==
  [phase    |-> IF ~Live(t) THEN "absent"
                ELSE IF proc[t].status \in Terminal THEN "down"
                ELSE IF proc[t].status = "stopping" THEN "stopping" ELSE "up",
   policy   |-> [restart |-> proc[t].cfg.restart, max |-> proc[t].cfg.max],
   waiting  |-> proc[t].restart # NoTimer,
   halted   |-> asked[t],
   restarts |-> autos[t],
   alive    |-> \E p \in Pids : Child(p, t)]

Promise == INSTANCE Supervised WITH task <- [t \in Tasks |-> TaskRecord(t)]

(* The manager implements what Supervised promises: a task comes up only by *)
(* a deliberate start or by a waiting restart within its budget that no     *)
(* user's stop has called off, and never with two processes at a time.      *)
TasksSupervised == Promise!Spec
==============================================================================
