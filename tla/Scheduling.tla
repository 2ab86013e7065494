------------------------------ MODULE Scheduling ------------------------------
(***************************************************************************)
(* Scheduled runs: internal/scheduler/scheduler.go together with the       *)
(* runtime that it drives and reports to (internal/app/schedule_runtime.go *)
(* and runtime.go), up to the end of Runtime.Shutdown.                     *)
(*                                                                         *)
(* A thread is a goroutine inside the runtime: a run that cron fired, a run*)
(* asked for by RunScheduleNow, or an API request that starts, stops or    *)
(* restarts a task.  A run takes no lock between its steps: it looks at the*)
(* task, acts on it, and reports.  Runtime.mu is a readers-writer lock:    *)
(* a stop or restart holds it as a reader from its first step to its last, *)
(* StopAllTasks holds it as the writer while it stops one task after the   *)
(* other; every other section that holds it is one action.                 *)
(*                                                                         *)
(* The manager is abstract here: what a task may do by itself is the union *)
(* of what TaskManager allows.                                             *)
(***************************************************************************)
EXTENDS Naturals, FiniteSets

CONSTANTS
  Tasks,         \* task IDs
  Ids,           \* schedule IDs
  Threads,       \* goroutines that may be inside the runtime at one time
  Actions,       \* what schedules and requests ask for
  MayEdit,       \* may tasks and schedules be edited, deleted and imported?
  StopMayFail,   \* may Manager.Stop return an error?
  NoTask, NoSchedule, NoId

ASSUME SchedulingAssumption ==
  /\ Actions \subseteq {"start", "stop", "restart"}
  /\ {MayEdit, StopMayFail} \subseteq BOOLEAN
  /\ NoTask \notin Tasks /\ NoId \notin Ids

VARIABLES
  status,    \* task -> what the manager does with it, or "absent"
  schedules, \* Runtime.Schedules: ID -> schedule
  entries,   \* the cron entries: ID -> the snapshot its job holds
  cron,      \* is the cron engine off, on or stopped?
  inFlight,  \* Scheduler.inFlight
  thread,    \* goroutine -> what it is doing
  phase,     \* how far Runtime.Shutdown has come
  halted,    \* the tasks StopAllTasks is done with
  halting    \* the task StopAllTasks waits for

vars == <<status, schedules, entries, cron, inFlight, thread, phase, halted, halting>>

Results == {"success", "skipped", "failed"}

(* What the manager records of a task.  "waiting": down, with an automatic  *)
(* restart pending; "unhealthy": being stopped by its health monitor.       *)
Statuses == {"absent", "down", "waiting", "up", "unhealthy", "stopping"}
IsRunningStatus(s) == s \in {"up", "unhealthy", "stopping"}

Snapshots == [task : Tasks, action : Actions]
ScheduleType ==
  [task : Tasks, action : Actions, enabled : BOOLEAN, last : Results \cup {"never"}]

ASSUME NoScheduleAssumption == NoSchedule \notin Snapshots \cup ScheduleType

Idle == [pc |-> "idle", by |-> "schedule", id |-> NoId, task |-> NoTask, action |-> "none",
         holds |-> FALSE, done |-> FALSE, result |-> "failed"]

ThreadType ==
  [pc : {"idle", "acquire", "look", "start", "stop", "wait", "restart", "restop",
         "rewait", "recheck", "relaunch", "report", "lock", "release"},
   by : {"schedule", "user"}, id : Ids \cup {NoId}, task : Tasks \cup {NoTask},
   action : Actions \cup {"none"}, holds : BOOLEAN, done : BOOLEAN, result : Results]

TypeOK ==
  /\ status \in [Tasks -> Statuses]
  /\ schedules \in [Ids -> ScheduleType \cup {NoSchedule}]
  /\ entries \in [Ids -> Snapshots \cup {NoSchedule}]
  /\ cron \in {"off", "on", "stopped"}
  /\ inFlight \subseteq Ids
  /\ thread \in [Threads -> ThreadType]
  /\ phase \in {"serving", "draining", "locking", "stopping", "closing", "closed"}
  /\ halted \subseteq Tasks
  /\ halting \in Tasks \cup {NoTask}

------------------------------------------------------------------------------
(* Runtime.mu, a sync.RWMutex: a writer first asks, which keeps new readers *)
(* out, and has the lock when the readers inside are gone.  One writer at a *)
(* time asks.                                                               *)

Reading == {"wait", "restop", "rewait", "recheck", "relaunch"}

Readers == {x \in Threads : thread[x].pc \in Reading}

Asked == phase = "locking" \/ \E x \in Threads : thread[x].pc = "lock"

(* Faulty variant: the writer does not wait for the readers.                *)
AloneAlways == TRUE

Alone == Readers = {}

CanRead  == ~Asked /\ phase \notin {"stopping", "closed"}
CanWrite == CanRead /\ Alone

Exists(s) == schedules[s] # NoSchedule

(* Scheduler.Reload: the entries of the enabled schedules.                  *)
Registered(S) ==
  [s \in Ids |-> IF S[s] # NoSchedule /\ S[s].enabled
                 THEN [task |-> S[s].task, action |-> S[s].action]
                 ELSE NoSchedule]

(* disableOrphanSchedules: for the tasks that are present.                  *)
OrphansDisabled(S, present) ==
  [s \in Ids |-> IF S[s] # NoSchedule /\ S[s].task \notin present
                 THEN [S[s] EXCEPT !.enabled = FALSE]
                 ELSE S[s]]

Present == {t \in Tasks : status[t] # "absent"}

(* Every change of the schedules is saved, applied and then registered.     *)
ApplySchedules(S) == schedules' = S /\ entries' = Registered(S)

(* NewRuntime: whatever the database holds, orphaned schedules included.    *)
Init ==
  /\ status \in [Tasks -> {"absent", "down", "up"}]
  /\ schedules \in [Ids -> {NoSchedule}
                      \cup [task : Tasks, action : Actions, enabled : BOOLEAN, last : {"never"}]]
  /\ entries = [s \in Ids |-> NoSchedule]
  /\ cron = "off"
  /\ inFlight = {}
  /\ thread = [x \in Threads |-> Idle]
  /\ phase = "serving"
  /\ halted = {} /\ halting = NoTask

------------------------------------------------------------------------------
(* Configuration handlers; a save that fails changes nothing.              *)

StartScheduler ==
  /\ CanWrite /\ cron = "off" /\ phase = "serving"
  /\ ApplySchedules(OrphansDisabled(schedules, Present))
  /\ cron' = "on"
  /\ UNCHANGED <<status, inFlight, thread, phase, halted, halting>>

UpsertSchedule(s, t, a, e) ==
  /\ CanWrite /\ status[t] # "absent"
  /\ ApplySchedules([schedules EXCEPT ![s] =
       [task |-> t, action |-> a, enabled |-> e,
        last |-> IF Exists(s) THEN schedules[s].last ELSE "never"]])
  /\ UNCHANGED <<status, cron, inFlight, thread, phase, halted, halting>>

(* Faulty variant: the cron entry of a deleted schedule stays.              *)
DeleteScheduleOnly(s) ==
  /\ CanWrite /\ Exists(s)
  /\ schedules' = [schedules EXCEPT ![s] = NoSchedule]
  /\ UNCHANGED <<status, entries, cron, inFlight, thread, phase, halted, halting>>

DeleteSchedule(s) ==
  /\ CanWrite /\ Exists(s)
  /\ ApplySchedules([schedules EXCEPT ![s] = NoSchedule])
  /\ UNCHANGED <<status, cron, inFlight, thread, phase, halted, halting>>

SetScheduleEnabled(s, e) ==
  /\ CanWrite /\ Exists(s)
  /\ e => status[schedules[s].task] # "absent"
  /\ schedules[s].enabled # e
  /\ ApplySchedules([schedules EXCEPT ![s].enabled = e])
  /\ UNCHANGED <<status, cron, inFlight, thread, phase, halted, halting>>

(* Runtime.UpsertTask: a new task, or an edit of one that does not run.     *)
UpsertTask(t) ==
  /\ CanWrite /\ ~IsRunningStatus(status[t])
  /\ status' = [status EXCEPT ![t] = "down"]
  /\ UNCHANGED <<schedules, entries, cron, inFlight, thread, phase, halted, halting>>

DeleteTask(t) ==
  /\ CanWrite /\ status[t] \in {"down", "waiting"}
  /\ \A s \in Ids : Exists(s) => schedules[s].task # t
  /\ status' = [status EXCEPT ![t] = "absent"]
  /\ UNCHANGED <<schedules, entries, cron, inFlight, thread, phase, halted, halting>>

(* Runtime.ReplaceTasks: M is imported and the tasks of A come up at once,  *)
(* by adoption or by the autostart that ends the import.                    *)
ReplaceTasks(M, A) ==
  /\ CanWrite /\ \A t \in Tasks : ~IsRunningStatus(status[t])
  /\ status' = [t \in Tasks |-> IF t \in A THEN "up" ELSE IF t \in M THEN "down" ELSE "absent"]
  /\ ApplySchedules(OrphansDisabled(schedules, M))
  /\ UNCHANGED <<cron, inFlight, thread, phase, halted, halting>>

------------------------------------------------------------------------------
(* A run and a request begin.                                              *)

Enter(x, pc, by, s, t, a) ==
  /\ thread[x].pc = "idle"
  /\ thread' = [thread EXCEPT ![x] =
       [Idle EXCEPT !.pc = pc, !.by = by, !.id = s, !.task = t, !.action = a]]

(* A cron entry fires: its job holds the snapshot taken by Reload.          *)
Fire(x, s) ==
  /\ cron = "on" /\ entries[s] # NoSchedule
  /\ Enter(x, "acquire", "schedule", s, entries[s].task, entries[s].action)
  /\ UNCHANGED <<status, schedules, entries, cron, inFlight, phase, halted, halting>>

(* RunScheduleNow: the schedule as it is now, enabled or not.               *)
RunScheduleNow(x, s) ==
  /\ CanRead /\ phase # "closing" /\ Exists(s)
  /\ Enter(x, "acquire", "schedule", s, schedules[s].task, schedules[s].action)
  /\ UNCHANGED <<status, schedules, entries, cron, inFlight, phase, halted, halting>>

(* An API request for a task.                                               *)
Request(x, t, a) ==
  /\ phase \notin {"closing", "closed"}
  /\ Enter(x, a, "user", NoId, t, a)
  /\ UNCHANGED <<status, schedules, entries, cron, inFlight, phase, halted, halting>>

------------------------------------------------------------------------------
(* The steps of a run.                                                     *)

Goto(x, pc) == thread' = [thread EXCEPT ![x].pc = pc]

(* The action has its outcome: a request answers, a run reports it.         *)
Outcome(x, r) ==
  thread' = [thread EXCEPT ![x] = IF @.by = "user" THEN Idle
                                  ELSE [@ EXCEPT !.pc = "report", !.result = r]]

(* Faulty variant: tryAcquire always succeeds.                              *)
AcquireAlways(x) ==
  /\ thread[x].pc = "acquire" /\ phase # "closed"
  /\ inFlight' = inFlight \cup {thread[x].id}
  /\ thread' = [thread EXCEPT ![x].pc = "look", ![x].holds = TRUE]
  /\ UNCHANGED <<status, schedules, entries, cron, phase, halted, halting>>

Acquire(x) ==
  /\ thread[x].pc = "acquire" /\ phase # "closed"
  /\ IF thread[x].id \in inFlight
     THEN Outcome(x, "skipped") /\ UNCHANGED inFlight
     ELSE /\ inFlight' = inFlight \cup {thread[x].id}
          /\ thread' = [thread EXCEPT ![x].pc = "look", ![x].holds = TRUE]
  /\ UNCHANGED <<status, schedules, entries, cron, phase, halted, halting>>

(* execute up to the controller call: the state of the task decides.        *)
Look(x) ==
  LET s == status[thread[x].task]
      a == thread[x].action
  IN /\ thread[x].pc = "look" /\ CanRead
     /\ IF s = "absent" THEN Outcome(x, "failed")
        ELSE IF (a = "start" /\ IsRunningStatus(s)) \/ (a = "stop" /\ ~IsRunningStatus(s))
        THEN Outcome(x, "skipped")
        ELSE Goto(x, a)
     /\ UNCHANGED <<status, schedules, entries, cron, inFlight, phase, halted, halting>>

(* Manager.Start, for a start and for the last step of a restart.           *)
DoStart(x) ==
  LET t == thread[x].task
  IN /\ \/ thread[x].pc = "start" /\ CanRead
        \/ thread[x].pc = "relaunch" /\ phase # "closed"
     /\ \/ /\ status[t] \in {"down", "waiting"}
           /\ status' = [status EXCEPT ![t] = "up"]
           /\ Outcome(x, "success")
        \/ /\ status[t] \in {"down", "waiting"}
           /\ status' = [status EXCEPT ![t] = "down"]
           /\ Outcome(x, "failed")
        \/ /\ status[t] \notin {"down", "waiting"}
           /\ Outcome(x, "failed")
           /\ UNCHANGED status
     /\ UNCHANGED <<schedules, entries, cron, inFlight, phase, halted, halting>>

(* Manager.Stop of task t up to its wait, with the pc of the wait.          *)
BeginStop(x, t, pc) ==
  /\ status' = [status EXCEPT ![t] = "stopping"]
  /\ thread' = [thread EXCEPT ![x].pc = pc, ![x].done = FALSE]

DoStop(x) ==
  LET t == thread[x].task
  IN /\ thread[x].pc = "stop" /\ CanRead
     /\ \/ status[t] = "absent" /\ Outcome(x, "failed") /\ UNCHANGED status
        \/ /\ status[t] \in {"down", "waiting"}
           /\ status' = [status EXCEPT ![t] = "down"]
           /\ Outcome(x, "success")
        \/ IsRunningStatus(status[t]) /\ BeginStop(x, t, "wait")
     /\ UNCHANGED <<schedules, entries, cron, inFlight, phase, halted, halting>>

(* RestartTask: the state decides whether there is something to stop first; *)
(* it may be down by the time Manager.Stop looks at it.                     *)
DoRestart(x) ==
  LET t == thread[x].task
  IN /\ thread[x].pc = "restart" /\ CanRead
     /\ \/ status[t] = "absent" /\ Outcome(x, "failed") /\ UNCHANGED status
        \/ status[t] \in {"down", "waiting"} /\ Goto(x, "relaunch") /\ UNCHANGED status
        \/ IsRunningStatus(status[t]) /\ Goto(x, "restop") /\ UNCHANGED status
     /\ UNCHANGED <<schedules, entries, cron, inFlight, phase, halted, halting>>

StopForRestart(x) ==
  LET t == thread[x].task
  IN /\ thread[x].pc = "restop" /\ phase # "closed"
     /\ \/ /\ status[t] \in {"down", "waiting"}
           /\ status' = [status EXCEPT ![t] = "down"]
           /\ Goto(x, "recheck")
        \/ IsRunningStatus(status[t]) /\ BeginStop(x, t, "rewait")
     /\ UNCHANGED <<schedules, entries, cron, inFlight, phase, halted, halting>>

(* The wait of a stop: the process is gone, or the manager gives up.  The   *)
(* lock is held all the time.                                               *)
EndWait(x) ==
  /\ thread[x].pc \in {"wait", "rewait"} /\ phase # "closed"
  /\ \/ thread[x].done /\ thread[x].pc = "wait" /\ Outcome(x, "success")
     \/ thread[x].done /\ thread[x].pc = "rewait" /\ Goto(x, "recheck")
     \/ StopMayFail /\ Outcome(x, "failed")
  /\ UNCHANGED <<status, schedules, entries, cron, inFlight, phase, halted, halting>>

(* Faulty variant: RestartTask asks until the task is down.                 *)
RecheckForever(x) ==
  /\ thread[x].pc = "recheck" /\ phase # "closed"
  /\ status[thread[x].task] \in {"down", "waiting"} /\ Goto(x, "relaunch")
  /\ UNCHANGED <<status, schedules, entries, cron, inFlight, phase, halted, halting>>

(* RestartTask asks for the state up to fifty times: another request may    *)
(* have started the task again, and then it gives up.                       *)
Recheck(x) ==
  LET t == thread[x].task
  IN /\ thread[x].pc = "recheck" /\ phase # "closed"
     /\ IF status[t] \in {"down", "waiting"} THEN Goto(x, "relaunch") ELSE Outcome(x, "failed")
     /\ UNCHANGED <<status, schedules, entries, cron, inFlight, phase, halted, halting>>

(* The result is there and asks for the lock.                               *)
AskToReport(x) ==
  /\ thread[x].pc = "report" /\ CanRead
  /\ Goto(x, "lock")
  /\ UNCHANGED <<status, schedules, entries, cron, inFlight, phase, halted, halting>>

(* Faulty variant: a result of a deleted schedule brings it back.           *)
ReportReviving(x) ==
  LET s == thread[x].id
  IN /\ thread[x].pc = "lock" /\ Alone
     /\ schedules' = [schedules EXCEPT ![s] =
          [task |-> thread[x].task, action |-> thread[x].action,
           enabled |-> TRUE, last |-> thread[x].result]]
     /\ Goto(x, IF thread[x].holds THEN "release" ELSE "idle")
     /\ UNCHANGED <<status, entries, cron, inFlight, phase, halted, halting>>

(* recordScheduleResult: unknown IDs are ignored, a failed save is logged.  *)
Report(x) ==
  LET s == thread[x].id
  IN /\ thread[x].pc = "lock" /\ Alone
     /\ \/ Exists(s) /\ schedules' = [schedules EXCEPT ![s].last = thread[x].result]
        \/ UNCHANGED schedules
     /\ thread' = [thread EXCEPT ![x] = IF @.holds THEN [@ EXCEPT !.pc = "release"] ELSE Idle]
     /\ UNCHANGED <<status, entries, cron, inFlight, phase, halted, halting>>

Release(x) ==
  /\ thread[x].pc = "release" /\ phase # "closed"
  /\ inFlight' = inFlight \ {thread[x].id}
  /\ thread' = [thread EXCEPT ![x] = Idle]
  /\ UNCHANGED <<status, schedules, entries, cron, phase, halted, halting>>

RunStep(x) ==
  \/ Acquire(x) \/ Look(x) \/ DoStart(x) \/ DoStop(x) \/ DoRestart(x)
  \/ StopForRestart(x) \/ EndWait(x) \/ Recheck(x)
  \/ AskToReport(x) \/ Report(x) \/ Release(x)

------------------------------------------------------------------------------
(* What tasks do by themselves in the manager (see TaskManager).            *)

(* A stop has its effect, and every thread that waits for it is released.   *)
TaskStops(t) ==
  /\ status[t] = "stopping" /\ phase # "closed"
  /\ status' = [status EXCEPT ![t] = "down"]
  /\ thread' = [x \in Threads |->
       IF thread[x].pc \in {"wait", "rewait"} /\ thread[x].task = t
       THEN [thread[x] EXCEPT !.done = TRUE] ELSE thread[x]]
  /\ UNCHANGED <<schedules, entries, cron, inFlight, phase, halted, halting>>

(* A running task ends, with or without a restart to follow; its monitor    *)
(* stops it first when it is unhealthy.                                     *)
TaskFails(t) ==
  /\ status[t] = "up" /\ phase # "closed"
  /\ status' = [status EXCEPT ![t] = "unhealthy"]
  /\ UNCHANGED <<schedules, entries, cron, inFlight, thread, phase, halted, halting>>

TaskEnds(t, s) ==
  /\ status[t] \in {"up", "unhealthy"} /\ phase # "closed"
  /\ status' = [status EXCEPT ![t] = s]
  /\ UNCHANGED <<schedules, entries, cron, inFlight, thread, phase, halted, halting>>

(* The restart timer: the task comes back or fails to.                      *)
TaskRestarts(t, s) ==
  /\ status[t] = "waiting" /\ phase # "closed"
  /\ status' = [status EXCEPT ![t] = s]
  /\ UNCHANGED <<schedules, entries, cron, inFlight, thread, phase, halted, halting>>

------------------------------------------------------------------------------
(* Runtime.Shutdown.                                                       *)

(* Scheduler.Stop: no entry fires any more.                                 *)
Shutdown ==
  /\ phase = "serving"
  /\ phase' = "draining"
  /\ cron' = IF cron = "on" THEN "stopped" ELSE cron
  /\ UNCHANGED <<status, schedules, entries, inFlight, thread, halted, halting>>

(* The wait for the runs that cron fired is bounded by scheduleStopTimeout, *)
(* so they may still be under way when StopAllTasks asks for the lock.      *)
AskToStopAll ==
  /\ phase = "draining" /\ CanRead
  /\ phase' = "locking"
  /\ UNCHANGED <<status, schedules, entries, cron, inFlight, thread, halted, halting>>

StopAllTasks ==
  /\ phase = "locking" /\ Alone
  /\ phase' = "stopping"
  /\ UNCHANGED <<status, schedules, entries, cron, inFlight, thread, halted, halting>>

(* Manager.Stop of the next task.                                           *)
HaltTask(t) ==
  /\ phase = "stopping" /\ halting = NoTask
  /\ status[t] # "absent" /\ t \notin halted
  /\ IF IsRunningStatus(status[t])
     THEN status' = [status EXCEPT ![t] = "stopping"] /\ halting' = t /\ UNCHANGED halted
     ELSE status' = [status EXCEPT ![t] = "down"] /\ halted' = halted \cup {t} /\ UNCHANGED halting
  /\ UNCHANGED <<schedules, entries, cron, inFlight, thread, phase>>

(* It has stopped, or its stop has failed: on to the next one.              *)
TaskHalted ==
  /\ phase = "stopping" /\ halting # NoTask
  /\ status[halting] # "stopping" \/ StopMayFail
  /\ halted' = halted \cup {halting}
  /\ halting' = NoTask
  /\ UNCHANGED <<status, schedules, entries, cron, inFlight, thread, phase>>

(* Faulty variant: the runs under way are waited for with the lock held.    *)
TasksHaltedDrained ==
  /\ phase = "stopping" /\ halting = NoTask
  /\ \A t \in Tasks : status[t] # "absent" => t \in halted
  /\ \A x \in Threads : ~thread[x].holds
  /\ phase' = "closing"
  /\ UNCHANGED <<status, schedules, entries, cron, inFlight, thread, halted, halting>>

(* StopAllTasks gives the lock up and HTTP.Shutdown refuses new requests.   *)
TasksHalted ==
  /\ phase = "stopping" /\ halting = NoTask
  /\ \A t \in Tasks : status[t] # "absent" => t \in halted
  /\ phase' = "closing"
  /\ UNCHANGED <<status, schedules, entries, cron, inFlight, thread, halted, halting>>

(* Requests and runs under way get three seconds; then zlt exits.           *)
Close ==
  /\ phase = "closing"
  /\ phase' = "closed"
  /\ UNCHANGED <<status, schedules, entries, cron, inFlight, thread, halted, halting>>

StopAll ==
  \/ AskToStopAll \/ StopAllTasks
  \/ (\E t \in Tasks : HaltTask(t)) \/ TaskHalted \/ TasksHalted
  \/ Close

Edit ==
  \/ \E s \in Ids, t \in Tasks, a \in Actions, e \in BOOLEAN : UpsertSchedule(s, t, a, e)
  \/ \E s \in Ids : DeleteSchedule(s)
  \/ \E s \in Ids, e \in BOOLEAN : SetScheduleEnabled(s, e)
  \/ \E t \in Tasks : UpsertTask(t) \/ DeleteTask(t)
  \/ \E M \in SUBSET Tasks : \E A \in SUBSET M : ReplaceTasks(M, A)

Begin ==
  \/ \E x \in Threads, s \in Ids : Fire(x, s) \/ RunScheduleNow(x, s)
  \/ \E x \in Threads, t \in Tasks, a \in Actions : Request(x, t, a)

TaskStep ==
  \/ \E t \in Tasks : TaskStops(t) \/ TaskFails(t)
  \/ \E t \in Tasks, s \in {"down", "waiting"} : TaskEnds(t, s)
  \/ \E t \in Tasks, s \in {"down", "up"} : TaskRestarts(t, s)

Next ==
  \/ StartScheduler \/ (MayEdit /\ Edit) \/ Begin
  \/ \E x \in Threads : RunStep(x)
  \/ TaskStep
  \/ Shutdown \/ StopAll

Spec == Init /\ [][Next]_vars

(* The Go scheduler runs every goroutine on; an RWMutex lets readers that   *)
(* wait in after each writer, and one of the writers that wait next; and a  *)
(* stop has its effect (StopsEnd of TaskManager).                           *)
Fairness ==
  /\ \A x \in Threads : SF_vars(RunStep(x))
  /\ \A t \in Tasks : WF_vars(TaskStops(t))
  /\ SF_vars(StopAll)

FairSpec == Spec /\ Fairness

------------------------------------------------------------------------------
(* Properties.                                                             *)

(* Executing: past the overlap guard and not yet released.                  *)
Executing(x) == thread[x].pc # "idle" /\ thread[x].holds

(* A schedule never has two runs at work at the same time, be they fired by *)
(* cron or asked for, before or after an edit (README.md:273); and the mark *)
(* that says so is set exactly while there is one, so that a schedule never *)
(* skips for ever.                                                          *)
OneRun ==
  /\ \A x, y \in Threads :
       Executing(x) /\ Executing(y) /\ thread[x].id = thread[y].id => x = y
  /\ inFlight = {thread[x].id : x \in {y \in Threads : Executing(y)}}

(* Once cron fires, its entries are the enabled schedules as they are now, *)
(* and every one of them has its task, whatever was edited, deleted or      *)
(* imported and however late results were recorded.                         *)
EntriesCurrent ==
  cron # "off" =>
    /\ entries = Registered(schedules)
    /\ \A s \in Ids : entries[s] # NoSchedule => status[entries[s].task] # "absent"

(* A stop or restart under way keeps its task: no import or delete comes    *)
(* between the stop and the start of a restart.                             *)
TaskInUse ==
  \A x \in Readers : phase # "closed" => status[thread[x].task] # "absent"

(* Once StopAllTasks is done with a task it does not run again as long as   *)
(* StopAllTasks holds the lock, although runs, requests and restart timers  *)
(* are still under way (runtime.go:104).                                    *)
HaltedStaysDown ==
  ~StopMayFail /\ phase = "stopping" => \A t \in halted : ~IsRunningStatus(status[t])

(* Schedules are made by UpsertSchedule alone: a run that ends after its    *)
(* schedule was deleted does not bring it back (schedule_runtime.go:147).   *)
DeletedStaysDeleted ==
  [][\A s \in Ids : ~Exists(s) /\ schedules'[s] # NoSchedule
       => UNCHANGED thread /\ schedules'[s].last = "never"]_vars

(* Every run and request comes to its end, or zlt does first: a schedule is *)
(* never stuck in flight.                                                   *)
RunsEnd ==
  \A x \in Threads : thread[x].pc # "idle" ~> thread[x].pc = "idle" \/ phase = "closed"

(* A shutdown that has begun ends.                                          *)
ShutdownEnds == phase = "draining" ~> phase = "closed"

(* A stop of the instance stops the tasks it manages (README.md:123).       *)
TasksStopped ==
  ~StopMayFail /\ phase = "closed" => \A t \in Tasks : ~IsRunningStatus(status[t])
==============================================================================
