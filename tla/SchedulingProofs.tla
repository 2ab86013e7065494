--------------------------- MODULE SchedulingProofs ---------------------------
(***************************************************************************)
(* Theorems about Scheduling, for every set of tasks, schedules and        *)
(* goroutines: its types, the cron entries and the overlap guard.          *)
(***************************************************************************)
EXTENDS Scheduling, TLAPS

(* What a goroutine is at, by where it is.                                  *)
ThreadOK(y) ==
  /\ y.pc = "idle" => y = Idle
  /\ y.pc # "idle" => y.task \in Tasks /\ y.action \in Actions
  /\ y.pc # "idle" /\ y.by = "schedule" => y.id \in Ids
  /\ y.by = "user" => ~y.holds /\ y.pc \notin {"acquire", "look", "report", "lock", "release"}
  /\ y.pc = "acquire" => ~y.holds
  /\ y.pc = "release" => y.holds

ThreadsOK == \A x \in Threads : ThreadOK(thread[x])

Typed == TypeOK /\ ThreadsOK

------------------------------------------------------------------------------
(* Goroutines.                                                             *)

LEMMA IdleOK == Idle \in ThreadType /\ ThreadOK(Idle)
  BY DEF Idle, ThreadType, ThreadOK, Results

LEMMA EnterOK ==
  ASSUME Typed, NEW x \in Threads, NEW t \in Tasks, NEW a \in Actions,
         NEW pc \in {"acquire", "start", "stop", "restart"},
         NEW by \in {"schedule", "user"}, NEW s \in Ids \cup {NoId},
         by = "schedule" => s \in Ids,  by = "user" => pc # "acquire",
         Enter(x, pc, by, s, t, a)
  PROVE  thread' \in [Threads -> ThreadType] /\ ThreadsOK'
<1> DEFINE new == [Idle EXCEPT !.pc = pc, !.by = by, !.id = s, !.task = t, !.action = a]
<1>1. new \in ThreadType /\ ThreadOK(new)
  BY DEF Idle, ThreadType, ThreadOK, Results
<1>2. thread' = [thread EXCEPT ![x] = new]
  BY DEF Enter
<1> HIDE DEF new
<1> QED
  BY <1>1, <1>2 DEF Typed, TypeOK, ThreadsOK

(* Begin touches one idle goroutine and nothing else.                       *)
LEMMA BeginEffect ==
  ASSUME Typed, Begin
  PROVE  /\ UNCHANGED <<status, schedules, entries, cron, inFlight, phase, halted, halting>>
         /\ \E x \in Threads :
              /\ thread[x].pc = "idle" /\ ~thread'[x].holds
              /\ thread'[x].pc \in {"acquire", "start", "stop", "restart"}
              /\ \A y \in Threads : y # x => thread'[y] = thread[y]
<1> DEFINE Effect(x) ==
      /\ thread[x].pc = "idle" /\ ~thread'[x].holds
      /\ thread'[x].pc \in {"acquire", "start", "stop", "restart"}
      /\ \A y \in Threads : y # x => thread'[y] = thread[y]
<1>1. ASSUME NEW x \in Threads, NEW pc \in {"acquire", "start", "stop", "restart"},
             NEW by, NEW s, NEW t, NEW a, Enter(x, pc, by, s, t, a)
      PROVE  Effect(x)
  BY <1>1 DEF Enter, Idle, Typed, TypeOK
<1>2. ASSUME NEW x \in Threads, NEW s \in Ids, Fire(x, s) PROVE Effect(x)
  <2>1. Enter(x, "acquire", "schedule", s, entries[s].task, entries[s].action)
    BY <1>2 DEF Fire
  <2> QED
    BY <1>1, <2>1
<1>3. ASSUME NEW x \in Threads, NEW s \in Ids, RunScheduleNow(x, s) PROVE Effect(x)
  <2>1. Enter(x, "acquire", "schedule", s, schedules[s].task, schedules[s].action)
    BY <1>3 DEF RunScheduleNow
  <2> QED
    BY <1>1, <2>1
<1>4. ASSUME NEW x \in Threads, NEW t \in Tasks, NEW a \in Actions, Request(x, t, a) PROVE Effect(x)
  <2>1. Enter(x, a, "user", NoId, t, a) /\ a \in {"start", "stop", "restart"}
    BY <1>4, SchedulingAssumption DEF Request
  <2> QED
    BY <1>1, <2>1
<1>5. UNCHANGED <<status, schedules, entries, cron, inFlight, phase, halted, halting>>
  BY DEF Begin, Fire, RunScheduleNow, Request
<1> HIDE DEF Effect
<1>6. \E x \in Threads : Effect(x)
  BY <1>2, <1>3, <1>4 DEF Begin
<1> QED
  BY <1>5, <1>6 DEF Effect

LEMMA GotoOK ==
  ASSUME Typed, NEW x \in Threads, NEW pc \in
           {"look", "start", "stop", "wait", "restart", "restop", "rewait",
            "recheck", "relaunch", "lock"},
         thread[x].pc # "idle", pc \in {"look", "lock"} => thread[x].by = "schedule",
         Goto(x, pc)
  PROVE  thread' \in [Threads -> ThreadType] /\ ThreadsOK'
<1> DEFINE new == [thread[x] EXCEPT !.pc = pc]
<1>0. thread[x] \in ThreadType /\ ThreadOK(thread[x])
  BY DEF Typed, TypeOK, ThreadsOK
<1>1. new \in ThreadType /\ ThreadOK(new)
  BY <1>0 DEF ThreadType, ThreadOK
<1>2. thread' = [thread EXCEPT ![x] = new]
  BY DEF Goto
<1> HIDE DEF new
<1> QED
  BY <1>1, <1>2 DEF Typed, TypeOK, ThreadsOK

LEMMA OutcomeOK ==
  ASSUME Typed, NEW x \in Threads, NEW r \in Results, thread[x].pc # "idle", Outcome(x, r)
  PROVE  thread' \in [Threads -> ThreadType] /\ ThreadsOK'
<1> DEFINE new == IF thread[x].by = "user" THEN Idle
                  ELSE [thread[x] EXCEPT !.pc = "report", !.result = r]
<1>0. thread[x] \in ThreadType /\ ThreadOK(thread[x])
  BY DEF Typed, TypeOK, ThreadsOK
<1>1. new \in ThreadType /\ ThreadOK(new)
  <2>1. CASE thread[x].by = "user"
    BY <2>1, IdleOK
  <2>2. CASE thread[x].by # "user"
    <3> DEFINE y == [thread[x] EXCEPT !.pc = "report", !.result = r]
    <3>1. y \in ThreadType /\ ThreadOK(y)
      BY <1>0, <2>2 DEF ThreadType, ThreadOK
    <3> QED
      BY <3>1, <2>2
  <2> QED
    BY <2>1, <2>2
<1>2. thread' = [thread EXCEPT ![x] = new]
  BY DEF Outcome
<1> HIDE DEF new
<1> QED
  BY <1>1, <1>2 DEF Typed, TypeOK, ThreadsOK

LEMMA BeginStopOK ==
  ASSUME Typed, NEW x \in Threads, NEW t \in Tasks, NEW pc \in {"wait", "rewait"},
         thread[x].pc # "idle", BeginStop(x, t, pc)
  PROVE  /\ thread' \in [Threads -> ThreadType] /\ ThreadsOK'
         /\ status' \in [Tasks -> Statuses]
<1> DEFINE new == [thread[x] EXCEPT !.pc = pc, !.done = FALSE]
<1>0. thread[x] \in ThreadType /\ ThreadOK(thread[x])
  BY DEF Typed, TypeOK, ThreadsOK
<1>1. new \in ThreadType /\ ThreadOK(new)
  BY <1>0 DEF ThreadType, ThreadOK
<1>2. thread' = [thread EXCEPT ![x] = new] /\ status' = [status EXCEPT ![t] = "stopping"]
  BY DEF BeginStop
<1> HIDE DEF new
<1> QED
  BY <1>1, <1>2 DEF Typed, TypeOK, ThreadsOK, Statuses

------------------------------------------------------------------------------
(* Schedules.                                                              *)

SchedulesOK(S) == S \in [Ids -> ScheduleType \cup {NoSchedule}]

LEMMA RegisteredOK ==
  ASSUME NEW S, SchedulesOK(S)
  PROVE  Registered(S) \in [Ids -> Snapshots \cup {NoSchedule}]
  BY DEF SchedulesOK, Registered, ScheduleType, Snapshots

LEMMA OrphansDisabledOK ==
  ASSUME NEW S, SchedulesOK(S), NEW present
  PROVE  SchedulesOK(OrphansDisabled(S, present))
  BY DEF SchedulesOK, OrphansDisabled, ScheduleType

LEMMA ApplyOK ==
  ASSUME NEW S, SchedulesOK(S), ApplySchedules(S)
  PROVE  /\ schedules' \in [Ids -> ScheduleType \cup {NoSchedule}]
         /\ entries' \in [Ids -> Snapshots \cup {NoSchedule}]
  BY RegisteredOK DEF ApplySchedules, SchedulesOK

------------------------------------------------------------------------------
(* The types are inductive.                                                *)

ConfigurationOK ==
  /\ status \in [Tasks -> Statuses]
  /\ schedules \in [Ids -> ScheduleType \cup {NoSchedule}]
  /\ entries \in [Ids -> Snapshots \cup {NoSchedule}]
  /\ cron \in {"off", "on", "stopped"}

GoroutinesOK == thread \in [Threads -> ThreadType] /\ ThreadsOK

(* Everything but goroutines, schedules and tasks.                          *)
Rest ==
  /\ cron \in {"off", "on", "stopped"}
  /\ inFlight \subseteq Ids
  /\ phase \in {"serving", "draining", "locking", "stopping", "closing", "closed"}
  /\ halted \subseteq Tasks
  /\ halting \in Tasks \cup {NoTask}

LEMMA TypedInit == Init => Typed
<1> SUFFICES ASSUME Init PROVE Typed
  OBVIOUS
<1>1. status \in [Tasks -> Statuses]
  BY DEF Init, Statuses
<1>2. schedules \in [Ids -> ScheduleType \cup {NoSchedule}]
  <2> DEFINE R == [task : Tasks, action : Actions, enabled : BOOLEAN, last : {"never"}]
  <2>1. R \subseteq ScheduleType
    BY DEF ScheduleType
  <2>2. schedules \in [Ids -> {NoSchedule} \cup R]
    BY DEF Init
  <2> QED
    BY <2>1, <2>2
<1>3. entries \in [Ids -> Snapshots \cup {NoSchedule}]
  BY DEF Init
<1>4. thread \in [Threads -> ThreadType] /\ ThreadsOK
  BY IdleOK DEF Init, ThreadsOK
<1>5. Rest
  BY DEF Init, Rest
<1> QED
  BY <1>1, <1>2, <1>3, <1>4, <1>5 DEF Typed, TypeOK, Rest

LEMMA TypedEdit == Typed /\ (StartScheduler \/ Edit) => Typed'
<1> SUFFICES ASSUME Typed, StartScheduler \/ Edit PROVE Typed'
  OBVIOUS
<1>0. SchedulesOK(schedules) /\ UNCHANGED <<inFlight, thread, phase, halted, halting>>
  BY DEF Typed, TypeOK, SchedulesOK, StartScheduler, Edit, UpsertSchedule, DeleteSchedule,
         SetScheduleEnabled, UpsertTask, DeleteTask, ReplaceTasks
<1>1. ThreadsOK'
  BY <1>0 DEF Typed, ThreadsOK
<1>2. ConfigurationOK'
  <2>1. CASE StartScheduler
    BY <2>1, <1>0, OrphansDisabledOK, ApplyOK DEF ConfigurationOK, StartScheduler, Typed, TypeOK
  <2>2. ASSUME NEW s \in Ids, NEW t \in Tasks, NEW a \in Actions, NEW e \in BOOLEAN,
               UpsertSchedule(s, t, a, e)
        PROVE  ConfigurationOK'
    <3> DEFINE r == [task |-> t, action |-> a, enabled |-> e,
                     last |-> IF Exists(s) THEN schedules[s].last ELSE "never"]
    <3>1. r \in ScheduleType
      BY <1>0 DEF SchedulesOK, ScheduleType, Exists
    <3>2. ApplySchedules([schedules EXCEPT ![s] = r]) /\ UNCHANGED <<status, cron>>
      BY <2>2 DEF UpsertSchedule
    <3> HIDE DEF r
    <3>3. SchedulesOK([schedules EXCEPT ![s] = r])
      BY <3>1, <1>0 DEF SchedulesOK
    <3> QED
      BY <3>2, <3>3, ApplyOK DEF ConfigurationOK, Typed, TypeOK
  <2>3. ASSUME NEW s \in Ids, DeleteSchedule(s)
        PROVE  ConfigurationOK'
    <3>1. SchedulesOK([schedules EXCEPT ![s] = NoSchedule])
      BY <1>0 DEF SchedulesOK
    <3> QED
      BY <2>3, <3>1, ApplyOK DEF ConfigurationOK, DeleteSchedule, Typed, TypeOK
  <2>4. ASSUME NEW s \in Ids, NEW e \in BOOLEAN, SetScheduleEnabled(s, e)
        PROVE  ConfigurationOK'
    <3>1. SchedulesOK([schedules EXCEPT ![s].enabled = e])
      BY <2>4, <1>0 DEF SchedulesOK, SetScheduleEnabled, Exists, ScheduleType
    <3> QED
      BY <2>4, <3>1, ApplyOK DEF ConfigurationOK, SetScheduleEnabled, Typed, TypeOK
  <2>5. ASSUME NEW t \in Tasks, UpsertTask(t) \/ DeleteTask(t)
        PROVE  ConfigurationOK'
    BY <2>5 DEF UpsertTask, DeleteTask, ConfigurationOK, Typed, TypeOK, Statuses
  <2>6. ASSUME NEW M \in SUBSET Tasks, NEW A \in SUBSET M, ReplaceTasks(M, A)
        PROVE  ConfigurationOK'
    <3>1. status' \in [Tasks -> Statuses]
      BY <2>6 DEF ReplaceTasks, Statuses
    <3> QED
      BY <2>6, <3>1, <1>0, OrphansDisabledOK, ApplyOK DEF ConfigurationOK, ReplaceTasks, Typed, TypeOK
  <2> QED
    BY <2>1, <2>2, <2>3, <2>4, <2>5, <2>6 DEF Edit
<1> QED
  BY <1>0, <1>1, <1>2 DEF ConfigurationOK, Typed, TypeOK

LEMMA TypedBegin == Typed /\ Begin => Typed'
<1> SUFFICES ASSUME Typed, Begin PROVE Typed'
  OBVIOUS
<1>0. UNCHANGED <<status, schedules, entries, cron, inFlight, phase, halted, halting>>
  BY DEF Begin, Fire, RunScheduleNow, Request
<1>1. GoroutinesOK'
  <2>1. ASSUME NEW x \in Threads, NEW s \in Ids, Fire(x, s) PROVE GoroutinesOK'
    <3>1. entries[s].task \in Tasks /\ entries[s].action \in Actions
      BY <2>1 DEF Fire, Typed, TypeOK, Snapshots
    <3> QED
      BY <2>1, <3>1, EnterOK DEF GoroutinesOK, Fire
  <2>2. ASSUME NEW x \in Threads, NEW s \in Ids, RunScheduleNow(x, s) PROVE GoroutinesOK'
    <3>1. schedules[s].task \in Tasks /\ schedules[s].action \in Actions
      BY <2>2 DEF RunScheduleNow, Exists, Typed, TypeOK, ScheduleType
    <3> QED
      BY <2>2, <3>1, EnterOK DEF GoroutinesOK, RunScheduleNow
  <2>3. ASSUME NEW x \in Threads, NEW t \in Tasks, NEW a \in Actions, Request(x, t, a)
        PROVE  GoroutinesOK'
    BY <2>3, EnterOK, SchedulingAssumption DEF GoroutinesOK, Request
  <2> QED
    BY <2>1, <2>2, <2>3 DEF Begin
<1> QED
  BY <1>0, <1>1 DEF GoroutinesOK, Typed, TypeOK

LEMMA TypedRunStep == ASSUME Typed, NEW x \in Threads, RunStep(x) PROVE Typed'
<1> DEFINE t == thread[x].task
<1>0. /\ thread[x] \in ThreadType /\ ThreadOK(thread[x])
      /\ thread[x].pc # "idle" => t \in Tasks /\ status[t] \in Statuses
  BY DEF Typed, TypeOK, ThreadsOK, ThreadOK
<1>1. UNCHANGED <<entries, cron, phase, halted, halting>>
  BY DEF RunStep, Acquire, Look, DoStart, DoStop, DoRestart, StopForRestart, EndWait,
         Recheck, AskToReport, Report, Release
<1>2. CASE Acquire(x)
  <2>1. CASE Outcome(x, "skipped") /\ UNCHANGED inFlight
    <3>1. GoroutinesOK'
      BY <1>2, <2>1, OutcomeOK DEF Acquire, Results, GoroutinesOK
    <3> QED
      BY <1>1, <1>2, <2>1, <3>1 DEF Acquire, Typed, TypeOK, GoroutinesOK
  <2>2. CASE /\ inFlight' = inFlight \cup {thread[x].id}
             /\ thread' = [thread EXCEPT ![x].pc = "look", ![x].holds = TRUE]
    <3> DEFINE new == [thread[x] EXCEPT !.pc = "look", !.holds = TRUE]
    <3>0. thread[x].pc = "acquire" /\ thread[x].by = "schedule" /\ thread[x].id \in Ids
      BY <1>0, <1>2 DEF Acquire, ThreadOK, ThreadType
    <3>1. new \in ThreadType /\ ThreadOK(new)
      BY <1>0, <3>0 DEF ThreadType, ThreadOK
    <3>2. thread' = [thread EXCEPT ![x] = new]
      BY <2>2
    <3> HIDE DEF new
    <3> QED
      BY <1>1, <1>2, <2>2, <3>0, <3>1, <3>2 DEF Acquire, Typed, TypeOK, ThreadsOK
  <2> QED
    BY <1>2, <2>1, <2>2 DEF Acquire
<1>3. CASE Look(x)
  <2>1. thread[x].action \in {"start", "stop", "restart"} /\ thread[x].pc # "idle"
    BY <1>0, <1>3, SchedulingAssumption DEF Look, ThreadOK
  <2>2. \/ Outcome(x, "failed") \/ Outcome(x, "skipped")
        \/ Goto(x, thread[x].action)
    BY <1>3 DEF Look
  <2>3. GoroutinesOK'
    BY <2>1, <2>2, OutcomeOK, GotoOK DEF Results, GoroutinesOK
  <2> QED
    BY <1>1, <1>3, <2>3 DEF Look, Typed, TypeOK, GoroutinesOK
<1>4. CASE DoStart(x)
  <2>1. GoroutinesOK'
    BY <1>4, OutcomeOK DEF DoStart, Results, GoroutinesOK
  <2>2. status' \in [Tasks -> Statuses]
    BY <1>4 DEF DoStart, Typed, TypeOK, Statuses
  <2> QED
    BY <1>1, <1>4, <2>1, <2>2 DEF DoStart, Typed, TypeOK, GoroutinesOK
<1>5. CASE DoStop(x)
  <2>1. GoroutinesOK' /\ status' \in [Tasks -> Statuses]
    <3>1. CASE status[t] = "absent" /\ Outcome(x, "failed") /\ UNCHANGED status
      BY <1>5, <3>1, OutcomeOK DEF DoStop, Results, GoroutinesOK, Typed, TypeOK
    <3>2. CASE status' = [status EXCEPT ![t] = "down"] /\ Outcome(x, "success")
      BY <1>5, <3>2, OutcomeOK DEF DoStop, Results, GoroutinesOK, Typed, TypeOK, Statuses
    <3>3. CASE BeginStop(x, t, "wait")
      BY <1>0, <1>5, <3>3, BeginStopOK DEF DoStop, GoroutinesOK
    <3> QED
      BY <1>5, <3>1, <3>2, <3>3 DEF DoStop
  <2> QED
    BY <1>1, <1>5, <2>1 DEF DoStop, Typed, TypeOK, GoroutinesOK
<1>6. CASE DoRestart(x)
  <2>1. GoroutinesOK' /\ UNCHANGED status
    BY <1>6, OutcomeOK, GotoOK DEF DoRestart, Results, GoroutinesOK
  <2> QED
    BY <1>1, <1>6, <2>1 DEF DoRestart, Typed, TypeOK, GoroutinesOK
<1>7. CASE StopForRestart(x)
  <2>1. GoroutinesOK' /\ status' \in [Tasks -> Statuses]
    <3>1. CASE status' = [status EXCEPT ![t] = "down"] /\ Goto(x, "recheck")
      BY <1>7, <3>1, GotoOK DEF StopForRestart, GoroutinesOK, Typed, TypeOK, Statuses
    <3>2. CASE BeginStop(x, t, "rewait")
      BY <1>0, <1>7, <3>2, BeginStopOK DEF StopForRestart, GoroutinesOK
    <3> QED
      BY <1>7, <3>1, <3>2 DEF StopForRestart
  <2> QED
    BY <1>1, <1>7, <2>1 DEF StopForRestart, Typed, TypeOK, GoroutinesOK
<1>8. CASE EndWait(x) \/ Recheck(x)
  <2>1. GoroutinesOK'
    BY <1>8, OutcomeOK, GotoOK DEF EndWait, Recheck, Results, GoroutinesOK
  <2> QED
    BY <1>1, <1>8, <2>1 DEF EndWait, Recheck, Typed, TypeOK, GoroutinesOK
<1>9. CASE AskToReport(x)
  <2>1. thread[x].by = "schedule"
    BY <1>0, <1>9 DEF AskToReport, ThreadOK, ThreadType
  <2>2. GoroutinesOK'
    BY <1>9, <2>1, GotoOK DEF AskToReport, GoroutinesOK
  <2> QED
    BY <1>1, <1>9, <2>2 DEF AskToReport, Typed, TypeOK, GoroutinesOK
<1>10. CASE Report(x)
  <2> DEFINE s == thread[x].id
             new == IF thread[x].holds THEN [thread[x] EXCEPT !.pc = "release"] ELSE Idle
  <2>0. thread[x].pc = "lock" /\ thread[x].by = "schedule" /\ s \in Ids
    BY <1>0, <1>10 DEF Report, ThreadOK, ThreadType
  <2>1. new \in ThreadType /\ ThreadOK(new)
    <3>1. CASE thread[x].holds
      <4> DEFINE y == [thread[x] EXCEPT !.pc = "release"]
      <4>1. y \in ThreadType /\ ThreadOK(y)
        BY <1>0, <2>0, <3>1 DEF ThreadType, ThreadOK
      <4> QED
        BY <3>1, <4>1
    <3>2. CASE ~thread[x].holds
      BY <3>2, IdleOK
    <3> QED
      BY <3>1, <3>2
  <2>2. thread' = [thread EXCEPT ![x] = new]
    BY <1>10 DEF Report
  <2>3. SchedulesOK(schedules')
    <3>1. CASE UNCHANGED schedules
      BY <3>1 DEF SchedulesOK, Typed, TypeOK
    <3>2. CASE Exists(s) /\ schedules' = [schedules EXCEPT ![s].last = thread[x].result]
      BY <1>0, <2>0, <3>2 DEF SchedulesOK, Exists, ScheduleType, ThreadType, Typed, TypeOK
    <3> QED
      BY <1>10, <3>1, <3>2 DEF Report
  <2> HIDE DEF new
  <2> QED
    BY <1>1, <1>10, <2>1, <2>2, <2>3 DEF Report, Typed, TypeOK, ThreadsOK, SchedulesOK
<1>11. CASE Release(x)
  BY <1>1, <1>11, IdleOK DEF Release, Typed, TypeOK, ThreadsOK
<1> QED
  BY <1>2, <1>3, <1>4, <1>5, <1>6, <1>7, <1>8, <1>9, <1>10, <1>11 DEF RunStep

LEMMA TypedTaskStep == Typed /\ TaskStep => Typed'
<1> SUFFICES ASSUME Typed, TaskStep PROVE Typed'
  OBVIOUS
<1>1. UNCHANGED <<schedules, entries, cron, inFlight, phase, halted, halting>>
  BY DEF TaskStep, TaskStops, TaskFails, TaskEnds, TaskRestarts
<1>2. status' \in [Tasks -> Statuses]
  BY DEF TaskStep, TaskStops, TaskFails, TaskEnds, TaskRestarts, Typed, TypeOK, Statuses
<1>3. GoroutinesOK'
  <2>1. CASE UNCHANGED thread
    BY <2>1 DEF GoroutinesOK, Typed, TypeOK, ThreadsOK
  <2>2. ASSUME NEW t \in Tasks, TaskStops(t) PROVE GoroutinesOK'
    <3>1. ASSUME NEW x \in Threads, thread[x].pc \in {"wait", "rewait"}
          PROVE  LET y == [thread[x] EXCEPT !.done = TRUE] IN y \in ThreadType /\ ThreadOK(y)
      <4>1. thread[x] \in ThreadType /\ ThreadOK(thread[x])
        BY DEF Typed, TypeOK, ThreadsOK
      <4> QED
        BY <3>1, <4>1 DEF ThreadType, ThreadOK
    <3> QED
      BY <2>2, <3>1 DEF TaskStops, GoroutinesOK, Typed, TypeOK, ThreadsOK
  <2> QED
    BY <2>1, <2>2 DEF TaskStep, TaskFails, TaskEnds, TaskRestarts
<1> QED
  BY <1>1, <1>2, <1>3 DEF Typed, TypeOK, GoroutinesOK

LEMMA TypedShutdown == Typed /\ (Shutdown \/ StopAll) => Typed'
<1> SUFFICES ASSUME Typed, Shutdown \/ StopAll PROVE Typed'
  OBVIOUS
<1>1. UNCHANGED <<schedules, entries, inFlight, thread>>
  BY DEF Shutdown, StopAll, AskToStopAll, StopAllTasks, HaltTask, TaskHalted, TasksHalted, Close
<1>2. status' \in [Tasks -> Statuses]
  BY DEF Shutdown, StopAll, AskToStopAll, StopAllTasks, HaltTask, TaskHalted, TasksHalted, Close,
         Typed, TypeOK, Statuses
<1>3. Rest'
  BY DEF Shutdown, StopAll, AskToStopAll, StopAllTasks, HaltTask, TaskHalted, TasksHalted, Close,
         Typed, TypeOK, Rest
<1> QED
  BY <1>1, <1>2, <1>3 DEF Typed, TypeOK, ThreadsOK, Rest

LEMMA TypedStep == Typed /\ [Next]_vars => Typed'
<1>1. Typed /\ UNCHANGED vars => Typed'
  BY DEF vars, Typed, TypeOK, ThreadsOK
<1> QED
  BY <1>1, TypedEdit, TypedBegin, TypedRunStep, TypedTaskStep, TypedShutdown DEF Next

(* Every variable of the runtime and every goroutine has its type in every  *)
(* reachable state.                                                         *)
THEOREM SchedulingTypes == Spec => []TypeOK
<1>1. Spec => []Typed
  BY TypedInit, TypedStep, PTL DEF Spec
<1>2. Typed => TypeOK
  BY DEF Typed
<1> QED
  BY <1>1, <1>2, PTL

------------------------------------------------------------------------------
(* The cron entries.                                                       *)

LEMMA RegisteredTask ==
  ASSUME NEW S, NEW s \in Ids, Registered(S)[s] # NoSchedule
  PROVE  S[s] # NoSchedule /\ S[s].enabled /\ Registered(S)[s].task = S[s].task
  BY DEF Registered

(* A present task stays present.                                            *)
Kept == \A t \in Tasks : status[t] # "absent" => status'[t] # "absent"

LEMMA CurrentKept ==
  ASSUME Typed, EntriesCurrent, Kept, UNCHANGED entries,
         Registered(schedules') = Registered(schedules), cron' # "off" => cron # "off"
  PROVE  EntriesCurrent'
<1> SUFFICES ASSUME cron' # "off", NEW s \in Ids, entries[s] # NoSchedule
             PROVE  status'[entries[s].task] # "absent"
  BY DEF EntriesCurrent
<1>1. entries[s].task \in Tasks
  BY DEF Typed, TypeOK, Snapshots
<1> QED
  BY <1>1 DEF EntriesCurrent, Kept

LEMMA CurrentEdit == Typed /\ EntriesCurrent /\ (StartScheduler \/ Edit) => EntriesCurrent'
<1> SUFFICES ASSUME Typed, EntriesCurrent, StartScheduler \/ Edit PROVE EntriesCurrent'
  OBVIOUS
<1>0. SchedulesOK(schedules) /\ status \in [Tasks -> Statuses]
  BY DEF Typed, TypeOK, SchedulesOK
<1>1. ASSUME NEW S, entries' = Registered(S), schedules' = S,
             \A s \in Ids : S[s] # NoSchedule /\ S[s].enabled => status'[S[s].task] # "absent"
      PROVE  EntriesCurrent'
  BY <1>1, RegisteredTask DEF EntriesCurrent
<1>2. ASSUME cron # "off", NEW s \in Ids, schedules[s] # NoSchedule, schedules[s].enabled
      PROVE  status[schedules[s].task] # "absent"
  <2>1. Registered(schedules)[s] = [task |-> schedules[s].task, action |-> schedules[s].action]
    BY <1>2 DEF Registered
  <2>2. entries[s] = Registered(schedules)[s]
    BY <1>2 DEF EntriesCurrent
  <2>3. CASE entries[s] # NoSchedule
    BY <1>2, <2>1, <2>2, <2>3 DEF EntriesCurrent
  <2>4. CASE entries[s] = NoSchedule
    <3>1. schedules[s].task \in Tasks /\ schedules[s].action \in Actions
      BY <1>0, <1>2 DEF SchedulesOK, ScheduleType
    <3>2. Registered(schedules)[s] \in Snapshots
      BY <2>1, <3>1 DEF Snapshots
    <3> QED
      BY <2>2, <2>4, <3>2, NoScheduleAssumption
  <2> QED
    BY <2>3, <2>4
<1>3. ASSUME NEW present \in SUBSET Tasks, NEW s \in Ids,
             OrphansDisabled(schedules, present)[s] # NoSchedule,
             OrphansDisabled(schedules, present)[s].enabled
      PROVE  OrphansDisabled(schedules, present)[s].task \in present
  BY <1>0, <1>3 DEF OrphansDisabled, SchedulesOK, ScheduleType
<1>4. CASE StartScheduler
  BY <1>1, <1>3, <1>4 DEF StartScheduler, ApplySchedules, Present
<1>5. ASSUME NEW s \in Ids, NEW t \in Tasks, NEW a \in Actions, NEW e \in BOOLEAN,
             UpsertSchedule(s, t, a, e), cron # "off"
      PROVE  EntriesCurrent'
  <2> DEFINE r == [task |-> t, action |-> a, enabled |-> e,
                   last |-> IF Exists(s) THEN schedules[s].last ELSE "never"]
             S == [schedules EXCEPT ![s] = r]
  <2>1. entries' = Registered(S) /\ schedules' = S /\ UNCHANGED status /\ status[t] # "absent"
    BY <1>5 DEF UpsertSchedule, ApplySchedules
  <2>2. r.task = t
    OBVIOUS
  <2> HIDE DEF r
  <2>3. \A x \in Ids : S[x] # NoSchedule /\ S[x].enabled => status'[S[x].task] # "absent"
    BY <1>0, <1>2, <1>5, <2>1, <2>2 DEF SchedulesOK
  <2> HIDE DEF S
  <2> QED
    BY <1>1, <2>1, <2>3
<1>6. ASSUME NEW s \in Ids, DeleteSchedule(s), cron # "off"
      PROVE  EntriesCurrent'
  <2> DEFINE S == [schedules EXCEPT ![s] = NoSchedule]
  <2>1. entries' = Registered(S) /\ schedules' = S /\ UNCHANGED status
    BY <1>6 DEF DeleteSchedule, ApplySchedules
  <2>2. \A x \in Ids : S[x] # NoSchedule /\ S[x].enabled => status'[S[x].task] # "absent"
    BY <1>0, <1>2, <1>6, <2>1 DEF SchedulesOK
  <2> HIDE DEF S
  <2> QED
    BY <1>1, <2>1, <2>2
<1>7. ASSUME NEW s \in Ids, NEW e \in BOOLEAN, SetScheduleEnabled(s, e), cron # "off"
      PROVE  EntriesCurrent'
  <2> DEFINE S == [schedules EXCEPT ![s].enabled = e]
  <2>1. /\ entries' = Registered(S) /\ schedules' = S /\ UNCHANGED status
        /\ schedules[s] # NoSchedule /\ (e => status[schedules[s].task] # "absent")
    BY <1>7 DEF SetScheduleEnabled, ApplySchedules, Exists
  <2>2. \A x \in Ids : S[x] # NoSchedule /\ S[x].enabled => status'[S[x].task] # "absent"
    BY <1>0, <1>2, <1>7, <2>1 DEF SchedulesOK, ScheduleType
  <2> HIDE DEF S
  <2> QED
    BY <1>1, <2>1, <2>2
<1>8. ASSUME NEW t \in Tasks, UpsertTask(t)
      PROVE  EntriesCurrent'
  BY <1>0, <1>8, CurrentKept DEF UpsertTask, Kept
<1>9. ASSUME NEW t \in Tasks, DeleteTask(t)
      PROVE  EntriesCurrent'
  <2> SUFFICES ASSUME cron # "off", NEW s \in Ids, entries[s] # NoSchedule
               PROVE  status'[entries[s].task] # "absent"
    BY <1>9 DEF DeleteTask, EntriesCurrent
  <2>1. entries[s].task # t /\ entries[s].task \in Tasks
    BY <1>9, RegisteredTask DEF DeleteTask, Exists, EntriesCurrent, Typed, TypeOK, Snapshots
  <2> QED
    BY <1>0, <1>9, <2>1 DEF DeleteTask, EntriesCurrent
<1>10. ASSUME NEW M \in SUBSET Tasks, NEW A \in SUBSET M, ReplaceTasks(M, A)
       PROVE  EntriesCurrent'
  <2>1. \A t \in M : status'[t] # "absent"
    BY <1>10 DEF ReplaceTasks
  <2> QED
    BY <1>1, <1>3, <1>10, <2>1 DEF ReplaceTasks, ApplySchedules
<1>11. CASE cron = "off" /\ Edit
  BY <1>11 DEF Edit, UpsertSchedule, DeleteSchedule, SetScheduleEnabled, UpsertTask, DeleteTask,
         ReplaceTasks, EntriesCurrent
<1> QED
  BY <1>4, <1>5, <1>6, <1>7, <1>8, <1>9, <1>10, <1>11 DEF Edit

LEMMA CurrentStep == Typed /\ EntriesCurrent /\ [Next]_vars => EntriesCurrent'
<1> SUFFICES ASSUME Typed, EntriesCurrent, [Next]_vars PROVE EntriesCurrent'
  OBVIOUS
<1>0. status \in [Tasks -> Statuses] /\ schedules \in [Ids -> ScheduleType \cup {NoSchedule}]
  BY DEF Typed, TypeOK
<1>1. CASE UNCHANGED vars
  BY <1>1, CurrentKept DEF vars, Kept
<1>2. CASE StartScheduler \/ Edit
  BY <1>2, CurrentEdit
<1>3. CASE Begin
  <2>1. UNCHANGED <<status, schedules, entries, cron>>
    BY <1>3 DEF Begin, Fire, RunScheduleNow, Request
  <2> QED
    BY <2>1, CurrentKept DEF Kept
<1>4. ASSUME NEW x \in Threads, RunStep(x) PROVE EntriesCurrent'
  <2>1. Kept /\ UNCHANGED <<entries, cron>>
    BY <1>0, <1>4 DEF RunStep, Acquire, Look, DoStart, DoStop, DoRestart, StopForRestart, BeginStop,
           EndWait, Recheck, AskToReport, Report, Release, Kept
  <2>2. Registered(schedules') = Registered(schedules)
    <3>1. CASE UNCHANGED schedules
      BY <3>1
    <3>2. CASE Report(x) /\ ~UNCHANGED schedules
      <4> DEFINE s == thread[x].id
      <4>1. Exists(s) /\ schedules' = [schedules EXCEPT ![s].last = thread[x].result]
        BY <3>2 DEF Report
      <4>2. schedules[s] # NoSchedule
        BY <4>1 DEF Exists
      <4> HIDE DEF s
      <4>3. ASSUME NEW z \in Ids PROVE Registered(schedules')[z] = Registered(schedules)[z]
        <5>1. CASE z # s \/ schedules'[z] = schedules[z]
          BY <1>0, <4>1, <5>1 DEF Registered
        <5>2. CASE z = s
          <6>1. schedules[z] \in ScheduleType
            BY <1>0, <4>2, <5>2
          <6>2. schedules'[z] = [schedules[z] EXCEPT !.last = thread[x].result]
            BY <1>0, <4>1, <5>2
          <6>3. thread[x] \in ThreadType
            BY DEF Typed, TypeOK
          <6>4. /\ schedules'[z] \in ScheduleType
                /\ schedules'[z].task = schedules[z].task
                /\ schedules'[z].action = schedules[z].action
                /\ schedules'[z].enabled = schedules[z].enabled
            BY <6>1, <6>2, <6>3 DEF ScheduleType, ThreadType
          <6> QED
            BY <6>1, <6>4, NoScheduleAssumption DEF Registered
        <5> QED
          BY <5>1, <5>2
      <4> QED
        BY <4>3 DEF Registered
    <3> QED
      BY <1>4, <3>1, <3>2 DEF RunStep, Acquire, Look, DoStart, DoStop, DoRestart, StopForRestart,
             EndWait, Recheck, AskToReport, Release
  <2> QED
    BY <2>1, <2>2, CurrentKept
<1>5. CASE TaskStep \/ Shutdown \/ StopAll
  <2>1. Kept /\ UNCHANGED <<schedules, entries>> /\ (cron' # "off" => cron # "off")
    BY <1>0, <1>5 DEF TaskStep, TaskStops, TaskFails, TaskEnds, TaskRestarts, Shutdown, StopAll,
           AskToStopAll, StopAllTasks, HaltTask, TaskHalted, TasksHalted, Close, Kept
  <2> QED
    BY <2>1, CurrentKept
<1> QED
  BY <1>1, <1>2, <1>3, <1>4, <1>5 DEF Next

(* The entries that fire are the enabled schedules of present tasks, for    *)
(* every mix of edits, deletes, imports and late results.                   *)
THEOREM EntriesStayCurrent == Spec => []EntriesCurrent
<1>1. Init => Typed /\ EntriesCurrent
  BY TypedInit DEF Init, EntriesCurrent
<1>2. Typed /\ EntriesCurrent /\ [Next]_vars => Typed' /\ EntriesCurrent'
  BY TypedStep, CurrentStep
<1> QED
  BY <1>1, <1>2, PTL DEF Spec

------------------------------------------------------------------------------
(* The overlap guard.                                                      *)

LEMMA GuardKept ==
  ASSUME OneRun, UNCHANGED inFlight,
         \A y \in Threads : (Executing(y)' <=> Executing(y)) /\ (Executing(y) => thread'[y].id = thread[y].id)
  PROVE  OneRun'
  BY DEF OneRun

LEMMA GuardStep == Typed /\ OneRun /\ [Next]_vars => OneRun'
<1> SUFFICES ASSUME Typed, OneRun, [Next]_vars PROVE OneRun'
  OBVIOUS
<1>0. \A y \in Threads : thread[y] \in ThreadType /\ ThreadOK(thread[y])
  BY DEF Typed, TypeOK, ThreadsOK
<1>t. thread \in [Threads -> ThreadType]
  BY DEF Typed, TypeOK
<1>1. CASE UNCHANGED <<thread, inFlight>>
  BY <1>1, GuardKept DEF Executing
<1>2. CASE Begin
  <2>1. PICK x \in Threads : /\ thread[x].pc = "idle" /\ ~thread'[x].holds
                             /\ \A y \in Threads : y # x => thread'[y] = thread[y]
    BY <1>2, BeginEffect
  <2> QED
    BY <1>2, <2>1, BeginEffect, GuardKept DEF Executing
<1>3. ASSUME NEW x \in Threads, RunStep(x) PROVE OneRun'
  <2>0. /\ thread[x].pc # "idle" /\ thread[x] \in ThreadType /\ ThreadOK(thread[x])
        /\ \A y \in Threads : y # x => thread'[y] = thread[y]
    BY <1>0, <1>3, <1>t DEF RunStep, Acquire, Look, DoStart, DoStop, DoRestart, StopForRestart,
           BeginStop, EndWait, Recheck, AskToReport, Report, Release, Outcome, Goto
  <2>1. ASSUME UNCHANGED inFlight, thread'[x].pc # "idle",
               thread'[x].holds = thread[x].holds, thread'[x].id = thread[x].id
        PROVE  OneRun'
    BY <2>0, <2>1, GuardKept DEF Executing
  <2>2. ASSUME UNCHANGED inFlight, ~thread[x].holds, ~thread'[x].holds
        PROVE  OneRun'
    BY <2>0, <2>2, GuardKept DEF Executing
  <2>3. ASSUME NEW r, Outcome(x, r), UNCHANGED inFlight PROVE OneRun'
    <3>1. CASE thread[x].by = "user"
      <4>1. thread'[x] = Idle
        BY <1>t, <2>3, <3>1 DEF Outcome
      <4> QED
        BY <2>0, <2>2, <2>3, <3>1, <4>1 DEF ThreadOK, Idle
    <3>2. CASE thread[x].by # "user"
      <4>1. thread'[x] = [thread[x] EXCEPT !.pc = "report", !.result = r]
        BY <1>t, <2>3, <3>2 DEF Outcome
      <4> QED
        BY <2>0, <2>1, <2>3, <4>1 DEF ThreadType
    <3> QED
      BY <3>1, <3>2
  <2>4. ASSUME NEW pc \in {"start", "stop", "wait", "restart", "restop", "rewait", "recheck",
                           "relaunch", "lock"}, Goto(x, pc), UNCHANGED inFlight
        PROVE  OneRun'
    <3>1. thread'[x] = [thread[x] EXCEPT !.pc = pc]
      BY <1>t, <2>4 DEF Goto
    <3> QED
      BY <2>0, <2>1, <2>4, <3>1 DEF ThreadType
  <2>5. ASSUME NEW pc \in {"wait", "rewait"}, NEW t, BeginStop(x, t, pc), UNCHANGED inFlight
        PROVE  OneRun'
    <3>1. thread'[x] = [thread[x] EXCEPT !.pc = pc, !.done = FALSE]
      BY <1>t, <2>5 DEF BeginStop
    <3> QED
      BY <2>0, <2>1, <2>5, <3>1 DEF ThreadType
  <2>6. CASE Acquire(x)
    <3>1. CASE Outcome(x, "skipped") /\ UNCHANGED inFlight
      BY <2>3, <3>1
    <3>2. CASE /\ thread[x].id \notin inFlight
               /\ inFlight' = inFlight \cup {thread[x].id}
               /\ thread' = [thread EXCEPT ![x].pc = "look", ![x].holds = TRUE]
      <4>1. /\ thread'[x].pc = "look" /\ thread'[x].holds /\ thread'[x].id = thread[x].id
            /\ ~Executing(x) /\ Executing(x)'
        BY <1>t, <2>0, <2>6, <3>2 DEF Acquire, ThreadOK, ThreadType, Executing
      <4>2. \A y \in Threads : y # x => /\ Executing(y)' <=> Executing(y)
                                        /\ thread'[y].id = thread[y].id
        BY <2>0 DEF Executing
      <4>3. \A y \in Threads : Executing(y) => thread[y].id # thread[x].id
        BY <3>2 DEF OneRun
      <4> QED
        <5>1. ASSUME NEW y \in Threads, NEW z \in Threads, Executing(y)', Executing(z)',
                     thread'[y].id = thread'[z].id
              PROVE  y = z
          BY <4>1, <4>2, <4>3, <5>1 DEF OneRun
        <5>2. inFlight = {thread[y].id : y \in {z \in Threads : Executing(z)}}
          BY DEF OneRun
        <5>3. inFlight' = {thread'[y].id : y \in {z \in Threads : Executing(z)'}}
          <6>1. \A i : i \in inFlight <=> \E y \in Threads : Executing(y) /\ thread[y].id = i
            BY <5>2
          <6>2. \A i : i \in inFlight' <=> \E y \in Threads : Executing(y)' /\ thread'[y].id = i
            <7>1. \A i : i \in inFlight' <=> i \in inFlight \/ i = thread[x].id
              BY <3>2
            <7> QED
              BY <4>1, <4>2, <6>1, <7>1
          <6> QED
            BY <6>2
        <5> QED
          BY <5>1, <5>3 DEF OneRun
    <3> QED
      BY <2>6, <3>1, <3>2 DEF Acquire
  <2>7. CASE Look(x)
    <3>1. thread[x].action \in {"start", "stop", "restart"}
      BY <2>0, SchedulingAssumption DEF ThreadOK
    <3> QED
      BY <2>3, <2>4, <2>7, <3>1 DEF Look
  <2>8. CASE DoStart(x) \/ DoStop(x) \/ DoRestart(x) \/ StopForRestart(x) \/ EndWait(x)
             \/ Recheck(x) \/ AskToReport(x)
    BY <2>3, <2>4, <2>5, <2>8 DEF DoStart, DoStop, DoRestart, StopForRestart, EndWait, Recheck,
           AskToReport
  <2>9. CASE Report(x)
    <3>1. thread'[x] = IF thread[x].holds THEN [thread[x] EXCEPT !.pc = "release"] ELSE Idle
      BY <1>t, <2>9 DEF Report
    <3>2. UNCHANGED inFlight
      BY <2>9 DEF Report
    <3>3. CASE thread[x].holds
      BY <2>0, <2>1, <3>1, <3>2, <3>3 DEF ThreadType
    <3>4. CASE ~thread[x].holds
      BY <2>2, <3>1, <3>2, <3>4 DEF Idle
    <3> QED
      BY <3>3, <3>4
  <2>10. CASE Release(x)
    <3>1. thread'[x] = Idle /\ inFlight' = inFlight \ {thread[x].id} /\ Executing(x)
      BY <1>t, <2>0, <2>10 DEF Release, ThreadOK, Executing
    <3>2. ~Executing(x)'
      BY <3>1 DEF Executing, Idle
    <3>3. \A y \in Threads : y # x => /\ Executing(y)' <=> Executing(y)
                                      /\ thread'[y].id = thread[y].id
      BY <2>0 DEF Executing
    <3>4. \A y \in Threads : Executing(y) /\ thread[y].id = thread[x].id => y = x
      BY <3>1 DEF OneRun
    <3> QED
      BY <3>1, <3>2, <3>3, <3>4 DEF OneRun
  <2> QED
    BY <1>3, <2>6, <2>7, <2>8, <2>9, <2>10 DEF RunStep
<1>4. CASE TaskStep
  <2>1. ASSUME NEW t \in Tasks, TaskStops(t) PROVE OneRun'
    <3>1. \A y \in Threads : /\ thread'[y].pc = thread[y].pc /\ thread'[y].id = thread[y].id
                             /\ thread'[y].holds = thread[y].holds
      BY <1>0, <2>1 DEF TaskStops, ThreadType
    <3> QED
      BY <2>1, <3>1, GuardKept DEF TaskStops, Executing
  <2> QED
    BY <1>1, <1>4, <2>1 DEF TaskStep, TaskFails, TaskEnds, TaskRestarts
<1>5. CASE StartScheduler \/ Edit \/ Shutdown \/ StopAll \/ UNCHANGED vars
  BY <1>1, <1>5 DEF StartScheduler, Edit, UpsertSchedule, DeleteSchedule, SetScheduleEnabled,
         UpsertTask, DeleteTask, ReplaceTasks, Shutdown, StopAll, AskToStopAll, StopAllTasks,
         HaltTask, TaskHalted, TasksHalted, Close, vars
<1> QED
  BY <1>2, <1>3, <1>4, <1>5 DEF Next

(* A schedule has at most one run at work, and is marked in flight exactly  *)
(* while it has one, for any number of goroutines.                          *)
THEOREM OverlapGuard == Spec => []OneRun
<1>1. Init => Typed /\ OneRun
  BY TypedInit DEF Init, OneRun, Executing, Idle
<1>2. Typed /\ OneRun /\ [Next]_vars => Typed' /\ OneRun'
  BY TypedStep, GuardStep
<1> QED
  BY <1>1, <1>2, PTL DEF Spec

------------------------------------------------------------------------------
(* The lock.                                                               *)

(* StopAllTasks excludes the readers, and what it has stopped, or waits for,*)
(* can neither be restarted nor fail.                                       *)
Halting ==
  /\ phase = "stopping" => Readers = {}
  /\ phase \in {"serving", "draining", "locking"} => halted = {} /\ halting = NoTask
  /\ ~StopMayFail /\ phase = "stopping" =>
       /\ \A t \in halted : status[t] = "down"
       /\ halting # NoTask => status[halting] \in {"stopping", "down"}

Locked == TaskInUse /\ Halting

LEMMA LockKept ==
  ASSUME Typed, Locked, UNCHANGED <<phase, halted, halting>>,
         \A t \in Tasks : status[t] # "absent" => status'[t] # "absent",
         ~StopMayFail /\ phase = "stopping" =>
           \A t \in Tasks : /\ status[t] = "down" => status'[t] = "down"
                            /\ status[t] = "stopping" => status'[t] \in {"stopping", "down"},
         \A y \in Threads :
           thread'[y].pc \in Reading =>
             \/ thread[y].pc \in Reading /\ thread'[y].task = thread[y].task
             \/ CanRead /\ (phase # "closed" => status'[thread'[y].task] # "absent")
  PROVE  Locked'
<1>1. Halting'
  <2>1. phase = "stopping" => Readers' = {}
    BY DEF Locked, Halting, Readers, CanRead
  <2>2. ~StopMayFail /\ phase = "stopping" =>
          /\ \A t \in halted : status'[t] = "down"
          /\ halting # NoTask => status'[halting] \in {"stopping", "down"}
    <3> SUFFICES ASSUME ~StopMayFail, phase = "stopping"
                 PROVE  /\ \A t \in halted : status'[t] = "down"
                        /\ halting # NoTask => status'[halting] \in {"stopping", "down"}
      OBVIOUS
    <3>1. /\ \A t \in halted : status[t] = "down"
          /\ halting # NoTask => status[halting] \in {"stopping", "down"}
      BY DEF Locked, Halting
    <3>2. halted \subseteq Tasks /\ halting \in Tasks \cup {NoTask}
      BY DEF Typed, TypeOK
    <3>3. \A t \in halted : status'[t] = "down"
      BY <3>1, <3>2
    <3>4. halting # NoTask => status'[halting] \in {"stopping", "down"}
      BY <3>1, <3>2
    <3> QED
      BY <3>3, <3>4
  <2> QED
    BY <2>1, <2>2 DEF Locked, Halting
<1>2. TaskInUse'
  <2> SUFFICES ASSUME NEW y \in Threads, thread'[y].pc \in Reading, phase # "closed"
               PROVE  status'[thread'[y].task] # "absent"
    BY DEF TaskInUse, Readers
  <2>1. CASE thread[y].pc \in Reading /\ thread'[y].task = thread[y].task
    <3>1. status[thread[y].task] # "absent"
      BY <2>1 DEF Locked, TaskInUse, Readers
    <3>2. thread[y].task \in Tasks
      BY <2>1 DEF Typed, ThreadsOK, ThreadOK, Reading
    <3> QED
      BY <2>1, <3>1, <3>2
  <2> QED
    BY <2>1
<1> QED
  BY <1>1, <1>2 DEF Locked

LEMMA LockEdit == Typed /\ Locked /\ (StartScheduler \/ Edit) => Locked'
<1> SUFFICES ASSUME Typed, Locked, StartScheduler \/ Edit PROVE Locked'
  OBVIOUS
<1>1. UNCHANGED <<thread, phase, halted, halting>> /\ CanWrite
  BY DEF StartScheduler, Edit, UpsertSchedule, DeleteSchedule, SetScheduleEnabled, UpsertTask,
         DeleteTask, ReplaceTasks
<1>2. Readers = {} /\ Readers' = {} /\ phase # "stopping"
  BY <1>1 DEF CanWrite, CanRead, Alone, Readers
<1> QED
  BY <1>1, <1>2 DEF Locked, Halting, TaskInUse

LEMMA LockStep == Typed /\ Locked /\ [Next]_vars => Locked'
<1> SUFFICES ASSUME Typed, Locked, [Next]_vars PROVE Locked'
  OBVIOUS
<1>0. /\ \A y \in Threads : thread[y] \in ThreadType /\ ThreadOK(thread[y])
      /\ thread \in [Threads -> ThreadType] /\ status \in [Tasks -> Statuses]
  BY DEF Typed, TypeOK, ThreadsOK
<1>1. CASE UNCHANGED vars
  BY <1>1 DEF vars, Locked, TaskInUse, Halting, Readers
<1>2. CASE StartScheduler \/ Edit
  BY <1>2, LockEdit
<1>3. CASE Begin
  <2>1. UNCHANGED <<status, phase, halted, halting>>
    BY <1>3, BeginEffect
  <2>2. PICK x \in Threads : /\ thread'[x].pc \in {"acquire", "start", "stop", "restart"}
                             /\ \A y \in Threads : y # x => thread'[y] = thread[y]
    BY <1>3, BeginEffect
  <2>3. thread'[x].pc \notin Reading
    BY <2>2 DEF Reading
  <2> QED
    BY <2>1, <2>2, <2>3, LockKept
<1>4. ASSUME NEW x \in Threads, RunStep(x) PROVE Locked'
  <2> DEFINE t == thread[x].task
  <2>0. /\ thread[x] \in ThreadType /\ ThreadOK(thread[x]) /\ thread[x].pc # "idle"
        /\ t \in Tasks /\ UNCHANGED <<phase, halted, halting>>
        /\ \A y \in Threads : y # x => thread'[y] = thread[y]
    BY <1>0, <1>4 DEF RunStep, Acquire, Look, DoStart, DoStop, DoRestart, StopForRestart, BeginStop,
           EndWait, Recheck, AskToReport, Report, Release, Outcome, Goto, ThreadOK
  <2>1. ASSUME NEW r, Outcome(x, r) PROVE thread'[x].pc \notin Reading
    BY <1>0, <2>1 DEF Outcome, Idle, Reading, ThreadType
  <2>2. ASSUME NEW pc, Goto(x, pc) PROVE thread'[x].pc = pc /\ thread'[x].task = t
    BY <1>0, <2>2 DEF Goto, ThreadType
  <2>3. ASSUME NEW pc, BeginStop(x, t, pc)
        PROVE  /\ thread'[x].pc = pc /\ thread'[x].task = t
               /\ status' = [status EXCEPT ![t] = "stopping"]
    BY <1>0, <2>3 DEF BeginStop, ThreadType
  <2>4. CASE Acquire(x) \/ Look(x) \/ AskToReport(x) \/ Report(x) \/ Release(x)
    <3>1. UNCHANGED status
      BY <2>4 DEF Acquire, Look, AskToReport, Report, Release
    <3>2. thread'[x].pc \notin Reading
      <4>1. CASE Look(x)
        BY <2>0, <2>1, <2>2, <4>1, SchedulingAssumption DEF Look, ThreadOK, Reading
      <4>2. CASE AskToReport(x)
        BY <2>2, <4>2 DEF AskToReport, Reading
      <4>3. CASE Acquire(x)
        <5>1. CASE Outcome(x, "skipped")
          BY <2>1, <5>1
        <5>2. CASE thread' = [thread EXCEPT ![x].pc = "look", ![x].holds = TRUE]
          BY <1>0, <2>0, <5>2 DEF Reading, ThreadType
        <5> QED
          BY <4>3, <5>1, <5>2 DEF Acquire
      <4>4. CASE Report(x) \/ Release(x)
        <5>1. \/ thread'[x] = [thread[x] EXCEPT !.pc = "release"]
              \/ thread'[x] = Idle
          BY <1>0, <4>4 DEF Report, Release
        <5> QED
          BY <2>0, <5>1 DEF Idle, Reading, ThreadType
      <4> QED
        BY <2>4, <4>1, <4>2, <4>3, <4>4
    <3> QED
      BY <2>0, <3>1, <3>2, LockKept
  <2>5. CASE DoStart(x)
    <3>1. phase # "stopping"
      BY <2>5 DEF DoStart, CanRead, Locked, Halting, Readers, Reading
    <3>2. thread'[x].pc \notin Reading
      BY <2>1, <2>5 DEF DoStart
    <3>3. \A u \in Tasks : status[u] # "absent" => status'[u] # "absent"
      BY <1>0, <2>5 DEF DoStart
    <3> QED
      BY <2>0, <3>1, <3>2, <3>3, LockKept
  <2>6. CASE DoStop(x) \/ DoRestart(x)
    <3>1. CanRead /\ phase # "stopping"
      BY <2>6 DEF DoStop, DoRestart, CanRead
    <3>2. \A u \in Tasks : status[u] # "absent" => status'[u] # "absent"
      BY <1>0, <2>3, <2>6 DEF DoStop, DoRestart
    <3>3. thread'[x].pc \in Reading => thread'[x].task = t /\ status'[t] # "absent"
      BY <1>0, <2>0, <2>1, <2>2, <2>3, <2>6 DEF DoStop, DoRestart, IsRunningStatus
    <3> QED
      BY <2>0, <3>1, <3>2, <3>3, LockKept
  <2>7. CASE StopForRestart(x) \/ EndWait(x) \/ Recheck(x)
    <3>1. thread[x].pc \in Reading /\ phase # "stopping"
      BY <2>7 DEF StopForRestart, EndWait, Recheck, Reading, Locked, Halting, Readers
    <3>2. \A u \in Tasks : status[u] # "absent" => status'[u] # "absent"
      BY <1>0, <2>3, <2>7 DEF StopForRestart, EndWait, Recheck
    <3>3. thread'[x].pc \in Reading => thread'[x].task = t
      BY <2>1, <2>2, <2>3, <2>7 DEF StopForRestart, EndWait, Recheck
    <3> QED
      BY <2>0, <3>1, <3>2, <3>3, LockKept
  <2> QED
    BY <1>4, <2>4, <2>5, <2>6, <2>7 DEF RunStep
<1>5. CASE TaskStep
  <2>1. /\ UNCHANGED <<phase, halted, halting>>
        /\ \A u \in Tasks : /\ status[u] # "absent" => status'[u] # "absent"
                            /\ status[u] = "down" => status'[u] = "down"
                            /\ status[u] = "stopping" => status'[u] \in {"stopping", "down"}
    BY <1>0, <1>5 DEF TaskStep, TaskStops, TaskFails, TaskEnds, TaskRestarts
  <2>2. \A y \in Threads : thread'[y].pc = thread[y].pc /\ thread'[y].task = thread[y].task
    BY <1>0, <1>5 DEF TaskStep, TaskStops, TaskFails, TaskEnds, TaskRestarts, ThreadType
  <2> QED
    BY <2>1, <2>2, LockKept
<1>6. CASE Shutdown \/ StopAll
  <2>1. UNCHANGED thread /\ \A u \in Tasks : status[u] # "absent" => status'[u] # "absent"
    BY <1>0, <1>6 DEF Shutdown, StopAll, AskToStopAll, StopAllTasks, HaltTask, TaskHalted,
           TasksHalted, Close
  <2>2. TaskInUse'
    <3> SUFFICES ASSUME NEW y \in Threads, thread[y].pc \in Reading, phase' # "closed"
                 PROVE  status'[thread[y].task] # "absent"
      BY <2>1 DEF TaskInUse, Readers
    <3>1. phase # "closed"
      BY <1>6 DEF Shutdown, StopAll, AskToStopAll, StopAllTasks, HaltTask, TaskHalted,
             TasksHalted, Close
    <3>2. thread[y].task \in Tasks /\ status[thread[y].task] # "absent"
      BY <1>0, <3>1 DEF ThreadOK, Locked, TaskInUse, Readers, Reading
    <3> QED
      BY <2>1, <3>2
  <2>3. Halting'
    <3>1. CASE Shutdown \/ AskToStopAll \/ StopAllTasks \/ TasksHalted \/ Close
      BY <2>1, <3>1 DEF Shutdown, AskToStopAll, StopAllTasks, TasksHalted, Close, Alone, Readers,
             Locked, Halting
    <3>2. ASSUME NEW u \in Tasks, HaltTask(u) PROVE Halting'
      <4>1. Readers' = {} /\ phase' = "stopping" /\ phase = "stopping" /\ halting = NoTask
        BY <2>1, <3>2 DEF HaltTask, Locked, Halting, Readers
      <4>2. ASSUME ~StopMayFail
            PROVE  /\ \A w \in halted' : status'[w] = "down"
                   /\ halting' # NoTask => status'[halting'] \in {"stopping", "down"}
        BY <1>0, <3>2, <4>1, <4>2 DEF HaltTask, Locked, Halting, Typed, TypeOK
      <4> QED
        BY <4>1, <4>2 DEF Halting
    <3>3. CASE TaskHalted
      BY <2>1, <3>3 DEF TaskHalted, Locked, Halting, Readers
    <3> QED
      BY <1>6, <3>1, <3>2, <3>3 DEF StopAll
  <2> QED
    BY <2>2, <2>3 DEF Locked
<1> QED
  BY <1>1, <1>2, <1>3, <1>4, <1>5, <1>6 DEF Next

LEMMA LockInit == Init => Locked
  BY DEF Init, Locked, TaskInUse, Halting, Readers, Reading, Idle

LEMMA LockHolds == Spec => [](Typed /\ Locked)
<1>1. Init => Typed /\ Locked
  BY TypedInit, LockInit
<1>2. Typed /\ Locked /\ [Next]_vars => Typed' /\ Locked'
  BY TypedStep, LockStep
<1> QED
  BY <1>1, <1>2, PTL DEF Spec

(* A stop or restart under way never loses its task to a delete or import.  *)
THEOREM TaskStaysInUse == Spec => []TaskInUse
<1>1. Typed /\ Locked => TaskInUse
  BY DEF Locked
<1> QED
  BY <1>1, LockHolds, PTL

(* What StopAllTasks has stopped stays down while it stops the others.      *)
THEOREM HaltedTasksStayDown == Spec => []HaltedStaysDown
<1>1. Typed /\ Locked => HaltedStaysDown
  BY DEF Locked, Halting, HaltedStaysDown, IsRunningStatus
<1> QED
  BY <1>1, LockHolds, PTL

------------------------------------------------------------------------------
(* Deleted schedules.                                                      *)

OnlyCreated ==
  \A s \in Ids : ~Exists(s) /\ schedules'[s] # NoSchedule
    => UNCHANGED thread /\ schedules'[s].last = "never"

LEMMA CreatedStep == Typed /\ [Next]_vars => OnlyCreated
<1> SUFFICES ASSUME Typed, [Next]_vars, NEW s \in Ids, schedules[s] = NoSchedule,
                    schedules'[s] # NoSchedule
             PROVE  UNCHANGED thread /\ schedules'[s].last = "never"
  BY DEF OnlyCreated, Exists
<1>0. schedules \in [Ids -> ScheduleType \cup {NoSchedule}]
  BY DEF Typed, TypeOK
<1>1. PICK z \in Ids, t \in Tasks, a \in Actions, e \in BOOLEAN : UpsertSchedule(z, t, a, e)
  <2>1. CASE UNCHANGED schedules
    BY <2>1
  <2>3. ASSUME NEW M, schedules' = OrphansDisabled(schedules, M) PROVE FALSE
    BY <2>3 DEF OrphansDisabled
  <2>4. ASSUME NEW z \in Ids, DeleteSchedule(z) PROVE FALSE
    BY <1>0, <2>4 DEF DeleteSchedule, ApplySchedules
  <2>5. ASSUME NEW z \in Ids, NEW e \in BOOLEAN, SetScheduleEnabled(z, e) PROVE FALSE
    BY <1>0, <2>5 DEF SetScheduleEnabled, ApplySchedules, Exists
  <2>6. ASSUME NEW x \in Threads, Report(x) PROVE FALSE
    BY <1>0, <2>6 DEF Report, Exists
  <2>7. CASE StartScheduler \/ Edit
    BY <2>1, <2>3, <2>4, <2>5, <2>7 DEF StartScheduler, Edit, UpsertTask, DeleteTask, ReplaceTasks,
           ApplySchedules
  <2>8. CASE Begin \/ TaskStep \/ Shutdown \/ StopAll \/ UNCHANGED vars
    BY <2>1, <2>8 DEF Begin, Fire, RunScheduleNow, Request, TaskStep, TaskStops, TaskFails, TaskEnds,
           TaskRestarts, Shutdown, StopAll, AskToStopAll, StopAllTasks, HaltTask, TaskHalted,
           TasksHalted, Close, vars
  <2>9. ASSUME NEW x \in Threads, RunStep(x) PROVE FALSE
    BY <2>1, <2>6, <2>9 DEF RunStep, Acquire, Look, DoStart, DoStop, DoRestart, StopForRestart,
           EndWait, Recheck, AskToReport, Release
  <2> QED
    BY <2>7, <2>8, <2>9 DEF Next
<1> DEFINE r == [task |-> t, action |-> a, enabled |-> e,
                 last |-> IF Exists(z) THEN schedules[z].last ELSE "never"]
<1>2. UNCHANGED thread /\ schedules' = [schedules EXCEPT ![z] = r]
  BY <1>1 DEF UpsertSchedule, ApplySchedules
<1>3. z = s
  <2> HIDE DEF r
  <2> QED
    BY <1>0, <1>2
<1>4. schedules'[s] = r
  <2> HIDE DEF r
  <2> QED
    BY <1>0, <1>2, <1>3
<1>5. r.last = "never"
  BY <1>3 DEF Exists
<1> QED
  BY <1>2, <1>4, <1>5

(* A result that arrives late never brings a deleted schedule back: they    *)
(* are made by UpsertSchedule alone, with no run recorded.                  *)
THEOREM LateResultsIgnored == Spec => DeletedStaysDeleted
<1>1. Typed /\ [Next]_vars => [OnlyCreated]_vars
  BY CreatedStep
<1>2. Spec => []Typed
  BY TypedInit, TypedStep, PTL DEF Spec
<1>3. Spec => [][OnlyCreated]_vars
  BY <1>1, <1>2, PTL DEF Spec
<1> QED
  BY <1>3 DEF DeletedStaysDeleted, OnlyCreated
==============================================================================
