--------------------------- MODULE TaskManagerStops ---------------------------
(***************************************************************************)
(* Stops that stick, statuses that are true, and the promise of Supervised *)
(* kept: for every set of tasks, pids and threads, in every behaviour in   *)
(* which no two stops of one adopted process are under way at a time.      *)
(*                                                                         *)
(* The exception is real: two callers may both find an adopted process     *)
(* running, and the one that takes the lock back last finalizes whatever   *)
(* run the task has by then (the run TaskManagerDoubleStop shows it).      *)
(* Where zlt adopts nothing, the hypothesis always holds and is proved.    *)
(***************************************************************************)
EXTENDS TaskManagerProofs

(* x is stopping an adopted process of t, without the lock.                 *)
Stops(x, t) == thread[x].pc \in {"kill", "finalize"} /\ thread[x].task = t

(* x waits for the launched process of t, and has not been told it is gone. *)
Waits(x, t) ==
  /\ thread[x].pc \in {"term", "forced"} /\ ~thread[x].done
  /\ thread[x].task = t /\ thread[x].pid = proc[t].cmd

StopsDoNotOverlap ==
  \A x, y \in Threads, t \in Tasks : Stops(x, t) /\ Stops(y, t) => x = y

------------------------------------------------------------------------------
(* The inductive invariant, task by task.                                  *)

(* What the record q of a task says, given whether a user's stop stands (a) *)
(* and how often the task was restarted by itself (n).                      *)
RecordOK(q, a, n) ==
  /\ q.cmd # NoPid => q.status \notin Terminal /\ q.pid = q.cmd
  /\ q.status \notin Terminal => q.pid # NoPid /\ q.restart = NoTimer /\ n <= q.count
  /\ q.status = "stopping" => q.health = NoChan
  /\ q.restart # NoTimer => n < q.count /\ (q.cfg.max = 0 \/ q.count <= q.cfg.max)
  /\ a => /\ q.restart = NoTimer /\ q.status # "running"
          /\ q.status = "stopping" => q.reason = "user"

TaskInv(t) ==
  /\ RecordOK(proc[t], asked[t], autos[t])
  /\ ~Live(t) => proc[t] = Absent /\ ~asked[t] /\ autos[t] = 0
  /\ \A x \in Threads : Stops(x, t) =>
       Live(t) /\ proc[t].status = "stopping" /\ proc[t].cmd = NoPid
  /\ asked[t] /\ proc[t].cmd # NoPid => \E x \in Threads : Waits(x, t)

StopInv == \A t \in Tasks : TaskInv(t)

------------------------------------------------------------------------------
(* Frames: what a step leaves alone.                                       *)

(* No stop of u begins, and every wait for its process goes on.             *)
Kept(u) ==
  \A x \in Threads : (Stops(x, u)' => Stops(x, u)) /\ (Waits(x, u) => Waits(x, u)')

SameTask(u) ==
  /\ proc'[u] = proc[u] /\ asked'[u] = asked[u] /\ autos'[u] = autos[u]
  /\ u \in managed' <=> u \in managed
  /\ Kept(u)

LEMMA SameTaskInv ==
  ASSUME NEW u \in Tasks, TaskInv(u), SameTask(u) PROVE TaskInv(u)'
BY DEF TaskInv, SameTask, Kept, Live

(* Only t is touched.                                                       *)
LEMMA OneTask ==
  ASSUME StopInv, NEW t, \A u \in Tasks \ {t} : SameTask(u), t \in Tasks => TaskInv(t)'
  PROVE  StopInv'
<1>1. ASSUME NEW u \in Tasks PROVE TaskInv(u)'
  <2>1. CASE u = t
    BY <2>1
  <2>2. CASE u # t
    BY <2>2, SameTaskInv DEF StopInv
  <2> QED BY <2>1, <2>2
<1> QED BY <1>1 DEF StopInv

(* t goes on as it was, but for its timer, its counters or its policy.      *)
LEMMA GoesOn ==
  ASSUME NEW t \in Tasks, TaskInv(t), Kept(t), Live(t), Live(t)',
         proc'[t].status = proc[t].status, proc'[t].cmd = proc[t].cmd,
         asked'[t] => asked[t],
         RecordOK(proc'[t], asked'[t], autos'[t])
  PROVE  TaskInv(t)'
BY DEF TaskInv, Kept

(* t is down, and nobody is stopping it.                                    *)
LEMMA GoesDown ==
  ASSUME NEW t \in Tasks, \A x \in Threads : ~Stops(x, t)',
         Live(t)' \/ (proc'[t] = Absent /\ ~asked'[t] /\ autos'[t] = 0),
         proc'[t].cmd = NoPid, RecordOK(proc'[t], asked'[t], autos'[t])
  PROVE  TaskInv(t)'
BY DEF TaskInv

(* A task that is not busy is being stopped by nobody.                      *)
LEMMA NotBusy ==
  ASSUME TypeOK, NEW t \in Tasks, TaskInv(t), Live(t) => ~Busy(proc[t])
  PROVE  /\ \A x \in Threads : ~Stops(x, t)
         /\ proc[t].cmd = NoPid /\ proc[t].status \in Terminal
BY DEF TaskInv, Busy, Terminal, Absent, NewProc

(* No thread enters Stop, leaves it or moves on in it.                      *)
InStop == {"kill", "finalize", "term", "forced"}

Quiet ==
  \A x \in Threads :
    thread'[x] = thread[x] \/ (thread[x].pc \notin InStop /\ thread'[x].pc \notin InStop)

LEMMA QuietSame == ASSUME UNCHANGED thread PROVE Quiet
BY DEF Quiet

LEMMA QuietThread ==
  ASSUME TypeOK, NEW x, NEW th, x \in Threads => thread[x].pc \notin InStop,
         th.pc \notin InStop, thread' = [thread EXCEPT ![x] = th]
  PROVE  Quiet
BY DEF Quiet, TypeOK

LEMMA KeptSame ==
  ASSUME Quiet, NEW u \in Tasks, proc'[u].cmd = proc[u].cmd PROVE Kept(u)
BY DEF Quiet, InStop, Kept, Stops, Waits

(* The record of t changes, and no stop moves on.                           *)
LEMMA OthersSame ==
  ASSUME TypeOK, NEW t \in Tasks, NEW q1, proc' = [proc EXCEPT ![t] = q1],
         Quiet, NEW a1, NEW n1,
         asked' = [asked EXCEPT ![t] = a1], autos' = [autos EXCEPT ![t] = n1],
         managed' \cup {t} = managed \cup {t}
  PROVE  /\ \A u \in Tasks \ {t} : SameTask(u)
         /\ proc'[t] = q1 /\ asked'[t] = a1 /\ autos'[t] = n1
         /\ q1.cmd = proc[t].cmd => Kept(t)
<1>1. /\ \A u \in Tasks \ {t} : /\ proc'[u] = proc[u] /\ asked'[u] = asked[u]
                                /\ autos'[u] = autos[u] /\ (u \in managed' <=> u \in managed)
      /\ proc'[t] = q1 /\ asked'[t] = a1 /\ autos'[t] = n1
  BY DEF TypeOK
<1>2. \A u \in Tasks \ {t} : Kept(u)
  BY <1>1, KeptSame
<1>3. q1.cmd = proc[t].cmd => Kept(t)
  BY <1>1, KeptSame
<1> QED BY <1>1, <1>2, <1>3 DEF SameTask

LEMMA NobodyStops ==
  ASSUME Quiet, NEW t, \A x \in Threads : ~Stops(x, t)
  PROVE  \A x \in Threads : ~Stops(x, t)'
BY DEF Quiet, InStop, Stops

(* The record of a task changes in its timer, its counters or its policy.   *)
LEMMA OneRecord ==
  ASSUME TypeOK, StopInv, NEW t \in Tasks, Live(t), NEW q1, proc' = [proc EXCEPT ![t] = q1],
         q1.cmd = proc[t].cmd, q1.status = proc[t].status,
         RecordOK(q1, asked[t], autos[t]), Quiet, UNCHANGED <<managed, asked, autos>>
  PROVE  StopInv'
<1>1. proc'[t] = q1 /\ \A u \in Tasks : u # t => proc'[u] = proc[u]
  BY DEF TypeOK
<1>2. \A u \in Tasks : Kept(u)
  BY <1>1, KeptSame
<1>3. \A u \in Tasks \ {t} : SameTask(u)
  BY <1>1, <1>2 DEF SameTask
<1>4. TaskInv(t)'
  BY <1>1, <1>2, GoesOn DEF StopInv, Live
<1> QED BY <1>3, <1>4, OneTask

------------------------------------------------------------------------------
(* The configuration actions.                                              *)

LEMMA EditTaskStops ==
  ASSUME TypeOK, StopInv, NEW t \in Tasks, NEW c \in Configs, EditTask(t, c) PROVE StopInv'
<1> DEFINE q1 == IF Live(t) THEN [proc[t] EXCEPT !.cfg = c, !.restart = NoTimer, !.count = 0]
                 ELSE NewProc(c)
<1>1. TaskInv(t) /\ proc[t] \in ProcType
  BY DEF StopInv, TypeOK
<1>2. /\ \A x \in Threads : ~Stops(x, t)
      /\ proc[t].cmd = NoPid /\ proc[t].status \in Terminal
  BY <1>1, NotBusy DEF EditTask
<1>3. /\ proc' = [proc EXCEPT ![t] = q1] /\ asked' = [asked EXCEPT ![t] = asked[t]]
      /\ autos' = [autos EXCEPT ![t] = 0] /\ managed' = managed \cup {t}
      /\ Quiet
  BY QuietSame DEF EditTask, SetProc, TypeOK
<1>4. q1.cmd = NoPid /\ q1.restart = NoTimer /\ q1.status \in Terminal
  BY <1>1, <1>2 DEF ProcType, NewProc, Terminal
<1>5. RecordOK(q1, asked[t], 0)
  BY <1>4 DEF RecordOK, Terminal
<1> HIDE DEF q1
<1>6. /\ \A u \in Tasks \ {t} : SameTask(u)
      /\ proc'[t] = q1 /\ asked'[t] = asked[t] /\ autos'[t] = 0
  BY <1>3, OthersSame
<1>7. TaskInv(t)'
  BY <1>2, <1>3, <1>4, <1>5, <1>6, NobodyStops, GoesDown DEF Live
<1> QED BY <1>6, <1>7, OneTask

LEMMA SetRestartStops ==
  ASSUME TypeOK, StopInv, NEW t \in Tasks, NEW b \in BOOLEAN, SetRestartOnCrash(t, b)
  PROVE  StopInv'
<1> DEFINE k == [proc[t].cfg EXCEPT !.restart = b]
           r == IF b THEN proc[t].restart ELSE NoTimer
           q1 == [proc[t] EXCEPT !.cfg = k, !.restart = r]
<1>1. TaskInv(t) /\ proc[t] \in ProcType
  BY DEF StopInv, TypeOK
<1>2. /\ proc' = [proc EXCEPT ![t] = q1] /\ Quiet /\ Live(t)
      /\ UNCHANGED <<managed, asked, autos>>
  BY <1>1, QuietSame DEF SetRestartOnCrash, SetProc, TypeOK, ProcType
<1>3. k.max = proc[t].cfg.max /\ r \in {proc[t].restart, NoTimer}
  BY <1>1 DEF ProcType, ConfigType
<1> HIDE DEF k, r
<1>4. /\ q1.cmd = proc[t].cmd /\ q1.pid = proc[t].pid /\ q1.status = proc[t].status
      /\ q1.health = proc[t].health /\ q1.count = proc[t].count
      /\ q1.reason = proc[t].reason /\ q1.cfg = k /\ q1.restart = r
  BY <1>1 DEF ProcType
<1> HIDE DEF q1
<1>5. RecordOK(q1, asked[t], autos[t])
  BY <1>1, <1>3, <1>4 DEF TaskInv, RecordOK
<1> QED BY <1>2, <1>4, <1>5, OneRecord

LEMMA RemoveTaskStops ==
  ASSUME TypeOK, StopInv, NEW t \in Tasks, RemoveTask(t) PROVE StopInv'
<1>1. TaskInv(t)
  BY DEF StopInv
<1>2. \A x \in Threads : ~Stops(x, t)
  BY <1>1, NotBusy DEF RemoveTask
<1>3. /\ proc' = [proc EXCEPT ![t] = Absent] /\ asked' = [asked EXCEPT ![t] = FALSE]
      /\ autos' = [autos EXCEPT ![t] = 0] /\ managed' \cup {t} = managed \cup {t}
      /\ Quiet
  BY QuietSame DEF RemoveTask, SetProc
<1>4. /\ \A u \in Tasks \ {t} : SameTask(u)
      /\ proc'[t] = Absent /\ asked'[t] = FALSE /\ autos'[t] = 0
  BY <1>3, OthersSame
<1>5. Absent.cmd = NoPid /\ RecordOK(Absent, FALSE, 0)
  BY DEF Absent, NewProc, RecordOK, Terminal
<1>6. TaskInv(t)'
  BY <1>2, <1>3, <1>4, <1>5, NobodyStops, GoesDown
<1> QED BY <1>4, <1>6, OneTask

(* What an import, or the start of zlt, installs.                           *)
LEMMA InstalledRecords ==
  ASSUME NEW M, NEW c, NEW a, NEW h, NEW t \in Tasks
  PROVE  LET q == InstalledProcs(M, c, a, h)[t]
         IN  /\ q.cmd = NoPid /\ RecordOK(q, FALSE, 0)
             /\ t \notin M => q = Absent
<1>1. Absent.cmd = NoPid /\ RecordOK(Absent, FALSE, 0)
  BY DEF Absent, NewProc, RecordOK, Terminal
<1> DEFINE q == Installed(c[t], a[t], h[t])
<1>2. /\ q.status = IF a[t] = NoPid THEN "stopped" ELSE "running"
      /\ q.pid = a[t] /\ q.cmd = NoPid /\ q.restart = NoTimer /\ q.count = 0
  BY DEF Installed, NewProc
<1> HIDE DEF q
<1>3. RecordOK(q, FALSE, 0)
  BY <1>2 DEF RecordOK, Terminal
<1> QED BY <1>1, <1>2, <1>3 DEF InstalledProcs, q

LEMMA InstalledMonitors ==
  ASSUME NEW M, NEW c, NEW a, NEW h, NEW th, NEW x \in Threads
  PROVE  \/ InstalledThreads(M, c, a, h, th)[x] = th[x]
         \/ InstalledThreads(M, c, a, h, th)[x].pc = "watching"
BY DEF InstalledThreads, Watching, Idle

LEMMA ReplaceTasksStops ==
  ASSUME TypeOK, StopInv, NEW M \in SUBSET Tasks, ReplaceTasks(M) PROVE StopInv'
<1>1. ASSUME NEW t \in Tasks, NEW x \in Threads PROVE ~Stops(x, t)'
  <2>1. ~Stops(x, t)
    BY NotBusy DEF StopInv, ReplaceTasks, Live
  <2> QED BY <2>1, InstalledMonitors DEF Stops, ReplaceTasks
<1>2. ASSUME NEW t \in Tasks
      PROVE  /\ proc'[t].cmd = NoPid /\ RecordOK(proc'[t], FALSE, 0)
             /\ t \notin M => proc'[t] = Absent
  <2>1. PICK c, a, h : proc' = InstalledProcs(M, c, a, h)
    BY DEF ReplaceTasks
  <2> QED BY <2>1, InstalledRecords
<1>3. \A t \in Tasks : asked'[t] = FALSE /\ autos'[t] = 0
  BY DEF ReplaceTasks
<1>4. managed' = M
  BY DEF ReplaceTasks
<1>5. ASSUME NEW t \in Tasks PROVE TaskInv(t)'
  BY <1>1, <1>2, <1>3, <1>4, GoesDown DEF Live
<1> QED BY <1>5 DEF StopInv

LEMMA InitStops == Init => StopInv
<1> SUFFICES ASSUME Init, NEW t \in Tasks PROVE TaskInv(t)
  BY DEF StopInv
<1>1. asked[t] = FALSE /\ autos[t] = 0
  BY DEF Init
<1>2. /\ proc[t].cmd = NoPid /\ RecordOK(proc[t], FALSE, 0)
      /\ t \notin managed => proc[t] = Absent
  <2>1. PICK c, a, h : proc = InstalledProcs(managed, c, a, h)
    BY DEF Init
  <2> QED BY <2>1, InstalledRecords
<1>3. ASSUME NEW x \in Threads PROVE ~Stops(x, t)
  <2>1. [y \in Threads |-> Idle][x].pc = "idle"
    BY DEF Idle
  <2>2. thread[x].pc \in {"idle", "watching"}
    BY <2>1, InstalledMonitors DEF Init
  <2> QED BY <2>2 DEF Stops
<1> QED BY <1>1, <1>2, <1>3 DEF TaskInv, Live

LEMMA ConfigureStops == ASSUME TypeOK, StopInv, Configure PROVE StopInv'
BY EditTaskStops, SetRestartStops, RemoveTaskStops, ReplaceTasksStops DEF Configure

------------------------------------------------------------------------------
(* Start and Stop.                                                         *)

LEMMA LaunchQuiet ==
  ASSUME TypeOK, NEW t, NEW q, Launch(t, q) PROVE Quiet
<1>1. Idle.pc = "idle" /\ \A u, p : Watching(u, p).pc = "watching"
  BY DEF Idle, Watching
<1>2. ASSUME NEW k, StartMonitor(t, k) PROVE Quiet
  <2>1. CASE \E h \in FreeChans : thread' = [thread EXCEPT ![h] = Watching(t, k.pid)]
    BY <1>1, <2>1, QuietThread DEF FreeChans, InStop
  <2>2. CASE UNCHANGED thread
    BY <2>2, QuietSame
  <2> QED BY <1>2, <2>1, <2>2 DEF StartMonitor
<1> QED BY <1>2, QuietSame DEF Launch

(* A deliberate start, or a restart that nobody has called off.             *)
LEMMA LaunchStops ==
  ASSUME TypeOK, StopInv, NEW t \in Tasks, NEW q \in ProcType, Launch(t, q),
         Live(t), ~Busy(proc[t]), q.cmd = NoPid, q.restart = NoTimer,
         NEW n1 \in Nat, n1 <= q.count, autos' = [autos EXCEPT ![t] = n1],
         asked' = [asked EXCEPT ![t] = FALSE], managed' = managed
  PROVE  StopInv'
<1>1. /\ \A x \in Threads : ~Stops(x, t)
      /\ proc[t].cmd = NoPid /\ proc[t].status \in Terminal
  BY NotBusy DEF StopInv
<1>2. Quiet
  BY LaunchQuiet
<1>3. PICK q1 :
        /\ Becomes(t, q1) /\ q1.restart = NoTimer /\ q1.count = q.count
        /\ \/ q1.status = "running" /\ q1.pid # NoPid /\ q1.cmd \in {NoPid, q1.pid}
           \/ q1.status = "failed" /\ q1.cmd = NoPid
  <2>1. NoPid \notin Pids /\ FreePids \subseteq Pids /\ Matches(t) \subseteq Pids
    BY IdentityAssumption DEF FreePids, Matches
  <2> QED BY <2>1, LaunchEffect
<1>4. RecordOK(q1, FALSE, n1)
  BY <1>3 DEF RecordOK, Terminal
<1>5. /\ \A u \in Tasks \ {t} : SameTask(u)
      /\ proc'[t] = q1 /\ asked'[t] = FALSE /\ autos'[t] = n1
  <2>1. proc' = [proc EXCEPT ![t] = q1] /\ managed' \cup {t} = managed \cup {t}
    BY <1>3 DEF Becomes
  <2> QED BY <1>2, <2>1, OthersSame
<1>6. \A x \in Threads : ~Stops(x, t)'
  BY <1>1, <1>2, NobodyStops
<1>7. TaskInv(t)'
  BY <1>4, <1>5, <1>6 DEF TaskInv, Live
<1> QED BY <1>5, <1>7, OneTask

LEMMA BeginStopStops ==
  ASSUME TypeOK, StopInv, NEW t \in Tasks, NEW x \in Threads, NEW q \in ProcType,
         NEW why \in {"user", "health"}, BeginStop(x, t, q, why), Live(t),
         proc[t].status \notin Terminal, SameRun(q, proc[t]), q.restart = NoTimer,
         q.count = proc[t].count, thread[x].pc \notin InStop, NEW a1, a1 => why = "user",
         asked' = [asked EXCEPT ![t] = a1], UNCHANGED <<autos, managed>>
  PROVE  StopInv'
<1>1. TaskInv(t)
  BY DEF StopInv
<1>2. PICK q1 : /\ Becomes(t, q1) /\ SameRun(q1, q) /\ q1.restart = NoTimer
                /\ q1.status = "stopping" /\ q1.reason = why
                /\ q1.health = NoChan /\ q1.count = proc[t].count
  BY BeginStopEffect
<1>3. RecordOK(q1, a1, autos[t])
  BY <1>1, <1>2 DEF TaskInv, RecordOK, SameRun, Terminal
<1>4. /\ \A u \in Tasks : u # t => proc'[u] = proc[u] /\ asked'[u] = asked[u]
      /\ proc'[t] = q1 /\ asked'[t] = a1
  BY <1>2 DEF Becomes, TypeOK
<1>5. /\ thread'[x].pc = IF q.cmd = NoPid THEN "kill" ELSE "term"
      /\ thread'[x].task = t /\ ~thread'[x].done
      /\ thread'[x].pid = IF q.cmd = NoPid THEN q.pid ELSE q.cmd
  BY DEF BeginStop, TypeOK, ThreadType
<1>6. \A y \in Threads : y # x => thread'[y] = thread[y]
  BY DEF BeginStop, TypeOK
<1>7. ASSUME NEW u \in Tasks \ {t} PROVE SameTask(u)
  <2>1. Kept(u)
    BY <1>4, <1>5, <1>6, <1>7 DEF Kept, Stops, Waits, InStop
  <2> QED BY <1>4, <2>1 DEF SameTask
<1>8. q1.cmd = q.cmd /\ q.cmd = proc[t].cmd
  BY <1>2 DEF SameRun
<1>9. TaskInv(t)'
  <2>1. ASSUME NEW y \in Threads, Stops(y, t)' PROVE q1.cmd = NoPid
    <3>1. CASE y = x
      BY <1>5, <1>8, <2>1, <3>1 DEF Stops
    <3>2. CASE y # x
      BY <1>1, <1>6, <1>8, <2>1, <3>2 DEF Stops, TaskInv
    <3> QED BY <3>1, <3>2
  <2>2. q1.cmd # NoPid => Waits(x, t)'
    BY <1>4, <1>5, <1>8 DEF Waits
  <2> QED BY <1>2, <1>3, <1>4, <2>1, <2>2 DEF TaskInv, Live
<1> QED BY <1>7, <1>9, OneTask

LEMMA CommandStops == ASSUME TypeOK, StopInv, Command PROVE StopInv'
<1>1. ASSUME NEW t \in Tasks
      PROVE  /\ TaskInv(t) /\ proc[t] \in ProcType /\ Fresh(t) \in ProcType
             /\ SameRun(Fresh(t), proc[t]) /\ Fresh(t).status = proc[t].status
             /\ Fresh(t).health = proc[t].health /\ Fresh(t).reason = proc[t].reason
             /\ Fresh(t).restart = NoTimer /\ Fresh(t).count = 0
  BY ZenonT(30) DEF StopInv, TypeOK, Fresh, ProcType, SameRun
<1>2. ASSUME NEW t \in Tasks, StartRefused(t) PROVE StopInv'
  <2> DEFINE q1 == Fresh(t)
  <2>1. /\ proc' = [proc EXCEPT ![t] = q1] /\ asked' = [asked EXCEPT ![t] = asked[t]]
        /\ autos' = [autos EXCEPT ![t] = 0]
        /\ managed' \cup {t} = managed \cup {t} /\ Quiet
    BY <1>2, QuietSame DEF StartRefused, SetProc, TypeOK
  <2>2. q1.cmd = proc[t].cmd
    BY <1>1 DEF SameRun
  <2>3. RecordOK(q1, asked[t], 0)
    BY <1>1 DEF TaskInv, RecordOK, SameRun
  <2> HIDE DEF q1
  <2>4. /\ \A u \in Tasks \ {t} : SameTask(u)
        /\ proc'[t] = q1 /\ asked'[t] = asked[t] /\ autos'[t] = 0 /\ Kept(t)
    BY <2>1, <2>2, OthersSame
  <2>5. Live(t) /\ Live(t)' /\ q1.status = proc[t].status
    BY <1>1, <1>2 DEF StartRefused, Live, q1
  <2>6. TaskInv(t)'
    BY <1>1, <2>2, <2>3, <2>4, <2>5, GoesOn
  <2> QED BY <2>4, <2>6, OneTask
<1>3. ASSUME NEW t \in Tasks, Start(t) PROVE StopInv'
  <2>1. proc[t].cmd = NoPid
    BY <1>3 DEF Start, Busy
  <2>2. 0 <= Fresh(t).count /\ 0 \in Nat /\ Fresh(t).cmd = NoPid
    BY <1>1, <2>1 DEF SameRun
  <2> QED BY <1>1, <1>3, <2>2, LaunchStops DEF Start
<1>4. ASSUME NEW x \in Callers, NEW t \in Tasks, StopCall(x, t) PROVE StopInv'
  <2> DEFINE q == [proc[t] EXCEPT !.restart = NoTimer, !.reason = "user"]
  <2>1. /\ q \in ProcType /\ SameRun(q, proc[t]) /\ q.restart = NoTimer
        /\ q.count = proc[t].count /\ q.status = proc[t].status
        /\ q.cmd = proc[t].cmd
    <3>1. proc[t] \in ProcType
      BY <1>1
    <3> QED BY <3>1 DEF ProcType, SameRun
  <2>2. x \in Threads /\ thread[x].pc \notin InStop /\ Live(t) /\ Live(t)'
    BY <1>4 DEF StopCall, Threads, InStop, Live
  <2>3. CASE q.status \in Terminal
    <3>1. /\ proc' = [proc EXCEPT ![t] = q] /\ asked' = [asked EXCEPT ![t] = TRUE]
          /\ autos' = [autos EXCEPT ![t] = autos[t]]
          /\ managed' \cup {t} = managed \cup {t} /\ Quiet
      BY <1>4, <2>3, QuietSame DEF StopCall, SetProc, TypeOK
    <3>2. q.cmd = NoPid /\ \A y \in Threads : ~Stops(y, t)
      BY <1>1, <2>1, <2>3 DEF TaskInv, RecordOK, Terminal
    <3> HIDE DEF q
    <3>3. RecordOK(q, TRUE, autos[t])
      BY <2>1, <2>3, <3>2 DEF RecordOK, Terminal
    <3>4. /\ \A u \in Tasks \ {t} : SameTask(u)
          /\ proc'[t] = q /\ asked'[t] = TRUE /\ autos'[t] = autos[t]
      BY <3>1, OthersSame
    <3>5. \A y \in Threads : ~Stops(y, t)'
      BY <3>1, <3>2, NobodyStops
    <3>6. TaskInv(t)'
      BY <2>2, <3>2, <3>3, <3>4, <3>5, GoesDown
    <3> QED BY <3>4, <3>6, OneTask
  <2>4. CASE q.status \notin Terminal
    <3>1. BeginStop(x, t, q, "user") /\ asked' = [asked EXCEPT ![t] = TRUE]
          /\ UNCHANGED <<autos, managed>>
      BY <1>4, <2>4 DEF StopCall
    <3> HIDE DEF q
    <3> QED BY <2>1, <2>2, <2>4, <3>1, BeginStopStops
  <2> QED BY <2>3, <2>4
<1> QED BY <1>2, <1>3, <1>4 DEF Command

------------------------------------------------------------------------------
(* The threads of a stop.                                                  *)

LEMMA AllSame ==
  ASSUME StopInv, \A u \in Tasks : SameTask(u) PROVE StopInv'
BY SameTaskInv DEF StopInv

LEMMA QuietTasks ==
  ASSUME Quiet, UNCHANGED <<managed, proc, asked, autos>>
  PROVE  \A u \in Tasks : SameTask(u)
BY KeptSame DEF SameTask

(* Threads other than x stay, and x starts no stop of u.                    *)
LEMMA ThreadKept ==
  ASSUME TypeOK, NEW x \in Threads, NEW th, thread' = [thread EXCEPT ![x] = th],
         NEW u \in Tasks, proc'[u].cmd = proc[u].cmd,
         th.pc \in {"kill", "finalize"} /\ th.task = u => Stops(x, u),
         Waits(x, u) => /\ th.pc \in {"term", "forced"} /\ ~th.done
                        /\ th.task = u /\ th.pid = thread[x].pid
  PROVE  Kept(u)
<1>1. \A y \in Threads : thread'[y] = IF y = x THEN th ELSE thread[y]
  BY DEF TypeOK
<1>2. ASSUME NEW y \in Threads
      PROVE  (Stops(y, u)' => Stops(y, u)) /\ (Waits(y, u) => Waits(y, u)')
  <2>1. CASE y = x
    BY <1>1, <2>1 DEF Stops, Waits
  <2>2. CASE y # x
    BY <1>1, <2>2 DEF Stops, Waits
  <2> QED BY <2>1, <2>2
<1> QED BY <1>2 DEF Kept

(* The end of a record's run, counted or not.                               *)
LEMMA PrepareRecord ==
  ASSUME TypeOK, NEW t \in Tasks, NEW q \in ProcType, PrepareRestart(t, q),
         q.cmd = NoPid, q.status \in Terminal, NEW n \in Nat, n <= q.count
  PROVE  \E q1 : /\ Becomes(t, q1) /\ q1.cmd = NoPid /\ q1.status \in Terminal
                 /\ RecordOK(q1, FALSE, n)
<1>1. PICK q1 : /\ Becomes(t, q1) /\ SameRun(q1, q) /\ q1.status = q.status
                /\ q1.count = q.count + 1
                /\ q1.restart # NoTimer => WithinBudget(q)
  BY PrepareRestartEffect
<1>2. q1.cmd = NoPid /\ q1.status \in Terminal /\ q1.cfg = q.cfg
  BY <1>1 DEF SameRun
<1>3. q.count \in Nat /\ q.cfg.max \in Nat
  BY DEF ProcType, ConfigType
<1>4. q1.restart # NoTimer => n < q1.count /\ (q1.cfg.max = 0 \/ q1.count <= q1.cfg.max)
  BY <1>1, <1>2, <1>3 DEF WithinBudget
<1>5. RecordOK(q1, FALSE, n)
  BY <1>2, <1>4 DEF RecordOK, Terminal
<1> QED BY <1>1, <1>2, <1>5

LEMMA FinalizeRecord ==
  ASSUME TypeOK, NEW t \in Tasks, NEW q \in ProcType, FinalizeStop(t, q),
         q.cmd = NoPid, q.restart = NoTimer, NEW n \in Nat, n <= q.count,
         NEW a \in BOOLEAN, a => q.reason = "user"
  PROVE  \E q1 : /\ Becomes(t, q1) /\ q1.cmd = NoPid /\ q1.status \in Terminal
                 /\ RecordOK(q1, a, n)
<1>1. PICK q1 :
        /\ Becomes(t, q1) /\ SameRun(q1, q)
        /\ IF q.reason = "health"
           THEN /\ q1.status = "failed" /\ q1.count = q.count + 1
                /\ q1.restart # NoTimer => WithinBudget(q)
           ELSE q1.status = "stopped" /\ q1.restart = q.restart
  BY FinalizeStopEffect
<1>2. q1.cmd = NoPid /\ q1.status \in Terminal /\ q1.cfg = q.cfg
  BY <1>1 DEF SameRun, Terminal
<1>3. q.count \in Nat /\ q.cfg.max \in Nat
  BY DEF ProcType, ConfigType
<1>4. q1.restart # NoTimer =>
        ~a /\ n < q1.count /\ (q1.cfg.max = 0 \/ q1.count <= q1.cfg.max)
  BY <1>1, <1>2, <1>3 DEF WithinBudget
<1>5. RecordOK(q1, a, n)
  BY <1>2, <1>4 DEF RecordOK, Terminal
<1> QED BY <1>1, <1>2, <1>5

(* A Stop that returns an error lets its task go.                           *)
LEMMA StopFailsStops ==
  ASSUME TypeOK, StopInv, NEW x \in Threads, StopFails(x),
         UNCHANGED <<managed, proc, autos>>
  PROVE  StopInv'
<1> SUFFICES ASSUME NEW t, t = thread[x].task PROVE StopInv'
  OBVIOUS
<1>1. thread' = [thread EXCEPT ![x] = Idle] /\ Idle.pc = "idle"
  BY DEF StopFails, ThreadEnds, Idle
<1>2. ASSUME NEW u \in Tasks \ {t} PROVE SameTask(u)
  <2>1. asked'[u] = asked[u] /\ ~Waits(x, u)
    BY <1>2 DEF StopFails, TypeOK, Waits
  <2>2. Kept(u)
    BY <1>1, <2>1, ThreadKept
  <2> QED BY <2>1, <2>2 DEF SameTask
<1>3. ASSUME t \in Tasks PROVE TaskInv(t)'
  <2>1. ~asked'[t] /\ TaskInv(t)
    BY <1>3 DEF StopFails, TypeOK, StopInv
  <2>2. \A y \in Threads : Stops(y, t)' => Stops(y, t)
    BY <1>1 DEF TypeOK, Stops
  <2>3. RecordOK(proc[t], asked'[t], autos[t])
    BY <2>1 DEF TaskInv, RecordOK
  <2> QED BY <2>1, <2>2, <2>3 DEF TaskInv, Live
<1> QED BY <1>2, <1>3, OneTask

(* No other stop of the task is under way, so it is over.                   *)
LEMMA FinalizeAdoptedStops ==
  ASSUME TypeOK, StopInv, StopsDoNotOverlap, NEW x \in Threads, FinalizeAdopted(x)
  PROVE  StopInv'
<1> SUFFICES ASSUME NEW t, t = thread[x].task PROVE StopInv'
  OBVIOUS
<1> DEFINE q == [proc[t] EXCEPT !.pid = NoPid]
<1>1. thread' = [thread EXCEPT ![x] = Idle] /\ Idle.pc = "idle" /\ thread[x].pc = "finalize"
  BY DEF FinalizeAdopted, ThreadEnds, Idle
<1>2. ASSUME NEW u \in Tasks, proc'[u] = proc[u] PROVE SameTask(u)
  <2>1. Kept(u)
    BY <1>1, <1>2, ThreadKept DEF Waits
  <2> QED BY <1>2, <2>1 DEF SameTask, FinalizeAdopted
<1>3. CASE ~Live(t)
  BY <1>2, <1>3, AllSame DEF FinalizeAdopted
<1>4. CASE Live(t)
  <2>1. t \in Tasks
    BY <1>4 DEF Live, TypeOK
  <2>2. TaskInv(t) /\ proc[t] \in ProcType /\ asked[t] \in BOOLEAN /\ autos[t] \in Nat
    BY <2>1 DEF StopInv, TypeOK
  <2>3. Stops(x, t)
    BY <1>1 DEF Stops
  <2>4. proc[t].status = "stopping" /\ proc[t].cmd = NoPid
    BY <2>2, <2>3 DEF TaskInv
  <2>5. /\ proc[t].restart = NoTimer /\ autos[t] <= proc[t].count
        /\ asked[t] => proc[t].reason = "user"
    BY <2>2, <2>4 DEF TaskInv, RecordOK, Terminal
  <2>6. /\ q \in ProcType /\ q.cmd = proc[t].cmd /\ q.restart = proc[t].restart
        /\ q.count = proc[t].count /\ q.reason = proc[t].reason
    <3>1. proc[t] \in ProcType
      BY <2>2
    <3> QED BY <3>1 DEF ProcType
  <2>7. FinalizeStop(t, q)
    BY <1>4 DEF FinalizeAdopted
  <2> HIDE DEF q
  <2>8. PICK q1 : /\ Becomes(t, q1) /\ q1.cmd = NoPid /\ q1.status \in Terminal
                  /\ RecordOK(q1, asked[t], autos[t])
    <3>1. q.cmd = NoPid /\ q.restart = NoTimer /\ autos[t] <= q.count
          /\ (asked[t] => q.reason = "user")
      BY <2>4, <2>5, <2>6
    <3> QED BY <2>1, <2>2, <2>6, <2>7, <3>1, FinalizeRecord
  <2>9. proc'[t] = q1 /\ \A u \in Tasks \ {t} : proc'[u] = proc[u]
    BY <2>1, <2>8 DEF Becomes, TypeOK
  <2>10. \A y \in Threads : ~Stops(y, t)'
    <3>1. \A y \in Threads : y # x => ~Stops(y, t)
      BY <2>1, <2>3 DEF StopsDoNotOverlap
    <3> QED BY <1>1, <3>1 DEF Stops, TypeOK
  <2>11. TaskInv(t)'
    BY <1>4, <2>1, <2>8, <2>9, <2>10, GoesDown DEF FinalizeAdopted, Live
  <2> QED BY <1>2, <2>9, <2>11, OneTask
<1> QED BY <1>3, <1>4

LEMMA StopStepStops ==
  ASSUME TypeOK, StopInv, StopsDoNotOverlap, NEW x \in Threads, StopStep(x) PROVE StopInv'
<1>0. thread[x] \in ThreadType
  BY DEF TypeOK
<1>1. CASE UNCHANGED <<managed, proc, autos>> /\ StopFails(x)
  BY <1>1, StopFailsStops
<1>2. CASE FinalizeAdopted(x)
  BY <1>2, FinalizeAdoptedStops
<1>3. ASSUME thread[x].pc = "kill", thread' = [thread EXCEPT ![x].pc = "finalize"],
             UNCHANGED <<managed, proc, asked, autos>>, NEW u \in Tasks
      PROVE  SameTask(u)
  <2> DEFINE th == [thread[x] EXCEPT !.pc = "finalize"]
  <2>1. th.pc = "finalize" /\ th.task = thread[x].task
    BY <1>0 DEF ThreadType
  <2>2. thread' = [thread EXCEPT ![x] = th]
    BY <1>3
  <2> HIDE DEF th
  <2>3. Kept(u)
    BY <1>3, <2>1, <2>2, ThreadKept DEF Stops, Waits
  <2> QED BY <1>3, <2>3 DEF SameTask
<1>4. ASSUME thread[x].pc = "term", thread' = [thread EXCEPT ![x].pc = "forced"],
             UNCHANGED <<managed, proc, asked, autos>>, NEW u \in Tasks
      PROVE  SameTask(u)
  <2> DEFINE th == [thread[x] EXCEPT !.pc = "forced"]
  <2>1. /\ th.pc = "forced" /\ th.task = thread[x].task /\ th.done = thread[x].done
        /\ th.pid = thread[x].pid
    BY <1>0 DEF ThreadType
  <2>2. thread' = [thread EXCEPT ![x] = th]
    BY <1>4
  <2> HIDE DEF th
  <2>3. Kept(u)
    BY <1>4, <2>1, <2>2, ThreadKept DEF Stops, Waits
  <2> QED BY <1>4, <2>3 DEF SameTask
<1>5. ASSUME StopReturns(x), NEW u \in Tasks PROVE SameTask(u)
  <2>1. Idle.pc = "idle" /\ thread' = [thread EXCEPT ![x] = Idle] /\ ~Waits(x, u)
    BY <1>5 DEF Idle, StopReturns, ThreadEnds, Waits
  <2>2. UNCHANGED <<managed, proc, asked, autos>>
    BY <1>5 DEF StopReturns
  <2>3. Kept(u)
    BY <2>1, <2>2, ThreadKept
  <2> QED BY <2>2, <2>3 DEF SameTask
<1>6. CASE KillAdopted(x)
  BY <1>1, <1>3, <1>6, AllSame DEF KillAdopted
<1>7. CASE ForceStop(x)
  BY <1>1, <1>4, <1>7, AllSame DEF ForceStop
<1>8. CASE GiveUp(x)
  BY <1>1, <1>8 DEF GiveUp
<1>9. CASE StopReturns(x)
  BY <1>5, <1>9, AllSame
<1> QED BY <1>2, <1>6, <1>7, <1>8, <1>9 DEF StopStep

------------------------------------------------------------------------------
(* Monitors, waiters, timers and the environment.                          *)

LEMMA ProbeQuiet ==
  ASSUME TypeOK, NEW h \in Chans, ProbeFails(h) \/ ProbeSucceeds(h) PROVE Quiet
<1>1. h \in Threads /\ thread[h] \in ThreadType /\ thread[h].pc = "watching"
  BY DEF Threads, TypeOK, ProbeFails, ProbeSucceeds
<1>2. PICK m, pc : /\ thread' = [thread EXCEPT ![h] = [thread[h] EXCEPT !.fails = m, !.pc = pc]]
                   /\ pc \in {"watching", "tripped"}
  <2>1. CASE ProbeFails(h)
    BY <1>1, <2>1 DEF ProbeFails
  <2>2. CASE ProbeSucceeds(h)
    <3>1. [thread[h] EXCEPT !.fails = 0] = [thread[h] EXCEPT !.fails = 0, !.pc = "watching"]
      BY <1>1 DEF ThreadType
    <3>2. thread' = [thread EXCEPT ![h] = [thread[h] EXCEPT !.fails = 0]]
      BY <2>2 DEF ProbeSucceeds
    <3> QED BY <3>1, <3>2
  <2> QED BY <2>1, <2>2
<1>3. [thread[h] EXCEPT !.fails = m, !.pc = pc].pc = pc
  BY <1>1 DEF ThreadType
<1> QED BY <1>1, <1>2, <1>3, QuietThread DEF InStop

LEMMA ProbeStops ==
  ASSUME TypeOK, StopInv, NEW h \in Chans, ProbeFails(h) \/ ProbeSucceeds(h) PROVE StopInv'
<1> SUFFICES ASSUME NEW t, t = thread[h].task PROVE StopInv'
  OBVIOUS
<1>1. t \in Tasks /\ h \in Threads /\ thread[h] \in ThreadType /\ Live(t)
      /\ thread[h].pc = "watching"
  BY DEF ProbeFails, ProbeSucceeds, Watches, Live, TypeOK, Threads
<1>2. TaskInv(t) /\ proc[t] \in ProcType
  BY <1>1 DEF StopInv, TypeOK
<1>3. PICK n : proc' = [proc EXCEPT ![t] = [proc[t] EXCEPT !.failures = n]]
  BY DEF ProbeFails, ProbeSucceeds, SetProc
<1> DEFINE q1 == [proc[t] EXCEPT !.failures = n]
<1>4. /\ q1.cmd = proc[t].cmd /\ q1.pid = proc[t].pid /\ q1.status = proc[t].status
      /\ q1.health = proc[t].health /\ q1.count = proc[t].count /\ q1.cfg = proc[t].cfg
      /\ q1.reason = proc[t].reason /\ q1.restart = proc[t].restart
  BY <1>2 DEF ProcType
<1>6. Quiet
  BY ProbeQuiet
<1>7. proc' = [proc EXCEPT ![t] = q1]
  BY <1>3
<1> HIDE DEF q1
<1>8. RecordOK(q1, asked[t], autos[t])
  BY <1>2, <1>4 DEF TaskInv, RecordOK
<1>9. q1.cmd = proc[t].cmd /\ q1.status = proc[t].status
  BY <1>4
<1>10. UNCHANGED <<managed, asked, autos>>
  BY DEF ProbeFails, ProbeSucceeds
<1> QED BY <1>1, <1>6, <1>7, <1>8, <1>9, <1>10, OneRecord

LEMMA MonitorStops == ASSUME TypeOK, StopInv, NEW h \in Chans, Monitor(h) PROVE StopInv'
<1> DEFINE t == thread[h].task
<1>1. h \in Threads /\ Idle.pc \notin InStop
  BY DEF Threads, Idle, InStop
<1>2. CASE ProbeFails(h) \/ ProbeSucceeds(h)
  BY <1>2, ProbeStops
<1>3. ASSUME thread[h].pc \notin InStop, thread' = [thread EXCEPT ![h] = Idle],
             UNCHANGED <<managed, proc, asked, autos>>
      PROVE  StopInv'
  BY <1>1, <1>3, QuietThread, QuietTasks, AllSame
<1>4. CASE HealthStop(h)
  <2>1. thread[h].pc \notin InStop /\ UNCHANGED <<managed, asked, autos>>
    BY <1>4 DEF HealthStop, InStop
  <2>2. CASE Live(t) /\ proc[t].status \notin Terminal /\ proc[t].health = h
             /\ BeginStop(h, t, proc[t], "health")
    <3>1. t \in Tasks
      BY <2>2 DEF Live, TypeOK
    <3>2. TaskInv(t) /\ proc[t] \in ProcType /\ SameRun(proc[t], proc[t])
      BY <3>1 DEF StopInv, TypeOK, SameRun
    <3>3. proc[t].restart = NoTimer /\ proc[t].status # "stopping"
      BY <2>2, <3>2, IdentityAssumption DEF TaskInv, RecordOK
    <3>4. ~asked[t]
      BY <2>2, <3>2, <3>3 DEF TaskInv, RecordOK, ProcType
    <3>5. asked' = [asked EXCEPT ![t] = FALSE]
      BY <2>1, <3>1, <3>4 DEF TypeOK
    <3> QED BY <1>1, <2>1, <2>2, <3>1, <3>2, <3>3, <3>5, BeginStopStops
  <2>3. CASE thread' = [thread EXCEPT ![h] = Idle] /\ UNCHANGED proc
    BY <1>3, <2>1, <2>3
  <2> QED BY <1>4, <2>2, <2>3 DEF HealthStop
<1>5. CASE MonitorEnds(h)
  BY <1>3, <1>5 DEF MonitorEnds, ThreadEnds, InStop
<1> QED BY <1>2, <1>4, <1>5 DEF Monitor

(* The reaped process is the cmd of its task: nobody is stopping an adopted *)
(* process of it, and nobody else waits for this one.                       *)
LEMMA ReapStops ==
  ASSUME TypeOK, OwnInv, StopInv, NEW k \in Pids, Reap(k) PROVE StopInv'
<1> SUFFICES ASSUME NEW t, t = os[k].owner PROVE StopInv'
  OBVIOUS
<1> DEFINE q == [MonitorStopped(proc[t]) EXCEPT !.cmd = NoPid, !.pid = NoPid]
<1>1. t \in Tasks /\ Child(k, t)
  BY DEF Reap, TypeOK, OsType, Child
<1>2. Live(t) /\ proc[t].cmd = k /\ k # NoPid
  BY <1>1, IdentityAssumption DEF OwnInv
<1>3. TaskInv(t) /\ proc[t] \in ProcType /\ asked[t] \in BOOLEAN /\ autos[t] \in Nat
  BY <1>1 DEF StopInv, TypeOK
<1>4. /\ proc[t].status \in {"running", "stopping"} /\ proc[t].restart = NoTimer
      /\ autos[t] <= proc[t].count
      /\ proc[t].status = "running" => ~asked[t]
      /\ asked[t] => proc[t].reason = "user"
  BY <1>2, <1>3 DEF TaskInv, RecordOK, ProcType
<1>5. /\ q \in ProcType /\ q.cmd = NoPid /\ q.restart = proc[t].restart
      /\ q.count = proc[t].count /\ q.reason = proc[t].reason /\ q.status = proc[t].status
  <2>1. proc[t] \in ProcType
    BY <1>3
  <2> DEFINE q2 == MonitorStopped(proc[t])
  <2>2. /\ q2 \in ProcType /\ q2.restart = proc[t].restart /\ q2.count = proc[t].count
        /\ q2.reason = proc[t].reason /\ q2.status = proc[t].status
    BY <2>1 DEF MonitorStopped, ProcType
  <2> HIDE DEF q2
  <2>3. /\ [q2 EXCEPT !.cmd = NoPid, !.pid = NoPid] \in ProcType
        /\ [q2 EXCEPT !.cmd = NoPid, !.pid = NoPid].cmd = NoPid
        /\ [q2 EXCEPT !.cmd = NoPid, !.pid = NoPid].restart = q2.restart
        /\ [q2 EXCEPT !.cmd = NoPid, !.pid = NoPid].count = q2.count
        /\ [q2 EXCEPT !.cmd = NoPid, !.pid = NoPid].reason = q2.reason
        /\ [q2 EXCEPT !.cmd = NoPid, !.pid = NoPid].status = q2.status
    BY <2>2 DEF ProcType
  <2> QED BY <2>2, <2>3 DEF q2
<1>6. /\ UNCHANGED <<managed, asked, autos>>
      /\ IF proc[t].status = "stopping" THEN FinalizeStop(t, q)
         ELSE \/ PrepareRestart(t, [q EXCEPT !.status = "exited"])
              \/ SetProc(t, [q EXCEPT !.status = "stopped", !.count = 0])
  BY <1>2, <1>5 DEF Reap
<1> HIDE DEF q
<1>7. PICK q1 : /\ Becomes(t, q1) /\ q1.cmd = NoPid
                /\ RecordOK(q1, asked[t], autos[t])
  <2>1. CASE proc[t].status = "stopping"
    <3>1. q.cmd = NoPid /\ q.restart = NoTimer /\ autos[t] <= q.count
          /\ (asked[t] => q.reason = "user")
      BY <1>4, <1>5
    <3> QED BY <1>1, <1>3, <1>5, <1>6, <2>1, <3>1, FinalizeRecord
  <2>2. CASE proc[t].status # "stopping" /\ PrepareRestart(t, [q EXCEPT !.status = "exited"])
    <3> DEFINE q2 == [q EXCEPT !.status = "exited"]
    <3>1. /\ q2 \in ProcType /\ q2.cmd = NoPid /\ q2.status \in Terminal /\ q2.count = q.count
      BY <1>5 DEF ProcType, Terminal
    <3> HIDE DEF q2
    <3>2. PrepareRestart(t, q2) /\ autos[t] <= q2.count
      BY <1>4, <1>5, <2>2, <3>1 DEF q2
    <3>3. asked[t] = FALSE
      BY <1>3, <1>4, <2>2
    <3> QED BY <1>1, <1>3, <3>1, <3>2, <3>3, PrepareRecord
  <2>3. CASE proc[t].status # "stopping" /\ SetProc(t, [q EXCEPT !.status = "stopped", !.count = 0])
    <3> DEFINE q2 == [q EXCEPT !.status = "stopped", !.count = 0]
    <3>1. /\ q2 \in ProcType /\ q2.cmd = NoPid /\ q2.status = "stopped" /\ q2.restart = q.restart
      BY <1>5 DEF ProcType, Terminal
    <3>2. Becomes(t, q2)
      BY <2>3, <3>1 DEF SetProc, Becomes
    <3> HIDE DEF q2
    <3>3. RecordOK(q2, asked[t], autos[t])
      BY <1>4, <1>5, <3>1 DEF RecordOK, Terminal
    <3> QED BY <3>1, <3>2, <3>3
  <2> QED BY <1>6, <2>1, <2>2, <2>3
<1>8. proc'[t] = q1 /\ \A u \in Tasks \ {t} : proc'[u] = proc[u]
  BY <1>1, <1>7 DEF Becomes, TypeOK
<1>9. \A x \in Threads :
        IF thread[x].pc \in {"term", "forced"} /\ thread[x].pid = k
        THEN thread'[x] = [thread[x] EXCEPT !.done = TRUE]
        ELSE thread'[x] = thread[x]
  BY DEF Reap
<1>10. \A x \in Threads : thread'[x].pc = thread[x].pc /\ thread'[x].task = thread[x].task
  <2>1. \A x \in Threads : thread[x] \in ThreadType
    BY DEF TypeOK
  <2> QED BY <1>9, <2>1 DEF ThreadType
<1>11. ASSUME NEW u \in Tasks \ {t} PROVE SameTask(u)
  <2>1. proc[u].cmd # k
    BY <1>11 DEF OwnInv, Child
  <2>2. Kept(u)
    BY <1>8, <1>9, <1>10, <2>1 DEF Kept, Stops, Waits
  <2> QED BY <1>6, <1>8, <2>2 DEF SameTask
<1>12. \A x \in Threads : ~Stops(x, t)'
  BY <1>2, <1>3, <1>10 DEF TaskInv, Stops
<1>13. TaskInv(t)'
  BY <1>1, <1>2, <1>6, <1>7, <1>8, <1>12, GoesDown DEF Live
<1> QED BY <1>11, <1>13, OneTask

(* A restart that waits was called off by nobody and is within its budget.  *)
LEMMA TimerFiresStops ==
  ASSUME TypeOK, StopInv, NEW r \in Timers, TimerFires(r) PROVE StopInv'
<1> SUFFICES ASSUME NEW t, t = timer[r] PROVE StopInv'
  OBVIOUS
<1> DEFINE q == [proc[t] EXCEPT !.restart = NoTimer]
<1>1. t \in Tasks /\ UNCHANGED <<managed, asked>>
  BY DEF TimerFires, TypeOK
<1>2. TaskInv(t) /\ proc[t] \in ProcType /\ asked[t] \in BOOLEAN /\ autos[t] \in Nat
  BY <1>1 DEF StopInv, TypeOK
<1>3. /\ q \in ProcType /\ SameRun(q, proc[t]) /\ q.restart = NoTimer /\ q.cmd = proc[t].cmd
      /\ q.count = proc[t].count /\ q.status = proc[t].status /\ q.health = proc[t].health
      /\ q.reason = proc[t].reason
  <2>1. proc[t] \in ProcType
    BY <1>2
  <2> QED BY <2>1 DEF ProcType, SameRun
<1>4. CASE UNCHANGED <<proc, thread, os, autos>>
  BY <1>1, <1>4, QuietSame, QuietTasks, AllSame
<1>5. CASE Live(t) /\ SetProc(t, q) /\ UNCHANGED <<thread, os, autos>>
  <2>1. proc' = [proc EXCEPT ![t] = q] /\ Quiet
    BY <1>5, QuietSame DEF SetProc
  <2> HIDE DEF q
  <2>2. RecordOK(q, asked[t], autos[t])
    BY <1>2, <1>3 DEF TaskInv, RecordOK, SameRun
  <2> QED BY <1>1, <1>3, <1>5, <2>1, <2>2, OneRecord
<1>6. CASE /\ Live(t) /\ proc[t].restart = r /\ ~Busy(q) /\ Launch(t, q)
           /\ autos' = [autos EXCEPT ![t] = @ + 1]
  <2> HIDE DEF q
  <2>1. r # NoTimer /\ ~Busy(proc[t]) /\ q.cmd = NoPid
    BY <1>3, <1>6, IdentityAssumption DEF Busy
  <2>2. ~asked[t] /\ autos[t] < proc[t].count /\ proc[t].count \in Nat
    BY <1>2, <1>6, <2>1 DEF TaskInv, RecordOK, ProcType
  <2>3. autos[t] + 1 \in Nat /\ autos[t] + 1 <= q.count
    BY <1>2, <1>3, <2>2
  <2>4. asked' = [asked EXCEPT ![t] = FALSE] /\ autos' = [autos EXCEPT ![t] = autos[t] + 1]
    BY <1>1, <1>6, <2>2 DEF TypeOK
  <2> QED BY <1>1, <1>3, <1>6, <2>1, <2>3, <2>4, LaunchStops
<1> QED BY <1>4, <1>5, <1>6 DEF TimerFires, Restarting

LEMMA NextStops ==
  ASSUME TypeOK, OwnInv, StopInv, StopsDoNotOverlap, [Next]_vars PROVE StopInv'
<1>1. CASE UNCHANGED vars \/ Environment
  <2>1. UNCHANGED <<managed, proc, thread, asked, autos>>
    BY <1>1 DEF vars, Environment, ChildExits, ExternalStarts, ExternalExits
  <2> QED BY <2>1, QuietSame, QuietTasks, AllSame
<1>2. CASE Next
  BY <1>1, <1>2, ConfigureStops, CommandStops, StopStepStops, MonitorStops, ReapStops,
     TimerFiresStops DEF Next
<1> QED BY <1>1, <1>2

------------------------------------------------------------------------------
(* The invariants of the runs.                                             *)

LEMMA StopInvHolds == Spec /\ []StopsDoNotOverlap => []StopInv
<1>1. Init => StopInv
  BY InitStops
<1>2. TypeOK /\ OwnInv /\ StopInv /\ StopsDoNotOverlap /\ [Next]_vars => StopInv'
  BY NextStops
<1> QED BY <1>1, <1>2, TypeCorrect, OwnInvHolds, PTL DEF Spec

(* The shown status agrees with the processes: a task with a launched       *)
(* process is running or stopping and shows its pid, and a task in neither  *)
(* status has no process (startLocked, wait and finalizeStopLocked).        *)
THEOREM StatusesTrue == Spec /\ []StopsDoNotOverlap => []StatusTruth
<1>1. TypeOK /\ StopInv => StatusTruth
  BY DEF TypeOK, StopInv, TaskInv, RecordOK, StatusTruth
<1> QED BY <1>1, StopInvHolds, TypeCorrect, PTL

(* While a user's stop stands no restart waits, the task does not run, and  *)
(* the stop in progress is the user's even when a health monitor began it   *)
(* (stopWithReason, prepareRestartLocked and scheduleRestart).              *)
THEOREM UserStopsStick == Spec /\ []StopsDoNotOverlap => []UserStopSticks
<1>1. TypeOK /\ StopInv => UserStopSticks
  BY DEF TypeOK, StopInv, TaskInv, RecordOK, UserStopSticks
<1> QED BY <1>1, StopInvHolds, TypeCorrect, PTL

(* When every Stop call of a task has come back and the user's stop stands, *)
(* no process that zlt launched for it is left.                             *)
THEOREM StopsAreDone == Spec /\ []StopsDoNotOverlap => []StopIsDone
<1>1. ASSUME OwnInv, StopInv, NEW t \in Tasks, asked[t], NEW p \in Pids, Child(p, t)
      PROVE  \E x \in Threads : thread[x].task = t /\ thread[x].pc \in {"term", "forced"}
  <2>1. proc[t].cmd # NoPid
    BY <1>1, IdentityAssumption DEF OwnInv
  <2> QED BY <1>1, <2>1 DEF StopInv, TaskInv, Waits
<1>2. OwnInv /\ StopInv => StopIsDone
  BY <1>1 DEF StopIsDone
<1> QED BY <1>2, StopInvHolds, OwnInvHolds, PTL

------------------------------------------------------------------------------
(* The promise of Supervised.                                              *)

(* The record of a task, read off its managedProcess alone.                 *)
Shown(l, q, a, n) ==
  [phase    |-> IF ~l THEN "absent"
                ELSE IF q.status \in Terminal THEN "down"
                ELSE IF q.status = "stopping" THEN "stopping" ELSE "up",
   policy   |-> [restart |-> q.cfg.restart, max |-> q.cfg.max],
   waiting  |-> q.restart # NoTimer,
   halted   |-> a,
   restarts |-> n,
   alive    |-> q.cmd # NoPid]

(* What the record r shows of such a task.                                  *)
Shows(r, l, q, a, n) ==
  /\ r \in Promise!RecordType /\ r.phase \in {"absent", "down", "up", "stopping"}
  /\ r.phase = "absent" <=> ~l
  /\ r.phase = "down" <=> l /\ q.status \in Terminal
  /\ r.phase = "stopping" <=> l /\ q.status = "stopping"
  /\ r.phase = "up" <=> l /\ q.status = "running"
  /\ r.policy \in Promise!Policies
  /\ r.policy.restart = q.cfg.restart /\ r.policy.max = q.cfg.max
  /\ r.waiting <=> q.restart # NoTimer
  /\ r.halted = a /\ r.restarts = n
  /\ r.alive <=> q.cmd # NoPid

LEMMA ShownShows ==
  ASSUME NEW l, NEW q \in ProcType, NEW a \in BOOLEAN, NEW n \in Nat
  PROVE  Shows(Shown(l, q, a, n), l, q, a, n)
<1>1. /\ q.cfg.restart \in BOOLEAN /\ q.cfg.max \in Nat
      /\ q.status \in Terminal \cup {"running", "stopping"}
  BY DEF ProcType, ConfigType
<1> QED BY <1>1 DEF Shows, Shown, Promise!RecordType, Promise!Policies, Terminal

Seen(t) == Shown(Live(t), proc[t], asked[t], autos[t])

LEMMA SeenIs ==
  ASSUME TypeOK, OwnInv, NEW t \in Tasks PROVE TaskRecord(t) = Seen(t)
<1>1. (\E p \in Pids : Child(p, t)) <=> proc[t].cmd # NoPid
  BY IdentityAssumption DEF TypeOK, ProcType, OwnInv
<1> QED BY <1>1 DEF TaskRecord, Seen, Shown

LEMMA SeenIsNext ==
  ASSUME TypeOK', OwnInv', NEW t \in Tasks PROVE TaskRecord(t)' = Seen(t)'
<1>1. (\E p \in Pids : Child(p, t)') <=> proc'[t].cmd # NoPid
  BY IdentityAssumption DEF TypeOK, ProcType, OwnInv
<1> QED BY <1>1 DEF TaskRecord, Seen, Shown

(* The others are left alone, and t takes a promised step or none.          *)
OnlyTask(t) ==
  \A u \in Tasks \ {t} : /\ proc'[u] = proc[u] /\ asked'[u] = asked[u]
                         /\ autos'[u] = autos[u] /\ (u \in managed' <=> u \in managed)

Promised(t) ==
  /\ OnlyTask(t)
  /\ Promise!Step(Seen(t), Seen(t)') \/ Seen(t)' = Seen(t)

LEMMA SeenChanges ==
  ASSUME TypeOK, NEW t \in Tasks, NEW q1 \in ProcType, proc' = [proc EXCEPT ![t] = q1],
         NEW a1 \in BOOLEAN, asked' = [asked EXCEPT ![t] = a1],
         NEW n1 \in Nat, autos' = [autos EXCEPT ![t] = n1],
         managed' \cup {t} = managed \cup {t}
  PROVE  /\ OnlyTask(t)
         /\ Shows(Seen(t), Live(t), proc[t], asked[t], autos[t])
         /\ Shows(Seen(t)', t \in managed', q1, a1, n1)
         /\ proc[t] \in ProcType /\ asked[t] \in BOOLEAN /\ autos[t] \in Nat
<1>1. OnlyTask(t)
  BY DEF OnlyTask, TypeOK
<1>2. proc[t] \in ProcType /\ asked[t] \in BOOLEAN /\ autos[t] \in Nat
  BY DEF TypeOK
<1>3. Shows(Seen(t), Live(t), proc[t], asked[t], autos[t])
  BY <1>2, ShownShows DEF Seen, Live
<1>4. Seen(t)' = Shown(t \in managed', q1, a1, n1)
  BY DEF TypeOK, Seen, Live
<1>5. Shows(Seen(t)', t \in managed', q1, a1, n1)
  BY <1>4, ShownShows
<1> QED BY <1>1, <1>2, <1>3, <1>5

LEMMA SeenBecomes ==
  ASSUME TypeOK, NEW t \in Tasks, NEW q1, Becomes(t, q1), Live(t),
         UNCHANGED <<managed, asked>>, NEW n1 \in Nat, autos' = [autos EXCEPT ![t] = n1]
  PROVE  /\ OnlyTask(t)
         /\ Shows(Seen(t), Live(t), proc[t], asked[t], autos[t])
         /\ Shows(Seen(t)', t \in managed', q1, asked[t], n1)
         /\ t \in managed'
<1>1. asked[t] \in BOOLEAN /\ asked' = [asked EXCEPT ![t] = asked[t]]
  BY DEF TypeOK
<1>2. managed' \cup {t} = managed \cup {t} /\ t \in managed'
  BY DEF Live
<1>3. q1 \in ProcType /\ proc' = [proc EXCEPT ![t] = q1]
  BY DEF Becomes
<1> QED BY <1>1, <1>2, <1>3, SeenChanges

(* The steps of Supervised, field by field.                                 *)

LEMMA EditPromised ==
  ASSUME NEW r \in Promise!RecordType, NEW s \in Promise!RecordType, Promise!AtRest(r),
         s.phase = "down", s.waiting = FALSE, s.restarts = 0,
         s.halted = r.halted, s.alive = r.alive
  PROVE  Promise!Step(r, s)
<1>1. s = [r EXCEPT !.phase = "down", !.policy = s.policy, !.waiting = FALSE, !.restarts = 0]
  BY DEF Promise!RecordType
<1> QED BY <1>1 DEF Promise!Step, Promise!Edit, Promise!RecordType

LEMMA SwitchPromised ==
  ASSUME NEW r \in Promise!RecordType, NEW s \in Promise!RecordType, r.phase # "absent",
         s.phase = r.phase, s.policy.max = r.policy.max,
         s.waiting <=> r.waiting /\ s.policy.restart,
         s.halted = r.halted, s.restarts = r.restarts, s.alive = r.alive
  PROVE  Promise!Step(r, s)
<1> DEFINE p == [r.policy EXCEPT !.restart = s.policy.restart]
           w == r.waiting /\ s.policy.restart
<1>1. s.policy = p /\ s.policy.restart \in BOOLEAN
  BY DEF Promise!RecordType, Promise!Policies
<1>2. s.waiting = w
  BY DEF Promise!RecordType, Promise!Policies
<1> HIDE DEF p, w
<1>3. s = [r EXCEPT !.policy = p, !.waiting = w]
  BY <1>1, <1>2 DEF Promise!RecordType
<1>4. s = [r EXCEPT !.policy = [r.policy EXCEPT !.restart = s.policy.restart],
                    !.waiting = r.waiting /\ s.policy.restart]
  BY <1>3 DEF p, w
<1> QED BY <1>1, <1>4 DEF Promise!Step, Promise!SwitchPolicy

LEMMA RemovePromised ==
  ASSUME NEW r \in Promise!RecordType, r.phase = "down", ~r.alive
  PROVE  Promise!Step(r, Promise!Absent)
BY DEF Promise!Step, Promise!Remove, Promise!AtRest

LEMMA StartRefusedPromised ==
  ASSUME NEW r \in Promise!RecordType, NEW s \in Promise!RecordType,
         r.phase \in {"up", "stopping"}, s.phase = r.phase, s.policy = r.policy,
         s.waiting = FALSE, s.restarts = 0, s.halted = r.halted, s.alive = r.alive
  PROVE  Promise!Step(r, s)
<1>1. s = [r EXCEPT !.waiting = FALSE, !.restarts = 0]
  BY DEF Promise!RecordType
<1> QED BY <1>1 DEF Promise!Step, Promise!Start, Promise!Fresh

(* A launch leaves the task as r0, or brings it up.                         *)
LEMMA LaunchedPromised ==
  ASSUME NEW r0 \in Promise!RecordType, NEW s \in Promise!RecordType,
         s.phase = "up" \/ (s.phase = r0.phase /\ s.alive = r0.alive),
         s.policy = r0.policy, s.waiting = r0.waiting, s.halted = r0.halted,
         s.restarts = r0.restarts
  PROVE  Promise!Launched(r0, s)
<1>1. CASE s.phase = "up"
  <2>1. s = [r0 EXCEPT !.phase = "up", !.alive = s.alive] /\ s.alive \in BOOLEAN
    BY <1>1 DEF Promise!RecordType
  <2> QED BY <2>1 DEF Promise!Launched
<1>2. CASE s.phase = r0.phase /\ s.alive = r0.alive
  <2>1. s = r0
    BY <1>2 DEF Promise!RecordType
  <2> QED BY <2>1 DEF Promise!Launched
<1> QED BY <1>1, <1>2

LEMMA StartPromised ==
  ASSUME NEW r \in Promise!RecordType, NEW s \in Promise!RecordType,
         r.phase = "down", ~r.alive, s.phase = "up" \/ (s.phase = "down" /\ ~s.alive),
         s.policy = r.policy, s.waiting = FALSE, s.halted = FALSE, s.restarts = 0
  PROVE  Promise!Step(r, s)
<1> DEFINE r1 == Promise!Fresh(r)
           r0 == [r1 EXCEPT !.halted = FALSE]
<1>1. /\ r1 \in Promise!RecordType /\ r1.phase = r.phase /\ r1.alive = r.alive
      /\ r1.policy = r.policy /\ r1.waiting = FALSE /\ r1.restarts = 0
  BY DEF Promise!RecordType, Promise!Fresh
<1> HIDE DEF r1
<1>2. /\ r0 \in Promise!RecordType /\ r0.phase = r.phase /\ r0.alive = r.alive
      /\ r0.policy = r.policy /\ r0.waiting = FALSE /\ r0.restarts = 0 /\ r0.halted = FALSE
  BY <1>1 DEF Promise!RecordType
<1>3. s.alive \in BOOLEAN /\ r.alive \in BOOLEAN
  BY DEF Promise!RecordType
<1> HIDE DEF r0
<1>4. Promise!Launched(r0, s)
  BY <1>2, <1>3, LaunchedPromised
<1> QED BY <1>4 DEF Promise!Step, Promise!Start, r0, r1

LEMMA RestartPromised ==
  ASSUME NEW r \in Promise!RecordType, NEW s \in Promise!RecordType,
         r.phase = "down", ~r.alive, r.waiting, Promise!MayRestart(r),
         s.phase = "up" \/ (s.phase = "down" /\ ~s.alive),
         s.policy = r.policy, s.waiting = FALSE, s.halted = r.halted,
         s.restarts = r.restarts + 1
  PROVE  Promise!Step(r, s)
<1> DEFINE r0 == [r EXCEPT !.waiting = FALSE, !.restarts = @ + 1]
<1>1. /\ r0 \in Promise!RecordType /\ r0.phase = r.phase /\ r0.alive = r.alive
      /\ r0.policy = r.policy /\ r0.waiting = FALSE /\ r0.restarts = r.restarts + 1
      /\ r0.halted = r.halted
  BY DEF Promise!RecordType
<1>2. s.alive \in BOOLEAN /\ r.alive \in BOOLEAN
  BY DEF Promise!RecordType
<1> HIDE DEF r0
<1>3. Promise!Launched(r0, s)
  BY <1>1, <1>2, LaunchedPromised
<1> QED BY <1>3 DEF Promise!Step, Promise!Restart, r0

LEMMA StopPromised ==
  ASSUME NEW r \in Promise!RecordType, NEW s \in Promise!RecordType, r.phase # "absent",
         s.phase = IF r.phase = "down" THEN "down" ELSE "stopping",
         s.policy = r.policy, s.waiting = FALSE, s.halted = TRUE,
         s.restarts = r.restarts, s.alive = r.alive
  PROVE  Promise!Step(r, s)
<1> DEFINE ph == IF r.phase = "down" THEN r.phase ELSE "stopping"
<1>1. s.phase = ph
  OBVIOUS
<1> HIDE DEF ph
<1>2. s = [r EXCEPT !.halted = TRUE, !.waiting = FALSE, !.phase = ph]
  BY <1>1 DEF Promise!RecordType
<1> QED BY <1>2 DEF Promise!Step, Promise!Stop, ph

LEMMA StopFailsPromised ==
  ASSUME NEW r \in Promise!RecordType, NEW s \in Promise!RecordType, r.halted,
         s.phase = r.phase, s.policy = r.policy, s.waiting = r.waiting, s.halted = FALSE,
         s.restarts = r.restarts, s.alive = r.alive
  PROVE  Promise!Step(r, s)
<1>1. s = [r EXCEPT !.halted = FALSE]
  BY DEF Promise!RecordType
<1> QED BY <1>1 DEF Promise!Step, Promise!StopFails

LEMMA HealthStopPromised ==
  ASSUME NEW r \in Promise!RecordType, NEW s \in Promise!RecordType,
         r.phase = "up", s.phase = "stopping", s.policy = r.policy,
         s.waiting = r.waiting, s.halted = r.halted,
         s.restarts = r.restarts, s.alive = r.alive
  PROVE  Promise!Step(r, s)
<1>1. s = [r EXCEPT !.phase = "stopping"]
  BY DEF Promise!RecordType
<1> QED BY <1>1 DEF Promise!Step, Promise!HealthStop

LEMMA EndsPromised ==
  ASSUME NEW r \in Promise!RecordType, NEW s \in Promise!RecordType,
         r.phase = "stopping" \/ (r.phase = "up" /\ r.alive), s.phase = "down",
         s.alive = FALSE, s.waiting => Promise!MayRestart(r),
         s.policy = r.policy, s.halted = r.halted, s.restarts = r.restarts
  PROVE  Promise!Step(r, s)
<1>1. /\ s = [r EXCEPT !.phase = "down", !.alive = FALSE, !.waiting = s.waiting]
      /\ s.waiting \in BOOLEAN
  BY DEF Promise!RecordType
<1> QED BY <1>1 DEF Promise!Step, Promise!Ends

LEMMA AbsentPromised ==
  ASSUME NEW s \in Promise!RecordType, s.phase = "absent", s.policy.restart = FALSE,
         s.policy.max = 0, s.waiting = FALSE, s.halted = FALSE, s.restarts = 0,
         s.alive = FALSE
  PROVE  s = Promise!Absent
<1>1. s.policy = [restart |-> FALSE, max |-> 0]
  BY DEF Promise!RecordType, Promise!Policies
<1> QED BY <1>1 DEF Promise!RecordType, Promise!Absent

------------------------------------------------------------------------------
(* Each action keeps the promise.                                          *)

LEMMA EditTaskPromised ==
  ASSUME TypeOK, StopInv, NEW t \in Tasks, NEW c \in Configs, EditTask(t, c)
  PROVE  Promised(t)
<1> DEFINE q1 == IF Live(t) THEN [proc[t] EXCEPT !.cfg = c, !.restart = NoTimer, !.count = 0]
                 ELSE NewProc(c)
<1>1. TaskInv(t) /\ proc[t] \in ProcType /\ c \in ConfigType
  BY ConfigAssumption DEF StopInv, TypeOK
<1>2. proc[t].cmd = NoPid /\ proc[t].status \in Terminal
  BY <1>1, NotBusy DEF EditTask
<1>3. q1 \in ProcType /\ q1.cmd = NoPid /\ q1.restart = NoTimer /\ q1.status \in Terminal
  BY <1>1, <1>2 DEF ProcType, NewProc, Terminal
<1>4. /\ proc' = [proc EXCEPT ![t] = q1] /\ asked' = [asked EXCEPT ![t] = asked[t]]
      /\ autos' = [autos EXCEPT ![t] = 0] /\ managed' = managed \cup {t}
  BY DEF EditTask, SetProc, TypeOK
<1> HIDE DEF q1
<1>5. asked[t] \in BOOLEAN
  BY DEF TypeOK
<1>6. /\ OnlyTask(t)
      /\ Shows(Seen(t), Live(t), proc[t], asked[t], autos[t])
      /\ Shows(Seen(t)', t \in managed', q1, asked[t], 0)
  BY <1>3, <1>4, <1>5, SeenChanges
<1>7. Promise!AtRest(Seen(t))
  BY <1>2, <1>6 DEF Shows, Promise!AtRest
<1>8. Promise!Step(Seen(t), Seen(t)')
  BY <1>2, <1>3, <1>4, <1>6, <1>7, EditPromised DEF Shows, Promise!RecordType
<1> QED BY <1>6, <1>8 DEF Promised

LEMMA SetRestartPromised ==
  ASSUME TypeOK, NEW t \in Tasks, NEW b \in BOOLEAN, SetRestartOnCrash(t, b)
  PROVE  Promised(t)
<1> DEFINE k == [proc[t].cfg EXCEPT !.restart = b]
           r == IF b THEN proc[t].restart ELSE NoTimer
           q1 == [proc[t] EXCEPT !.cfg = k, !.restart = r]
<1>1. proc[t] \in ProcType /\ asked[t] \in BOOLEAN /\ autos[t] \in Nat
  BY DEF TypeOK
<1>2. /\ proc' = [proc EXCEPT ![t] = q1] /\ Live(t) /\ t \in managed'
      /\ managed' \cup {t} = managed \cup {t}
      /\ asked' = [asked EXCEPT ![t] = asked[t]] /\ autos' = [autos EXCEPT ![t] = autos[t]]
  BY <1>1 DEF SetRestartOnCrash, SetProc, TypeOK, ProcType, Live
<1>3. /\ k \in ConfigType /\ k.max = proc[t].cfg.max /\ k.restart = b
      /\ r \in Timers \cup {NoTimer}
      /\ r # NoTimer <=> b /\ proc[t].restart # NoTimer
  BY <1>1 DEF ProcType, ConfigType
<1> HIDE DEF k, r
<1>4. /\ q1 \in ProcType /\ q1.cmd = proc[t].cmd /\ q1.status = proc[t].status
      /\ q1.cfg = k /\ q1.restart = r
  BY <1>1, <1>3 DEF ProcType
<1> HIDE DEF q1
<1>5. /\ OnlyTask(t)
      /\ Shows(Seen(t), Live(t), proc[t], asked[t], autos[t])
      /\ Shows(Seen(t)', t \in managed', q1, asked[t], autos[t])
  BY <1>1, <1>2, <1>4, SeenChanges
<1>6. Promise!Step(Seen(t), Seen(t)')
  BY <1>2, <1>3, <1>4, <1>5, SwitchPromised DEF Shows, Promise!RecordType
<1> QED BY <1>5, <1>6 DEF Promised

LEMMA RemoveTaskPromised ==
  ASSUME TypeOK, StopInv, NEW t \in Tasks, RemoveTask(t) PROVE Promised(t)
<1>1. proc[t].cmd = NoPid /\ proc[t].status \in Terminal
  BY NotBusy DEF RemoveTask, StopInv
<1>2. Absent \in ProcType
  BY DEF Absent, NewProc, NoConfig, ProcType, ConfigType, Terminal
<1>a. /\ Absent.cfg.restart = FALSE /\ Absent.cfg.max = 0
      /\ Absent.restart = NoTimer /\ Absent.cmd = NoPid
  BY DEF Absent, NewProc, NoConfig
<1>3. /\ proc' = [proc EXCEPT ![t] = Absent] /\ asked' = [asked EXCEPT ![t] = FALSE]
      /\ autos' = [autos EXCEPT ![t] = 0] /\ managed' \cup {t} = managed \cup {t}
      /\ Live(t) /\ t \notin managed'
  BY DEF RemoveTask, SetProc
<1>4. /\ OnlyTask(t)
      /\ Shows(Seen(t), Live(t), proc[t], asked[t], autos[t])
      /\ Shows(Seen(t)', t \in managed', Absent, FALSE, 0)
  BY <1>2, <1>3, SeenChanges
<1>5. Seen(t)' = Promise!Absent
  BY <1>a, <1>3, <1>4, AbsentPromised DEF Shows, Promise!RecordType
<1>6. Promise!Step(Seen(t), Seen(t)')
  BY <1>1, <1>3, <1>4, <1>5, RemovePromised DEF Shows
<1> QED BY <1>4, <1>6 DEF Promised

LEMMA StartRefusedIsPromised ==
  ASSUME TypeOK, StopInv, NEW t \in Tasks, StartRefused(t) PROVE Promised(t)
<1> DEFINE q1 == Fresh(t)
<1>1. proc[t] \in ProcType /\ asked[t] \in BOOLEAN /\ TaskInv(t)
  BY DEF TypeOK, StopInv
<1>2. /\ proc' = [proc EXCEPT ![t] = q1] /\ asked' = [asked EXCEPT ![t] = asked[t]]
      /\ autos' = [autos EXCEPT ![t] = 0]
      /\ managed' \cup {t} = managed \cup {t} /\ Live(t) /\ t \in managed'
  BY <1>1 DEF StartRefused, SetProc, TypeOK, Live
<1>3. proc[t].status \notin Terminal
  BY <1>1 DEF StartRefused, Busy, TaskInv, RecordOK
<1>4. /\ q1 \in ProcType /\ q1.cmd = proc[t].cmd /\ q1.status = proc[t].status
      /\ q1.cfg = proc[t].cfg /\ q1.restart = NoTimer
  BY <1>1 DEF Fresh, ProcType
<1> HIDE DEF q1
<1>5. /\ OnlyTask(t)
      /\ Shows(Seen(t), Live(t), proc[t], asked[t], autos[t])
      /\ Shows(Seen(t)', t \in managed', q1, asked[t], 0)
  BY <1>1, <1>2, <1>4, SeenChanges
<1>6. Seen(t)'.policy = Seen(t).policy
  BY <1>4, <1>5 DEF Shows, Promise!Policies
<1>7. Promise!Step(Seen(t), Seen(t)')
  BY <1>2, <1>3, <1>4, <1>5, <1>6, StartRefusedPromised DEF Shows, Promise!RecordType
<1> QED BY <1>5, <1>7 DEF Promised

(* What a launch does to the record.                                        *)
LEMMA LaunchShown ==
  ASSUME TypeOK, NEW t \in Tasks, NEW q \in ProcType, Launch(t, q), q.cmd = NoPid,
         q.restart = NoTimer
  PROVE  \E q1 : /\ Becomes(t, q1) /\ q1.restart = NoTimer /\ q1.cfg = q.cfg
                 /\ q1.status = "running" \/ (q1.status \in Terminal /\ q1.cmd = NoPid)
BY LaunchEffect DEF Terminal

LEMMA StartIsPromised ==
  ASSUME TypeOK, NEW t \in Tasks, Start(t) PROVE Promised(t)
<1> DEFINE q == Fresh(t)
<1>1. proc[t] \in ProcType /\ proc[t].cmd = NoPid /\ proc[t].status \in Terminal
  BY DEF TypeOK, Start, Busy
<1>2. /\ q \in ProcType /\ q.cmd = NoPid /\ q.cfg = proc[t].cfg /\ q.restart = NoTimer
  BY <1>1 DEF Fresh, ProcType
<1>3. Launch(t, q)
  BY DEF Start
<1> HIDE DEF q
<1>4. PICK q1 : /\ Becomes(t, q1) /\ q1.restart = NoTimer /\ q1.cfg = q.cfg
                /\ q1.status = "running" \/ (q1.status \in Terminal /\ q1.cmd = NoPid)
  BY <1>2, <1>3, LaunchShown
<1>5. /\ proc' = [proc EXCEPT ![t] = q1] /\ asked' = [asked EXCEPT ![t] = FALSE]
      /\ autos' = [autos EXCEPT ![t] = 0]
      /\ managed' \cup {t} = managed \cup {t} /\ Live(t) /\ t \in managed'
      /\ q1 \in ProcType
  BY <1>4 DEF Start, Becomes, Live
<1>6. /\ OnlyTask(t)
      /\ Shows(Seen(t), Live(t), proc[t], asked[t], autos[t])
      /\ Shows(Seen(t)', t \in managed', q1, FALSE, 0)
  BY <1>5, SeenChanges
<1>7. Seen(t)'.policy = Seen(t).policy
  BY <1>2, <1>4, <1>6 DEF Shows, Promise!Policies
<1>8. Promise!Step(Seen(t), Seen(t)')
  BY <1>1, <1>4, <1>5, <1>6, <1>7, StartPromised DEF Shows, Promise!RecordType
<1> QED BY <1>6, <1>8 DEF Promised

LEMMA StopCallPromised ==
  ASSUME TypeOK, NEW x \in Callers, NEW t \in Tasks, StopCall(x, t) PROVE Promised(t)
<1> DEFINE q == [proc[t] EXCEPT !.restart = NoTimer, !.reason = "user"]
<1>1. proc[t] \in ProcType /\ autos[t] \in Nat
  BY DEF TypeOK
<1>2. /\ q \in ProcType /\ q.cmd = proc[t].cmd /\ q.cfg = proc[t].cfg
      /\ q.restart = NoTimer /\ q.status = proc[t].status
  BY <1>1 DEF ProcType
<1>3. IF q.status \in Terminal THEN SetProc(t, q) ELSE BeginStop(x, t, q, "user")
  BY DEF StopCall
<1> HIDE DEF q
<1>4. PICK q1 : /\ Becomes(t, q1) /\ q1.restart = NoTimer
                /\ q1.cfg = proc[t].cfg /\ q1.cmd = proc[t].cmd
                /\ IF q.status \in Terminal THEN q1.status = q.status
                   ELSE q1.status = "stopping"
  <2>1. CASE q.status \in Terminal
    BY <1>2, <1>3, <2>1 DEF SetProc, Becomes
  <2>2. CASE q.status \notin Terminal
    BY <1>2, <1>3, <2>2, BeginStopEffect DEF SameRun
  <2> QED BY <2>1, <2>2
<1>5. /\ proc' = [proc EXCEPT ![t] = q1] /\ asked' = [asked EXCEPT ![t] = TRUE]
      /\ autos' = [autos EXCEPT ![t] = autos[t]]
      /\ managed' \cup {t} = managed \cup {t} /\ Live(t) /\ t \in managed'
      /\ q1 \in ProcType
  BY <1>4 DEF StopCall, Becomes, Live, TypeOK
<1>6. /\ OnlyTask(t)
      /\ Shows(Seen(t), Live(t), proc[t], asked[t], autos[t])
      /\ Shows(Seen(t)', t \in managed', q1, TRUE, autos[t])
  BY <1>1, <1>5, SeenChanges
<1>7. Seen(t)'.policy = Seen(t).policy
  BY <1>4, <1>6 DEF Shows, Promise!Policies
<1>8. Seen(t)'.phase = IF Seen(t).phase = "down" THEN "down" ELSE "stopping"
  BY <1>2, <1>4, <1>5, <1>6 DEF Shows
<1>9. Promise!Step(Seen(t), Seen(t)')
  BY <1>2, <1>4, <1>5, <1>6, <1>7, <1>8, StopPromised DEF Shows, Promise!RecordType
<1> QED BY <1>6, <1>9 DEF Promised

LEMMA HealthStopIsPromised ==
  ASSUME TypeOK, StopInv, NEW h, NEW t \in Tasks, BeginStop(h, t, proc[t], "health"),
         Live(t), proc[t].status \notin Terminal, proc[t].health = h, h \in Chans,
         UNCHANGED <<managed, asked, autos>>
  PROVE  Promised(t)
<1>1. proc[t] \in ProcType /\ TaskInv(t) /\ asked[t] \in BOOLEAN /\ autos[t] \in Nat
  BY DEF TypeOK, StopInv
<1>2. proc[t].status = "running"
  BY <1>1, IdentityAssumption DEF TaskInv, RecordOK, ProcType
<1>3. PICK q1 : /\ Becomes(t, q1) /\ q1.restart = proc[t].restart
                /\ q1.cfg = proc[t].cfg /\ q1.cmd = proc[t].cmd /\ q1.status = "stopping"
  BY <1>1, BeginStopEffect DEF SameRun
<1>4. /\ proc' = [proc EXCEPT ![t] = q1] /\ asked' = [asked EXCEPT ![t] = asked[t]]
      /\ autos' = [autos EXCEPT ![t] = autos[t]]
      /\ managed' \cup {t} = managed \cup {t} /\ t \in managed' /\ q1 \in ProcType
  BY <1>3 DEF Becomes, Live, TypeOK
<1>5. /\ OnlyTask(t)
      /\ Shows(Seen(t), Live(t), proc[t], asked[t], autos[t])
      /\ Shows(Seen(t)', t \in managed', q1, asked[t], autos[t])
  BY <1>1, <1>4, SeenChanges, ZenonT(30)
<1>6. Seen(t)'.policy = Seen(t).policy
  BY <1>3, <1>5 DEF Shows, Promise!Policies
<1>7. Promise!Step(Seen(t), Seen(t)')
  BY <1>2, <1>3, <1>4, <1>5, <1>6, HealthStopPromised DEF Shows, Promise!RecordType
<1> QED BY <1>5, <1>7 DEF Promised

(* A stop that has failed stands no longer.                                 *)
LEMMA StopFailsIsPromised ==
  ASSUME TypeOK, NEW x \in Threads, StopFails(x), UNCHANGED <<managed, proc, autos>>
  PROVE  UNCHANGED asked \/ \E t \in Tasks : Promised(t)
<1>1. CASE thread[x].task \notin Tasks
  BY <1>1 DEF StopFails, TypeOK
<1>2. ASSUME NEW t \in Tasks, thread[x].task = t, asked[t] PROVE Promised(t)
  <2>1. proc[t] \in ProcType /\ autos[t] \in Nat
    BY DEF TypeOK
  <2>2. /\ proc' = [proc EXCEPT ![t] = proc[t]] /\ asked' = [asked EXCEPT ![t] = FALSE]
        /\ autos' = [autos EXCEPT ![t] = autos[t]]
        /\ managed' \cup {t} = managed \cup {t} /\ (t \in managed' <=> Live(t))
    BY <1>2 DEF StopFails, TypeOK, Live
  <2>3. /\ OnlyTask(t)
        /\ Shows(Seen(t), Live(t), proc[t], asked[t], autos[t])
        /\ Shows(Seen(t)', t \in managed', proc[t], FALSE, autos[t])
    BY <2>1, <2>2, SeenChanges
  <2>4. /\ Seen(t)'.policy = Seen(t).policy /\ Seen(t).halted
        /\ Seen(t)'.phase = Seen(t).phase
    BY <1>2, <2>2, <2>3 DEF Shows, Promise!Policies
  <2>a. /\ Seen(t)'.waiting = Seen(t).waiting /\ Seen(t)'.alive = Seen(t).alive
        /\ Seen(t)'.restarts = Seen(t).restarts
    BY <2>3 DEF Shows, Promise!RecordType
  <2>b. /\ Seen(t)'.halted = FALSE
        /\ Seen(t) \in Promise!RecordType /\ Seen(t)' \in Promise!RecordType
    BY <2>3 DEF Shows
  <2>5. Promise!Step(Seen(t), Seen(t)')
    BY <2>4, <2>a, <2>b, StopFailsPromised
  <2> QED BY <2>3, <2>5 DEF Promised
<1>3. ASSUME NEW t \in Tasks, thread[x].task = t, ~asked[t] PROVE UNCHANGED asked
  BY <1>3 DEF StopFails, TypeOK
<1> QED BY <1>1, <1>2, <1>3

(* A run or its stop has come to an end.                                    *)
LEMMA EndsIsPromised ==
  ASSUME TypeOK, NEW t \in Tasks, Live(t),
         proc[t].status = "stopping" \/ (proc[t].status = "running" /\ proc[t].cmd # NoPid),
         NEW q1, Becomes(t, q1), q1.cmd = NoPid, q1.status \in Terminal,
         q1.cfg = proc[t].cfg, autos[t] <= proc[t].count,
         q1.restart # NoTimer => proc[t].cfg.restart /\ ~asked[t] /\ WithinBudget(proc[t]),
         UNCHANGED <<managed, asked, autos>>
  PROVE  Promised(t)
<1>1. autos[t] \in Nat /\ autos' = [autos EXCEPT ![t] = autos[t]]
  BY DEF TypeOK
<1>2. proc[t].count \in Nat /\ proc[t].cfg.max \in Nat
  BY DEF TypeOK, ProcType, ConfigType
<1>3. /\ OnlyTask(t)
      /\ Shows(Seen(t), Live(t), proc[t], asked[t], autos[t])
      /\ Shows(Seen(t)', t \in managed', q1, asked[t], autos[t])
      /\ t \in managed'
  BY <1>1, SeenBecomes
<1>4. Seen(t)'.policy = Seen(t).policy
  BY <1>3 DEF Shows, Promise!Policies
<1>5. q1.restart # NoTimer => proc[t].cfg.max = 0 \/ autos[t] < proc[t].cfg.max
  BY <1>1, <1>2 DEF WithinBudget
<1>6. Seen(t)'.waiting => Promise!MayRestart(Seen(t))
  BY <1>3, <1>5 DEF Shows, Promise!MayRestart
<1>7. Promise!Step(Seen(t), Seen(t)')
  BY <1>3, <1>4, <1>6, EndsPromised DEF Shows, Promise!RecordType, Terminal
<1> QED BY <1>3, <1>7 DEF Promised

LEMMA FinalizeShown ==
  ASSUME TypeOK, NEW t \in Tasks, NEW q \in ProcType, FinalizeStop(t, q),
         q.cmd = NoPid, q.restart = NoTimer
  PROVE  \E q1 : /\ Becomes(t, q1) /\ q1.cmd = NoPid /\ q1.status \in Terminal
                 /\ q1.cfg = q.cfg
                 /\ q1.restart # NoTimer =>
                      q.reason = "health" /\ q.cfg.restart /\ WithinBudget(q)
BY FinalizeStopEffect DEF SameRun, Terminal

LEMMA FinalizeIsPromised ==
  ASSUME TypeOK, StopInv, NEW x \in Threads, FinalizeAdopted(x), NEW t, t = thread[x].task
  PROVE  \/ t \in Tasks /\ Promised(t)
         \/ UNCHANGED <<managed, proc, asked, autos>>
<1>1. CASE ~Live(t)
  BY <1>1 DEF FinalizeAdopted
<1>2. CASE Live(t)
  <2> DEFINE q == [proc[t] EXCEPT !.pid = NoPid]
  <2>1. t \in Tasks
    BY <1>2 DEF Live, TypeOK
  <2>2. proc[t] \in ProcType /\ TaskInv(t) /\ Stops(x, t)
    BY <2>1 DEF StopInv, TypeOK, Stops, FinalizeAdopted
  <2>3. proc[t].status = "stopping" /\ proc[t].cmd = NoPid
    BY <2>2 DEF TaskInv
  <2>4. /\ proc[t].restart = NoTimer /\ autos[t] <= proc[t].count
        /\ asked[t] => proc[t].reason = "user"
    BY <2>2, <2>3 DEF TaskInv, RecordOK, Terminal
  <2>5. /\ q \in ProcType /\ q.cmd = NoPid /\ q.restart = NoTimer
        /\ q.cfg = proc[t].cfg /\ q.count = proc[t].count /\ q.reason = proc[t].reason
    BY <2>2, <2>3, <2>4 DEF ProcType
  <2>6. FinalizeStop(t, q) /\ UNCHANGED <<managed, asked, autos>>
    BY <1>2 DEF FinalizeAdopted
  <2> HIDE DEF q
  <2>7. PICK q1 : /\ Becomes(t, q1) /\ q1.cmd = NoPid /\ q1.status \in Terminal
                  /\ q1.cfg = q.cfg
                  /\ q1.restart # NoTimer =>
                       q.reason = "health" /\ q.cfg.restart /\ WithinBudget(q)
    BY <2>1, <2>5, <2>6, FinalizeShown
  <2>8. q1.restart # NoTimer => proc[t].cfg.restart /\ ~asked[t] /\ WithinBudget(proc[t])
    BY <2>4, <2>5, <2>7 DEF WithinBudget
  <2> QED BY <1>2, <2>1, <2>3, <2>4, <2>5, <2>6, <2>7, <2>8, EndsIsPromised
<1> QED BY <1>1, <1>2

LEMMA ReapIsPromised ==
  ASSUME TypeOK, OwnInv, StopInv, NEW k \in Pids, Reap(k), NEW t, t = os[k].owner
  PROVE  t \in Tasks /\ Promised(t)
<1> DEFINE q == [MonitorStopped(proc[t]) EXCEPT !.cmd = NoPid, !.pid = NoPid]
<1>1. t \in Tasks /\ Child(k, t)
  BY DEF Reap, TypeOK, OsType, Child
<1>2. Live(t) /\ proc[t].cmd = k /\ k # NoPid
  BY <1>1, IdentityAssumption DEF OwnInv
<1>3. proc[t] \in ProcType /\ TaskInv(t)
  BY <1>1 DEF StopInv, TypeOK
<1>4. /\ proc[t].status \in {"running", "stopping"} /\ proc[t].restart = NoTimer
      /\ autos[t] <= proc[t].count
      /\ proc[t].status = "running" => ~asked[t]
      /\ asked[t] => proc[t].reason = "user"
  BY <1>2, <1>3 DEF TaskInv, RecordOK, ProcType
<1>5. /\ q \in ProcType /\ q.cmd = NoPid /\ q.restart = NoTimer /\ q.cfg = proc[t].cfg
      /\ q.count = proc[t].count /\ q.reason = proc[t].reason /\ q.status = proc[t].status
  <2> DEFINE q2 == MonitorStopped(proc[t])
  <2>1. /\ q2 \in ProcType /\ q2.restart = proc[t].restart /\ q2.count = proc[t].count
        /\ q2.reason = proc[t].reason /\ q2.status = proc[t].status /\ q2.cfg = proc[t].cfg
    BY <1>3 DEF MonitorStopped, ProcType
  <2> HIDE DEF q2
  <2>2. /\ [q2 EXCEPT !.cmd = NoPid, !.pid = NoPid] \in ProcType
        /\ [q2 EXCEPT !.cmd = NoPid, !.pid = NoPid].cmd = NoPid
        /\ [q2 EXCEPT !.cmd = NoPid, !.pid = NoPid].cfg = q2.cfg
        /\ [q2 EXCEPT !.cmd = NoPid, !.pid = NoPid].restart = q2.restart
        /\ [q2 EXCEPT !.cmd = NoPid, !.pid = NoPid].count = q2.count
        /\ [q2 EXCEPT !.cmd = NoPid, !.pid = NoPid].reason = q2.reason
        /\ [q2 EXCEPT !.cmd = NoPid, !.pid = NoPid].status = q2.status
    BY <2>1 DEF ProcType
  <2> QED BY <1>4, <2>1, <2>2 DEF q2
<1>6. /\ UNCHANGED <<managed, asked, autos>>
      /\ IF proc[t].status = "stopping" THEN FinalizeStop(t, q)
         ELSE \/ PrepareRestart(t, [q EXCEPT !.status = "exited"])
              \/ SetProc(t, [q EXCEPT !.status = "stopped", !.count = 0])
  BY <1>2, <1>5 DEF Reap
<1> HIDE DEF q
<1>7. PICK q1 : /\ Becomes(t, q1) /\ q1.cmd = NoPid /\ q1.status \in Terminal
                /\ q1.cfg = q.cfg
                /\ q1.restart # NoTimer => q.cfg.restart /\ ~asked[t] /\ WithinBudget(q)
  <2>1. CASE proc[t].status = "stopping"
    <3>1. PICK q1 : /\ Becomes(t, q1) /\ q1.cmd = NoPid /\ q1.status \in Terminal
                    /\ q1.cfg = q.cfg
                    /\ q1.restart # NoTimer =>
                         q.reason = "health" /\ q.cfg.restart /\ WithinBudget(q)
      BY <1>1, <1>5, <1>6, <2>1, FinalizeShown
    <3> QED BY <1>4, <1>5, <3>1
  <2>2. CASE proc[t].status # "stopping" /\ PrepareRestart(t, [q EXCEPT !.status = "exited"])
    <3> DEFINE q2 == [q EXCEPT !.status = "exited"]
    <3>1. /\ q2 \in ProcType /\ q2.cmd = NoPid /\ q2.status = "exited" /\ q2.count = q.count
          /\ q2.cfg = q.cfg
      BY <1>5 DEF ProcType, Terminal
    <3> HIDE DEF q2
    <3>2. PrepareRestart(t, q2)
      BY <2>2 DEF q2
    <3>3. PICK q1 : /\ Becomes(t, q1) /\ SameRun(q1, q2) /\ q1.status = q2.status
                    /\ q1.restart # NoTimer => q2.cfg.restart /\ WithinBudget(q2)
      BY <1>1, <3>1, <3>2, PrepareRestartEffect
    <3> QED BY <1>4, <2>2, <3>1, <3>3 DEF SameRun, WithinBudget, Terminal
  <2>3. CASE proc[t].status # "stopping" /\ SetProc(t, [q EXCEPT !.status = "stopped", !.count = 0])
    <3> DEFINE q2 == [q EXCEPT !.status = "stopped", !.count = 0]
    <3>1. /\ q2 \in ProcType /\ q2.cmd = NoPid /\ q2.status = "stopped"
          /\ q2.restart = NoTimer /\ q2.cfg = q.cfg
      BY <1>5 DEF ProcType, Terminal
    <3>2. Becomes(t, q2)
      BY <2>3, <3>1 DEF SetProc, Becomes
    <3> HIDE DEF q2
    <3> QED BY <3>1, <3>2 DEF Terminal
  <2> QED BY <1>6, <2>1, <2>2, <2>3
<1>8. q1.restart # NoTimer => proc[t].cfg.restart /\ ~asked[t] /\ WithinBudget(proc[t])
  BY <1>5, <1>7 DEF WithinBudget
<1>9. proc[t].status = "stopping" \/ (proc[t].status = "running" /\ proc[t].cmd # NoPid)
  BY <1>2, <1>4
<1>10. q1.cfg = proc[t].cfg
  BY <1>5, <1>7
<1> QED BY <1>1, <1>2, <1>4, <1>6, <1>7, <1>8, <1>9, <1>10, EndsIsPromised

(* A timer that is still the task's finds it down and within its budget.    *)
LEMMA TimerIsPromised ==
  ASSUME TypeOK, StopInv, NEW r \in Timers, TimerFires(r), NEW t, t = timer[r]
  PROVE  \/ t \in Tasks /\ Promised(t)
         \/ UNCHANGED <<managed, proc, asked, autos>>
<1> DEFINE q == [proc[t] EXCEPT !.restart = NoTimer]
<1>1. t \in Tasks /\ UNCHANGED <<managed, asked>>
  BY DEF TimerFires, TypeOK
<1>2. proc[t] \in ProcType /\ TaskInv(t) /\ asked[t] \in BOOLEAN /\ autos[t] \in Nat
  BY <1>1 DEF StopInv, TypeOK
<1>3. /\ q \in ProcType /\ q.restart = NoTimer /\ q.cmd = proc[t].cmd
      /\ q.count = proc[t].count /\ q.status = proc[t].status /\ q.cfg = proc[t].cfg
  BY <1>2 DEF ProcType
<1>4. CASE ~Restarting(r)
  BY <1>1, <1>4 DEF TimerFires
<1>5. CASE Restarting(r)
  <2>1. Live(t) /\ proc[t].restart # NoTimer /\ proc[t].cfg.restart
    BY <1>5, IdentityAssumption DEF Restarting
  <2>2. /\ proc[t].status \in Terminal /\ proc[t].cmd = NoPid /\ ~asked[t]
        /\ autos[t] < proc[t].count
        /\ proc[t].cfg.max = 0 \/ proc[t].count <= proc[t].cfg.max
    BY <1>2, <2>1 DEF TaskInv, RecordOK
  <2>3. proc[t].count \in Nat /\ proc[t].cfg.max \in Nat
    BY <1>2 DEF ProcType, ConfigType
  <2>4. ~Busy(q) /\ ~(q.cfg.max > 0 /\ q.count > q.cfg.max)
    BY <1>3, <2>2, <2>3 DEF Busy
  <2>5. Launch(t, q) /\ autos' = [autos EXCEPT ![t] = autos[t] + 1]
    BY <1>5, <2>4 DEF TimerFires
  <2> HIDE DEF q
  <2>6. PICK q1 : /\ Becomes(t, q1) /\ q1.restart = NoTimer /\ q1.cfg = q.cfg
                  /\ q1.status = "running" \/ (q1.status \in Terminal /\ q1.cmd = NoPid)
    BY <1>1, <1>3, <2>2, <2>5, LaunchShown
  <2> DEFINE n == autos[t] + 1
  <2>7. n \in Nat /\ autos' = [autos EXCEPT ![t] = n]
    BY <1>2, <2>5
  <2> HIDE DEF n
  <2>8. /\ OnlyTask(t)
        /\ Shows(Seen(t), Live(t), proc[t], asked[t], autos[t])
        /\ Shows(Seen(t)', t \in managed', q1, asked[t], n)
        /\ t \in managed'
    BY <1>1, <2>1, <2>6, <2>7, SeenBecomes
  <2>9. Seen(t)'.policy = Seen(t).policy
    BY <1>3, <2>6, <2>8 DEF Shows, Promise!Policies
  <2>10. proc[t].cfg.max = 0 \/ autos[t] < proc[t].cfg.max
    BY <1>2, <2>2, <2>3
  <2>11. Promise!MayRestart(Seen(t))
    BY <2>1, <2>2, <2>8, <2>10 DEF Shows, Promise!MayRestart
  <2>12. /\ Seen(t).phase = "down" /\ ~Seen(t).alive /\ Seen(t).waiting
    BY <2>1, <2>2, <2>8 DEF Shows
  <2>13. Seen(t)'.phase = "up" \/ (Seen(t)'.phase = "down" /\ ~Seen(t)'.alive)
    BY <2>6, <2>8 DEF Shows
  <2>14. /\ Seen(t)'.waiting = FALSE /\ Seen(t)'.halted = Seen(t).halted
         /\ Seen(t)'.restarts = Seen(t).restarts + 1
    BY <2>6, <2>8 DEF Shows, Promise!RecordType, n
  <2>15. Promise!Step(Seen(t), Seen(t)')
    BY <2>8, <2>9, <2>11, <2>12, <2>13, <2>14, RestartPromised DEF Shows
  <2> QED BY <1>1, <2>8, <2>15 DEF Promised
<1> QED BY <1>4, <1>5

(* An import, or the start of zlt.                                          *)
LEMMA InstalledPromised ==
  ASSUME NEW s \in Promise!RecordType, s.phase \in {"down", "up"},
         s.waiting = FALSE, s.halted = FALSE, s.restarts = 0, s.alive = FALSE
  PROVE  Promise!Installed(s)
<1> DEFINE b == Promise!Absent
<1>1. /\ b \in Promise!RecordType /\ b.waiting = FALSE /\ b.halted = FALSE
      /\ b.restarts = 0 /\ b.alive = FALSE
  BY DEF Promise!Absent, Promise!RecordType, Promise!Policies
<1> HIDE DEF b
<1>2. s = [b EXCEPT !.phase = s.phase, !.policy = s.policy] /\ s.policy \in Promise!Policies
  BY <1>1 DEF Promise!RecordType
<1> QED BY <1>2 DEF Promise!Installed, b

LEMMA InstalledSeen ==
  ASSUME NEW M, NEW c, NEW a, NEW h, NEW t \in Tasks,
         InstalledProcs(M, c, a, h)[t] \in ProcType
  PROVE  Promise!Installed(Shown(t \in M, InstalledProcs(M, c, a, h)[t], FALSE, 0))
<1> DEFINE q == InstalledProcs(M, c, a, h)[t]
<1>1. q \in ProcType /\ q.cmd = NoPid /\ q.restart = NoTimer /\ (t \notin M => q = Absent)
      /\ q.status \in {"stopped", "running"}
  BY DEF InstalledProcs, Installed, Absent, NewProc
<1> HIDE DEF q
<1> DEFINE s == Shown(t \in M, q, FALSE, 0)
<1>2. FALSE \in BOOLEAN /\ 0 \in Nat
  OBVIOUS
<1>3. Shows(s, t \in M, q, FALSE, 0)
  BY <1>1, <1>2, ShownShows
<1> HIDE DEF s
<1>4. /\ s \in Promise!RecordType /\ s.waiting = FALSE /\ s.halted = FALSE
      /\ s.restarts = 0 /\ s.alive = FALSE
  BY <1>1, <1>3 DEF Shows, Promise!RecordType
<1>5. CASE t \in M
  <2>1. s.phase \in {"down", "up"}
    BY <1>1, <1>3, <1>5 DEF Shows, Terminal
  <2> QED BY <1>4, <2>1, InstalledPromised DEF s, q
<1>6. CASE t \notin M
  <2>1. s.phase = "absent" /\ q = Absent
    BY <1>1, <1>3, <1>6 DEF Shows
  <2>2. Absent.cfg.restart = FALSE /\ Absent.cfg.max = 0
    BY DEF Absent, NewProc, NoConfig
  <2>3. s.policy.restart = FALSE /\ s.policy.max = 0
    BY <1>3, <2>1, <2>2 DEF Shows
  <2>4. s = Promise!Absent
    BY <1>4, <2>1, <2>3, AbsentPromised
  <2> QED BY <2>4 DEF Promise!Installed, s, q
<1> QED BY <1>5, <1>6

LEMMA ReplaceTasksPromised ==
  ASSUME TypeOK, StopInv, TypeOK', NEW M \in SUBSET Tasks, ReplaceTasks(M), NEW t \in Tasks
  PROVE  Promise!AtRest(Seen(t)) /\ Promise!Installed(Seen(t)')
<1>1. proc[t].cmd = NoPid /\ proc[t].status \in Terminal
  BY NotBusy DEF ReplaceTasks, StopInv, Live
<1>2. Shows(Seen(t), Live(t), proc[t], asked[t], autos[t])
  BY ShownShows DEF Seen, TypeOK
<1>3. Promise!AtRest(Seen(t))
  BY <1>1, <1>2 DEF Shows, Promise!AtRest
<1>4. PICK c, a, h : proc' = InstalledProcs(M, c, a, h)
  BY DEF ReplaceTasks
<1>5. proc'[t] \in ProcType /\ asked'[t] = FALSE /\ autos'[t] = 0 /\ managed' = M
  BY DEF TypeOK, ReplaceTasks
<1>6. Seen(t)' = Shown(t \in M, InstalledProcs(M, c, a, h)[t], FALSE, 0)
  BY <1>4, <1>5 DEF Seen, Live
<1>7. InstalledProcs(M, c, a, h)[t] \in ProcType
  BY <1>4, <1>5
<1> QED BY <1>3, <1>6, <1>7, InstalledSeen

Records == [t \in Tasks |-> TaskRecord(t)]

LEMMA InitPromised == Init => Promise!Init
<1> SUFFICES ASSUME Init, NEW t \in Tasks PROVE Promise!Installed(TaskRecord(t))
  BY DEF Promise!Init
<1>1. TypeOK /\ OwnInv
  BY InitType, InitOwn
<1>2. PICK c, a, h : proc = InstalledProcs(managed, c, a, h)
  BY DEF Init
<1>3. asked[t] = FALSE /\ autos[t] = 0 /\ proc[t] \in ProcType
  BY <1>1 DEF Init, TypeOK
<1>4. Seen(t) = Shown(t \in managed, InstalledProcs(managed, c, a, h)[t], FALSE, 0)
  BY <1>2, <1>3 DEF Seen, Live
<1>5. InstalledProcs(managed, c, a, h)[t] \in ProcType
  BY <1>2, <1>3
<1> QED BY <1>1, <1>4, <1>5, InstalledSeen, SeenIs

LEMMA PromisedNext ==
  ASSUME TypeOK, OwnInv, TypeOK', OwnInv', NEW t \in Tasks, Promised(t)
  PROVE  Promise!Next \/ UNCHANGED Records
<1>1. \A u \in Tasks : Records[u] = Seen(u) /\ Records'[u] = Seen(u)'
  BY SeenIs, SeenIsNext DEF Records
<1>2. \A u \in Tasks \ {t} : Seen(u)' = Seen(u)
  BY DEF Promised, OnlyTask, Seen, Live, Shown
<1>3. CASE Seen(t)' = Seen(t)
  <2>1. \A u \in Tasks : Records'[u] = Records[u]
    BY <1>1, <1>2, <1>3
  <2> QED BY <2>1 DEF Records
<1>4. CASE Promise!Step(Seen(t), Seen(t)')
  <2>1. Records' = [Records EXCEPT ![t] = Seen(t)']
    BY <1>1, <1>2 DEF Records
  <2>2. Promise!Step(Records[t], Records'[t]) /\ Records' = [Records EXCEPT ![t] = Records'[t]]
    BY <1>1, <1>4, <2>1
  <2> QED BY <2>2 DEF Promise!Next, Records
<1> QED BY <1>3, <1>4 DEF Promised

LEMMA StutterPromised ==
  ASSUME TypeOK, OwnInv, TypeOK', OwnInv', UNCHANGED <<managed, proc, asked, autos>>
  PROVE  UNCHANGED Records
<1>1. \A u \in Tasks : Records[u] = Seen(u) /\ Records'[u] = Seen(u)'
  BY SeenIs, SeenIsNext DEF Records
<1>2. \A u \in Tasks : Seen(u)' = Seen(u)
  BY DEF Seen, Live
<1>3. \A u \in Tasks : Records'[u] = Records[u]
  BY <1>1, <1>2
<1> QED BY <1>3 DEF Records

LEMMA ImportPromised ==
  ASSUME TypeOK, OwnInv, StopInv, TypeOK', OwnInv', NEW M \in SUBSET Tasks, ReplaceTasks(M)
  PROVE  Promise!Next
<1>1. \A u \in Tasks : Records[u] = Seen(u) /\ Records'[u] = Seen(u)'
  BY SeenIs, SeenIsNext DEF Records
<1>2. \A u \in Tasks : Promise!AtRest(Records[u]) /\ Promise!Installed(Records'[u])
  BY <1>1, ReplaceTasksPromised
<1>3. Records' = [u \in Tasks |-> Records'[u]]
  BY DEF Records
<1> QED BY <1>2, <1>3 DEF Promise!Next, Promise!Import, Records

(* A probe that fails or succeeds shows nowhere in the record.              *)
LEMMA ProbePromised ==
  ASSUME TypeOK, NEW h \in Chans, ProbeFails(h) \/ ProbeSucceeds(h), NEW t, t = thread[h].task
  PROVE  t \in Tasks /\ Promised(t)
<1>1. t \in Tasks /\ Live(t)
  BY DEF ProbeFails, ProbeSucceeds, Watches, Live, TypeOK
<1>2. PICK n : proc' = [proc EXCEPT ![t] = [proc[t] EXCEPT !.failures = n]]
  BY DEF ProbeFails, ProbeSucceeds, SetProc
<1>3. UNCHANGED <<managed, asked, autos>>
  BY DEF ProbeFails, ProbeSucceeds
<1> DEFINE q1 == [proc[t] EXCEPT !.failures = n]
<1>4. /\ q1.cfg = proc[t].cfg /\ q1.status = proc[t].status
      /\ q1.restart = proc[t].restart /\ q1.cmd = proc[t].cmd
  BY <1>1 DEF TypeOK, ProcType
<1>5. proc'[t] = q1 /\ \A u \in Tasks \ {t} : proc'[u] = proc[u]
  BY <1>1, <1>2 DEF TypeOK
<1> HIDE DEF q1
<1>6. Seen(t)' = Seen(t)
  BY <1>3, <1>4, <1>5 DEF Seen, Shown, Live
<1> QED BY <1>1, <1>3, <1>5, <1>6 DEF Promised, OnlyTask

LEMMA NextPromised ==
  ASSUME TypeOK, OwnInv, StopInv, TypeOK', OwnInv', [Next]_vars
  PROVE  Promise!Next \/ UNCHANGED Records
<1>1. CASE Configure
  <2>1. ASSUME NEW M \in SUBSET Tasks, ReplaceTasks(M) PROVE Promise!Next
    BY <2>1, ImportPromised
  <2>2. ASSUME NEW t \in Tasks, NEW c \in Configs, EditTask(t, c) PROVE Promised(t)
    BY <2>2, EditTaskPromised
  <2>3. ASSUME NEW t \in Tasks, NEW b \in BOOLEAN, SetRestartOnCrash(t, b) PROVE Promised(t)
    BY <2>3, SetRestartPromised
  <2>4. ASSUME NEW t \in Tasks, RemoveTask(t) PROVE Promised(t)
    BY <2>4, RemoveTaskPromised
  <2> QED BY <1>1, <2>1, <2>2, <2>3, <2>4, PromisedNext DEF Configure
<1>2. CASE Command
  <2>1. \E t \in Tasks : Promised(t)
    BY <1>2, StartRefusedIsPromised, StartIsPromised, StopCallPromised DEF Command
  <2> QED BY <2>1, PromisedNext
<1>3. ASSUME NEW x \in Threads, StopStep(x) PROVE Promise!Next \/ UNCHANGED Records
  <2>1. CASE StopFails(x) /\ UNCHANGED <<managed, proc, autos>>
    BY <2>1, StopFailsIsPromised, PromisedNext, StutterPromised
  <2>2. CASE FinalizeAdopted(x)
    BY <2>2, FinalizeIsPromised, PromisedNext, StutterPromised
  <2>3. CASE UNCHANGED <<managed, proc, asked, autos>>
    BY <2>3, StutterPromised
  <2> QED BY <1>3, <2>1, <2>2, <2>3 DEF StopStep, KillAdopted, StopReturns, ForceStop, GiveUp
<1>4. ASSUME NEW h \in Chans, Monitor(h) PROVE Promise!Next \/ UNCHANGED Records
  <2>1. CASE ProbeFails(h) \/ ProbeSucceeds(h)
    BY <2>1, ProbePromised, PromisedNext
  <2>2. CASE UNCHANGED <<managed, proc, asked, autos>>
    BY <2>2, StutterPromised
  <2>3. ASSUME NEW t, t = thread[h].task, Live(t), proc[t].status \notin Terminal,
               proc[t].health = h, BeginStop(h, t, proc[t], "health"),
               UNCHANGED <<managed, asked, autos>>
        PROVE  Promise!Next \/ UNCHANGED Records
    <3>1. t \in Tasks
      BY <2>3 DEF Live, TypeOK
    <3> QED BY <2>3, <3>1, HealthStopIsPromised, PromisedNext
  <2> QED BY <1>4, <2>1, <2>2, <2>3 DEF Monitor, HealthStop, MonitorEnds
<1>5. ASSUME NEW p \in Pids, Reap(p) PROVE Promise!Next \/ UNCHANGED Records
  BY <1>5, ReapIsPromised, PromisedNext
<1>6. ASSUME NEW r \in Timers, TimerFires(r) PROVE Promise!Next \/ UNCHANGED Records
  BY <1>6, TimerIsPromised, PromisedNext, StutterPromised
<1>7. CASE Environment \/ UNCHANGED vars
  <2>1. UNCHANGED <<managed, proc, asked, autos>>
    BY <1>7 DEF vars, Environment, ChildExits, ExternalStarts, ExternalExits
  <2> QED BY <2>1, StutterPromised
<1> QED BY <1>1, <1>2, <1>3, <1>4, <1>5, <1>6, <1>7 DEF Next

(* The manager implements Supervised: a task comes up only by a deliberate  *)
(* start, or by a waiting restart that its policy allows, that is within    *)
(* its budget and that no user's stop has called off.                       *)
THEOREM TasksAreSupervised == Spec /\ []StopsDoNotOverlap => TasksSupervised
<1>1. Init => Promise!Init
  BY InitPromised
<1>2. TypeOK /\ OwnInv /\ StopInv /\ TypeOK' /\ OwnInv' /\ [Next]_vars
        => [Promise!Next]_[t \in Tasks |-> TaskRecord(t)]
  BY NextPromised DEF Records
<1> QED BY <1>1, <1>2, TypeCorrect, OwnInvHolds, StopInvHolds, PTL
       DEF Spec, TasksSupervised, Promise!Spec

------------------------------------------------------------------------------
(* Where there is nothing to adopt the hypothesis above is a theorem.       *)

(* No process of others matches a task, and no two tasks are the same       *)
(* command line.                                                            *)
NothingToAdopt ==
  /\ ExternalPids = {}
  /\ \A t, u \in Tasks : Program[t] = Program[u] => t = u

OnlyLaunched ==
  /\ \A p \in Pids : os[p].st = "running" =>
       os[p].owner \in Tasks /\ os[p].prog = Program[os[p].owner]
  /\ \A t \in Tasks : proc[t].status \notin Terminal => proc[t].cmd # NoPid
  /\ \A x \in Threads : thread[x].pc \notin {"kill", "finalize"}

LEMMA NoMatch ==
  ASSUME NothingToAdopt, TypeOK, OwnInv, OnlyLaunched, NEW t \in Tasks,
         Live(t) => ~Busy(proc[t])
  PROVE  Matches(t) = {}
<1>1. \A p \in Pids : ~Child(p, t)
  BY IdleTask
<1>2. ASSUME NEW p \in Matches(t) PROVE FALSE
  <2>1. p \in Pids /\ os[p].st = "running" /\ os[p].owner \in Tasks
        /\ Program[os[p].owner] = Program[t]
    BY DEF Matches, OnlyLaunched
  <2>2. os[p].owner = t
    BY <2>1 DEF NothingToAdopt
  <2> QED BY <1>1, <2>1, <2>2 DEF Child
<1> QED BY <1>2

(* Whatever runs after the step ran before it, but for a launch.            *)
SameRuns == \A p \in Pids : os'[p].st = "running" => os'[p] = os[p]

(* No thread begins to stop an adopted process.                             *)
NoKill ==
  \A x \in Threads : thread'[x].pc \in {"kill", "finalize"} => thread'[x] = thread[x]

LEMMA LaunchedRuns ==
  ASSUME TypeOK, OnlyLaunched, SameRuns \/ \E t \in Tasks, p \in Pids : Launched(t, p)
  PROVE  \A p \in Pids : os'[p].st = "running" =>
           os'[p].owner \in Tasks /\ os'[p].prog = Program[os'[p].owner]
<1>1. CASE SameRuns
  BY <1>1 DEF OnlyLaunched, SameRuns
<1>2. ASSUME NEW t \in Tasks, NEW k \in Pids, Launched(t, k), NEW p \in Pids,
             os'[p].st = "running"
      PROVE  os'[p].owner \in Tasks /\ os'[p].prog = Program[os'[p].owner]
  <2>1. CASE p = k
    BY <1>2, <2>1, LaunchedEffect
  <2>2. CASE p # k
    BY <1>2, <2>2, LaunchedEffect DEF OnlyLaunched
  <2> QED BY <2>1, <2>2
<1> QED BY <1>1, <1>2

LEMMA LaunchedStep ==
  ASSUME TypeOK, OnlyLaunched, NoKill,
         SameRuns \/ \E t \in Tasks, p \in Pids : Launched(t, p),
         NEW t \in Tasks, NEW q1, proc' = [proc EXCEPT ![t] = q1],
         q1.status \notin Terminal => q1.cmd # NoPid
  PROVE  OnlyLaunched'
<1>1. \A u \in Tasks : proc'[u] = IF u = t THEN q1 ELSE proc[u]
  BY DEF TypeOK
<1>2. \A u \in Tasks : proc'[u].status \notin Terminal => proc'[u].cmd # NoPid
  BY <1>1 DEF OnlyLaunched
<1>3. \A x \in Threads : thread'[x].pc \notin {"kill", "finalize"}
  BY DEF OnlyLaunched, NoKill
<1> QED BY <1>2, <1>3, LaunchedRuns DEF OnlyLaunched

LEMMA LaunchedSame ==
  ASSUME TypeOK, OnlyLaunched, NoKill, SameRuns, UNCHANGED proc PROVE OnlyLaunched'
<1>1. \A x \in Threads : thread'[x].pc \notin {"kill", "finalize"}
  BY DEF OnlyLaunched, NoKill
<1> QED BY <1>1, LaunchedRuns DEF OnlyLaunched

LEMMA NoKillThread ==
  ASSUME TypeOK, NEW x \in Threads, NEW th, th.pc \notin {"kill", "finalize"},
         thread' = [thread EXCEPT ![x] = th]
  PROVE  NoKill
BY DEF NoKill, TypeOK

LEMMA NoKillQuiet == ASSUME Quiet PROVE NoKill
BY DEF Quiet, NoKill, InStop

LEMMA SameOs == ASSUME UNCHANGED os PROVE SameRuns
BY DEF SameRuns

(* With nothing to adopt a launch launches, or fails.                       *)
LEMMA LaunchLaunched ==
  ASSUME NothingToAdopt, TypeOK, OwnInv, OnlyLaunched, NEW t \in Tasks, Live(t),
         ~Busy(proc[t]), NEW q \in ProcType, Launch(t, q)
  PROVE  OnlyLaunched'
<1>1. Matches(t) = {}
  BY NoMatch
<1>2. PICK q1 :
        /\ Becomes(t, q1)
        /\ \/ \E p \in FreePids : q1.cmd = p /\ Launched(t, p)
           \/ UNCHANGED os /\ q1.status = "failed"
  BY <1>1, LaunchEffect
<1>3. NoKill
  BY LaunchQuiet, NoKillQuiet
<1>4. CASE \E p \in FreePids : q1.cmd = p /\ Launched(t, p)
  <2>1. q1.cmd # NoPid /\ \E p \in Pids : Launched(t, p)
    BY <1>4, IdentityAssumption DEF FreePids
  <2> QED BY <1>2, <1>3, <2>1, LaunchedStep DEF Becomes
<1>5. CASE UNCHANGED os /\ q1.status = "failed"
  <2>1. SameRuns /\ q1.status \in Terminal
    BY <1>5, SameOs DEF Terminal
  <2> QED BY <1>2, <1>3, <2>1, LaunchedStep DEF Becomes
<1> QED BY <1>2, <1>4, <1>5

LEMMA ConfigureLaunched ==
  ASSUME NothingToAdopt, TypeOK, OwnInv, OnlyLaunched, Configure PROVE OnlyLaunched'
<1>0. SameRuns
  BY SameOs DEF Configure, ReplaceTasks, EditTask, SetRestartOnCrash, RemoveTask
<1>1. ASSUME NEW M \in SUBSET Tasks, ReplaceTasks(M) PROVE OnlyLaunched'
  <2>1. ASSUME NEW t \in M PROVE Matches(t) = {}
    BY <1>1, <2>1, NoMatch DEF ReplaceTasks, Live
  <2>2. PICK c \in [M -> Configs], a \in Adoptions(M), h \in Channels(M, FreeChans) :
          /\ proc' = InstalledProcs(M, c, a, h)
          /\ thread' = InstalledThreads(M, c, a, h, thread)
    BY <1>1 DEF ReplaceTasks
  <2>3. \A t \in M : a[t] = NoPid
    BY <2>1 DEF Adoptions
  <2>4. \A t \in Tasks : proc'[t].status = "stopped"
    BY <2>2, <2>3 DEF InstalledProcs, Installed, Absent, NewProc
  <2>5. \A x \in Threads : thread'[x] = thread[x] \/ thread'[x].pc = "watching"
    BY <2>2, InstalledMonitors
  <2>6. \A x \in Threads : thread'[x].pc \notin {"kill", "finalize"}
    BY <2>5 DEF OnlyLaunched
  <2> QED BY <1>0, <2>4, <2>6, LaunchedRuns DEF OnlyLaunched, Terminal
<1>2. ASSUME UNCHANGED thread PROVE NoKill
  BY <1>2 DEF NoKill
<1>3. ASSUME NEW t \in Tasks PROVE proc[t] \in ProcType
  BY DEF TypeOK
<1>4. ASSUME NEW t \in Tasks, NEW c \in Configs, EditTask(t, c) PROVE OnlyLaunched'
  <2> DEFINE q1 == IF Live(t) THEN [proc[t] EXCEPT !.cfg = c, !.restart = NoTimer, !.count = 0]
                   ELSE NewProc(c)
  <2>1. q1.status \in Terminal
    BY <1>3, <1>4 DEF EditTask, Busy, NewProc, Terminal, ProcType
  <2>2. proc' = [proc EXCEPT ![t] = q1] /\ NoKill
    BY <1>2, <1>4 DEF EditTask, SetProc
  <2> HIDE DEF q1
  <2> QED BY <1>0, <2>1, <2>2, LaunchedStep
<1>5. ASSUME NEW t \in Tasks, NEW b \in BOOLEAN, SetRestartOnCrash(t, b) PROVE OnlyLaunched'
  <2> DEFINE k == [proc[t].cfg EXCEPT !.restart = b]
             r == IF b THEN proc[t].restart ELSE NoTimer
             q1 == [proc[t] EXCEPT !.cfg = k, !.restart = r]
  <2>1. proc' = [proc EXCEPT ![t] = q1] /\ NoKill
    BY <1>2, <1>3, <1>5 DEF SetRestartOnCrash, SetProc, ProcType
  <2> HIDE DEF k, r
  <2>2. q1.status = proc[t].status /\ q1.cmd = proc[t].cmd
    BY <1>3 DEF ProcType
  <2> HIDE DEF q1
  <2>3. q1.status \notin Terminal => q1.cmd # NoPid
    BY <2>2 DEF OnlyLaunched
  <2> QED BY <1>0, <2>1, <2>3, LaunchedStep
<1>6. ASSUME NEW t \in Tasks, RemoveTask(t) PROVE OnlyLaunched'
  <2>1. Absent.status \in Terminal
    BY DEF Absent, NewProc, Terminal
  <2> QED BY <1>0, <1>2, <1>6, <2>1, LaunchedStep DEF RemoveTask, SetProc
<1> QED BY <1>1, <1>4, <1>5, <1>6 DEF Configure

(* The stop of a launched process waits, it does not go through the kill.   *)
LEMMA BeginStopLaunched ==
  ASSUME TypeOK, OnlyLaunched, NEW t \in Tasks, NEW x \in Threads, NEW q \in ProcType,
         NEW why \in {"user", "health"}, BeginStop(x, t, q, why), UNCHANGED os,
         proc[t].status \notin Terminal, q.cmd = proc[t].cmd
  PROVE  OnlyLaunched'
<1>1. q.cmd # NoPid
  BY DEF OnlyLaunched
<1>2. PICK q1 : Becomes(t, q1) /\ SameRun(q1, q)
  BY BeginStopEffect
<1>3. thread'[x].pc = "term" /\ \A y \in Threads : y # x => thread'[y] = thread[y]
  BY <1>1 DEF BeginStop, TypeOK, ThreadType
<1>4. NoKill
  BY <1>3 DEF NoKill
<1>5. q1.cmd # NoPid
  BY <1>1, <1>2 DEF SameRun
<1> QED BY <1>2, <1>4, <1>5, SameOs, LaunchedStep DEF Becomes

LEMMA CommandLaunched ==
  ASSUME NothingToAdopt, TypeOK, OwnInv, OnlyLaunched, Command PROVE OnlyLaunched'
<1>1. ASSUME NEW t \in Tasks
      PROVE  /\ proc[t] \in ProcType /\ Fresh(t) \in ProcType
             /\ Fresh(t).status = proc[t].status /\ Fresh(t).cmd = proc[t].cmd
             /\ proc[t].status \notin Terminal => proc[t].cmd # NoPid
  <2>1. proc[t] \in ProcType /\ (proc[t].status \notin Terminal => proc[t].cmd # NoPid)
    BY DEF TypeOK, OnlyLaunched
  <2> QED BY <2>1 DEF Fresh, ProcType
<1>2. ASSUME NEW t \in Tasks, StartRefused(t) PROVE OnlyLaunched'
  <2>1. proc' = [proc EXCEPT ![t] = Fresh(t)] /\ Quiet /\ SameRuns
    BY <1>2, QuietSame, SameOs DEF StartRefused, SetProc
  <2> QED BY <1>1, <2>1, NoKillQuiet, LaunchedStep
<1>3. ASSUME NEW t \in Tasks, Start(t) PROVE OnlyLaunched'
  BY <1>1, <1>3, LaunchLaunched DEF Start
<1>4. ASSUME NEW x \in Callers, NEW t \in Tasks, StopCall(x, t) PROVE OnlyLaunched'
  <2> DEFINE q == [proc[t] EXCEPT !.restart = NoTimer, !.reason = "user"]
  <2>1. q \in ProcType /\ q.status = proc[t].status /\ q.cmd = proc[t].cmd
    <3>1. proc[t] \in ProcType
      BY <1>1
    <3> QED BY <3>1 DEF ProcType
  <2>2. x \in Threads /\ UNCHANGED os
    BY <1>4 DEF StopCall, Threads
  <2>3. CASE q.status \in Terminal
    <3>1. proc' = [proc EXCEPT ![t] = q] /\ Quiet
      BY <1>4, <2>3, QuietSame DEF StopCall, SetProc
    <3> HIDE DEF q
    <3> QED BY <2>2, <2>3, <3>1, SameOs, NoKillQuiet, LaunchedStep
  <2>4. CASE q.status \notin Terminal
    <3>1. BeginStop(x, t, q, "user")
      BY <1>4, <2>4 DEF StopCall
    <3> HIDE DEF q
    <3> QED BY <2>1, <2>2, <2>4, <3>1, BeginStopLaunched
  <2> QED BY <2>3, <2>4
<1> QED BY <1>2, <1>3, <1>4 DEF Command

LEMMA KilledRuns ==
  ASSUME TypeOK, NEW k, os' = Killed(k) PROVE SameRuns
<1> SUFFICES ASSUME NEW p \in Pids, os'[p].st = "running" PROVE os'[p] = os[p]
  BY DEF SameRuns
<1>1. CASE p # k
  BY <1>1 DEF Killed, TypeOK
<1>2. CASE p = k
  <2>1. os[p] \in OsType
    BY DEF TypeOK
  <2> QED BY <1>2, <2>1 DEF Killed, TypeOK, OsType, NoProcess
<1> QED BY <1>1, <1>2

LEMMA StopStepLaunched ==
  ASSUME TypeOK, OnlyLaunched, NEW x \in Threads, StopStep(x) PROVE OnlyLaunched'
<1>1. ~KillAdopted(x) /\ ~FinalizeAdopted(x)
  BY DEF OnlyLaunched, KillAdopted, FinalizeAdopted
<1>2. UNCHANGED proc
  BY <1>1 DEF StopStep, StopReturns, ForceStop, GiveUp
<1>3. SameRuns
  BY <1>1, SameOs, KilledRuns DEF StopStep, StopReturns, ForceStop, GiveUp
<1>4. NoKill
  <2>1. CASE thread' = [thread EXCEPT ![x] = Idle]
    BY <2>1, NoKillThread DEF Idle
  <2>2. CASE thread' = [thread EXCEPT ![x].pc = "forced"]
    <3>1. [thread[x] EXCEPT !.pc = "forced"].pc = "forced"
      BY DEF TypeOK, ThreadType
    <3> QED BY <2>2, <3>1, NoKillThread
  <2> QED BY <1>1, <2>1, <2>2 DEF StopStep, StopReturns, ForceStop, GiveUp, StopFails, ThreadEnds
<1> QED BY <1>2, <1>3, <1>4, LaunchedSame

LEMMA MonitorLaunched ==
  ASSUME TypeOK, OnlyLaunched, NEW h \in Chans, Monitor(h) PROVE OnlyLaunched'
<1> DEFINE t == thread[h].task
<1>1. h \in Threads /\ thread[h] \in ThreadType /\ UNCHANGED os
  BY DEF Threads, TypeOK, Monitor, ProbeFails, ProbeSucceeds, HealthStop, MonitorEnds
<1>2. CASE ProbeFails(h) \/ ProbeSucceeds(h)
  <2>1. t \in Tasks
    BY <1>2 DEF ProbeFails, ProbeSucceeds, Watches, Live, TypeOK
  <2>2. proc[t] \in ProcType /\ (proc[t].status \notin Terminal => proc[t].cmd # NoPid)
    BY <2>1 DEF TypeOK, OnlyLaunched
  <2>3. PICK n : proc' = [proc EXCEPT ![t] = [proc[t] EXCEPT !.failures = n]]
    BY <1>2 DEF ProbeFails, ProbeSucceeds, SetProc
  <2> DEFINE q1 == [proc[t] EXCEPT !.failures = n]
  <2>4. q1.status = proc[t].status /\ q1.cmd = proc[t].cmd
    BY <2>2 DEF ProcType
  <2>7. NoKill
    BY <1>2, ProbeQuiet, NoKillQuiet
  <2>8. proc' = [proc EXCEPT ![t] = q1]
    BY <2>3
  <2> HIDE DEF q1
  <2> QED BY <1>1, <2>1, <2>2, <2>4, <2>7, <2>8, SameOs, LaunchedStep
<1>3. CASE thread' = [thread EXCEPT ![h] = Idle] /\ UNCHANGED proc
  <2>1. NoKill
    BY <1>1, <1>3, NoKillThread DEF Idle
  <2> QED BY <1>1, <1>3, <2>1, SameOs, LaunchedSame
<1>4. CASE BeginStop(h, t, proc[t], "health") /\ Live(t) /\ proc[t].status \notin Terminal
  <2>1. t \in Tasks /\ proc[t] \in ProcType
    BY <1>4 DEF Live, TypeOK
  <2> QED BY <1>1, <1>4, <2>1, BeginStopLaunched
<1> QED BY <1>2, <1>3, <1>4 DEF Monitor, HealthStop, MonitorEnds, ThreadEnds

LEMMA ReapLaunched ==
  ASSUME TypeOK, OnlyLaunched, NEW k \in Pids, Reap(k) PROVE OnlyLaunched'
<1> DEFINE t == os[k].owner
           q == [MonitorStopped(proc[t]) EXCEPT !.cmd = NoPid, !.pid = NoPid]
<1>1. t \in Tasks /\ proc[t] \in ProcType
  BY DEF Reap, TypeOK, OsType
<1>2. SameRuns
  BY DEF Reap, SameRuns, NoProcess, TypeOK
<1>3. NoKill
  <2>1. \A x \in Threads :
          thread'[x] = IF thread[x].pc \in {"term", "forced"} /\ thread[x].pid = k
                       THEN [thread[x] EXCEPT !.done = TRUE] ELSE thread[x]
    BY DEF Reap
  <2>2. \A x \in Threads : [thread[x] EXCEPT !.done = TRUE].pc = thread[x].pc
    BY DEF TypeOK, ThreadType
  <2> QED BY <2>1, <2>2 DEF NoKill
<1>4. q \in ProcType
  <2>1. MonitorStopped(proc[t]) \in ProcType
    BY <1>1 DEF MonitorStopped, ProcType
  <2> QED BY <2>1 DEF ProcType
<1>5. \/ UNCHANGED proc
      \/ FinalizeStop(t, q)
      \/ PrepareRestart(t, [q EXCEPT !.status = "exited"])
      \/ SetProc(t, [q EXCEPT !.status = "stopped", !.count = 0])
  BY DEF Reap
<1> HIDE DEF q
<1>6. CASE UNCHANGED proc
  BY <1>2, <1>3, <1>6, LaunchedSame
<1>7. CASE FinalizeStop(t, q)
  <2>1. PICK q1 : Becomes(t, q1) /\ q1.status \in {"failed", "stopped"}
    BY <1>1, <1>4, <1>7, FinalizeStopEffect
  <2> QED BY <1>1, <1>2, <1>3, <2>1, LaunchedStep DEF Becomes, Terminal
<1>8. CASE PrepareRestart(t, [q EXCEPT !.status = "exited"])
  <2> DEFINE q2 == [q EXCEPT !.status = "exited"]
  <2>1. q2 \in ProcType /\ q2.status = "exited"
    BY <1>4 DEF ProcType, Terminal
  <2> HIDE DEF q2
  <2>2. PrepareRestart(t, q2)
    BY <1>8 DEF q2
  <2>3. PICK q1 : Becomes(t, q1) /\ q1.status = "exited"
    BY <1>1, <2>1, <2>2, PrepareRestartEffect
  <2> QED BY <1>1, <1>2, <1>3, <2>3, LaunchedStep DEF Becomes, Terminal
<1>9. CASE SetProc(t, [q EXCEPT !.status = "stopped", !.count = 0])
  <2> DEFINE q2 == [q EXCEPT !.status = "stopped", !.count = 0]
  <2>1. q2.status \in Terminal
    BY <1>4 DEF ProcType, Terminal
  <2>2. proc' = [proc EXCEPT ![t] = q2]
    BY <1>9 DEF SetProc
  <2> HIDE DEF q2
  <2> QED BY <1>1, <1>2, <1>3, <2>1, <2>2, LaunchedStep
<1> QED BY <1>5, <1>6, <1>7, <1>8, <1>9

LEMMA TimerFiresLaunched ==
  ASSUME NothingToAdopt, TypeOK, OwnInv, OnlyLaunched, NEW r \in Timers, TimerFires(r)
  PROVE  OnlyLaunched'
<1> DEFINE t == timer[r]
           q == [proc[t] EXCEPT !.restart = NoTimer]
<1>1. t \in Tasks /\ proc[t] \in ProcType
  BY DEF TimerFires, TypeOK
<1>2. /\ q \in ProcType /\ q.status = proc[t].status /\ q.cmd = proc[t].cmd
      /\ q.status \notin Terminal => q.cmd # NoPid
  BY <1>1 DEF ProcType, OnlyLaunched
<1>3. CASE UNCHANGED <<proc, thread, os>>
  BY <1>3, SameOs, QuietSame, NoKillQuiet, LaunchedSame
<1>4. CASE SetProc(t, q) /\ UNCHANGED <<thread, os>>
  <2>1. proc' = [proc EXCEPT ![t] = q] /\ SameRuns /\ NoKill
    BY <1>4, SameOs, QuietSame, NoKillQuiet DEF SetProc
  <2> HIDE DEF q
  <2> QED BY <1>1, <1>2, <2>1, LaunchedStep
<1>5. CASE Live(t) /\ ~Busy(q) /\ Launch(t, q)
  <2>1. ~Busy(proc[t])
    BY <1>2, <1>5 DEF Busy
  <2> QED BY <1>1, <1>2, <1>5, <2>1, LaunchLaunched
<1> QED BY <1>3, <1>4, <1>5 DEF TimerFires, Restarting

LEMMA EnvironmentLaunched ==
  ASSUME NothingToAdopt, TypeOK, OnlyLaunched, Environment PROVE OnlyLaunched'
<1>1. UNCHANGED <<proc, thread>>
  BY DEF Environment, ChildExits, ExternalStarts, ExternalExits
<1>2. SameRuns
  BY DEF Environment, ChildExits, ExternalStarts, ExternalExits, NothingToAdopt, SameRuns,
     NoProcess, TypeOK, OsType
<1> QED BY <1>1, <1>2, QuietSame, NoKillQuiet, LaunchedSame

LEMMA InitLaunched == ASSUME NothingToAdopt, Init PROVE OnlyLaunched
<1>1. \A p \in Pids : os[p] = NoProcess /\ os[p].st = "free"
  BY DEF NothingToAdopt, Init, ExternalStates, NoProcess
<1>2. \A t \in Tasks : Matches(t) = {}
  BY <1>1 DEF Matches
<1>3. PICK c \in [managed -> Configs], a \in Adoptions(managed), h \in Channels(managed, Chans) :
        /\ proc = InstalledProcs(managed, c, a, h)
        /\ thread = InstalledThreads(managed, c, a, h, [x \in Threads |-> Idle])
  BY DEF Init
<1>4. \A t \in managed : a[t] = NoPid
  BY <1>2 DEF Adoptions, Init
<1>5. \A t \in Tasks : proc[t].status = "stopped"
  BY <1>3, <1>4 DEF InstalledProcs, Installed, Absent, NewProc
<1>6. ASSUME NEW x \in Threads PROVE thread[x].pc \in {"idle", "watching"}
  <2>1. [y \in Threads |-> Idle][x].pc = "idle"
    BY DEF Idle
  <2> QED BY <1>3, <2>1, InstalledMonitors
<1> QED BY <1>1, <1>5, <1>6 DEF OnlyLaunched, Terminal

LEMMA NextLaunched ==
  ASSUME NothingToAdopt, TypeOK, OwnInv, OnlyLaunched, [Next]_vars PROVE OnlyLaunched'
<1>1. CASE UNCHANGED vars
  BY <1>1, SameOs, QuietSame, NoKillQuiet, LaunchedSame DEF vars
<1>2. CASE Next
  BY <1>2, ConfigureLaunched, CommandLaunched, StopStepLaunched, MonitorLaunched,
     ReapLaunched, TimerFiresLaunched, EnvironmentLaunched DEF Next
<1> QED BY <1>1, <1>2

(* On a machine whose processes match no task, with no two tasks alike, the *)
(* manager adopts nothing, so no two stops ever race for an adopted process *)
(* and all of the above holds without any hypothesis on the behaviour.      *)
THEOREM StopsWithoutAdoption ==
  ASSUME NothingToAdopt
  PROVE  Spec => [](StatusTruth /\ UserStopSticks /\ StopIsDone) /\ TasksSupervised
<1>1. Init => OnlyLaunched
  BY InitLaunched
<1>2. TypeOK /\ OwnInv /\ OnlyLaunched /\ [Next]_vars => OnlyLaunched'
  BY NextLaunched
<1>3. OnlyLaunched => StopsDoNotOverlap
  BY DEF OnlyLaunched, StopsDoNotOverlap, Stops
<1>4. Spec => []StopsDoNotOverlap
  BY <1>1, <1>2, <1>3, TypeCorrect, OwnInvHolds, PTL DEF Spec
<1> QED BY <1>4, StatusesTrue, UserStopsStick, StopsAreDone, TasksAreSupervised, PTL
==============================================================================
