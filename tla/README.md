# zlt (驻令台) in TLA+

zlt is a single Go process that supervises tasks: it launches programs, watches
them, restarts them when they crash or fail their health check, runs them on cron
schedules, keeps their logs and offers an HTTP API and a web page. This directory
holds TLA+ modules translated from that code, TLC configurations that check them
on small instances, and TLAPS proofs of theorems that hold for every instance.
`PROJECT.json` maps every definition to the lines it stands for.

## Inventory

| component | code | state | hard parts |
|---|---|---|---|
| task manager | `internal/process/manager.go`, `platform_*.go` | one `managedProcess` per task under `Manager.mu`; goroutines named by channels | stops give the lock up; waiters, timers and monitors of older runs arrive late; adoption |
| process matching | `internal/process/process_match.go`, `process_info_*.go` | none | platform parsing |
| runtime | `internal/app/runtime.go`, `settings.go` | the configuration in memory and in SQLite, under `Runtime.mu` | save first, apply second; import; autostart; shutdown order |
| schedules | `internal/app/schedule_runtime.go` | the schedule list, under `Runtime.mu` | results recorded out of order, orphaned schedules |
| scheduler | `internal/scheduler/scheduler.go` | cron entries under `mu`, in-flight set under `inFlightMu` | jobs hold a snapshot; read the state, then act; bounded drain |
| store | `internal/store/*.go` | SQLite tables | one transaction per save |
| reordering | `internal/app/reorder.go`, `internal/store/reorder.go` | positions | permutation of a subset |
| sessions, login limiter | `internal/auth/session.go`, `service.go`, `rate.go` | a SQLite table of sessions, failed logins by address | sliding expiry, a request in flight while its session ends |
| access key | `internal/auth/key.go`, `app/cli.go` | `data/auth.key` | another process changes it while an instance starts |
| log writer | `internal/logging/rotate.go`, `logger.go` | file, size, limits | rotation with partial failures, truncate and purge by others |
| log reading | `internal/logging/tail.go`, the log endpoints of `internal/api/server.go` | a reader's position | files that are renamed while they are read |
| instance lock, daemon | `internal/app/pidfile.go`, `daemon*.go`, `pidlock_*.go`, `process_exists_*.go`, `process_image_*.go` | pid file, file lock | several zlt processes, kills, stale files, pids that are used again |
| startup, shutdown | `internal/app/app.go`, `headless.go`, `tray.go`, `cli.go` | the order of everything | requests during shutdown |
| HTTP API | `internal/api/*.go` | streams that stay open | a stream outlives its session; otherwise decoding and formatting |
| system autostart | `internal/app/autostart*.go` | unit files, registry | file and command I/O |
| web page | `web/index.html` | browser only | rendering |

Calls go one way: API handlers, cron jobs and the tray call the runtime, the
runtime takes `Runtime.mu` and calls the manager, the manager takes `Manager.mu`.
Only three kinds of goroutines act on the manager without the runtime: a waiter per
launched process, a timer per pending restart, and a monitor per run with a health
check. The scheduler takes no lock while it calls the runtime.

What makes each component correct:

* task manager: a launched process is never lost, nor launched a second time when it is seen, the status
  tells the truth, a user's stop is final, restarts stay within their budget, a
  late goroutine never touches a run it does not belong to, stops end.
* runtime: a restart never loses its task, a shutdown ends and leaves nothing running.
* store: memory and disk agree after every handler, a failed save
  changes nothing, no schedule outlives its task.
* scheduler: at most one run of a schedule at a time, a disabled schedule has no
  entry, a skipped run is never counted as failed.
* sessions and access key: a session that was logged out or revoked never authenticates again,
  an instance serves with the key in the file, a failed login is answered 429 exactly over the limit.
* log reading: what a reader gets is in order and has no hole, whatever the writer does meanwhile.
* log writer: what is on disk is bounded, and whatever fails, it is lost from its old end.
* instance lock: at most one zlt serves from a working directory, the pid file names it, and a
  stop that succeeds has stopped it.

## TaskManager

`TaskManager.tla` is `internal/process/manager.go` as it runs on Unix.

| code | model |
|---|---|
| `Manager.procs` | `managed` (the keys), `proc` (the entries) |
| `managedProcess.cmd`, `state.PID` | `cmd` and `pid`; an adopted process has only a `pid` |
| `healthStop`, `restartCancel` | `health` and `restart`: identities of channels, compared as the code compares them; closing a channel means that no entry names it any longer |
| a goroutine in `stopWithReason` or `runHealthMonitor` | `thread[x]` with a `pc` |
| a goroutine in `scheduleRestart` | `timer[r]`, the task it will restart |
| a goroutine in `wait` | the process itself: `os[p]` stays taken until `Reap(p)` |
| the operating system | `os`: free, running, or ended and not yet reaped |

A handler that holds `Manager.mu` from its first line to its last is one action:
`Start` (with `StartRefused`), `EditTask`, `SetRestartOnCrash`, `RemoveTask`, `ReplaceTasks`,
`ProbeFails`, `ProbeSucceeds`, `TimerFires`, `Reap`. `stopWithReason` gives the lock
up in the middle; it is `StopCall` or `HealthStop` up to the unlock, then `KillAdopted` and
`FinalizeAdopted` for an adopted process, or `ForceStop`, `StopReturns` and `GiveUp` for
a launched one. A timer that was cancelled ends in `TimerFires` without effect, which
is what the `select` on the closed channel and the guard behind it both come to.

What a lookup of the process table finds is a choice. `findExistingProcess` answers "none" when `ps` fails, and passes over a
process whose program, arguments or directory cannot be read or are no longer those of the task, as with a script that runs as its
interpreter (`platform_unix.go:146`, `162`). So `Launch` sees any part of `Matches(t)`, the live processes of that command
line; it adopts one it sees, and launches only when it sees none. `Adoptions`, the lookups of a start-up or an import, may
overlook them too.

History records what no field of the code does: `os[p].missed`, a launch of the command line of `p` did not see it; `asked[t]`, a user's
`Stop` stands (set by the call, cleared by a start, by an answer that is an error, and
when the entry is deleted or replaced), and `autos[t]`, the automatic restarts since
the last deliberate start.

Abstractions. A command line is one value, `Program[t]`, fixed per task. The status
`starting` is set and left within one critical section and is not a state. A refused or
failed save changes nothing and is not an action. A launched process keeps its pid
until its waiter has recorded the exit; the code's reuse window between `cmd.Wait` and the
lock is left out. The branch for a task that is neither down nor has a pid
(`manager.go:451`) is left out because `StatusTruth` shows that no state reaches it.
The module is the manager's own interface: in the program `Runtime.mu` also keeps edits, deletes
and imports out while a user's stop is in progress (see `Scheduling`), but not while a health stop
is, so the model allows more than the program does. What `double_stop` needs, stops and a start,
all hold that lock as readers.

### Supervised, the abstract specification

`Supervised.tla` says what the manager promises about a task without the machinery it needs for it: no
goroutines, locks, channels or pids. A task is absent, down, up or stopping; it has a policy, at most one process
launched for it, perhaps an automatic restart that waits, and perhaps a user's stop that stands. The ways it
may come up are two. `Start` is deliberate. `Restart` is the one way it comes back by itself, and it needs a
waiting restart, a policy that allows it, a budget that is not used up and no user's stop. A start that is refused
resets the count of restarts and calls off a waiting one all the same (`manager.go:313`), which is therefore
a part of the promise.

`TaskManager` implements it under the refinement mapping `TaskRecord`, which reads a task's record off its
`managedProcess`, the processes of the machine and the history; `TasksSupervised` is `Supervised!Spec`
under that mapping, and both `core` and `adopt` check it. What it excludes, and what no single invariant
says: a timer that fires after the stop that cancelled it, more restarts than `max_restart_count` over
any mix of crashes, health stops, edits and starts, a second process of a task beside its first, a waiter of an older
run that takes down a newer one, a policy that changes under a task. What the mapping cannot see, since it is
about channels, timers and monitors, the invariants of `TaskManager` say.

### Runs

| run | instance | shows |
|---|---|---|
| `core` | one task, two configurations, two callers, two channels, two timers, two pids, no foreign process, kills may fail | `StatusTruth`, `UserStopSticks`, `StopIsDone`, `HealthStopAim`, `TasksSupervised` |
| `adopt` | two tasks with one command line and one configuration without a health check, two pids, a foreign process that comes and goes, lookups that may overlook any, one caller, kills may fail; 130 thousand states | `NoDuplicate`, `ChildOwned`, `TasksSupervised` |
| `live` | one task, one pid, kills succeed, fairness | `StopsEnd`, `RestartHappens` |
| `double_stop` | one task, a foreign process, two callers | a violation of `StopIsDone` |

Properties. `ChildOwned`: a launched process belongs to a managed task and is its `cmd`.
`StatusTruth`: a task with a process is running or stopping, one without is not.
`UserStopSticks`: after a user's stop nothing waits to bring the task back.
`StopIsDone`: when every stop of a task has ended with success no process of it is left.
`HealthStopAim`: a monitor stops only the run it watched, and only after that run has failed as many probes in a row
as it takes. `NoDuplicate`: two live children of one command line are only there because the lookup of the later launch
overlooked the earlier one; `README.md:243` of the repository promises the adoption and excepts what cannot be identified. `StopsEnd`: a call of `Stop` answers, and a stop in progress ends.
`RestartHappens`: a waiting restart is acted on.

Bounds. Two pids, channels and timers are what it takes for a goroutine of one run to meet the
next run of the same task; two callers for two stops to overlap. `CrashBound` stops the
environment from failing a task more than twice in a row, enough to pass a budget of one.
Actions that need a fresh channel, timer or pid wait while all are taken. `StatusTruth`,
`UserStopSticks` and `StopIsDone` are checked without foreign processes, because the double stop
breaks them with one; `adopt` checks what still holds then. Its two tasks may adopt the foreign process and each
other's child. `core` has symmetric pids, channels, timers and callers,
`adopt` symmetric tasks: all their formulas are safety, and none names one of them.

Fairness (`live`). Weak fairness on the stopping threads, whose waits have timeouts, on waiters of
ended processes, on timers and on a tripped or cancelled monitor: the Go scheduler runs
each of them to its end. Nothing is assumed of callers, probes, or supervised programs, which may
ignore SIGTERM and never end by themselves. `KillMayFail = FALSE`: a failed kill leaves the task
stopping until someone calls `Stop` again, so `StopsEnd` needs kills that succeed.

### A disagreement

`double_stop`: two stops of an adopted task both kill without the lock. The first one
finalizes the entry, a start launches a new process, and the second one finalizes the new run's
entry: its status becomes stopped, its pid 0, and `Stop` reports success while the process
lives. `process/regression_unix_repro_test.go:41` calls exactly this outcome a failure.
`stopWithReason` (`manager.go:442`) does not compare the entry with the run it stopped, as
the waiter does (`manager.go:500`).

To be seen in the model, and not promised otherwise anywhere: of two tasks with one command line, one adopts the other's child and its stop
kills it; a kill that fails leaves the task stopping with no goroutine to finish it;
the death of an adopted process is never noticed, so its stale pid stays in the record and is what a later stop kills; and a
grandchild that keeps the output pipe open keeps the waiter from returning (`manager.go:493`), which the model covers by a waiter
that may be as late as it likes.

### Theorems

For every choice of the constants that meets `ConfigAssumption` and `IdentityAssumption`:

In `TaskManagerProofs.tla`, foreign processes included:

* `TypeCorrect`: `TypeOK`. One lemma per section of code the handlers share, one per group of actions.
* `ChildrenOwned`: `ChildOwned`. It is not inductive: a launch could displace the `cmd` of a task whose process
  still lives. `OwnInv` adds the converse, that every `cmd` is a live child. Then a task
  that is not busy has no child (`IdleTask`), which is what edit, delete, import and start rely on.
* `CommandLinesUnique`: `NoDuplicate`. Two tasks may be the same program, and each may adopt the other's child; what
  keeps both from launching, where the lookups see what runs, is that every launch, a restart included, looks for a match first in
  the same section under the lock. What a launch has overlooked is marked (`WithChild`), so the theorem says that of the children of a
  command line at most one has never been overlooked.
* `HealthStopsAimed`: `HealthStopAim`. A monitor that has counted failures watches the channel of the run that has failed
  them, and a channel that a run still has was not given to another.

In `TaskManagerStops.tla`, for every behaviour of which `[]StopsDoNotOverlap` holds, that no two stops of one adopted
process are under way at a time:

* `StatusesTrue`, `UserStopsStick`, `StopsAreDone`: `StatusTruth`, `UserStopSticks` and `StopIsDone`, from one invariant,
  `StopInv`, which says task by task what its record, its threads and its history have to do with each other: whoever
  is stopping an adopted process of a task finds it stopping and without a `cmd`; while a user's stop of a launched
  process stands, somebody waits for it; the restarts so far are no more than the count, and the count is within the budget.
* `TasksAreSupervised`: `TasksSupervised`, the refinement. Every action of `TaskManager` maps to an action of `Supervised`
  or to a stutter; the lemmas have the names of the actions. The budget, the cancelled timers and the waiters of older runs are
  used here, by way of `StopInv`.
* `StopsWithoutAdoption`: where no process of others matches a task and no two tasks are the same program (`NothingToAdopt`), the hypothesis
  holds of every behaviour, so all four are theorems about `Spec` alone.

The hypothesis is exactly what the run `double_stop` breaks: without it the properties are false, and the fault is the
code's. It is about behaviours and not about constants, so it leaves adoption itself in: a task that adopts, is
stopped and adopts again is covered. `TasksSupervised` holds in the run `adopt` since one caller cannot overlap with itself.

Model-checked only: `StopsEnd` and `RestartHappens`, which are liveness.

## Scheduling

`Scheduling.tla` is `internal/scheduler/scheduler.go` and the runtime around it: the handlers of
`schedule_runtime.go` and `runtime.go`, restart and shutdown. The manager is abstract in it: a task
is absent, down, waiting for a restart, up, being stopped by its monitor, or being stopped.

| code | model |
|---|---|
| `Runtime.Tasks` and the manager's states | `status` |
| `Runtime.Schedules` | `schedules` |
| cron's entries, each with the snapshot its closure holds | `entries`, `cron` |
| `Scheduler.inFlight` | `inFlight` |
| a goroutine that a cron entry, `RunScheduleNow` or an API request started | `thread[x]` with a `pc` |
| `Runtime.mu` | `Readers`, who are inside, and `Asked`, whether a writer waits |
| `Runtime.Shutdown` | `phase`, `halted`, `halting` |

`Runtime.mu` is a `sync.RWMutex`, and what is interesting about it is held for long: a stop or
restart keeps it as a reader until its process is gone, `StopAllTasks` as the writer until all are.
A section that takes and releases it at once is one action. A writer first asks
(`AskToReport`, `AskToStopAll`), which keeps new readers out, then waits for the readers inside
(`Alone`). Edits and imports ask and enter in one action, which is sound because between the two they
only wait.

A run is `Acquire` (the overlap guard), `Look` (the state decides on a skip), `DoStart`, `DoStop` with
`EndWait`, or `DoRestart` with `StopForRestart`, `EndWait`, `Recheck` and `DoStart`, then `AskToReport`, `Report`,
`Release`. No lock spans these steps but the reader's lock of a stop or restart. An API request
is the middle part alone. `TaskStops`, `TaskFails`, `TaskEnds` and `TaskRestarts` are what waiters,
monitors and timers of the manager do by themselves.

Abstractions. Cron expressions and times are left out: an enabled entry may fire at any time, and
any number of runs may overlap. A save that fails leaves a handler without effect, and a
result that cannot be saved is dropped (the second disjunct of `Report`). The fifty tests of
`RestartTask` are one `Recheck`. `ReplaceTasks` may leave any set of its tasks up, by adoption or by
autostart, which stops at its first error. Autostart at start-up acts like a sequence of start requests.

### Runs

| run | instance | shows |
|---|---|---|
| `scheduling` | one task, one schedule, two goroutines, all actions, stops may fail; 1.8 million states | `OneRun`, `EntriesCurrent`, `TaskInUse`, `DeletedStaysDeleted` |
| `scheduling_live` | one task, one schedule, two goroutines that restart it, no edits, stops succeed, fairness | `RunsEnd`, `ShutdownEnds`, `HaltedStaysDown` |
| `shutdown` | as above with all actions | a violation of `TasksStopped` |

`OneRun`: a schedule has at most one run at work and is marked in flight exactly while it has one.
`EntriesCurrent`: what may fire are the enabled schedules as they are now, and their tasks exist; a job that has fired before
an edit runs with the snapshot it has (`scheduler.go:175`), which the model allows and no property rules out.
`TaskInUse`: no delete or import gets between the stop and the start of a restart.
`HaltedStaysDown`: what `StopAllTasks` has stopped stays down while it stops the rest.
`DeletedStaysDeleted`: a late result does not revive a schedule. `RunsEnd`: no run or request hangs.
`ShutdownEnds`: a shutdown ends whatever is under way.

Bounds. Two goroutines are two runs of one schedule, or a run and a request. Starts and stops are
parts of a restart, so the liveness run has that action alone, and `MayEdit = FALSE`. With one task an
import drops or keeps it, and a shutdown has it halted until it gives the lock up; what a second task adds, imports
that keep some and a shutdown that stops one after the other, no run has: a second task takes the runs past the time
they have, and the theorems `EntriesStayCurrent` and `HaltedTasksStayDown` hold for any number.

Fairness. Every goroutine runs on, and a stop has its effect (`StopsEnd` of
`TaskManager`, which needs kills that succeed). Strong fairness for steps that need the lock: a
`sync.RWMutex` lets waiting readers in after each writer, and its inner mutex hands over to a starving
writer. Weak fairness would allow runs that the Go mutex excludes. The loop of
`RestartTask` must be bounded for `RunsEnd`: without the bound a restart whose task another request
starts again holds the lock for ever.

### A disagreement

`shutdown`: a start request that waits for `Runtime.mu` while `StopAllTasks` holds it gets the
lock afterwards, while `HTTP.Shutdown` waits for that request; its task is up when zlt exits. The same
goes for a run that outlives the ten seconds of `Scheduler.Stop`. `README.md:123` says that
stopping the instance stops the managed tasks.

The model has another race that no run asks for: `execute` looks at the state and calls `Start` later, so when another
request starts the task in between, the run is recorded as failed, where `scheduler.go:199` means the
look to make it a skipped one.

### Theorems

`SchedulingProofs.tla`, for every choice of tasks, schedules and goroutines that meets
`SchedulingAssumption` and `NoScheduleAssumption` (an absent schedule is not a schedule):

* `SchedulingTypes`: `TypeOK`, with what each goroutine is at by its `pc` (`ThreadOK`), without which
  `TypeOK` is not inductive: an idle goroutine has no task.
* `EntriesStayCurrent`: `EntriesCurrent`, inductive once types are known. Its lemma `CurrentKept` treats
  the steps that only move tasks and results, `CurrentEdit` the handlers.
* `OverlapGuard`: `OneRun`, inductive because both of its halves are in it: the mark keeps
  the second run out, and is itself known from the first.
* `TaskStaysInUse` and `HaltedTasksStayDown`: both from `Locked`, which adds that a
  writer excludes readers, that a halted task is down and not waiting for a restart, and that the task
  being halted can only go from stopping to down.
* `LateResultsIgnored`: `DeletedStaysDeleted`, an action property.

Model-checked only: `RunsEnd` and `ShutdownEnds`, which are liveness.

## Configuration

`Configuration.tla` is what zlt keeps: the lists of tasks and schedules and the settings, in memory
(`Runtime`, `internal/app`) and in SQLite (`internal/store`), from `NewTaskStore` on.

| code | model |
|---|---|
| the tables `tasks` and `schedules` | `store.tasks`, `store.schedules`: the rows by rowid, each an item and its `sort_order` |
| the row of `settings`, the markers in `meta` | `store.settings`, `store.marked` |
| `data/tasks.json` | `legacy`, never written |
| `Runtime.Tasks`, `Runtime.Schedules`, the settings in effect | `memory` |
| a handler after its commit, with `Runtime.mu` held | `pending`, what it will put into the memory |
| `NewTaskStore`, `NewRuntime`, `RunWithOptions` | `phase` |

Every handler is a `Commit`, one transaction, and an `Apply`. Every statement of the start-up that commits by itself
is an action: `Backfill` and `Mark` for each table, `SeedSettings`, `ImportLegacy`, `LoadTasks`,
`ResaveTasks`, `LoadRest`. `Crash` may come at any point, so it also stands for a start-up that
fails. HTTP is up before `StartScheduler`, so handlers run in phase `listening` too.

Abstractions. A task is its ID and `restart_on_crash`, a schedule its ID, task, enabled flag, the status of its last
run (`last`, with its time) and the detail (`detail`, which an import or a start-up also writes): what handlers decide on or set one at a time. Settings are a level and one number for the four that are clamped.
Whether the manager refuses an edit because a task runs is left to `TaskManager`; a refusal changes
nothing. Since each save deletes all rows first, rowids count from one and a table is a sequence.

### Run

`configuration` (1.5 million states): two tasks, two schedules and two values of the settings,
schedules that are orphans at first, as an older version may have left them, a legacy file, one that uses an ID
twice, imports, drags of stale lists and of lists with a repetition.

`MemoryIsDisk`: between handlers, what is served and supervised is what a restart would load, order included.
`BootKeeps`: a start-up changes nothing of it, however often it is cut short, but for the legacy import into an
empty table. The two together make an answered request durable. `NoOrphans`:
no enabled schedule lacks its task once cron runs, and no step makes one, not even for a crash to leave behind. `OnlyDeletesRemove`: nothing else loses an item, a drag on a stale list
least of all. `HistoryKept`: edits, drags, crashes and restarts do not touch the record of runs of a schedule that
stays. An import or a start-up that disables it because its task is gone writes the reason over the detail of the last run (`schedule_runtime.go:194`),
which `schedule_runtime.go:172` means it to, and leaves time and status. `TypeOK` says among other things
that no list has an ID twice and that settings in effect are within bounds.

The start-up ignores three errors: of `metaGet` and `metaSet`, which read and write the marker of the one-time
backfill, and of `LoadSettings`. The model lets each fail and records it in the history variable `ignored`, which weakens
`BootKeeps` and the part of `MemoryIsDisk` about settings, and nothing else. What then happens: without the marker
the next start backfills again, the row that a drag has put first has `sort_order` 0 and gets its
rowid instead, so the drag is undone (`task_store.go:261`, `schedule_store.go:46`), although
`task_store.go:255` means the marker to prevent this; and the default settings are in effect until the next
update, although others are stored.

Bounds. Two items are the least for an order and for one to stay when the other goes. `ScheduleInputs`
is what requests save: one schedule that moves between the tasks and one that does not. `TaskInputs` has one task
whose `restart_on_crash` requests switch and one where it stays. Requests to reorder carry every
list of two without repetition, and one with; a drag of fewer changes nothing. No fairness: the module
has no liveness property, a start-up may be cut short for ever.

A last task that is deleted comes back at the next start if `data/tasks.json` is still there; `README.md:519`
says so, and `BootKeeps` allows it.

### Theorems

`ConfigurationProofs.tla`, for any tasks, schedules, settings, lists that requests may send and tables that an older version may have left that
meet `ConfigurationAssumption`: `MemoryMatchesDisk` (`MemoryIsDisk`), `RestartsKeep` (`BootKeeps`), `OrphansStayAway` (`NoOrphans`),
`DeletesAloneRemove` (`OnlyDeletesRemove`), `HistoryIsKept` (`HistoryKept`) and `ConfigurationTypes` (`TypeOK`), that is, every property of the run.

The first part is about the order of a table. `Load` sorts the rows by `sort_order` and rowid; the ranks of the rows
are a permutation of their positions, so it gives every row once and in an order that the rows alone determine. From this follows that
what is loaded after a save is the list that was saved, after a drag the list with the drag applied, and after a
backfill the list as it was. The second part is the handlers: what they make of a list has no ID twice and no orphan.

The invariant is `ConfInv`. `MemoryIsDisk` speaks of the moments between handlers only; what makes it inductive is that
a handler that has committed and not yet applied agrees with the table in what it is about to apply (`pending`), that
a start-up which saves its tasks again has loaded what is there (`resave`), and that, unless an error was ignored, a table without its marker is one that
was never dragged: its column is as the migration left it or as the backfill sets it. All of these hold for a start-up that is cut short at any statement.

## RotatingLog

`RotatingLog.tla` is one log file with its archives: `RotatingWriter` (`internal/logging/rotate.go`) and
those who use it. The same module stands for a task's log, which is launched and closed with every run and purged
by `ClearLogs`, and for zlt's own, which is opened once and emptied by the API without the writer knowing.

| code | model |
|---|---|
| `app.log`, `app.log.1`, ... | `disk[0]`, `disk[1]`, ...; a byte is the number of the write it belongs to |
| `RotatingWriter.file`, `size` | `handle`, `size`; "stuck" is a file that did not close, on which every later call fails |
| `maxSize`, `maxBackups`, `Manager.logMaxSize`, `logMaxBackups` | `limits`, the same for the settings and the writers that follow them |
| the life of a writer | `phase`: `Launch` or `Continue`, `Close` by the waiter, `Forget` when it has the manager's lock |

A method holds the writer's mutex, so it is one action, and its file operations are the points where it may give up:
`PartlyRotated` and `PartlyPurged` are what it may leave behind. zlt killed in the middle of a rotation is
`RotationFails` followed by `Crash`. A write may stop after any byte when the disk is full. A call that fails and changes
nothing is no step. The banner of a run is a write like another.

The run `log` checks this module together with its readers: see `LogReading`.

`WriteBounded`: no write leaves the file over the limit in effect, except one that has the file for itself. `InOrder`: read from the
highest number down, the log is in the order it was written and has nothing twice, which the readers
rely on. `OldestGoFirst`: what is lost without a request to clear is one file, and it is the oldest of those
that the limit covers. `RunsApart`: the current file has the output of the present run only.

To be seen in the model, though no run asks for it: when the number of backups is lowered, the archives beyond
it are never removed, since `rotateLocked` (`rotate.go:111`) removes the one with the number `maxBackups` only, while
`rotate.go:17` says that at most `MaxBackups` are kept and `README.md:508` that 0 keeps none.
Also to be seen in the model, and not promised otherwise anywhere: while the rename of the log itself keeps failing, every
write drops one more archive; and a purge between the waiter's `Close` and `Forget` reopens a file that nobody closes.

### Theorems

`RotatingLogProofs.tla`, for any number of archives, limits, lengths and writes that meet `LogAssumption`: `ArchivesInOrder`,
`WritesBounded`, `RunsStayApart`, `LogTypes`. They follow from one invariant, `LogInv`: the files are in order (`Ordered`), hold no
write that is yet to come (`Below`), `app.log` holds none from before the last fresh run (`From`), and the types hold. A step
either rearranges the files, which `RearrangedOrderly` treats for renames, purges and failures alike, or puts the newest
write at the end of `app.log` (`WrittenOrderly`). `WriteBounded` needs that the byte count is never too low, which is a part
of `TypeOK`. `OldestAreFirst` is `OldestGoFirst`: a rotation, however far it got, removes the file that the limit makes the oldest before it
moves any, and what it moves stays; it is an action property, proved step by step from `LogInv`.

## LogReading

`LogReading.tla` extends `RotatingLog` with those who read the files: `TailLines` (`internal/logging/tail.go`), and in
`internal/api/server.go` the tail over all archives, the download and the stream of the current log. No lock is between them
and the writer, and a request that reads several files opens one after the other, while a rotation renames one
after the other.

| code | model |
|---|---|
| the directory while the writer is between two renames or removals | `dir`: the directory as it is now, and the states up to the one that `RotatingLog` has reached already |
| `taskLogArchivesNewestFirst` | `Begin`: the list of the files there are, sorted by number |
| the loops of `readTaskLogAllTail` and `readTaskLogAll` | `reader.todo`, with `ReadTail` and `ReadWhole` for one file each |
| `handleGenericLogStream` | `StreamTick`, in its two halves: the size, then the tail |

`Writer` is a step of `RotatingLog`; when it is a rotation or a purge, `dir` is given the states the code goes through (`Renames`,
`Removals`, up to where the call gave up) and `NextFile` walks them. The next call waits, as for the mutex. Readers
change nothing, so one at a time shows all that can happen to any. An answer that is complete does not change any longer, so the
module gives it before anything else happens. A line is the write it comes from; that the answer of a window into a file
may lose its first lines to the byte budget is the choice in `Fitting`.

### Runs

| run | instance | shows |
|---|---|---|
| `log` | two archives, files of two bytes, writes of one and two, three writes, pages of two lines; 1.85 million states | the four properties of `RotatingLog` above, `TailWithoutHoles`, `DownloadInOrder`, `StreamCurrent` |

`TailWithoutHoles`: between its oldest and its newest line, a tail misses none that was in the log all along, and none at
all when no file was moved meanwhile and it is short. That is not obvious: the tail walks from the newest file to the oldest
and a rotation moves files the same way, so it may read a file twice but cannot skip one. `DownloadInOrder`: a
download walks the other way; it may miss a file, but has nothing twice or out of order. `StreamCurrent`: a
stream that sees no change of size shows what the log has, unless the file was replaced or emptied.

Bounds. Two archives make a rotation of two renames with a file between them; three writes fill them and the log. Two lines per page reach
over a file. Limits change between none and two backups. A third archive is left to the theorems, which hold for any number.

To be seen in the model or in the code beside it, though no run asks for it:

* `server.go:847` promises the last lines across all archives. When lines are long, the budget of a
  file drops lines of its beginning and the walk goes on to an older file, so the answer has a hole; the same goes for
  numbers with a gap, which a failed rotation leaves. `reader.holes` records both. A last line longer than the whole window is given
  from its middle, where `tail.go:26` says that a partial line is dropped (`tail.go:61`).
* A file that is emptied between `Stat` and `ReadAt` (`tail.go:56`) is read short, the error is `io.EOF`, and the rest of the buffer is
  returned as zero bytes.
* A log that is cleared and filled again to the size it had, between two ticks, is not sent until it grows (`server.go:663`).

### Theorems

`LogReadingProofs.tla`, for any number of archives, page lengths, limits and writes: `TailsHaveNoHoles`, `DownloadsInOrder`,
`StreamsAreCurrent` state the three properties above, and `ReadersDoNotDisturb` says that `ReadingSpec` implies the `Spec` of `RotatingLog`, so everything
proved of the writer holds with readers beside it.

The states of the directory that a call goes through are a walk (`Walk`): the files are in order in each, and from one to the
next every byte that is there was in the same file or in one of a lower number, or is of a new write (`Upward`). `WriterPasses` shows
that a rotation, a purge, a write or a launch makes such a walk, also where it gives up in the middle. `ReaderInv` then says of a reader what the
rest of its list means: a line that stayed and that a tail lacks is older than all the tail has, and in a file that it has still to come to
(`TailOK`); a download has nothing that is not older than what the files on its list hold (`DownloadOK`); a stream has sent the log at a size
between the one it took and the present one (`StreamOK`). It is kept by the walk because lines only move up, where the tail is still to come
and the download has been. That the lines of a file are in the order of the writes, and that the last of them are the newest, are
lemmas about `LinesOf` and `LastLines`; they rest on the ranks of a finite set of numbers being all of `1..n`.

## InstanceLock

`InstanceLock.tla` is what several zlt processes in one working directory do to each other, on unix:
`acquirePIDFile` and `Release` (`pidfile.go`), the life of a zlt that serves (`RunWithOptions`), and the commands
`start`, `stop`, `restart` and `auth set`/`reset`.

| code | model |
|---|---|
| `zlt.pid` | `file`: the pid it names, whether it has the path of zlt, its token |
| the `flock` of `zlt.pid.lock` | `flock`, the process or command that has it |
| a zlt that serves, from `RunWithOptions` to its end | `proc[p]`, the step it is at, with `own[p]`, the token of its `pidLock` |
| whatever else has a pid | `proc[p]`: a zlt command, a program, one whose image cannot be read, a zombie |
| a command | `cmd[c]`: its step, the payload that `stop` read, the child that `start` waits for |

Each step between two looks at what others can change is an action: `TakeLock`, `CheckFile`, `Write` for
`acquirePIDFile`; `Relock`, `Compare`, `Unlink` for the `Release` of a `stop`, which reads the file first and has no lock then;
`Release`, `Remove` for that of an instance, which holds the lock all along; `Check`, `Spawn`, `SeesOwner`, `SeesServer` for `start`;
`Verify`, `Kill`, `Poll` for `stop`. `Die` and `Interrupted` may come anywhere and also stand for steps that fail
or time out. A token that was used may come again once nobody knows it any longer. An instance that has removed its file
closes the lock and ends in one action; the short time in which it lives on without either is left out.

Abstractions. All zlt have one executable, which is not replaced while they run: on Linux the image of a running zlt whose binary
was replaced has another path, and `stop` then reports success and leaves it running. A child of `start` that dies is a zombie
until `start` ends, since nobody waits for it. `start` takes any server that answers at the
address for its child (`daemon.go:45`), so its success promises no more than that the child's pid was still taken; a file
left by a dead zlt with the pid of the child does for the first phase. A port is not part of the state: `BootFails` is
a listen that fails. What `auth` does to the key and the sessions is left to `Sessions`. Windows is left out.

### Runs

| run | instance | shows |
|---|---|---|
| `instance` | two pids, two commands, four tokens; 169 thousand states | `OneInstance`, `FileIsOwners`, `NotTakenAway`, `StopDone` |
| `refused` | two pids, one command, three tokens | a violation of `RefusedByInstance` |

`OneInstance`: at most one zlt is past `acquirePIDFile`, and no stop is about to remove the file while one is.
`FileIsOwners`: while there is an instance the file, if it is there, is its own. `NotTakenAway`: nobody but the instance and `auth`
removes or replaces it. `StopDone`: a `stop` succeeds, and a `restart` goes on, only when the service that the
file named is gone, whoever has its pid now. `TypeOK` says that the pid of a child that is waited for is not given away.

Bounds. Two pids are an instance and its rival, and each may be used again any number of times; two commands are a
`stop` that overtakes another, a `restart` or a `start`. Four tokens leave a new one for every file that two processes, two commands and the
disk can know of. Pids, commands and tokens are interchangeable, hence the symmetry. No fairness: what may take for ever here, from a kill
that is not answered to a boot, ends in the code with an error after a time, which `Interrupted` stands for.

### A disagreement

`refused`: an instance is killed, or its machine goes down, and its file stays. The next zlt gets the same pid, as it does in a
container where it is always pid 1 or at a fixed place of the boot order. It has the lock, finds in the file a pid that lives and
has the path of zlt, its own, and ends with `errAlreadyRunning`; so does every later try. `pidfile.go:17` says that this
error means that a live instance holds the lock, and `pidfile.go:200` that a recycled pid is recognized.
`acquirePIDFile` (`pidfile.go:59`) does not ask whether the pid is its own.

### Theorems

`InstanceLockProofs.tla`, for every choice of pids, commands and tokens that meets `InstanceAssumption`: `AtMostOneInstance`,
`FileNamesOwner`, `FileStays`, `InstanceTypes`, `StopsAreComplete`. The first four follow from one invariant, `Inv`. `LockDiscipline` is its heart:
whoever is between taking and dropping the lock, an instance as well as a `stop` that compares and removes, is the one that
`flock` names; both halves of `OneInstance` follow, and with them that no file is written or removed under an instance but by `auth`. `Children`
says that a child has one parent, so the pid of another's child is not given away when a command ends, `Aims` that a
`stop` has read a file.

`StopsAreComplete` is `StopDone` and needs more, `Traced`: a token is had by one process at most, a file or a memory of one that has the token of a
process has its pid as well, and a `stop` that takes its service for gone remembers a token that no process with a life left has. Then a pid that
was used again does not matter: whoever has it has another token. Only `Write` gives a token out, and one that
nobody knows; every other step lets tokens and memories fade (`Fades`).

## Sessions

`Sessions.tla` is `internal/auth` and what it meets: the start-up that reads or creates the access key (`app.go:120`), the
commands `auth set` and `auth reset` of other processes (`cli.go:389`), and the event streams of the API.

| code | model |
|---|---|
| `data/auth.key` | `keyFile`: a key, missing, or empty, as `os.WriteFile` leaves it between truncating and filling it |
| the table `sessions`, a row's `expires_at` | `rows`: by token, the key it was issued under and the ticks it has left |
| `data/auth.db` removed under an instance that has it open | `unlinked` |
| `RunWithOptions` from the pid file on | `inst`: `Lock`, `ReadKey`, `CreateKey`, `Serve`, `InstanceEnds` |
| a request | `request[r]`: `Arrive` in the middleware, `Look` in the handler, then its statement |
| a `zlt auth` process | `command[c]`: `AuthChecks`, `AuthWrites`, `AuthDrops` |
| `loginLimiter.hits` | `hits`: the failures of an address, as the minutes they still count |

A touch and a logout look the session up twice, in the middleware and in the handler, and act after that in a statement
of their own, so anything may come between. Any statement may fail (`RequestFails`): `HandleLogout` answers "logged
out" even then (`service.go:266`), and the session lives on until it expires. `InstanceEnds` and `AuthEnds` may come at any
point. `AuthChecks` stands for the look at the pid file, which `InstanceLock` has in full: the command goes on when no
instance is there, or when one is whose pid file a command has removed, which takes a command that was already under way when
that instance started (`raced`).

Time is two clocks that count in units of the session's life and of the limiter's window; the code reads one, but nothing relates the two.
CSRF tokens, cookies and `Remember` decide who is refused and are part of the choice whether a request arrives.

### Run

`sessions` (790 thousand states): two sessions, two keys, two requests, one auth command, one address.

* `LogoutSticks`: a session that was logged out is never there again. A touch that passed both looks before the logout is what could break it.
* `RevokedGone`: after an auth command has reported success no older session authenticates, neither in a
  later instance, nor when the old key is set again; an instance that had the database open when the command
  removed it is excepted.
* `KeyInUse`: an instance serves with the key in the file, unless an auth command was under way when it started. An empty key
  file never becomes a key.
* `RefusedOverLimit`: a failed login is answered 429 exactly when `maxFail` failures of its address, whatever their answers, are in the
  window since its last right key; so at most `maxFail` in a window are answered 401, and nobody is held to failures from before a
  success. `failed` and `refused` are the history it is stated on, which nothing trims.
* `StreamsEnd`: the event stream of a session that was logged out is closed. `TypeOK` includes that no session has longer to live than `SessionMaxIdle`.

Bounds. Two sessions, one under each key, show that a key change revokes and a logout does not touch another; two requests are the touch and the logout that
race, or a stream and its logout. A life of two ticks is new, older or expired.
A limit of two failures in a window of two minutes, and four in a row, has windows that are partly over, a failure refused and one after a refusal.
`MayFail` lets an address fail only before the first session is issued, since the limiter shares nothing with the sessions but the reset by a login
(which a login whose `Create` fails does as well), and at most `MaxHits` times in a row.

Fairness. The ticker of a stream, and only it: `WF_vars(StreamTick(r))`. The loop of a stream runs once a second until it
returns (`server.go:437`).

What the module shows and no run asks for:

* `session.go:14` says that an expired session "cannot be revived by a touch". `Touch` is an `UPDATE` that does not look at the time, so one that expires
  between the look and the update is revived, even if a logout of it, which finds it expired and deletes nothing, has been answered in between.
* An instance that starts while an auth command is under way serves with a key that is not in the file, or with an unlinked
  database; two that both write the file leave the one that wrote last.
* A zlt or an `auth set` killed between truncating and filling the file leaves it empty, and no zlt starts until someone sets or resets the key.
* The limiter does not stop guesses. `rate.go:8` says that it caps failed login attempts, but `service.go:191` compares the key first and asks the limiter
  only when it is wrong (`service.go:206`): a 429 tells that as well as a 401 does, and over the limit a right key is accepted like any other.
* `loginLimiter.sweep`, which `rate.go:60` means to keep the map small, and `DeleteByKeyFingerprint` are never called: the map
  grows with every address that fails once.

### Theorems

`SessionsProofs.tla`, for every set of tokens, keys, requests, commands and addresses, every life of a session, window and limit that meet
`SessionsAssumption` and `EmptyAssumption`: `LogoutsStick` (`LogoutSticks`), `RevokedStay` (`RevokedGone`), `KeysInUse` (`KeyInUse`),
`RefusalsOverLimit` (`RefusedOverLimit`) and `SessionTypes` (`TypeOK`).

The first three follow from `Inv`, in two parts that do not need each other. `StoreInv`: every row, and every request under way, has a token that a login has handed
out; a token that a command has revoked has no row in the database that the next start opens. So neither a touch, which is an
update, nor a login, which takes a new token, brings a row back. `KeyInv`: from the moment an instance has the lock with no command under
way, no command passes its check, and the key it has read is the one in the file. `RefusedOverLimit` is about sequences of times (`LimitInv`): at any time to come, as many of all the failures since the last right key will
still be in the window as of those that the limiter has kept. Its own are in the order of their times, so those in the window are the end of the sequence
(`Recent`), and its length decides the answer (`AnswersMore`); a minute later fewer count, and no answer changes (`AnswersAged`).

Model-checked only: `StreamsEnd`, which is liveness.

## What is not modelled, and why

* `autostart*.go`: one request writes a unit file, an init script or a registry value and calls the service manager. It shares no state
  with the rest, and what the service manager makes of it is outside the code.
* The lock, pids and kills on Windows: the protocol is the one of `InstanceLock`, the primitives are others.
* Platform parsing of process tables and command lines; `TaskManager` has what it answers.
* The handlers of the API that decode, call the runtime and format; the tray; the web page; record declarations.

## What is proved and what is not

Every invariant and every action property that a passing run checks is also a theorem, as is the refinement of `Supervised`; the runs
check them on the instances above, the theorems hold for every value of the constants. Four of them have a hypothesis on the behaviour, that no two stops
of an adopted process overlap; see `TaskManager`.

Only TLC checks the liveness properties, since the prover treats neither fairness nor `ENABLED`: `StopsEnd`, `RestartHappens`, `RunsEnd`,
`ShutdownEnds`, `StreamsEnd`. The three violations, `double_stop`, `shutdown` and `refused`, are counterexamples of TLC.

## Plan

1. `Supervised`: that no task has more automatic restarts than its budget, that only a task that is down waits, and that a user's stop leaves
   nothing waiting, as theorems; with `TasksAreSupervised` they carry over to the manager.
2. `Scheduling`: that the status a schedule goes by is the one the manager promises, a mapping from `Supervised` to the abstract status in `Scheduling`.
