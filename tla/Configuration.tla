---------------------------- MODULE Configuration ----------------------------
(***************************************************************************)
(* The configuration that zlt keeps: tasks and schedules, each a list in   *)
(* the user's order, and the settings.  Runtime (internal/app/runtime.go,  *)
(* schedule_runtime.go, reorder.go, settings.go) has it in memory, the     *)
(* store (internal/store) in SQLite.  A handler commits one transaction and*)
(* then changes the memory, all under Runtime.mu; zlt may crash at any     *)
(* step of a handler and of the start-up.                                  *)
(*                                                                         *)
(* A save that fails leaves the handler without effect and is no step, as  *)
(* is a request that is refused.                                           *)
(***************************************************************************)
EXTENDS Naturals, Sequences, FiniteSets

CONSTANTS
  TaskIds, ScheduleIds,
  Results,          \* what a run of a schedule is recorded with: status and detail
  Levels,           \* the log levels
  MinSize, MaxSize, \* the limits of a log file
  DefaultSettings,
  TaskInputs,       \* the tasks, and their restart flags, that a request may save,
  ScheduleInputs,   \*   the schedules it may save,
  SettingsInputs,   \*   the settings it may ask for
  OldTasks,         \* the lists of tasks that an older version may have left,
  OldSchedules,     \*   and of schedules
  LegacyLists,      \* what data/tasks.json may hold, <<>> when it is not there
  Imports,          \* the lists of tasks that a request may import
  Orders,           \* the lists of IDs that a request to reorder may carry
  NoSettings, NoChange

Task     == [id : TaskIds, restart : BOOLEAN]
(* last: when it ran last and with what status, detail: what is said of it. *)
Schedule == [id : ScheduleIds, task : TaskIds, enabled : BOOLEAN,
             last : Results \cup {"never"}, detail : Results \cup {"none", "no task"}]
Settings == [level : Levels, size : MinSize..MaxSize]

Ids(s)      == [n \in DOMAIN s |-> s[n].id]
Distinct(s) == \A m, n \in DOMAIN s : s[m] = s[n] => m = n

(* Lists of items, each with an ID of its own.                              *)
Lists(Items) == {s \in Seq(Items) : Distinct(Ids(s))}

Configurations ==
  [tasks : Lists(Task), schedules : Lists(Schedule), settings : Settings]

ASSUME ConfigurationAssumption ==
  /\ MinSize \in Nat /\ MaxSize \in Nat /\ MinSize <= MaxSize
  /\ DefaultSettings \in Settings
  /\ TaskInputs \subseteq Task /\ ScheduleInputs \subseteq Schedule
  /\ \A x \in SettingsInputs : x.size \in Nat /\ x = [level |-> x.level, size |-> x.size]
  /\ OldTasks \subseteq Lists(Task) /\ OldSchedules \subseteq Lists(Schedule)
  /\ LegacyLists \subseteq Seq(Task)
  /\ Imports \subseteq Seq(Task)
  /\ Orders \subseteq Seq(TaskIds \cup ScheduleIds)
  /\ NoSettings \notin Settings
  /\ NoChange \notin Configurations

VARIABLES
  store,   \* the database
  legacy,  \* data/tasks.json
  memory,  \* Runtime.Tasks, Runtime.Schedules, the settings in effect
  pending, \* committed by a handler that has yet to change the memory
  phase,   \* how far the start-up has come
  ignored  \* has a statement failed whose error nobody looks at?

vars == <<store, legacy, memory, pending, phase, ignored>>

(* A table is the sequence of its rows by rowid: every save deletes all rows*)
(* and inserts anew, so rowids count from one without gaps.                 *)
Rows(Items) == [item : Items, order : Nat]

Kinds == {"tasks", "schedules"}

Booting == {"down", "tasks", "mark tasks", "schedules", "mark schedules", "seed",
            "import", "load", "resave", "read"}
Up      == {"listening", "started"}

TypeOK ==
  /\ store \in [tasks : Seq(Rows(Task)), schedules : Seq(Rows(Schedule)),
                settings : Settings \cup {NoSettings}, marked : SUBSET Kinds]
  /\ legacy \in LegacyLists
  /\ memory \in Configurations
  /\ pending \in Configurations \cup {NoChange}
  /\ phase \in Booting \cup Up
  /\ ignored \in BOOLEAN

------------------------------------------------------------------------------
(* The store.                                                               *)

(* ORDER BY sort_order ASC, rowid ASC.                                      *)
Before(T, i, j) == T[i].order < T[j].order \/ (T[i].order = T[j].order /\ i < j)

Rank(T, i) == Cardinality({j \in DOMAIN T : Before(T, j, i)}) + 1

(* Faulty variant: the rows as they were inserted.                          *)
LoadUnordered(T) == [n \in DOMAIN T |-> T[n].item]

(* Load, LoadSchedules.                                                     *)
Load(T) == [n \in DOMAIN T |-> T[CHOOSE i \in DOMAIN T : Rank(T, i) = n].item]

(* saveTasks, saveSchedules: the position is the sort order.                *)
Saved(s) == [n \in DOMAIN s |-> [item |-> s[n], order |-> n - 1]]

(* The first row of s with this ID.                                         *)
Has(s, id)  == \E n \in DOMAIN s : s[n].id = id
Find(s, id) == CHOOSE n \in DOMAIN s : s[n].id = id

(* TaskStore.ReorderTasks, ReorderSchedules: UPDATE by ID; a row whose ID is*)
(* not in the list keeps its order.                                         *)
Resorted(T, ids) ==
  [i \in DOMAIN T |->
     IF \E n \in DOMAIN ids : ids[n] = T[i].item.id
     THEN [T[i] EXCEPT !.order = (CHOOSE n \in DOMAIN ids : ids[n] = T[i].item.id) - 1]
     ELSE T[i]]

(* The backfill of an added column: sort_order is 0 where nobody set it.    *)
Backfilled(T) ==
  [i \in DOMAIN T |-> IF T[i].order = 0 THEN [T[i] EXCEPT !.order = i] ELSE T[i]]

View(S) == [tasks |-> Load(S.tasks), schedules |-> Load(S.schedules), settings |-> S.settings]

Blank == [tasks |-> <<>>, schedules |-> <<>>, settings |-> DefaultSettings]

Unsorted(s) == [n \in DOMAIN s |-> [item |-> s[n], order |-> 0]]

(* A new installation, or the database of a version without an order.       *)
Init ==
  /\ store \in {[tasks |-> Unsorted(ts), schedules |-> Unsorted(ss), settings |-> x, marked |-> {}] :
                  ts \in OldTasks, ss \in OldSchedules, x \in Settings \cup {NoSettings}}
  /\ legacy \in LegacyLists
  /\ memory = Blank /\ pending = NoChange /\ phase = "down"
  /\ ignored = FALSE

------------------------------------------------------------------------------
(* The start-up: NewTaskStore, NewRuntime, RunWithOptions.  Every statement *)
(* outside a transaction commits by itself; an error ends zlt like a crash. *)

Reach(p) == phase' = p

Boot ==
  /\ phase = "down" /\ Reach("tasks")
  /\ UNCHANGED <<store, legacy, memory, pending, ignored>>

(* Faulty variant: the marker is not looked at.                             *)
UnmarkedAlways(k) == TRUE /\ UNCHANGED ignored

(* metaGet: a marker that cannot be read counts as missing.                 *)
Unmarked(k) ==
  \/ k \notin store.marked /\ UNCHANGED ignored
  \/ k \in store.marked /\ ignored' = TRUE

(* initSchema, initScheduleSchema: the table k, its order and its marker.   *)
SkipBackfill(k, next) ==
  /\ phase = k /\ k \in store.marked
  /\ Reach(next)
  /\ UNCHANGED <<store, legacy, memory, pending, ignored>>

Backfill(k, next) ==
  /\ phase = k /\ Unmarked(k)
  /\ store' = [store EXCEPT ![k] = Backfilled(@)]
  /\ Reach(next)
  /\ UNCHANGED <<legacy, memory, pending>>

(* The error of metaSet is ignored.                                         *)
Mark(k, here, next) ==
  /\ phase = here
  /\ \/ store' = [store EXCEPT !.marked = @ \cup {k}] /\ UNCHANGED ignored
     \/ UNCHANGED store /\ ignored' = TRUE
  /\ Reach(next)
  /\ UNCHANGED <<legacy, memory, pending>>

(* initSettingsSchema: INSERT OR IGNORE of the defaults.                    *)
SeedSettings ==
  /\ phase = "seed"
  /\ store' = [store EXCEPT !.settings = IF @ = NoSettings THEN DefaultSettings ELSE @]
  /\ Reach("import")
  /\ UNCHANGED <<legacy, memory, pending, ignored>>

(* bootstrapFromJSONIfNeeded.  A file that uses an ID twice is refused by   *)
(* the primary key, and zlt does not start.                                 *)
ImportLegacy ==
  /\ phase = "import"
  /\ IF store.tasks = <<>>
     THEN /\ Distinct(Ids(legacy))
          /\ store' = [store EXCEPT !.tasks = Saved(legacy)]
     ELSE UNCHANGED store
  /\ Reach("load")
  /\ UNCHANGED <<legacy, memory, pending, ignored>>

LoadTasks ==
  /\ phase = "load"
  /\ memory' = [memory EXCEPT !.tasks = Load(store.tasks)]
  /\ Reach("resave")
  /\ UNCHANGED <<store, legacy, pending, ignored>>

(* NewRuntime saves what it has just loaded.                                *)
ResaveTasks ==
  /\ phase = "resave"
  /\ store' = [store EXCEPT !.tasks = Saved(memory.tasks)]
  /\ Reach("read")
  /\ UNCHANGED <<legacy, memory, pending, ignored>>

(* The error of LoadSettings is ignored.                                    *)
LoadRest ==
  /\ phase = "read"
  /\ \/ memory' = View(store) /\ UNCHANGED ignored
     \/ memory' = [View(store) EXCEPT !.settings = memory.settings] /\ ignored' = TRUE
  /\ Reach("listening")
  /\ UNCHANGED <<store, legacy, pending>>

(* zlt is killed, or a step of the start-up fails.                          *)
Crash ==
  /\ phase # "down"
  /\ memory' = Blank /\ pending' = NoChange
  /\ Reach("down")
  /\ UNCHANGED <<store, legacy, ignored>>

StartUp ==
  \/ Boot
  \/ SkipBackfill("tasks", "schedules") \/ Backfill("tasks", "mark tasks")
  \/ Mark("tasks", "mark tasks", "schedules")
  \/ SkipBackfill("schedules", "seed") \/ Backfill("schedules", "mark schedules")
  \/ Mark("schedules", "mark schedules", "seed")
  \/ SeedSettings \/ ImportLegacy \/ LoadTasks \/ ResaveTasks \/ LoadRest

------------------------------------------------------------------------------
(* The handlers.  Each holds Runtime.mu from its check to the end.          *)

Ready == phase \in Up /\ pending = NoChange

(* One transaction; new is what the memory will be.                         *)
Commit(S, new) ==
  /\ store' = S
  /\ pending' = new
  /\ UNCHANGED <<legacy, memory, phase, ignored>>

(* Runtime.mu is still held: nobody else reads or changes the memory.       *)
Apply ==
  /\ phase \in Up /\ pending # NoChange
  /\ memory' = pending
  /\ pending' = NoChange
  /\ UNCHANGED <<store, legacy, phase, ignored>>

SaveTasks(ts) ==
  Commit([store EXCEPT !.tasks = Saved(ts)], [memory EXCEPT !.tasks = ts])

SaveSchedules(ss) ==
  Commit([store EXCEPT !.schedules = Saved(ss)], [memory EXCEPT !.schedules = ss])

(* An item replaces the one with its ID or goes to the end of the list.     *)
Put(s, x) ==
  IF Has(s, x.id) THEN [s EXCEPT ![Find(s, x.id)] = x] ELSE Append(s, x)

Without(s, id) == [n \in 1..Len(s) - 1 |-> IF n < Find(s, id) THEN s[n] ELSE s[n + 1]]

UpsertTask(t) == Ready /\ SaveTasks(Put(memory.tasks, t))

SetRestartOnCrash(id, on) ==
  /\ Ready /\ Has(memory.tasks, id)
  /\ SaveTasks([memory.tasks EXCEPT ![Find(memory.tasks, id)].restart = on])

(* Faulty variant: the schedules of the task are not looked at.             *)
DeleteTaskOnly(id) ==
  /\ Ready /\ Has(memory.tasks, id)
  /\ SaveTasks(Without(memory.tasks, id))

DeleteTask(id) ==
  /\ Ready /\ Has(memory.tasks, id)
  /\ \A n \in DOMAIN memory.schedules : memory.schedules[n].task # id
  /\ SaveTasks(Without(memory.tasks, id))

(* Faulty variant: the schedules of a task that is gone are removed.        *)
OrphansDropped(ts, ss) == SelectSeq(ss, LAMBDA s : Has(ts, s.task))

(* disableOrphanSchedules: a schedule that it disables says why.            *)
OrphansDisabled(ts, ss) ==
  [n \in DOMAIN ss |->
     IF ss[n].enabled /\ ~Has(ts, ss[n].task)
     THEN [ss[n] EXCEPT !.enabled = FALSE, !.detail = "no task"] ELSE ss[n]]

(* Runtime.ReplaceTasks with SaveConfiguration: one transaction.            *)
ReplaceTasks(ts) ==
  /\ Ready /\ Distinct(Ids(ts))
  /\ LET ss == OrphansDisabled(ts, memory.schedules)
     IN Commit([store EXCEPT !.tasks = Saved(ts), !.schedules = Saved(ss)],
               [memory EXCEPT !.tasks = ts, !.schedules = ss])

(* Only once, and only if there is anything to disable is there a save.     *)
StartScheduler ==
  /\ phase = "listening" /\ pending = NoChange
  /\ LET ss == OrphansDisabled(memory.tasks, memory.schedules)
     IN IF ss = memory.schedules THEN UNCHANGED <<store, pending>>
        ELSE /\ store' = [store EXCEPT !.schedules = Saved(ss)]
             /\ pending' = [memory EXCEPT !.schedules = ss]
  /\ Reach("started")
  /\ UNCHANGED <<legacy, memory, ignored>>

(* Faulty variant: an edit resets the history of runs.                      *)
UpsertScheduleAfresh(s) ==
  /\ Ready /\ Has(memory.tasks, s.task)
  /\ SaveSchedules(Put(memory.schedules, [s EXCEPT !.last = "never", !.detail = "none"]))

UpsertSchedule(s) ==
  /\ Ready /\ Has(memory.tasks, s.task)
  /\ LET ss == memory.schedules
         known == Has(ss, s.id)
         prev  == ss[Find(ss, s.id)]
     IN SaveSchedules(Put(ss, [s EXCEPT !.last   = IF known THEN prev.last ELSE "never",
                                        !.detail = IF known THEN prev.detail ELSE "none"]))

DeleteSchedule(id) ==
  /\ Ready /\ Has(memory.schedules, id)
  /\ SaveSchedules(Without(memory.schedules, id))

SetScheduleEnabled(id, on) ==
  /\ Ready /\ Has(memory.schedules, id)
  /\ LET n == Find(memory.schedules, id)
     IN /\ on => Has(memory.tasks, memory.schedules[n].task)
        /\ memory.schedules[n].enabled # on
        /\ SaveSchedules([memory.schedules EXCEPT ![n].enabled = on])

(* recordScheduleResult                                                     *)
RecordResult(id, r) ==
  /\ Ready /\ Has(memory.schedules, id)
  /\ LET n == Find(memory.schedules, id)
     IN SaveSchedules([memory.schedules EXCEPT ![n].last = r, ![n].detail = r])

(* Faulty variant: an ID may be there twice.                                *)
ValidLength(ids, base, s) ==
  /\ Len(ids) = Len(s)
  /\ \A n \in DOMAIN ids : Has(s, ids[n])
  /\ base = Ids(s)

(* validateReorder: ids is a permutation of the list, base the list as it is*)
ValidReorder(ids, base, s) ==
  /\ Len(ids) = Len(s) /\ Distinct(ids)
  /\ \A n \in DOMAIN ids : Has(s, ids[n])
  /\ base = Ids(s)

Ordered(s, ids) == [n \in DOMAIN ids |-> s[Find(s, ids[n])]]

ReorderTasks(ids, base) ==
  /\ Ready /\ ValidReorder(ids, base, memory.tasks)
  /\ Commit([store EXCEPT !.tasks = Resorted(@, ids)],
            [memory EXCEPT !.tasks = Ordered(@, ids)])

ReorderSchedules(ids, base) ==
  /\ Ready /\ ValidReorder(ids, base, memory.schedules)
  /\ Commit([store EXCEPT !.schedules = Resorted(@, ids)],
            [memory EXCEPT !.schedules = Ordered(@, ids)])

(* normalizeSettings with clampInt, for a level that there is.              *)
Normalized(x) ==
  [x EXCEPT !.size = IF @ < MinSize THEN MinSize ELSE IF @ > MaxSize THEN MaxSize ELSE @]

UpdateSettings(x) ==
  /\ Ready /\ x.level \in Levels
  /\ Commit([store EXCEPT !.settings = Normalized(x)],
            [memory EXCEPT !.settings = Normalized(x)])

EditTasks ==
  \/ \E t \in TaskInputs : UpsertTask(t) \/ SetRestartOnCrash(t.id, t.restart)
  \/ \E id \in TaskIds : DeleteTask(id)
  \/ \E ts \in Imports : ReplaceTasks(ts)
  \/ \E ids, base \in Orders : ReorderTasks(ids, base)

EditSchedules ==
  \/ \E s \in ScheduleInputs : UpsertSchedule(s)
  \/ \E id \in ScheduleIds : DeleteSchedule(id)
  \/ \E id \in ScheduleIds, on \in BOOLEAN : SetScheduleEnabled(id, on)
  \/ \E id \in ScheduleIds, r \in Results : RecordResult(id, r)
  \/ \E ids, base \in Orders : ReorderSchedules(ids, base)

Next ==
  \/ StartUp \/ StartScheduler \/ Crash
  \/ EditTasks \/ EditSchedules
  \/ \E x \in SettingsInputs : UpdateSettings(x)
  \/ Apply

Spec == Init /\ [][Next]_vars

------------------------------------------------------------------------------
(* Properties.                                                              *)

(* Whenever no handler is between its commit and its end, what the API shows*)
(* and the manager and cron work with is what a restart would load: the same*)
(* tasks and schedules in the same order, and the same settings unless their*)
(* read failed (reorder.go:17 and 19, schedule_runtime.go:71).              *)
MemoryIsDisk ==
  Ready =>
    /\ Load(store.tasks) = memory.tasks
    /\ Load(store.schedules) = memory.schedules
    /\ store.settings = memory.settings \/ ignored

EnabledOrphan(x, ids) == x.enabled /\ x.task \notin ids

(* The IDs in a table.                                                      *)
Stored(T) == {T[i].item.id : i \in DOMAIN T}

OrphanStored ==
  \E i \in DOMAIN store.schedules :
    EnabledOrphan(store.schedules[i].item, Stored(store.tasks))

(* Once cron runs, no enabled schedule lacks its task, and nothing that     *)
(* happens leaves such a schedule in the database, not even a crash in the  *)
(* middle of an import (task_store.go:140, schedule_store.go:12).           *)
NoOrphans ==
  /\ [](phase = "started" /\ pending = NoChange =>
          \A n \in DOMAIN memory.schedules :
            ~EnabledOrphan(memory.schedules[n], {memory.tasks[m].id : m \in DOMAIN memory.tasks}))
  /\ [][OrphanStored' => OrphanStored]_vars

(* A restart, however often it is cut short, gives back every task and every*)
(* schedule in the user's order (task_store.go:254), unless a marker could  *)
(* not be written or read: only a table of tasks that is empty is filled    *)
(* from the old file.                                                       *)
BootKeeps ==
  [][(phase \in Booting) =>
       /\ View(store').schedules = View(store).schedules \/ ignored'
       /\ View(store').tasks = View(store).tasks \/ store.tasks = <<>> \/ ignored'
       /\ store'.settings = store.settings \/ store.settings = NoSettings]_vars

(* Nothing but a delete or an import takes a task out of the list, nothing  *)
(* but a delete a schedule: no drag (reorder.go:11), edit, crash or restart *)
(* does.                                                                    *)
OnlyDeletesRemove ==
  [][/\ \A id \in Stored(store.tasks) \ Stored(store'.tasks) :
          DeleteTask(id) \/ \E ts \in Imports : ReplaceTasks(ts)
     /\ \A id \in Stored(store.schedules) \ Stored(store'.schedules) :
          DeleteSchedule(id)]_vars

(* The run history of a schedule that stays is changed by its runs: no edit,*)
(* drag, crash or restart touches it (schedule_runtime.go:54).  There is one*)
(* exception, where the step disables the schedule because its task is gone:*)
(* then its detail is overwritten with the reason, and nothing else of it   *)
(* (schedule_runtime.go:172 and 194).                                       *)
HistoryKept ==
  [][\A m \in DOMAIN store.schedules, n \in DOMAIN store'.schedules :
       LET old == store.schedules[m].item
           new == store'.schedules[n].item
       IN old.id = new.id =>
            \/ new.last = old.last /\ new.detail = old.detail
            \/ \E r \in Results : RecordResult(old.id, r)
            \/ /\ EnabledOrphan(old, Stored(store'.tasks))
               /\ new = [old EXCEPT !.enabled = FALSE, !.detail = "no task"]]_vars
==============================================================================
