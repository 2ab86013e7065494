\* Two tasks, two schedules and the settings; the schedules are orphans at first.
SPECIFICATION Spec
CONSTANTS
  a = a  b = b  s = s  q = q
  TaskIds <- TwoTasks
  ScheduleIds <- TwoSchedules
  Results = {"success"}
  Levels = {"info"}  MinSize = 1  MaxSize = 2
  DefaultSettings <- Default
  TaskInputs <- SomeTasks
  ScheduleInputs <- SomeSchedules
  SettingsInputs <- SomeInputs
  OldTasks <- Nothing
  OldSchedules <- OldOrphan
  LegacyLists <- LegacySome
  Imports <- ImportsSome
  Orders <- SomeOrders
  NoSettings = NoSettings  NoChange = NoChange
INVARIANTS TypeOK MemoryIsDisk
PROPERTIES NoOrphans BootKeeps OnlyDeletesRemove HistoryKept
