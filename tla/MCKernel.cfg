CONSTANTS
  NumTasks = 3
  NumPriorities = 2
  FirstPriority = 1
  MaxTid = 4
  TimerPeriod = 2
  IoEvents = 1
SPECIFICATION Spec
VIEW View
INVARIANTS
  QueueDiscipline
  CallersHaveReceiver
  HighestPriorityRuns
  CallsComplete
  HaltsOnlyWhenStuck
PROPERTIES
  NobodyOversleeps
