CONSTANTS
  NumTasks = 3
  NumPriorities = 1
  FirstPriority = 0
  MaxTid = 3
  TimerPeriod = 1
  IoEvents = 0
  Clients = {c1, c2}
  Nobody = Nobody
SPECIFICATION MCSpec
INVARIANTS
  PlansAreSound
  SimulationIsTrue
PROPERTIES
  ImplementsRendezvous
  CallersReleased
  RoundRobin
  WorkArrives
  TrainsKeepApart
CHECK_DEADLOCK FALSE
