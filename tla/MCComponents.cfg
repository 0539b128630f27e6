\* Two tasks call the terminal, the name server and the CAN server.
CONSTANTS
  Clients = {c1, c2, c3}
  Notifier = Notifier
  Nobody = Nobody
  MaxWaiters = 2
  Period = 1
  Amounts <- MCAmounts
  MaxTick = 3
  Tasks = {c1, c2}
  NoName = NoName
  RxSize = 2
  TxSize = 2
  GetcSize = 1
  Chunk = 2
  FifoSize = 1
  MaxBytes = 4
  Names = {"a", "b", "c"}
  MaxRegistrations = 2
  DispatcherTask = c1
  Speeds = {"stop"}
  Toggles = {"reverse"}
  Turnouts = {}
  QueueSize = 3
  StatusSlots = 2
  BatchMax = 2
  TxLimit = 1
  AnswerLimit = 1
  MaxFrames = 3
  TrackSensors = {1}
  Trains = {1, 2}
  Capacity = 2
  BatchSize = 1
  SequenceSpace = 10
  LongestLoss = 4
  Cells = {p1, p2}
  Glyphs = {g1, g2}
  Words = {"", "w"}
  MaxChanges = 1
  MaxCommands = 1
  MaxFailures = 1
  RoutePlans <- MCRoutes
  RouteSensors = {"A", "B"}
  PageCapacity = 2
  MaxGeneration = 3
  MaxEvents = 0
  LastSensor = 3
  MaxTrips = 2
  MaxLost = 0
  MaxNoise = 1
SPECIFICATION MCSpec
INVARIANTS
  NobodyForgotten
  NobodyOverslept
  ClientsServed
  JournalExact
  QueueLeadsToPicture
PROPERTIES
  DelaysLastLongEnough
  BatchesInOrder
  MarkerIsRight
  ReportsUsedOnce
CHECK_DEADLOCK FALSE
