\* Three trains at every stage over two zones, tickets wrap, no time; and two
\* trains at one zone (sizes in the module).
CONSTANTS
  Zones = {z1, z2}
  Trains = {t1, t2, t3}
  NoTrain = NoTrain
  AnyZone = z1
  Stages <- TwoStages
  Settings = {s1}
  NoClaim = NoClaim
  MaxTrains = 3
  TicketSpace = 8
  GenerationSpace = 8
  Generations = {1}
  Delay = 0
  MaxLag = 0
  RestZones = {y1}
  RestTrains = {u1, u2}
  RestStages <- WholeTable
  RestPlaces = 2
  Succession <- Wrapping
  RestDelay = 2
  LateBy = 1
SPECIFICATION MCSpec
SYMMETRY MCSymmetry
INVARIANT StagesSound
PROPERTIES
  ImplementsQueues
  RoutesForgotten
  DelayKept
