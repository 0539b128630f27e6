\* The bounds are in the module, except for the track's.  Nothing is left to do
\* once they are reached.
CONSTANTS
  Nodes = {1, 2, 3}
  Trains = {11, 12}
  Reverse <- MCReverse
  NoNode = NoNode
  NoTrain = NoTrain
  MaxGeneration = 2
  Cells = {c1}
  Glyphs = {g1, g2}
  WatchedTrains = {t1, t2}
SPECIFICATION MCSpec
INVARIANTS
  DirectionsTogether
  PlanHasFootprint
PROPERTIES
  PlanChangeVisible
  ImplementsLocks
  ScreenSettles
  PlanShows
  TripsEnd
  StallsAreNoticed
CHECK_DEADLOCK FALSE
