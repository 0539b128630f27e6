\* The bounds of module ZoneTraffic are in the module, except for three.  A
\* behaviour may stop: trains may wait for each other.
SPECIFICATION MCSpec
VIEW MCView
CONSTANTS
  Parts = {"jobs", "zones"}
  Slots <- MCSlots
  Tokens <- MCTokens
  Room = 2
  Attempts = 2
  MaxLost = 1
  Orders = {"cancel","remove","reroute","trip"}
  NumTrains = 2
  Zones = {1, 2, 3}
  Scenes <- MCScenes
  Position <- MCPosition
  MaxLag = 2
INVARIANTS RestingTrainsStand MovingMeansWatched OnlyCirclesWait
PROPERTY TurnoutsKept
CHECK_DEADLOCK FALSE
