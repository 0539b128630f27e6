SPECIFICATION MCLiveSpec
CONSTANTS
  Parts = {"jobs"}
  Slots <- MCSlots
  Tokens <- MCTokens
  Room = 2
  Attempts = 1
  MaxLost = 1
  Orders = {"trip"}
  NumTrains = 0
  Zones = {}
  Scenes <- NoTraffic
  Position <- None
  MaxLag = 0
PROPERTIES StopsAreRepeated WavesFailTogether
CHECK_DEADLOCK FALSE
