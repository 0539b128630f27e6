CONSTANTS
  NumTrains = 2
  Zones = {1, 2, 3}
  Scenes <- MCScenes
  Position <- MCPosition
  MaxLag = 1
SPECIFICATION TrafficSpec
PROPERTY NoneMovesUnderATrain
