SPECIFICATION Spec
CONSTANTS
  Slots <- MCSlots
  Tokens <- MCTokens
  Room = 2
  Attempts = 2
  MaxLost = 1
  Orders = {"cancel","remove","reroute","trip"}
INVARIANT RewoundTrainsStandStill
CHECK_DEADLOCK FALSE
