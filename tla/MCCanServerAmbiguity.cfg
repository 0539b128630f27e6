\* A command of each kind.
CONSTANTS
  Clients = {c1, c2}
  Nobody = Nobody
  Dispatcher = c1
  Speeds = {stop}
  Toggles = {reverse}
  Turnouts = {turnout}
  QueueSize = 3
  StatusSlots = 2
  BatchMax = 2
  TxLimit = 2
  AnswerLimit = 2
  MaxFrames = 3
SPECIFICATION Spec
PROPERTY
  AmbiguityFailsClosed
