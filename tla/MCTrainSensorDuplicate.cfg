\* Two deliveries of one report.
CONSTANTS
  Sensors = {s1}
  Trains = {t1}
  Capacity = 2
  BatchSize = 1
  SequenceSpace = 10
  LongestLoss = 4
SPECIFICATION MCSpec
PROPERTY
  DuplicatesMakeNoEvent
