SPECIFICATION LiveSpec
CONSTANTS
  Trains = {t1, t2}
  StallEvents = 2
  MaxRefusals = 1
PROPERTY StallsAreAnswered
CHECK_DEADLOCK FALSE
