\* The README's promise that readings of an active sensor are stored.
CONSTANTS
  PollIntervalS = 20
  FirstBackoff = 2
  MaxBackoff = 60
  FailBound = 0
SPECIFICATION Spec
PROPERTIES ReadingsKeepComing
CHECK_DEADLOCK FALSE
