\* Safety: one device of each table, two concurrent requests, two edits.
CONSTANTS
  s1 = s1
  w1 = w1
  x1 = x1
  k1 = k1
  k2 = k2
  Sensors = {s1}
  Stations = {w1}
  Targets = {x1}
  SensorOf <- MCSensorOf
  Configs = {c1}
  Off = Off
  Handlers = {k1, k2}
  NoDevice = NoDevice
  MaxEdits = 2
  MaxOutside = 1
SPECIFICATION Spec
INVARIANTS NoOrphanWorker NoOrphanHandler NoEditLost
SYMMETRY HandlerSymmetry
\* The daemon may be told to stop.
CHECK_DEADLOCK FALSE
