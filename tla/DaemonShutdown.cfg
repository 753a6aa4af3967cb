\* The README on SIGTERM, against HttpServer::stop.
CONSTANTS
  s1 = s1
  w1 = w1
  x1 = x1
  k1 = k1
  k2 = k2
  Sensors = {s1}
  Stations = {}
  Targets = {}
  SensorOf <- MCSensorOf
  Configs = {c1}
  Off = Off
  Handlers = {k1}
  NoDevice = NoDevice
  MaxEdits = 1
  MaxOutside = 1
SPECIFICATION Spec
PROPERTIES TermAlwaysEndsDaemon
CHECK_DEADLOCK FALSE
