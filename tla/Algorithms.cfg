\* A scan ends, and the calendar ends at its horizon.
CONSTANTS
  Years <- MCYears
  Zones <- MCZones
  Schedules <- MCSchedules
  Starts <- MCStarts
  Horizon <- MCHorizon
  Width = 4
  MaxHosts = 6
  MaxUnits = 2
  w1 = w1
  w2 = w2
  w3 = w3
  Threads = {w1, w2, w3}
  Bases = {0, 5, 6, 15}
  usb0 = usb0
  usb1 = usb1
  Ports = {usb0, usb1}
  idA = idA
  idB = idB
  idC = idC
  gone = gone
  Links <- MCLinks
  NoItem = noItem
SYMMETRY Workers
SPECIFICATION AlgorithmSpec
INVARIANTS NextRunRight MonthBoundsExact ScanComplete
CHECK_DEADLOCK FALSE
