\* The worker and one more client at one unit that may answer late.
CONSTANTS
  worker = worker
  other = other
  Links = {"serial", "tcp"}
  Clients = {worker, other}
  ScriptsOf <- MCScriptsOf
  Keys = {"set5", "set7"}
  Late = TRUE
  MaxSessions = 2
  MaxNoise = 1
SPECIFICATION Spec
INVARIANTS TypeOK OwnAnswer AuditTrail
PROPERTIES PortComesFree
\* The sessions are bounded.
CHECK_DEADLOCK FALSE
