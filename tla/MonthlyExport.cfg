\* Months of two seconds, in one of two timezones, to either destination, by
\* the scheduler's worker and one run-now request.
SPECIFICATION Spec
CONSTANTS
  Dests = {"outbox", "drive"}
  Runners = {worker, request}
  RunNow = {request}
  MaxTime = 2
  MonthLen = 2
  MaxZone = 1
  MaxFiles = 2
INVARIANTS TypeOK  OneFilePerMonth
  
