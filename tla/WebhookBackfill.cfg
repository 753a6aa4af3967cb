SPECIFICATION Spec
CONSTANTS
  Sched = sched
  Requests = {q1}
  Writers = {w1}
  MaxTime = 2
  Cap = 1
  Batch = 1
INVARIANTS BacklogDelivered
