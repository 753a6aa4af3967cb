SPECIFICATION Spec
CONSTANTS
  Sched = sched
  Requests = {q1}
  Writers = {w1, w2}
  MaxTime = 2
  Cap = 2
  Batch = 1
INVARIANTS NoGap ResentOnlyWithCause
PROPERTIES ImplementsAtLeastOnce EventuallyDelivered
