CONSTANTS
  w1 = w1
  w2 = w2
  Workers = {w1, w2}
  N = 2
  MaxTasks = 2
SPECIFICATION Spec
INVARIANT
  RerunAlreadyScheduled
CHECK_DEADLOCK FALSE
