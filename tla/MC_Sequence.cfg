CONSTANTS
  w1 = w1
  w2 = w2
  Workers = {w1, w2}
  N = 3
  MaxTasks = 2
SPECIFICATION Spec
SYMMETRY WorkerSymmetry
INVARIANTS
  TypeOK
  ConfigsInOrder
  OneRunAtATime
PROPERTIES
  StoppedForGood
  Promise
CHECK_DEADLOCK FALSE
