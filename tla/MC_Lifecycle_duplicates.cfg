\* Two kickers and a task that may be delivered twice; two TFC requests.
CONSTANTS
  k1 = k1
  k2 = k2
  u1 = u1
  boot = boot
  Kickers = {k1, k2}
  Users = {}
  Boot = boot
  KickRetries = 1
  PullRetries = 1
  EventRetries = 0
  Outcomes = {"COMPLETED"}
  MaxRequests = 2
  MaxRestarts = 0
SPECIFICATION Spec
SYMMETRY KickerSymmetry
INVARIANTS
  RequestsUseCachedResources
  PendingRunIsAttended
PROPERTIES
  NeverRevived
  RequestIdStable
CHECK_DEADLOCK FALSE
