\* One kicker, a user, a restart, and events that are delivered again.
CONSTANTS
  k1 = k1
  k2 = k2
  u1 = u1
  boot = boot
  Kickers = {k1}
  Users = {u1}
  Boot = boot
  KickRetries = 0
  PullRetries = 1
  EventRetries = 1
  Outcomes = {"COMPLETED", "CANCELED", "ERROR"}
  MaxRequests = 1
  MaxRestarts = 1
SPECIFICATION Spec
INVARIANTS
  TypeOK
  LiveRunHasRequest
  HandlersOnlyWhenFinal
  HandlersOncePerMark
  PendingRunIsAttended
PROPERTIES
  NeverRevived
  EventsMoveForward
CHECK_DEADLOCK FALSE
