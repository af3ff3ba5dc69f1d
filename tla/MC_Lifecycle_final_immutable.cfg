\* A cancellation that races the final event of a request.
CONSTANTS
  k1 = k1
  k2 = k2
  u1 = u1
  boot = boot
  Kickers = {k1}
  Users = {u1}
  Boot = boot
  KickRetries = 0
  PullRetries = 0
  EventRetries = 1
  Outcomes = {"COMPLETED"}
  MaxRequests = 1
  MaxRestarts = 0
SPECIFICATION Spec
PROPERTY
  FinalStateImmutable
CHECK_DEADLOCK FALSE
