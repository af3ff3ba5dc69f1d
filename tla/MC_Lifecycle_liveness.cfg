\* The fair behaviours of one kicker and a user, without a restart.
CONSTANTS
  k1 = k1
  k2 = k2
  u1 = u1
  boot = boot
  Kickers = {k1}
  Users = {u1}
  Boot = boot
  KickRetries = 0
  PullRetries = 0
  EventRetries = 1
  Outcomes = {"COMPLETED"}
  MaxRequests = 1
  MaxRestarts = 0
SPECIFICATION FairSpec
PROPERTIES
  RunEventuallyFinal
  FinalEventIsHandled
CHECK_DEADLOCK FALSE
