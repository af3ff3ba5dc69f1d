\* Three calls at a time, two versions of two chunks, three calls in all.
CONSTANTS
  c1 = c1
  c2 = c2
  c3 = c3
  Callers = {c1, c2, c3}
  Chunks = 2
  MaxVersions = 2
  MaxCalls = 3
  Timely = TRUE
SPECIFICATION FairSpec
INVARIANTS
  TypeOK
  OneWriter
PROPERTIES
  ReturnedFileIsWhole
  CallsEnd
