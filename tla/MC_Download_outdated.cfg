\* Two calls and two versions.
CONSTANTS
  c1 = c1
  c2 = c2
  c3 = c3
  Callers = {c1, c2}
  Chunks = 2
  MaxVersions = 2
  MaxCalls = 3
  Timely = TRUE
SPECIFICATION Spec
PROPERTY
  OutdatedFileIsDownloaded
