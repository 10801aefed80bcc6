CONSTANTS
  Npm = {"a", "b", "in", "priv"}
  Pypi = {"p", "q"}
  Sites = {"m", "n"}
  Versions = {"1", "2"}
  Scans <- InternalScans
  MaxCall = 2
  MaxBulk = 3
SPECIFICATION Spec
INVARIANT InternalNamesNeverSent
