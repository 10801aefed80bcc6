CONSTANTS
  Npm = {"a", "b", "in", "priv"}
  Pypi = {"p", "q"}
  Sites = {"m", "n"}
  Versions = {"1", "2"}
  Scans <- MCScans
  MaxCall = 2
  MaxBulk = 3
SPECIFICATION Spec
INVARIANTS
  NothingForgotten
  PassMeansAnswered
  ReportIsHonest
  NamesStayHome
  OverrunBounded
PROPERTIES
  Termination
  KeepsPromise
