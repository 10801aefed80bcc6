SPECIFICATION MCSpec
CONSTANTS
  Procs = {p1, p2}
  Names = {"a"}
  Versions = {"1", "2"}
  Work <- MCWork
  TTL = 1
  MaxTime = 2
  FileStates = {"absent", "unusable"}
  Custom = {".githooks"}
  MaxEvents = 2
SYMMETRY AnyOrder
INVARIANTS
  AnswersAreCurrent
  InstalledGateRuns
PROPERTY ForeignIsKept
