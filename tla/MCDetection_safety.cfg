\* Detection and the HTTP checks; a finding can open, resolve and reopen.
CONSTANTS
  Parts = {"detection", "http"}
  StatusCodes <- Statuses  Policies <- PoliciesAroundCut  MaxHeaderLength = 2
  Unreachable = Unreachable  Nobody = Nobody
  i1 = i1  i2 = i2  d1 = d1  d2 = d2
  Issues = {i1, i2}  Detectors = {d1, d2}  DetectorOf <- DetectorOfIssue
  Runs = {t1, t2}  Operators = {o1}  RowLocks = FALSE
  MaxObservations = 3  SnapshotLimit = 3  MaxCrashes = 0  MaxLosses = 1
SPECIFICATION DetectionSpec
CONSTRAINT Focus
SYMMETRY Symmetric
INVARIANTS FindingsHold
PROPERTIES ResolvedOnlyWhenCleared JudgedOnEvidence
CHECK_DEADLOCK FALSE
