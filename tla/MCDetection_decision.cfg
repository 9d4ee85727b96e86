\* One detection request while an operator decides about a finding.
CONSTANTS
  Parts = {"detection"}
  StatusCodes <- Statuses  Policies <- PoliciesAroundCut  MaxHeaderLength = 2
  Unreachable = Unreachable  Nobody = Nobody
  i1 = i1  i2 = i2  d1 = d1  d2 = d2
  Issues = {i1, i2}  Detectors = {d1, d2}  DetectorOf <- DetectorOfIssue
  Runs = {t1}  Operators = {o1}  RowLocks = TRUE
  MaxObservations = 2  SnapshotLimit = 2  MaxCrashes = 0  MaxLosses = 0
SPECIFICATION DetectionSpec
PROPERTIES OperatorDecisionKept
CHECK_DEADLOCK FALSE
