\* Every workflow with a crash and an exception that no handler records.
CONSTANTS
  Parts = {"detection", "validation", "advice", "correlation", "reporting"}
  Threads = {t1, t2}  Nobody = Nobody  Disabled = Disabled  MaxCrashes = 1  MaxLosses = 1
  d1 = d1  d2 = d2  f1 = f1  f2 = f2  f3 = f3  w1 = w1  h1 = h1  e1 = e1  e2 = e2
\* A detector, two detection requests and an operator.
  Issues = {i1}  Detectors = {d1}  DetectorOf <- MCDetectorOf  Operators = {o1}
  RowLocks = TRUE  MaxObservations = 2  SnapshotLimit = 1
\* The unlocked count lets two requests pass a limit of one.
  ValidationLimit = 1  MaxScope = 1
\* Two providers: the one reviewed is not always the one configured.
  Providers = {p1, p2}  Reviewed = {f1, f2}  MaxRetained = 1  MaxChanges = 1
\* A host and its finding, whose edge is over the limit.
  Webs = {}  Hosts = {h1}  AddressOf <- MCAddressOf  Linked = {f3}
  SubjectOf <- MCSubjectOf  Mapped = {f3}  MaxEdges = 0  MaxGraphs = 2
\* Two discoveries, each with its evidence and a finding that cites it.
  Discoveries = {e1, e2}  MaxReports = 1  MaxEvidence = 2  MaxPowerLosses = 0  MaxAckLosses = 0
\* One capability, three places, grants that expire within the clock.
  Capabilities = {"lab"}  Checks = {f1}  Durations = {1}  MaxGrants = 3  CandidateLimit = 2
  LabTime = 2
SPECIFICATION LiveSpec
PROPERTIES AdmittedRunsEnd
CHECK_DEADLOCK FALSE
