\* Validation, intelligence, correlation, reports and lab grants.
CONSTANTS
  Parts = {"validation", "advice", "correlation", "reporting", "lab"}
  Threads = {t1, t2}  Nobody = Nobody  Disabled = Disabled  MaxCrashes = 1  MaxLosses = 1
  d1 = d1  d2 = d2  f1 = f1  f2 = f2  f3 = f3  w1 = w1  h1 = h1  e1 = e1  e2 = e2
\* Two detectors, two detection requests and an operator.
  Issues = {i1}  Detectors = {d1, d2}  DetectorOf <- MCDetectorOf  Operators = {o1}
  RowLocks = TRUE  MaxObservations = 2  SnapshotLimit = 2
\* The unlocked count lets two requests pass a limit of one.
  ValidationLimit = 1  MaxScope = 1
\* Two providers: the one reviewed is not always the one configured.
  Providers = {p1, p2}  Reviewed = {f1, f2}  MaxRetained = 2  MaxChanges = 1
\* Findings on a web asset and one on the host at its address.
  Webs = {w1}  Hosts = {h1}  AddressOf <- MCAddressOf  Linked = {f1, f2, f3}
  SubjectOf <- MCSubjectOf  Mapped = {f1}  MaxEdges = 5  MaxGraphs = 2
\* Two discoveries, each with its evidence and a finding that cites it.
  Discoveries = {e1, e2}  MaxReports = 2  MaxEvidence = 2  MaxPowerLosses = 1  MaxAckLosses = 1
\* One capability, three places, grants that expire within the clock.
  Capabilities = {"lab"}  Checks = {f1}  Durations = {1}  MaxGrants = 3  CandidateLimit = 2
  LabTime = 2
SPECIFICATION Spec
CONSTRAINT Focus
SYMMETRY Symmetry
INVARIANTS ValidationHonest IntelligenceHolds GraphsHold ReportsHold LabHolds
PROPERTIES ApprovedOnce
CHECK_DEADLOCK FALSE
