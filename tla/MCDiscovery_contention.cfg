\* Three runs of one Dockyard compete for one slot and two history places, with one
\* crash; or one run meets a scope that changes between any two of its steps.
CONSTANTS
  r1 = r1  r2 = r2  r3 = r3  d1 = d1
  a1 = a1  a2 = a2  a3 = a3  m1 = m1  b1 = b1  h1 = h1
  HardAddrs <- Metadata  HardHosts <- MetadataHosts  BadAddrs <- Mapped
  Runs = {r1, r2, r3}  Yards = {d1}
  Requests <- MixedRequests  Entries <- MixedEntries  Answers <- ScopeAnswers
  MaxConcurrent = 1  MaxRuns = 2  MaxEntries = 4  MaxCrashes = 1
  AckLoss = FALSE  Nobody = Nobody
SPECIFICATION Spec
CONSTRAINT Focus
SYMMETRY Symmetric
INVARIANTS TypeOK ActiveCap HistoryCap ContactAudited CompletedHasEvidence ActiveRunOwned
PROPERTIES TerminalFinal PublishedInScope
