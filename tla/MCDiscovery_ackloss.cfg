\* One run whose database may lose the reply to a commit.
CONSTANTS
  r1 = r1  r2 = r2  r3 = r3  d1 = d1
  a1 = a1  a2 = a2  a3 = a3  m1 = m1  b1 = b1  h1 = h1
  HardAddrs <- Metadata  HardHosts <- MetadataHosts  BadAddrs <- Mapped
  Runs = {r1}  Yards = {d1}
  Requests <- PlainRequests  Entries <- PlainEntries  Answers <- NoAnswers
  MaxConcurrent = 1  MaxRuns = 3  MaxEntries = 1  MaxCrashes = 0
  AckLoss = TRUE  Nobody = Nobody
SPECIFICATION Spec
PROPERTY CompletedRunStays
