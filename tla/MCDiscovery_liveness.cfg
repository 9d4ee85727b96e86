\* Two runs on a pool of two threads, one crash, under fairness.
CONSTANTS
  r1 = r1  r2 = r2  r3 = r3  d1 = d1
  a1 = a1  a2 = a2  a3 = a3  m1 = m1  b1 = b1  h1 = h1
  HardAddrs <- Metadata  HardHosts <- MetadataHosts  BadAddrs <- Mapped
  Runs = {r1, r2}  Yards = {d1}
  Requests <- PlainRequests  Entries <- PlainEntries  Answers <- NoAnswers
  MaxConcurrent = 2  MaxRuns = 3  MaxEntries = 1  MaxCrashes = 1
  AckLoss = FALSE  Nobody = Nobody
SPECIFICATION FairSpec
PROPERTIES RunSettles RestartRecovers CloseDrains
