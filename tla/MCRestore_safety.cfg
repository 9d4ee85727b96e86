\* Restores, recoveries and backups with three faults anywhere, over sound and
\* unsound data.
CONSTANTS
  v1 = v1  v2 = v2
  Versions = {v1, v2}  Unsound <- OldVersion  Absent = Absent  Torn = Torn  MaxFaults = 3
  Bare <- BareVersion  Later <- BothWays  Foreign = Foreign  MaxBackups = 2  MaxBackupFaults = 1
SPECIFICATION DirSpec
INVARIANTS TypeOK AppSeesOnePair PriorRecoverable CommittedIsRestored BackupsWhole
PROPERTIES EndsWhole SoundRecoveryFinishes
