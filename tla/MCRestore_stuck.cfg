\* Recovery when the previous data is refused by its own validation.
CONSTANTS
  v1 = v1  v2 = v2
  Versions = {v1, v2}  Unsound <- OldVersion  Absent = Absent  Torn = Torn  MaxFaults = 1
  Bare <- BareVersion  Later <- BothWays  Foreign = Foreign  MaxBackups = 0  MaxBackupFaults = 0
SPECIFICATION DirSpec
PROPERTY RecoveryFinishes
