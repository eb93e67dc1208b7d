\* One save file, one transaction that begins at any moment.
SPECIFICATION SaveCopySpec
CONSTANTS
  Absent = Absent
  SaveFiles = {save}
  Indicators = {TRUE, FALSE}
  MaxSaveBytes = 4
  MaxSaveFileBytes = 2
  WaitLimit = 1
  Attempts = 3
  MaxSaves = 1
INVARIANT NeverRacesTransaction
CHECK_DEADLOCK FALSE
