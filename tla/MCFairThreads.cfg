\* Manager: two requesting threads, a frame helper that may never end, and
\* shutdown.  Copy: two save files, a transaction of the title, with and
\* without the SDK's transaction counter.  Hold: one gamepad.  Profile: two
\* launchers that fail, die and restart compete for one profile, with identities
\* for two sessions and two renames; every lock is given back.
SPECIFICATION FairPartsSpec
CONSTANTS
  Requesters = {ui, guest}
  UiThread = ui
  Sizes = {1}
  KeepCount = 2
  KeepBytes = 3
  Optional = {"frame.bmp"}
  MaxCaptures = 1
  MaxStarts = 1
  SaveFiles = {save, header}
  Absent = Absent
  Indicators = {TRUE, FALSE}
  MaxSaveBytes = 3
  MaxSaveFileBytes = 2
  WaitLimit = 2
  Attempts = 3
  MaxSaves = 1
  Pads = {p1}
  Wheels = {}
  LineUps = {{p1}}
  TableSizes = {1}
  HoldMs = 2
  MaxQueue = 2
  None = None
  Unset = Unset
  Launchers = {l1, l2}
  Profiles = {p1}
  Ids = {i1, i2}
  MaxEntries = 3
  MaxVersion = 2
INVARIANTS
  ListedIsTrue
  LiveTreeExclusive
  OneTitlePerProfile
  SettledSaveIsArchived
PROPERTIES
  RequestsAndStopEnd
  SaveStepWaitsAndEnds
  ShortTapNeverFires
  TriggersComeToRest
  ReceiptsHold
  LockIsGivenBack
CHECK_DEADLOCK FALSE
