\* Two requesting threads: what the status shows while a capture runs.
SPECIFICATION ManagerSpec
CONSTANTS
  Requesters = {ui, guest}
  UiThread = ui
  Sizes = {1}
  KeepCount = 2
  KeepBytes = 3
  Optional = {}
  MaxCaptures = 1
  MaxStarts = 1
INVARIANTS StatusShowsActivity
CHECK_DEADLOCK FALSE
