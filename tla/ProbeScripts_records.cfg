\* The rendering probe, stopped at any point.
SPECIFICATION ProbeSpec
CONSTANTS
  Selections = {{"rendering"}}
  MaxOrders = 2
INVARIANT StatedRecordsWereSeen
CHECK_DEADLOCK FALSE
