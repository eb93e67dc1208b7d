\* One portable session in which the title writes one of its two save files twice.
SPECIFICATION PortableSpec
CONSTANTS
  PLaunchers = {k1}
  SnapshotsKept = 2
  RecordsKept = 2
  MaxLaunches = 1
  MaxSaveWrites = 2
INVARIANT FinalSaveIsRetained
CHECK_DEADLOCK FALSE
