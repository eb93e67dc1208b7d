\* One portable session in which the save changes more often than snapshots are kept.
SPECIFICATION PortableSpec
CONSTANTS
  PLaunchers = {k1}
  SnapshotsKept = 2
  RecordsKept = 2
  MaxLaunches = 1
  MaxSaveWrites = 2
INVARIANT CountIsWhatIsKept
CHECK_DEADLOCK FALSE
