\* Packages: one requester, packages over the budget, a restart, a still frame that
\* may come from an earlier capture.  Bundle: two launchers, three launches and
\* one write of the title or two and two, tables of two.  Profiles: duplicates
\* and restores between two profiles, each with one session and one rename,
\* which fills the history.
SPECIFICATION FoldersSpec
CONSTANTS
  Requesters = {ui}
  UiThread = ui
  Sizes = {3}
  KeepCount = 1
  KeepBytes = 2
  Optional = {"frame.bmp"}
  MaxCaptures = 2
  MaxStarts = 2
  PLaunchers = {k1, k2}
  SnapshotsKept = 2
  RecordsKept = 2
  MaxLaunches = 3
  MaxSaveWrites = 2
  MaxBundleEvents = 4
  Launchers = {l1}
  Profiles = {p1, p2}
  Ids = {i1, i2}
  MaxEntries = 1
  MaxVersion = 2
  None = None
SYMMETRY Symmetry
INVARIANTS
  PackagesAreTrue
  BundleHasOneWriter
  
  HistoryBounded
  BranchStartsFromArchivedSave
PROPERTIES
  NewestIsKept
  HistoryIsKept
CHECK_DEADLOCK FALSE
