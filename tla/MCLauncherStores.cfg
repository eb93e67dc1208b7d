\* Store: two launchers on one folder, three profiles of which two fit the
\* library, two settings, one edit behind the launchers' back.  Lease: two
\* checks, three moments, two lists, a clock that may fall behind.  Window:
\* two set-ups, timings and profiles, three edits.  Export: three plans; six
\* lines of the performance log.
SPECIFICATION Spec
CONSTANTS
  Launchers = {l1, l2}
  Entries = {e1, e2, e3}
  Labels = {a}
  Choices = {low, high}
  FirstChoice = low
  MaximumProfiles = 2
  MaxEdits = 1
  None = None
  Damaged = Damaged
  Checks = {k1, k2}
  Nothing = Nothing
  Created = 1
  GraceSeconds = 1
  OfflineSeconds = 1
  CheckSeconds = 2
  Skew = 0
  MaxTime = 3
  MaxLists = 2
  MaxBehind = 1
  FormSetups = {s1, s2}
  Timings = {stock, unlocked}
  FormProfiles = {f1, f2}
  MaxFormEdits = 3
  x1 = x1
  x2 = x2
  x3 = x3
  ExportInputs = {x1, x2, x3}
  FactsOf <- Facts
  MaxPlans = 3
  MaxLogLines = 6
SYMMETRY Symmetry
INVARIANTS
  OpenShowsDurable
  SavedStoreStaysOpenable
  ContextLivesAsLongAsUsed
  WindowShowsItsCheck
  ExportIsWhatWasShown
PROPERTIES
  NoLostUpdate
  ReplacedIsBackedUp
  AdmissionIsCovered
  RecordNeverWeakens
CHECK_DEADLOCK FALSE
