\* Triggers: two gamepads compete for the combo, or two wheels have both snapshot
\* buttons and bouncing contacts; the pad table has room for one pad or for two.
\* Witness: two threads, one with a helper of the title, tables of two.  Timers:
\* two callers, two rows.  Image: three places, two moves.  Audit: three races
\* for two rows, checkpoint lists of two lengths, six calls.
SPECIFICATION AllSpec
CONSTANTS
  Pads = {p1, p2}
  Wheels = {w1, w2}
  LineUps = {{p1, p2}, {w1, w2}}
  TableSizes = {1, 2}
  HoldMs = 1
  MaxQueue = 2
  Unset = Unset
  WThreads = {t1, t2}
  WHelpers = {t1}
  Cookies = {c1}
  NoCookie = NoCookie
  OpRows = 2
  EpochRows = 2
  WindowEnd = 3
  MaxNative = 2
  MaxWaits = 3
  LedgerRows = 2
  Stocks = {s1, s2}
  TimerCallers = {u1, u2}
  TimerRows = 2
  TimerEnd = 2
  MaxCalls = 2
  Places = {1, 2, 3}
  SizeOf <- Pixels
  HomePlace = 1
  PixelRows = 2
  MaxMoves = 2
  Races = {r1, r2, r3}
  NoRace = NoRace
  AuditRows = 2
  DetailCapacity = 2
  ListCounts = {1, 2}
  MaxAuditCalls = 6
SYMMETRY Symmetry
INVARIANTS
  WitnessIsFaithful
  AttributionIsTrue
  FreezeIsComplete
  ImageOrNothing
  CaughtUpMeansHeld
PROPERTIES
  OnePackageEach
CHECK_DEADLOCK FALSE
