\* Crash helper: two threads that may crash, two live minidumps.  Probes: every
\* script, two orders of the operator.  Life cycle: every kind of session, one
\* snapshot key press.  Switches and inputs: two edits by the user, five ticks.
\* Budget: small, middle and large ones, five seconds, two marks.  Reference
\* counts: two guest threads, three references.
SPECIFICATION HostSpec
CONSTANTS
  Threads = {main, render}
  NoThread = NoThread
  MaxRequests = 2
  Selections = {{"route", "resource"}, {"system", "frontend"}, {"city"},
                {"garage1"}, {"garage2"}, {"stability"}, {"audio"}, {"physics"},
                {"gameplay"}, {"rendering"}, {"environment"},
                {"soak", "frontend", "rumble"}, {"readback"},
                {"readback", "unpaused"}}
  MaxOrders = 2
  MaxPresses = 1
  Lows = {0, 1, 2}
  Forced = 9
  MaxUserEdits = 2
  TimeoutFrames = 2
  HoldTime = 2
  MaxClock = 5
  GateDeadline = 4
  MaxWakes = 5
  Budgets = {1024, 7131, 12288}
  Scales = {1, 2}
  Caps = {0, 2048}
  StepInterval = 2
  MarkSlots = 1
  MaxSeconds = 5
  MaxMarks = 2
  GuestThreads = {g1, g2}
  MaxReferences = 3
INVARIANTS
  DumpsAreTrue
  ProbeKeepsItsWord
  LifecycleIsOrderly
  UserSettingsHold
  InputsKeepBounds
  ParentOutlivesChild
PROPERTIES
  CrashEnds
  ShutdownEnds
CHECK_DEADLOCK FALSE
