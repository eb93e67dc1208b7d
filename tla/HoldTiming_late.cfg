\* One gamepad and a UI thread that runs its closures late.
SPECIFICATION TimedSpec
CONSTANTS
  Pads = {p1}
  Wheels = {}
  LineUps = {{p1}}
  TableSizes = {1}
  HoldMs = 2
  MaxQueue = 4
  Unset = Unset
PROPERTIES
  ShortTapNeverFires
CHECK_DEADLOCK FALSE
