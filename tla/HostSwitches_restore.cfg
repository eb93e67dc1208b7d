\* The photo capture beside the menu cap; three thresholds, one edit of the user.
SPECIFICATION SwitchesSpec
CONSTANTS
  Lows = {0, 1, 2}
  Forced = 9
  MaxUserEdits = 1
  TimeoutFrames = 2
PROPERTIES
  NeverRestoresOverUser
CHECK_DEADLOCK FALSE
