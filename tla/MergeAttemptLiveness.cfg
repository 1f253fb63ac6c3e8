SPECIFICATION Spec
CONSTANTS
  Proc = {p1, p2}
  MaxHead = 1
  MaxLost = 1
  MaxCrashes = 1
PROPERTIES PendingSettles MergeRecorded
