SPECIFICATION Spec
CONSTANTS
  Proc = {p1, p2, p3}
  NoFile = NoFile
  MaxFaults = 3
INVARIANTS TypeOK OwnerUnlessIntruded
PROPERTY IssueDelivered
\* Nothing is left to run once the issue is done.
CHECK_DEADLOCK FALSE
