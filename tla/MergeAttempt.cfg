SPECIFICATION Spec
CONSTANTS
  Proc = {p1, p2}
  MaxHead = 2
  MaxLost = 1
  MaxCrashes = 1
INVARIANTS TypeOK MergedHeadChecked CallUnderClaim OneCall
PROPERTIES ImplementsOperation
