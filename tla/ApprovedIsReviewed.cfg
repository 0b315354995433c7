SPECIFICATION Spec
CONSTANTS
  MaxFills = 2
  MaxLost = 0
  MaxReads = 2
INVARIANTS ApprovedIsReviewed
CHECK_DEADLOCK FALSE
