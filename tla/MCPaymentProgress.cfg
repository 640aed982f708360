SPECIFICATION FairSpec
CONSTANTS
  Payment = {p1, p2}
  Employee = {e1, e2}
  Request = {r1, r2}
  NoOne = NoOne
  RandomDigits = {11}
  OneAtATime = FALSE
  Faults = FALSE

PROPERTIES ApprovalInvoiced
CHECK_DEADLOCK FALSE
