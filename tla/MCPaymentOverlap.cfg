SPECIFICATION Spec
CONSTANTS
  Payment = {p1, p2}
  Employee = {e1, e2}
  Request = {r1, r2, r3}
  NoOne = NoOne
  RandomDigits = {8, 11}
  OneAtATime = FALSE
  Faults = TRUE
SYMMETRY Symmetry
INVARIANTS TypeOK SwiftOnlyApproved InvoiceFromApproval DecisionRecorded
PROPERTIES NothingWithdrawn
CHECK_DEADLOCK FALSE
