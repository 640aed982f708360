SPECIFICATION Spec
CONSTANTS
  Payment = {p1}
  Employee = {e1, e2}
  Request = {r1, r2, r3}
  NoOne = NoOne
  RandomDigits = {11}
  OneAtATime = FALSE
  Faults = FALSE
SYMMETRY Symmetry
INVARIANTS OneInvoicePerPayment
CHECK_DEADLOCK FALSE
