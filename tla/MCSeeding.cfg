SPECIFICATION SeedingSpec
CONSTANTS
  Payment = {p1, p2}
  Employee = {e1, e2}
  Request = {r1, r2}
  NoOne = NoOne
  RandomDigits = {11}
  OneAtATime = TRUE
  Faults = TRUE
  Run = {s1, s2}
  Samples = 1
  Plans <- OneBesideOrAllApart
SYMMETRY Symmetry
INVARIANTS RunRepairs SeededFromApproval NoSecondInvoice
PROPERTIES EverythingInvoiced
CHECK_DEADLOCK FALSE
