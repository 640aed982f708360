SPECIFICATION Spec
CONSTANTS
  Payment = {p1, p2}
  Employee = {e1, e2}
  Request = {r1, r2, r3}
  NoOne = NoOne
  RandomDigits = {8, 11}
  OneAtATime = TRUE
  Faults = TRUE
SYMMETRY Symmetry
INVARIANTS AnswerStands
PROPERTIES FollowsLifecycle
CHECK_DEADLOCK FALSE
