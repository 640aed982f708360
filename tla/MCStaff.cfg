SPECIFICATION Spec
CONSTANTS
  Boot = {b1, b2}
  Reset = {r1, r2}
  Last = 3
  Before = Before
  Faults = TRUE
SYMMETRY Symmetry
INVARIANTS FullStaffAtTheEnd ResetReplacesAll
PROPERTIES StartRepairs
CHECK_DEADLOCK FALSE
