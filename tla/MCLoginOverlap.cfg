SPECIFICATION Spec
CONSTANTS
  Email = {a, b}
  Customer = {a}
  Employee = {a, b}
  Suspended = {b}
  Request = {r1, r2, r3, r4}
  NoEmail = NoEmail
  MaxAttempts = 2
  LockoutDuration = 1
  Multiplier = 2
  Day = 3
  MaxTime = 5
  Faults = TRUE
SYMMETRY Symmetry
INVARIANTS LockEarned LockRemembered StoredNotInflated
PROPERTIES LockNeverShortened
CHECK_DEADLOCK FALSE
