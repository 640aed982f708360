SPECIFICATION AccountsSpec
CONSTANTS
  Email = {m1, m2}
  AccountNumber = {a1, a2}
  Applicant = {q1, q2, q3}
  Nothing = Nothing
  Faults = TRUE
  Resident = {c0}
  Payment = {p1, p2}
  Verifier = {e1}
  Reader = {r1}
  Beside = {q1}
  MaxMoved = 2
INVARIANTS RegistrationTypeOK AnswersTrue ReadsHold
PROPERTIES FollowsRegistry RegistrationSettles
CHECK_DEADLOCK FALSE
