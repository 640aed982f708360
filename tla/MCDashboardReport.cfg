SPECIFICATION Spec
CONSTANTS
  Payment = {p1}
  Visited = {"pending", "verified", "all"}
  MaxInFlight = 2
  MaxFailures = 0
  NoRow = NoRow
PROPERTIES SubmissionReported
CHECK_DEADLOCK FALSE
