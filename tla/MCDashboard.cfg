SPECIFICATION Spec
CONSTANTS
  Payment = {p1}
  Visited = {"pending", "verified", "all"}
  MaxInFlight = 2
  MaxFailures = 1
  NoRow = NoRow
INVARIANTS DashboardInv ReportTrue
PROPERTIES PendingTabRecovers
CHECK_DEADLOCK FALSE
