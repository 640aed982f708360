SPECIFICATION PortalSpec
CHECK_DEADLOCK FALSE
CONSTANTS
  Tab = {t1, t2}
  Customer = {c1, c2}
  Employee = {e1}
  NoOne = NoOne
  MaxAuth = 2
  Quarter = 2
  MaxRequests = 2
  MaxText = 6
  MaxPassword = 5
  MaxLocal = 3
  MaxEmail = 7
  MaxLabel = 3
  MaxHandler = 5
  MaxDomain = 4
INVARIANTS
  PortalInv
  ServedAsShown
  LoggedOutMeansOut
  CredentialsHold
PROPERTIES
  LimitedServedAgain
