SPECIFICATION PagesSpec
CHECK_DEADLOCK FALSE
CONSTANTS
  Customer = {c1, c2}
  Employee = {e1, e2}
  NoOne = NoOne
  Name <- MCName
  MaxPayments = 2
  MaxVisits = 2
  MaxCalls = 2
  MaxText = 4
  MaxKnot = 6
  Limit = 1
  MaxMounts = 2
  MaxAsks = 2
  Kind <- MCKind
  PerPage = 1
  TableLimit = 2
  Tabs = {"pending", "verified", "submitted_to_swift"}
  MaxFilled = 1
  MaxQueue = 2
INVARIANTS
  PagesInv
  ShownIsTheirs
  EveryPaymentReported
  NamesSurvive
  DetailsFollowSelection
  ArchiveKeeps
  PagesCoverRows
PROPERTIES
  FormComesBack
