SPECIFICATION Spec
CONSTANTS
  NULL = NULL
  h1 = h1
  Houses = {h1}
  Urls = {u1}
  JobIds = {j1}
  ReceiptIds = {r1, r2}
  Pages = {"lines"}
  Workers = {w1}
  Requests = {c1}
  HouseOf <- OneHouse
  MaxRetries = 2
  FetchErrors = {"timeout"}
  Bodies <- UsableOrNone
  FaultKinds = {"db_error"}
  MaxFaults = 1
SYMMETRY Symmetry
INVARIANT HeaderHasWriter
CHECK_DEADLOCK FALSE
