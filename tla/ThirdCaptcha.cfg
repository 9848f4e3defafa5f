SPECIFICATION Spec
CONSTANTS
  NULL = NULL
  h1 = h1
  Houses = {h1}
  Urls = {u1}
  JobIds = {j1}
  ReceiptIds = {r1, r2}
  Pages = {"lines"}
  Workers = {w1}
  Requests = {c1}
  HouseOf <- OneHouse
  MaxRetries = 3
  FetchErrors = {"timeout"}
  Bodies <- UsableOrNone
  FaultKinds = {}
  MaxFaults = 0
SYMMETRY Symmetry
INVARIANT CaptchaLimit
CHECK_DEADLOCK FALSE
