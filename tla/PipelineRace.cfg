SPECIFICATION Spec
CONSTANTS
  NULL = NULL
  h1 = h1
  Houses = {h1}
  Urls = {u1}
  JobIds = {j1, j2}
  ReceiptIds = {r1, r2}
  Pages = {"lines"}
  Workers = {w1, w2}
  Requests = {c1, c2}
  HouseOf <- OneHouse
  MaxRetries = 2
  FetchErrors = {"timeout"}
  Bodies <- UsableOrNone
  FaultKinds = {}
  MaxFaults = 0
SYMMETRY Symmetry
INVARIANT TypeOK
INVARIANT OneHolder
INVARIANT RestingJobsAreNotHeld
INVARIANT NoStrandedJob
PROPERTY SettledIsFinal
PROPERTY PassesOnJobs
CHECK_DEADLOCK FALSE
