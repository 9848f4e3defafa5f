SPECIFICATION Spec
CONSTANTS
  NULL = NULL
  h1 = h1
  Houses = {h1}
  Urls = {u1}
  JobIds = {j1}
  ReceiptIds = {r1, r2, r3}
  Pages = {"empty", "lines"}
  Workers = {w1, w2}
  Requests = {c1}
  HouseOf <- OneHouse
  MaxRetries = 3
  FetchErrors = {"timeout"}
  Bodies <- AllBodies
  FaultKinds = {"db_error", "redis_error", "worker_crash", "disconnect", "db_reply_lost", "redis_reply_lost", "redis_resent"}
  MaxFaults = 1
SYMMETRY Symmetry
INVARIANT ExpiredOnlyAfterTwoSolutions
INVARIANT DetailPauseHasSummary
INVARIANT PageHtmlOnlyInFlight
INVARIANT CompletedReceiptIsWhole
CHECK_DEADLOCK FALSE
