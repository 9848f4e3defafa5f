SPECIFICATION Spec
CONSTANTS
  MaxPauses = 1
  MaxScreens = 2
  MaxDialogs = 1
  MaxPolls = 2
  FaultKinds = {"request_lost","reply_lost"}
  MaxFaults = 1
CHECK_DEADLOCK FALSE
PROPERTY DialogWaitsForUser
