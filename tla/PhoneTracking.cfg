SPECIFICATION FairSpec
CONSTANTS
  MaxPauses = 1
  MaxScreens = 2
  MaxDialogs = 1
  MaxPolls = 2
  FaultKinds = {"request_lost","reply_lost"}
  MaxFaults = 1
INVARIANT TypeOK
INVARIANT OneSubmission
INVARIANT AcceptedIsLast
INVARIANT OnePoll
INVARIANT OneCaptchaOpen
INVARIANT VerdictShownIsTrue
PROPERTY DisposedScreensOpenNothing
PROPERTY PollsEnd
PROPERTY PauseReachesUser
CHECK_DEADLOCK FALSE
