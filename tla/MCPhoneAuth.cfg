SPECIFICATION FairSpec
CONSTANTS
  c1 = c1
  c2 = c2
  Calls = {c1, c2}
  MaxPending = 1
  PageUrls = {"token", "error"}
  MaxFaults = 1
  None = None
INVARIANTS HeldOnce WaitersAreWoken KeychainUpToDate
PROPERTIES VerdictSticks ImplementsAsyncCalls EveryCallAnswered
CHECK_DEADLOCK FALSE
