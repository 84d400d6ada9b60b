SPECIFICATION FairSpec
CONSTANTS
  c1 = c1
  Calls = {c1}
  MaxPending = 1
  PageUrls = {"token", "error", "bare"}
  MaxFaults = 0
  None = None
PROPERTY EveryCallAnswered
CHECK_DEADLOCK FALSE
