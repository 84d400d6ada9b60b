SPECIFICATION Spec
CONSTANTS
  u1 = u1
  c1 = c1
  Users = {u1}
  Calls = {c1}
  MaxObjects = 1
  MaxTokens = 2
  MaxActivations = 0
  MaxFaults = 1
  None = None
INVARIANT ScheduledMeansTimer
