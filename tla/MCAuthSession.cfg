SPECIFICATION FairSpec
CONSTANTS
  u1 = u1
  u2 = u2
  c1 = c1
  Users = {u1, u2}
  Calls = {c1}
  MaxObjects = 2
  MaxTokens = 3
  MaxActivations = 1
  MaxFaults = 1
  None = None
INVARIANTS SessionIsStored ListenersKnowStored RefreshIsComing
PROPERTIES LateAnswerIsHarmless TokenCallsAreAnsweredOnce EveryTokenCallAnswered
