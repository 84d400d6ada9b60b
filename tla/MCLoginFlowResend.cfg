SPECIFICATION Spec
CONSTANTS
  MaxCalls = 3
  MaxScreens = 4
INVARIANT LastCodeIsAccepted
