SPECIFICATION Spec
CONSTANTS
  MaxCalls = 4
  MaxScreens = 4
INVARIANTS MainNeedsUser OnboardingOnce PresentedBeforeRootMain
PROPERTIES StrandedOnlyByCover CodesInTurn
