SPECIFICATION FairSpec
CONSTANTS
  N = 3
  Countdown = 2
  MaxDelayed = 2
INVARIANTS CompleteCodeCanBeSubmitted SubmitSettles OneCountdown
PROPERTY ResendComesBack
