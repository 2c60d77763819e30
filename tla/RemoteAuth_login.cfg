SPECIFICATION LoginFairSpec
CONSTANTS
  Callers = {send}
  Login = login
  MaxAttempts = 2
INVARIANTS LoginHeld
PROPERTIES EndsOnce LoginEnds CaptchaAnswered
CHECK_DEADLOCK FALSE
