\* What becomes of the sessions when the input ends.
CONSTANTS
  lost = lost
  Errors = {lost}
  NoError = NoError
  maxOutputBytes = 2
  MaxSessions = 2
  WriteSizes = {2, 3}
SPECIFICATION Spec
INVARIANTS
  SessionsStoppedBeforeExit
CHECK_DEADLOCK FALSE
