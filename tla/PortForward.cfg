\* Every interleaving of the REPL with the forwarders of two sessions.
CONSTANTS
  lost = lost
  Errors = {lost}
  NoError = NoError
  maxOutputBytes = 2
  MaxSessions = 2
  WriteSizes = {2, 3}
SPECIFICATION FairSpec
INVARIANTS
  TypeOK
  RecordedEndIsShown
  StatusAndErrorAgree
  QuitStopsEverySession
PROPERTIES
  StoppedIsFinal
  IndicesAreStable
  ImplementsRegister
  StoppedForwardersEnd
  PortForwardReturns
\* The REPL ends, and with it everything else.
CHECK_DEADLOCK FALSE
