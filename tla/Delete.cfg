\* delete on every selection of up to three objects, with a slow server.
CONSTANTS
  a = a
  b = b
  Objects <- MCObjects
  MaxItems = 3
SPECIFICATION FairSpec
INVARIANTS
  TypeOK
  OnlyConfirmedAreDeleted
  ReportedAreDeleted
  EveryItemAccountedFor
PROPERTIES
  ImplementsForEach
  DeleteEnds
\* The command ends, and requests still under way settle.
CHECK_DEADLOCK FALSE
