\* What a yes does for each kind of object the prompt offers to delete.
CONSTANTS
  a = a
  b = b
  Objects <- OneOfEachKind
  MaxItems = 1
SPECIFICATION Spec
INVARIANTS
  YesCanDelete
CHECK_DEADLOCK FALSE
