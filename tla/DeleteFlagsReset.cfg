\* cmd.go:139: a line does not depend on the lines before it.
CONSTANTS
  Graces <- MCGraces
  Cascades <- MCCascades
  MaxArgs = 2
SPECIFICATION Spec
INVARIANTS
  LinesStandAlone
