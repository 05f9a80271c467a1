\* the flags of delete over sessions of any number of lines of two arguments.
CONSTANTS
  Graces <- MCGraces
  Cascades <- MCCascades
  MaxArgs = 2
SPECIFICATION Spec
INVARIANTS
  TypeOK
  RequestsObeyTheirLine
