\* The selection syntax, on one scope and up to three rows.
CONSTANTS
  c1 = c1
  c2 = c2
  n1 = n1
  n2 = n2
  a = a
  b = b
  c = c
  widget = widget
  zone = zone
  NONE = NONE
  Blank = Blank
  Word = Word
  Contexts = {c1}
  Namespaces = {n1}
  Resources = {widget, zone}
  NamespacedResources = {widget}
  APIObjects <- InputObjects
  InputLines <- AllInputLines
  MaxRows = 3
  MaxInt = 7
  MaxAlloc = 6
SPECIFICATION Spec
PROPERTIES
  BareNumberSelectsThatRow
CHECK_DEADLOCK FALSE
