\* What an index selects after a list command that found nothing.
CONSTANTS
  c1 = c1
  c2 = c2
  n1 = n1
  n2 = n2
  a = a
  b = b
  c = c
  widget = widget
  zone = zone
  NONE = NONE
  Blank = Blank
  Word = Word
  Contexts = {c1, c2}
  Namespaces = {n1, n2}
  Resources = {widget, zone}
  NamespacedResources = {widget}
  APIObjects <- MCObjects
  InputLines <- MCInputLines
  MaxRows = 2
  MaxInt = 7
  MaxAlloc = 6
SPECIFICATION Spec
INVARIANTS
  IndexMeansMostRecentList
CHECK_DEADLOCK FALSE
