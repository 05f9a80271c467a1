\* The loop with exec, edit, logs and the kubeconfig commands.
CONSTANTS
  MaxExecs = 2
  Texts = {a, b}
  MaxVersion = 3
  Contexts = {c1, c2}
  Namespaces = {n1}
  NONE = NONE
  MaxEdits = 2
  Sessions <- MCSessions
SPECIFICATION FairSpec
INVARIANTS
  TypeOK
  TerminalIsReleased
  PromptIsFresh
  SeenBeforeOverwritten
  EditSaysWhatItDid
  UndisturbedChangeIsExact
PROPERTIES
  ExecEnds
