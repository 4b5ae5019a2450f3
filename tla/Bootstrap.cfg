SPECIFICATION Spec
CONSTANTS
  Shell <- SomeShell
  File <- SomeFile
INVARIANTS
  TypeOK
  SwitchesAsRead
PROPERTIES
  ComesUp
