CONSTANTS
  Commands <- MCCommands
  Sectors = 2
  MaxCommands = 3
  MaxResets = 2
SPECIFICATION Spec
INVARIANTS
  InStep FailureExplained
PROPERTIES
  KeepsPromise Answered
CHECK_DEADLOCK FALSE
