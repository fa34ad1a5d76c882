SPECIFICATION Spec
CONSTANTS
  InputReasons <- WebReasons
  MaxLog = 8
INVARIANTS
  TypeOK
  LogReplays
  StagesInOrder
  RegressIsExplained
PROPERTY ImplementsWorkflow
