SPECIFICATION Spec
CONSTANTS
  InputReasons <- CliReasons
  MaxLog = 4
INVARIANT LogReplays
