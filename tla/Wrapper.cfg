SPECIFICATION Spec
CONSTANTS
  Process = {t1, t2}
  File <- Files
  Command <- Commands
  Overridden = FALSE
  MaxCommands = 3
  MaxEdits = 1
SYMMETRY Terminals
INVARIANTS BuiltAsAsked WritesOwnFile
PROPERTY ConvertPreserves
CHECK_DEADLOCK FALSE
