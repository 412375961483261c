SPECIFICATION WatchSpec
CONSTANTS
  Dependencies = TRUE
  Windows = {"else"}
  MaxEdits = 1
  MaxFailures = 0
PROPERTY Settles
CHECK_DEADLOCK FALSE
