SPECIFICATION WatchSpec
CONSTANTS
  Dependencies = FALSE
  Windows = {"else"}
  MaxEdits = 3
  MaxFailures = 2
INVARIANTS WatchTypeOK GeneratedIsCurrent
PROPERTIES Settles UpToDate
CHECK_DEADLOCK FALSE
