CONSTANTS
  None = None
  lib = lib  app = app
  Target = {lib, app}
  Options = {1, 2}
  Contents = {1, 2}
  MaxClock = 3
  Projects <- AllProjects
SPECIFICATION Spec
INVARIANT OwnCurrent
PROPERTY NothingToDo
