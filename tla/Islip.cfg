\* Two ports, two priorities, all modes.
CONSTANTS
  NumPort = 2
  NumPrio = 2
  IterArgs = {1, 2}
  SpeedupArgs = {1, 2}
  ModeArgs = {TRUE, FALSE}
  MaxCells = 2
SPECIFICATION Spec
INVARIANTS
  BooksAgree
  LevelProgress
