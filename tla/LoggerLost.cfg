SPECIFICATION Spec
CONSTANTS
  Writers = {w1}
  KeepSecond = 2
  FileMaxLine = 2
  HoursPerDay = 2
  MaxClock = 6
  MaxLines = 2
  MaxFailures = 0
  NoWriter = NoWriter
SYMMETRY Symmetry
PROPERTY LineInFile
CHECK_DEADLOCK FALSE
