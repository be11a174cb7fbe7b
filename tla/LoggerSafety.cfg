SPECIFICATION Spec
CONSTANTS
  Writers = {w1, w2}
  KeepSecond = 1
  FileMaxLine = 1
  HoursPerDay = 2
  MaxClock = 4
  MaxLines = 3
  MaxFailures = 1
  NoWriter = NoWriter
SYMMETRY Symmetry
INVARIANTS FilesMatchConsole RotatedInTime OneLostPerFile
PROPERTY CleanupComplete
CHECK_DEADLOCK FALSE
