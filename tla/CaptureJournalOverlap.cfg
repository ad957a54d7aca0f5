SPECIFICATION Spec
CONSTANTS
    Recorder = {monitor}
    Recoverer = {recover1}
    Day = 1
    MaxRows = 2
    Overlap = TRUE
INVARIANTS CleanExitSavesAll
CHECK_DEADLOCK FALSE
