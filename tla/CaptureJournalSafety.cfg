SPECIFICATION Spec
CONSTANTS
    Recorder = {monitor, read}
    Recoverer = {recover1, recover2}
    Day = 2
    MaxRows = 2
    Overlap = FALSE
INVARIANTS TypeOK StoredOnce SessionsAreWhole
PROPERTIES ImplementsStore
SYMMETRY Alike
CHECK_DEADLOCK FALSE
