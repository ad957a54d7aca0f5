SPECIFICATION Spec
CONSTANTS
    Proc = {p1, p2, p3}
    Wedged = {p3}
    Inode = {i1, i2, i3, i4}
    NoProc = NoProc
    NoInode = NoInode
SYMMETRY Alike
INVARIANTS TypeOK AtMostOneRightful RecordedHolder StealAimsAtAHolder MutexInv
PROPERTIES ImplementsLease
CHECK_DEADLOCK FALSE
