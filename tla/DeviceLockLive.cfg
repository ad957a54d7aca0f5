SPECIFICATION FairSpec
CONSTANTS
    Proc = {p1, p2}
    Wedged = {}
    Inode = {i1, i2, i3}
    NoProc = NoProc
    NoInode = NoInode
PROPERTIES StraysLeave AskedLeaves
CHECK_DEADLOCK FALSE
