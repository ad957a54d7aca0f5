---------------------------- MODULE MCDeviceLock ----------------------------
(* Small instances of DeviceLock.  There is one inode more than processes. *)
EXTENDS DeviceLock, TLC

\* Processes and inodes are alike; only for the runs without temporal properties.
Alike == Permutations(Proc \ Wedged) \cup Permutations(Inode)
=============================================================================
