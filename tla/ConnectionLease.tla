--------------------------- MODULE ConnectionLease ---------------------------
(***************************************************************************)
(* What the connection mutex promises, without files, PIDs or requests: at *)
(* most one process is the rightful user of the device's one connection.   *)
(* A user can lose that standing to a removal of the lock file while it is *)
(* still running; it is then a stray, and strays leave.                    *)
(***************************************************************************)
CONSTANTS
    Proc,       \* the processes that may use the connection
    Wedged,     \* those that need not leave
    NoProc      \* nobody

VARIABLES
    holder,     \* the rightful user
    stray       \* users that have been overtaken

vars == <<holder, stray>>

Init == holder = NoProc /\ stray = {}

Using == stray \cup (IF holder = NoProc THEN {} ELSE {holder})

Acquire(p) ==
    /\ holder = NoProc
    /\ p \notin Using
    /\ holder' = p
    /\ UNCHANGED stray

\* A process that waited for a file which has been removed meanwhile.
AcquireStray(p) ==
    /\ p \notin Using
    /\ stray' = stray \cup {p}
    /\ UNCHANGED holder

Overtake ==
    /\ holder # NoProc
    /\ stray' = stray \cup {holder}
    /\ holder' = NoProc

Leave(p) ==
    \/ /\ p = holder
       /\ p \notin stray
       /\ holder' = NoProc
       /\ UNCHANGED stray
    \/ /\ p \in stray
       /\ stray' = stray \ {p}
       /\ UNCHANGED holder

Next == \/ \E p \in Proc : Acquire(p) \/ AcquireStray(p) \/ Leave(p)
        \/ Overtake

Spec == Init /\ [][Next]_vars

\* A stray does not stay.
StraysLeave == \A p \in Proc \ Wedged : p \in stray ~> p \notin stray
=============================================================================
