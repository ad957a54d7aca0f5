-------------------------- MODULE DeviceLockProofs --------------------------
(***************************************************************************)
(* The safety of the connection mutex for any set of processes: the        *)
(* inductive invariant of DeviceLock, what follows from it, and the step   *)
(* simulation behind ImplementsLease.                                      *)
(***************************************************************************)
EXTENDS DeviceLock, TLAPS

USE DEF Place, Claiming, Session, Mode, Request, HasFlock, HasFd, HasRecord, Wrote

\* Nobody has anything open at the start.
LEMMA InitMutexInv == Init => MutexInv
  BY LockAssumption DEF Init, MutexInv, TypeOK

\* Closing p's descriptor, in a step that takes p to where it has none and
\* leaves the others where they are, keeps the kernel's tables consistent.
LEMMA CloseKeeps ==
    ASSUME MutexInv, NEW p \in Proc, CloseFd(p),
           NEW w \in {"done", "dead"}, pc' = [pc EXCEPT ![p] = w],
           UNCHANGED <<mode, seen>>, steal' \in SUBSET steal,
           stealFd' \in SUBSET stealFd
    PROVE  MutexInv'
  BY LockAssumption DEF MutexInv, TypeOK, CloseFd

USE LockAssumption DEF MutexInv, TypeOK, Go

\* To look, to be refused the flock and to be told to stop write into no file.
LEMMA LookKeeps ==
    ASSUME MutexInv, NEW p \in Proc,
           Launch(p) \/ Look(p) \/ Peek(p) \/ TryLockFails(p) \/ StandDown(p) \/ Stop(p)
    PROVE  MutexInv'
  <1>1. CASE Launch(p)
    BY <1>1 DEF Launch, fileVars, stealVars
  <1>2. CASE Look(p)
    BY <1>2 DEF Look, fileVars, stealVars
  <1>3. CASE Peek(p)
    BY <1>3 DEF Peek, Held, stealVars
  <1>4. CASE TryLockFails(p)
    BY <1>4 DEF TryLockFails, fileVars, stealVars
  <1>5. CASE StandDown(p)
    BY <1>5 DEF StandDown, fileVars, stealVars
  <1>6. CASE Stop(p)
    BY <1>6 DEF Stop, fileVars, stealVars
  <1>7. QED
    BY <1>1, <1>2, <1>3, <1>4, <1>5, <1>6

\* A descriptor is opened on the linked inode, or on a new one.
LEMMA OpenKeeps == ASSUME MutexInv, NEW p \in Proc, Open(p) PROVE MutexInv'
  BY DEF Open, stealVars

\* The flock is granted on an inode nobody owns.
LEMMA TryLockKeeps == ASSUME MutexInv, NEW p \in Proc, TryLock(p) PROVE MutexInv'
  BY DEF TryLock, stealVars

\* A request is written with the PID that was read from the lock file.
LEMMA AskKeeps ==
    ASSUME MutexInv, NEW p \in Proc, ReadHolder(p) \/ OpenSteal(p) \/ WriteSteal(p)
    PROVE  MutexInv'
  <1>1. CASE ReadHolder(p)
    BY <1>1 DEF ReadHolder, Holder, fileVars, stealVars
  <1>2. CASE OpenSteal(p)
    BY <1>2 DEF OpenSteal, fileVars
  <1>3. CASE WriteSteal(p)
    BY <1>3 DEF WriteSteal, fileVars
  <1>4. QED
    BY <1>1, <1>2, <1>3

\* A claim writes only into the inode whose flock it holds.
LEMMA ClaimKeeps == ASSUME MutexInv, NEW p \in Proc, Claim(p) PROVE MutexInv'
  <1>1. CASE Truncate(p)
    BY <1>1 DEF Truncate, stealVars
  <1>2. CASE WritePid(p)
    BY <1>2 DEF WritePid, stealVars
  <1>3. CASE ReadSteal(p)
    BY <1>3 DEF ReadSteal, Claimed, fileVars, stealVars
  <1>4. CASE ClearMoot(p)
    BY <1>4 DEF ClearMoot, ClearSteal, Claimed, fileVars
  <1>5. QED
    BY <1>1, <1>2, <1>3, <1>4 DEF Claim

\* A process that leaves drops its descriptor with its flock.
LEMMA LeaveKeeps ==
    ASSUME MutexInv, NEW p \in Proc,
           Unpeek(p) \/ Refuse(p) \/ GiveUp(p) \/ Release(p) \/ Crash(p)
    PROVE  MutexInv'
  BY CloseKeeps DEF Unpeek, Refuse, GiveUp, Release, Crash, ClearSteal, stealVars

\* The invariant is inductive.
LEMMA StepMutexInv == MutexInv /\ [Next]_vars => MutexInv'
  <1> SUFFICES ASSUME MutexInv, [Next]_vars PROVE MutexInv'
    OBVIOUS
  <1>1. ASSUME NEW p \in Proc, Acquiring(p) PROVE MutexInv'
    BY <1>1, LookKeeps, OpenKeeps, TryLockKeeps, AskKeeps, LeaveKeeps DEF Acquiring
  <1>2. ASSUME NEW p \in Proc, Claim(p) PROVE MutexInv'
    BY <1>2, ClaimKeeps
  <1>3. ASSUME NEW p \in Proc, Ending(p) \/ Crash(p) PROVE MutexInv'
    BY <1>3, LookKeeps, LeaveKeeps DEF Ending
  <1>4. CASE RemoveLockFile
    BY <1>4 DEF RemoveLockFile, stealVars
  <1>5. CASE Expire
    <2>1. \A r \in steal' : r \in Request /\ \E q \in steal : r.target = q.target
      <3>1. steal' = {[q EXCEPT !.expired = TRUE] : q \in steal}
        BY <1>5 DEF Expire
      <3>2. \A q \in steal : q \in Request
        OBVIOUS
      <3>3. \A q \in Request : LET r == [q EXCEPT !.expired = TRUE]
                               IN  r \in Request /\ r.target = q.target
        OBVIOUS
      <3>4. QED
        BY <3>1, <3>2, <3>3
    <2>2. UNCHANGED <<pc, mode, path, recorded, flock, fd, ident, stealFd, seen>>
      BY <1>5 DEF Expire, fileVars
    <2>3. TypeOK'
      BY <2>1, <2>2
    <2>4. \A r \in steal' : pc'[r.target] \in Wrote
      BY <2>1, <2>2
    <2>5. QED
      BY <2>2, <2>3, <2>4
  <1>6. CASE UNCHANGED vars
    BY <1>6 DEF vars
  <1>7. QED
    BY <1>1, <1>2, <1>3, <1>4, <1>5, <1>6 DEF Next

\* The kernel's tables, the files and the program counters agree in every
\* reachable state, for any number of processes.
THEOREM MutexInvariant == Spec => []MutexInv
  BY InitMutexInv, StepMutexInv, PTL DEF Spec

\* Types, for any number of processes: what the two files and the descriptors
\* can hold.
THEOREM TypeCorrect == Spec => []TypeOK
  <1>1. MutexInv => TypeOK
    BY DEF MutexInv
  <1>2. QED
    BY <1>1, MutexInvariant, PTL

\* At most one process past the flock of the file that LOCK_FILE names.
THEOREM Exclusion == Spec => []AtMostOneRightful
  <1>1. MutexInv => AtMostOneRightful
    BY DEF AtMostOneRightful, Holds
  <1>2. QED
    BY <1>1, MutexInvariant, PTL

\* The PID in the file is the PID of the session that has it.
THEOREM RecordedPid == Spec => []RecordedHolder
  <1>1. MutexInv => RecordedHolder
    BY DEF RecordedHolder
  <1>2. QED
    BY <1>1, MutexInvariant, PTL

\* A request never names a process that has not claimed the mutex yet.
THEOREM AimedRequests == Spec => []StealAimsAtAHolder
  <1>1. MutexInv => StealAimsAtAHolder
    BY DEF StealAimsAtAHolder
  <1>2. QED
    BY <1>1, MutexInvariant, PTL

-----------------------------------------------------------------------------
(* The simulation *)

\* The two state functions the abstract variables are mapped to.
Rightful == IF path # NoInode /\ flock[path] # NoProc /\ Holds(flock[path])
            THEN flock[path] ELSE NoProc
Strays == {p \in Proc : Holds(p) /\ fd[p] # path}

USE DEF Holds

\* Every process that is past a flock is the rightful user or a stray, and
\* nobody is both.
LEMMA Users ==
    ASSUME MutexInv
    PROVE  /\ Rightful \in Proc \cup {NoProc}
           /\ Strays \subseteq Proc
           /\ \A q \in Proc : Rightful = q <=> Holds(q) /\ fd[q] = path
           /\ \A q \in Proc : q \in Strays <=> Holds(q) /\ fd[q] # path
  BY DEF Rightful, Strays

HIDE DEF MutexInv, TypeOK, Holds

\* The same, in a form that gives the mapped sets by their members.
LEMMA SameUsers ==
    ASSUME MutexInv, MutexInv', NEW S \in SUBSET Proc, NEW h \in Proc \cup {NoProc},
           \A q \in Proc : Holds(q)' /\ fd'[q] # path' <=> q \in S,
           \A q \in Proc : Holds(q)' /\ fd'[q] = path' <=> q = h
    PROVE  Strays' = S /\ Rightful' = h
  <1>1. /\ Rightful' \in Proc \cup {NoProc}
        /\ \A q \in Proc : Rightful' = q <=> Holds(q)' /\ fd'[q] = path'
    BY DEF Rightful, Holds, MutexInv, TypeOK
  <1>2. Strays' = {q \in Proc : Holds(q)' /\ fd'[q] # path'}
    BY DEF Strays
  <1>3. QED
    BY <1>1, <1>2

\* A process that goes away leaves whatever it was.
LEMMA LeaveSimulates ==
    ASSUME MutexInv, MutexInv', NEW p \in Proc, path' = path,
           ~Holds(p)', \A q \in Proc \ {p} : (Holds(q) <=> Holds(q)') /\ fd'[q] = fd[q]
    PROVE  Lease!Leave(p) \/ UNCHANGED <<Rightful, Strays>>
  <1>1. /\ Rightful \in Proc \cup {NoProc}
        /\ Strays \subseteq Proc
        /\ \A q \in Proc : Rightful = q <=> Holds(q) /\ fd[q] = path
        /\ \A q \in Proc : q \in Strays <=> Holds(q) /\ fd[q] # path
    BY Users
  <1>2. CASE Rightful = p
    <2>1. p \notin Strays
      BY <1>1, <1>2
    <2>2. Strays' = Strays /\ Rightful' = NoProc
      <3>1. \A q \in Proc : Holds(q)' /\ fd'[q] # path' <=> q \in Strays
        BY <1>1, <2>1
      <3>2. \A q \in Proc : Holds(q)' /\ fd'[q] = path' <=> q = NoProc
        BY <1>1, <1>2
      <3>3. QED
        BY <1>1, <3>1, <3>2, SameUsers
    <2>3. QED
      BY <1>2, <2>1, <2>2 DEF Lease!Leave, Rightful, Strays
  <1>3. CASE p \in Strays
    <2>1. Rightful # p
      BY <1>1, <1>3
    <2>2. Strays' = Strays \ {p} /\ Rightful' = Rightful
      <3>1. \A q \in Proc : Holds(q)' /\ fd'[q] # path' <=> q \in Strays \ {p}
        BY <1>1
      <3>2. \A q \in Proc : Holds(q)' /\ fd'[q] = path' <=> q = Rightful
        BY <1>1, <2>1
      <3>3. QED
        BY <1>1, <3>1, <3>2, SameUsers
    <2>3. QED
      BY <1>3, <2>2 DEF Lease!Leave, Rightful, Strays
  <1>4. CASE Rightful # p /\ p \notin Strays
    <2>1. \A q \in Proc : Holds(q)' /\ fd'[q] # path' <=> q \in Strays
      BY <1>1, <1>4
    <2>2. \A q \in Proc : Holds(q)' /\ fd'[q] = path' <=> q = Rightful
      BY <1>1, <1>4
    <2>3. QED
      BY <1>1, <2>1, <2>2, SameUsers
  <1>5. QED
    BY <1>2, <1>3, <1>4

\* The flock of the linked file makes the rightful user, that of a removed one
\* a stray.
LEMMA TryLockSimulates ==
    ASSUME MutexInv, MutexInv', NEW p \in Proc, TryLock(p)
    PROVE  Lease!Acquire(p) \/ Lease!AcquireStray(p)
  <1>1. /\ Rightful \in Proc \cup {NoProc}
        /\ Strays \subseteq Proc
        /\ \A q \in Proc : Rightful = q <=> Holds(q) /\ fd[q] = path
        /\ \A q \in Proc : q \in Strays <=> Holds(q) /\ fd[q] # path
    BY Users
  <1>2. /\ path' = path /\ fd' = fd /\ ~Holds(p) /\ Holds(p)'
        /\ \A q \in Proc \ {p} : Holds(q) <=> Holds(q)'
    BY DEF TryLock, Holds, MutexInv, TypeOK
  <1>3. \A q \in Proc : Holds(q) => fd[q] # fd[p]
    BY DEF TryLock, Holds, MutexInv, TypeOK
  <1>4. Rightful # p /\ p \notin Strays
    BY <1>1, <1>2
  <1>5. CASE fd[p] = path
    <2>1. Rightful = NoProc
      BY <1>1, <1>3, <1>5
    <2>2. \A q \in Proc : Holds(q)' /\ fd'[q] # path' <=> q \in Strays
      BY <1>1, <1>2, <1>4, <1>5
    <2>3. \A q \in Proc : Holds(q)' /\ fd'[q] = path' <=> q = p
      BY <1>2, <1>3, <1>5
    <2>4. Strays' = Strays /\ Rightful' = p
      BY <1>1, <2>2, <2>3, SameUsers
    <2>5. QED
      BY <1>4, <2>1, <2>4 DEF Lease!Acquire, Lease!Using, Rightful, Strays
  <1>6. CASE fd[p] # path
    <2>1. \A q \in Proc : Holds(q)' /\ fd'[q] # path' <=> q \in Strays \cup {p}
      BY <1>1, <1>2, <1>6
    <2>2. \A q \in Proc : Holds(q)' /\ fd'[q] = path' <=> q = Rightful
      BY <1>1, <1>2, <1>4, <1>6
    <2>3. Strays' = Strays \cup {p} /\ Rightful' = Rightful
      BY <1>1, <2>1, <2>2, SameUsers
    <2>4. QED
      BY <1>4, <2>3 DEF Lease!AcquireStray, Lease!Using, Rightful, Strays
  <1>7. QED
    BY <1>5, <1>6

\* Removing the file makes a stray of the rightful user, if there is one.
LEMMA RemoveSimulates ==
    ASSUME MutexInv, MutexInv', RemoveLockFile
    PROVE  Lease!Overtake \/ UNCHANGED <<Rightful, Strays>>
  <1>1. /\ Rightful \in Proc \cup {NoProc}
        /\ Strays \subseteq Proc
        /\ \A q \in Proc : Rightful = q <=> Holds(q) /\ fd[q] = path
        /\ \A q \in Proc : q \in Strays <=> Holds(q) /\ fd[q] # path
    BY Users
  <1>2. \A q \in Proc : (Holds(q)' <=> Holds(q)) /\ fd'[q] = fd[q]
    BY DEF RemoveLockFile, Holds
  <1>3. \A q \in Proc : Holds(q) => fd[q] # path'
    BY DEF RemoveLockFile, Holds, MutexInv, TypeOK
  <1>4. Strays' = (Strays \cup {Rightful}) \ {NoProc} /\ Rightful' = NoProc
    <2>1. \A q \in Proc : Holds(q)' /\ fd'[q] # path'
                            <=> q \in (Strays \cup {Rightful}) \ {NoProc}
      <3>1. \A q \in Proc : q \in (Strays \cup {Rightful}) \ {NoProc} <=> Holds(q)
        BY <1>1
      <3>2. QED
        BY <1>2, <1>3, <3>1
    <2>2. \A q \in Proc : Holds(q)' /\ fd'[q] = path' <=> q = NoProc
      BY <1>2, <1>3
    <2>3. QED
      BY <1>1, <2>1, <2>2, SameUsers
  <1>5. CASE Rightful = NoProc
    BY <1>1, <1>4, <1>5
  <1>6. CASE Rightful # NoProc
    <2>1. Strays' = Strays \cup {Rightful}
      BY <1>1, <1>4, <1>6
    <2>2. QED
      BY <1>4, <1>6, <2>1 DEF Lease!Overtake, Rightful, Strays
  <1>7. QED
    BY <1>5, <1>6

\* A step that moves no process past a flock or away from it, and does not
\* make the path name a file somebody is past, is a stutter of the lease.
LEMMA Stutter ==
    ASSUME MutexInv, MutexInv',
           \A q \in Proc : Holds(q) <=> Holds(q)',
           \A q \in Proc : Holds(q) => (fd'[q] = path' <=> fd[q] = path)
    PROVE  UNCHANGED <<Rightful, Strays>>
  <1>1. /\ Rightful \in Proc \cup {NoProc}
        /\ Strays \subseteq Proc
        /\ \A q \in Proc : Rightful = q <=> Holds(q) /\ fd[q] = path
        /\ \A q \in Proc : q \in Strays <=> Holds(q) /\ fd[q] # path
    BY Users
  <1>2. \A q \in Proc : Holds(q)' /\ fd'[q] # path' <=> q \in Strays
    BY <1>1
  <1>3. \A q \in Proc : Holds(q)' /\ fd'[q] = path' <=> q = Rightful
    BY <1>1
  <1>4. QED
    BY <1>1, <1>2, <1>3, SameUsers

\* A new file is a new inode: nobody is past its flock.
LEMMA OpenStutters ==
    ASSUME MutexInv, MutexInv', NEW p \in Proc, Open(p)
    PROVE  UNCHANGED <<Rightful, Strays>>
  <1>1. \A q \in Proc : Holds(q) <=> Holds(q)'
    BY DEF Open, Holds, MutexInv, TypeOK
  <1>2. \A q \in Proc : Holds(q) => q # p
    BY DEF Open, Holds
  <1>3. \A q \in Proc : Holds(q) => fd[q] # NoInode
    BY DEF Holds, MutexInv
  <1>4. \A q \in Proc \ {p} : fd'[q] = fd[q]
    BY DEF Open, MutexInv, TypeOK
  <1>5. path' = path \/ (path = NoInode /\ \A q \in Proc : fd[q] # path')
    BY DEF Open
  <1>6. QED
    BY <1>1, <1>2, <1>3, <1>4, <1>5, Stutter

\* The steps of a process that does not change places in the lease.
LEMMA OthersStutter ==
    ASSUME MutexInv, MutexInv', NEW p \in Proc,
           \/ Launch(p) \/ Look(p) \/ Peek(p) \/ TryLockFails(p) \/ ReadHolder(p)
           \/ OpenSteal(p) \/ WriteSteal(p) \/ Claim(p) \/ StandDown(p) \/ Stop(p)
    PROVE  UNCHANGED <<Rightful, Strays>>
  <1>1. path' = path
    BY DEF Launch, Look, Peek, TryLockFails, ReadHolder, OpenSteal, WriteSteal, Claim,
           Truncate, WritePid, ReadSteal, ClearMoot, StandDown, Stop, fileVars
  <1>2. \A q \in Proc : Holds(q) => fd'[q] = fd[q]
    <2>1. CASE Peek(p)
      BY <2>1 DEF Peek, Holds, MutexInv, TypeOK
    <2>2. CASE ~Peek(p)
      BY <2>2 DEF Launch, Look, TryLockFails, ReadHolder, OpenSteal, WriteSteal, Claim,
           Truncate, WritePid, ReadSteal, ClearMoot, StandDown, Stop, fileVars
    <2>3. QED
      BY <2>1, <2>2
  <1>3. \A q \in Proc : Holds(q) <=> Holds(q)'
    <2>1. CASE Launch(p) \/ Look(p) \/ Peek(p) \/ TryLockFails(p)
      BY <2>1 DEF Launch, Look, Peek, TryLockFails, Holds, MutexInv, TypeOK
    <2>2. CASE ReadHolder(p) \/ OpenSteal(p) \/ WriteSteal(p)
      BY <2>2 DEF ReadHolder, OpenSteal, WriteSteal, Holds, MutexInv, TypeOK
    <2>3. CASE Claim(p)
      BY <2>3 DEF Claim, Truncate, WritePid, ReadSteal, ClearMoot, Claimed, Holds, MutexInv, TypeOK
    <2>4. CASE StandDown(p) \/ Stop(p)
      BY <2>4 DEF StandDown, Stop, Holds, MutexInv, TypeOK
    <2>5. QED
      BY <2>1, <2>2, <2>3, <2>4
  <1>4. QED
    BY <1>1, <1>2, <1>3, Stutter

\* A process that closes its descriptor leaves the lease, if it was in it.
LEMMA CloseSimulates ==
    ASSUME MutexInv, MutexInv', NEW p \in Proc,
           Unpeek(p) \/ Refuse(p) \/ GiveUp(p) \/ Release(p) \/ Crash(p)
    PROVE  Lease!Leave(p) \/ UNCHANGED <<Rightful, Strays>>
  <1>1. CloseFd(p) /\ \E w \in {"done", "dead"} : pc' = [pc EXCEPT ![p] = w]
    BY DEF Unpeek, Refuse, GiveUp, Release, Crash
  <1>2. path' = path /\ ~Holds(p)'
    BY <1>1 DEF CloseFd, Holds, MutexInv, TypeOK
  <1>3. \A q \in Proc \ {p} : (Holds(q) <=> Holds(q)') /\ fd'[q] = fd[q]
    BY <1>1 DEF CloseFd, Holds, MutexInv, TypeOK
  <1>4. QED
    BY <1>2, <1>3, LeaveSimulates

\* Every step is a step of the lease or a stutter.
LEMMA StepSimulates ==
    ASSUME MutexInv, MutexInv', [Next]_vars
    PROVE  Lease!Next \/ UNCHANGED <<Rightful, Strays>>
  <1>1. ASSUME NEW p \in Proc, Acquiring(p)
        PROVE  Lease!Next \/ UNCHANGED <<Rightful, Strays>>
    BY <1>1, OthersStutter, OpenStutters, TryLockSimulates, CloseSimulates
       DEF Acquiring, Lease!Next
  <1>2. ASSUME NEW p \in Proc, Claim(p)
        PROVE  UNCHANGED <<Rightful, Strays>>
    BY <1>2, OthersStutter
  <1>3. ASSUME NEW p \in Proc, Ending(p) \/ Crash(p)
        PROVE  Lease!Next \/ UNCHANGED <<Rightful, Strays>>
    BY <1>3, OthersStutter, CloseSimulates DEF Ending, Lease!Next
  <1>4. CASE RemoveLockFile
    BY <1>4, RemoveSimulates DEF Lease!Next
  <1>5. CASE Expire \/ UNCHANGED vars
    BY <1>5 DEF Expire, vars, fileVars, Rightful, Strays, Holds
  <1>6. QED
    BY <1>1, <1>2, <1>3, <1>4, <1>5 DEF Next

\* The protocol of two files implements the lease: every step of it is a step
\* of ConnectionLease or changes neither the rightful user nor the strays.
THEOREM LeaseImplemented == Spec => ImplementsLease
  <1>1. Init => Lease!Init
    BY DEF Init, Lease!Init, Holds
  <1>2. MutexInv /\ MutexInv' /\ [Next]_vars => [Lease!Next]_(Lease!vars)
    BY StepSimulates DEF Lease!vars, Rightful, Strays
  <1>3. QED
    BY <1>1, <1>2, MutexInvariant, PTL DEF Spec, ImplementsLease, Lease!Spec
=============================================================================
