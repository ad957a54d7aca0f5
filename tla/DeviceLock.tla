----------------------------- MODULE DeviceLock -----------------------------
(***************************************************************************)
(* The connection mutex of canair (device/lock.py, lock_watchdog.py and    *)
(* the commands that take it): an exclusive flock on one file, the PID of  *)
(* the holder written into that file, and a second file through which a    *)
(* --force contender asks the holder to leave.                             *)
(*                                                                         *)
(* Every element of Proc is one canair process, and a process runs one     *)
(* command.  A step is one system call, or a run of calls no other process *)
(* can tell apart.  The kernel frees a crashed holder's flock; anybody may *)
(* remove the lock file.  Waits and the request's time to live are not     *)
(* timed: a wait may end, and a request may expire, at any moment.         *)
(***************************************************************************)
EXTENDS FiniteSets

CONSTANTS
    Proc,       \* canair processes, named by their PIDs
    Wedged,     \* those that never stand down: stuck, or without a watchdog
    Inode,      \* inodes the lock file may be given
    NoProc,     \* no PID: the file is empty, the flock is free
    NoInode     \* no file: the path is unlinked, the descriptor is closed

\* An inode stays allocated while a descriptor is open on it, so one more than
\* there are processes is always enough for the next creation.
ASSUME LockAssumption ==
    /\ NoProc \notin Proc
    /\ NoInode \notin Inode
    /\ Wedged \subseteq Proc

VARIABLES
    pc,         \* where each process is
    mode,       \* what its command wants of the mutex
    path,       \* the inode linked at LOCK_FILE
    recorded,   \* the PID written in each inode
    flock,      \* the process whose descriptor has the flock of each inode
    fd,         \* the inode each process has open
    ident,      \* WiCANLock._ident: the inode a process claimed
    steal,      \* the parsed request in STEAL_FILE: at most one
    stealFd,    \* processes whose descriptor is open on the linked STEAL_FILE
    seen        \* the PID a process read, or the target of the request it read

vars == <<pc, mode, path, recorded, flock, fd, ident, steal, stealFd, seen>>

fileVars == <<path, recorded, flock, fd, ident>>
stealVars == <<steal, stealFd>>

\* plain: a live command; force: the same with --force; steal: `lock steal`;
\* probe: any command that only looks (status, lock, the lock notice).
Mode == {"plain", "force", "steal", "probe"}

\* From the flock until its release a process is in one of these places.
Claiming == {"locked", "emptied", "written", "clearing"}
Session == {"session", "stopping"}

Place == {"idle", "look", "peeking", "start", "opened", "blocked", "asking",
          "stealing", "waiting", "done", "dead"} \cup Claiming \cup Session

Request == [target : Proc, by : Proc, expired : BOOLEAN]

TypeOK ==
    /\ pc \in [Proc -> Place]
    /\ mode \in [Proc -> Mode]
    /\ path \in Inode \cup {NoInode}
    /\ recorded \in [Inode -> Proc \cup {NoProc}]
    /\ flock \in [Inode -> Proc \cup {NoProc}]
    /\ fd \in [Proc -> Inode \cup {NoInode}]
    /\ ident \in [Proc -> Inode \cup {NoInode}]
    /\ steal \in SUBSET Request
    /\ stealFd \in SUBSET Proc
    /\ seen \in [Proc -> Proc \cup {NoProc}]

Init ==
    /\ pc = [p \in Proc |-> "idle"]
    /\ mode = [p \in Proc |-> "plain"]
    /\ path = NoInode
    /\ recorded = [i \in Inode |-> NoProc]
    /\ flock = [i \in Inode |-> NoProc]
    /\ fd = [p \in Proc |-> NoInode]
    /\ ident = [p \in Proc |-> NoInode]
    /\ steal = {}
    /\ stealFd = {}
    /\ seen = [p \in Proc |-> NoProc]

-----------------------------------------------------------------------------
(* Reading the two files *)

Alive(p) == pc[p] \notin {"idle", "done", "dead"}

Go(p, from, to) ==
    /\ pc[p] = from
    /\ pc' = [pc EXCEPT ![p] = to]

Held == path # NoInode /\ flock[path] # NoProc

\* read_holder: by path, so it may be another inode than the one p has open.
Holder == IF path = NoInode THEN NoProc ELSE recorded[path]

Actionable(r, p) ==
    /\ r.target = p
    /\ r.by # p
    /\ ~r.expired
    /\ Alive(r.by)

\* Mutants: the watchdog does not compare inodes / does not read requests.
LostIgnoresInode(p) ==
    \/ Holder \notin {p, NoProc}
    \/ \E r \in steal : Actionable(r, p)

LostIgnoresRequest(p) == path # ident[p] \/ Holder \notin {p, NoProc}

\* still_ours, negated: why the watchdog of p stops its session.
Lost(p) ==
    \/ path # ident[p]
    \/ Holder \notin {p, NoProc}
    \/ \E r \in steal : Actionable(r, p)

\* Closing the descriptor drops the flock it may have.
CloseFd(p) ==
    /\ flock' = [i \in Inode |-> IF flock[i] = p THEN NoProc ELSE flock[i]]
    /\ fd' = [fd EXCEPT ![p] = NoInode]
    /\ ident' = [ident EXCEPT ![p] = NoInode]
    /\ UNCHANGED <<path, recorded>>

ClearSteal ==
    /\ steal' = {}
    /\ stealFd' = {}

-----------------------------------------------------------------------------
(* lock_state: a look at the mutex that takes the flock for an instant *)

Launch(p) ==
    /\ pc[p] = "idle"
    /\ \E m \in Mode :
        /\ mode' = [mode EXCEPT ![p] = m]
        /\ pc' = [pc EXCEPT ![p] = IF m \in {"steal", "probe"} THEN "look" ELSE "start"]
    /\ UNCHANGED <<fileVars, stealVars, seen>>

\* Free because there is no file, or held: nothing to undo.
Look(p) ==
    /\ pc[p] = "look"
    /\ path = NoInode \/ Held
    /\ pc' = [pc EXCEPT ![p] = IF mode[p] = "steal" /\ Held THEN "start" ELSE "done"]
    /\ UNCHANGED <<mode, fileVars, stealVars, seen>>

\* A free flock is taken to find out that it is free.
Peek(p) ==
    /\ Go(p, "look", "peeking")
    /\ path # NoInode /\ ~Held
    /\ fd' = [fd EXCEPT ![p] = path]
    /\ flock' = [flock EXCEPT ![path] = p]
    /\ UNCHANGED <<mode, path, recorded, ident, stealVars, seen>>

Unpeek(p) ==
    /\ Go(p, "peeking", "done")
    /\ CloseFd(p)
    /\ UNCHANGED <<mode, stealVars, seen>>

-----------------------------------------------------------------------------
(* try_acquire *)

\* Mutant: the file is opened with O_TRUNC, before the flock is taken.
OpenTruncates(p) ==
    /\ Go(p, "start", "opened")
    /\ path' \in IF path # NoInode THEN {path}
                ELSE {i \in Inode : \A q \in Proc : fd[q] # i}
    /\ recorded' = [recorded EXCEPT ![path'] = NoProc]
    /\ fd' = [fd EXCEPT ![p] = path']
    /\ UNCHANGED <<mode, flock, ident, stealVars, seen>>

Open(p) ==
    /\ Go(p, "start", "opened")
    /\ IF path # NoInode
       THEN UNCHANGED <<path, recorded>>
       ELSE \E i \in {j \in Inode : \A q \in Proc : fd[q] # j} :
                /\ path' = i
                /\ recorded' = [recorded EXCEPT ![i] = NoProc]
    /\ fd' = [fd EXCEPT ![p] = path']
    /\ UNCHANGED <<mode, flock, ident, stealVars, seen>>

\* Mutant: a PID file instead of a flock, free when its writer is gone.
TryPidFile(p) ==
    /\ pc[p] \in {"opened", "waiting"}
    /\ recorded[fd[p]] \notin {q \in Proc : Alive(q)}
    /\ flock' = [flock EXCEPT ![fd[p]] = p]
    /\ pc' = [pc EXCEPT ![p] = "locked"]
    /\ UNCHANGED <<mode, path, recorded, fd, ident, stealVars, seen>>

\* _try_lock succeeds: at once, or at a later poll of _wait_for_lock.
TryLock(p) ==
    /\ pc[p] \in {"opened", "waiting"}
    /\ flock[fd[p]] = NoProc
    /\ flock' = [flock EXCEPT ![fd[p]] = p]
    /\ pc' = [pc EXCEPT ![p] = "locked"]
    /\ UNCHANGED <<mode, path, recorded, fd, ident, stealVars, seen>>

TryLockFails(p) ==
    /\ Go(p, "opened", "blocked")
    /\ flock[fd[p]] # NoProc
    /\ UNCHANGED <<mode, fileVars, stealVars, seen>>

\* Who holds it?  Without --force the answer is only for the message.
Refuse(p) ==
    /\ mode[p] = "plain"
    /\ Go(p, "blocked", "done")
    /\ CloseFd(p)
    /\ UNCHANGED <<mode, stealVars, seen>>

\* Mutants: an empty file is not told apart / the flock's owner is asked for.
ReadHolderBlind(p) ==
    /\ mode[p] # "plain"
    /\ Go(p, "blocked", "asking")
    /\ seen' = [seen EXCEPT ![p] = Holder]
    /\ UNCHANGED <<mode, fileVars, stealVars>>

ReadFlockOwner(p) ==
    /\ mode[p] # "plain"
    /\ Go(p, "blocked", "asking")
    /\ flock[fd[p]] # NoProc
    /\ seen' = [seen EXCEPT ![p] = flock[fd[p]]]
    /\ UNCHANGED <<mode, fileVars, stealVars>>

ReadHolder(p) ==
    /\ mode[p] # "plain"
    /\ Go(p, "blocked", IF Holder = NoProc THEN "waiting" ELSE "asking")
    /\ seen' = [seen EXCEPT ![p] = Holder]
    /\ UNCHANGED <<mode, fileVars, stealVars>>

\* write_steal opens with O_TRUNC, then writes: in between there is no request.
OpenSteal(p) ==
    /\ Go(p, "asking", "stealing")
    /\ steal' = {}
    /\ stealFd' = stealFd \cup {p}
    /\ UNCHANGED <<mode, fileVars, seen>>

WriteSteal(p) ==
    /\ Go(p, "stealing", "waiting")
    /\ steal' = IF p \in stealFd
                THEN {[target |-> seen[p], by |-> p, expired |-> FALSE]}
                ELSE steal
    /\ stealFd' = stealFd \ {p}
    /\ UNCHANGED <<mode, fileVars, seen>>

\* The wait is over and the last try failed: drop the request, whoever wrote it.
GiveUp(p) ==
    /\ Go(p, "waiting", "done")
    /\ flock[fd[p]] # NoProc
    /\ ClearSteal
    /\ CloseFd(p)
    /\ UNCHANGED <<mode, seen>>

-----------------------------------------------------------------------------
(* _claim *)

Truncate(p) ==
    /\ Go(p, "locked", "emptied")
    /\ recorded' = [recorded EXCEPT ![fd[p]] = NoProc]
    /\ UNCHANGED <<mode, path, flock, fd, ident, stealVars, seen>>

WritePid(p) ==
    /\ Go(p, "emptied", "written")
    /\ recorded' = [recorded EXCEPT ![fd[p]] = p]
    /\ ident' = [ident EXCEPT ![p] = fd[p]]
    /\ UNCHANGED <<mode, path, flock, fd, stealVars, seen>>

\* `lock steal` hands the lock straight back, a live command starts its session.
Claimed(p) == IF mode[p] = "steal" THEN "stopping" ELSE "session"

ReadSteal(p) ==
    /\ pc[p] = "written"
    /\ pc' = [pc EXCEPT ![p] =
                IF \E r \in steal : r.target # p THEN "clearing" ELSE Claimed(p)]
    /\ UNCHANGED <<mode, fileVars, stealVars, seen>>

ClearMoot(p) ==
    /\ Go(p, "clearing", Claimed(p))
    /\ ClearSteal
    /\ UNCHANGED <<mode, fileVars, seen>>

-----------------------------------------------------------------------------
(* The session and its end *)

\* The watchdog's check fires: SIGTERM to itself, the graceful shutdown starts.
StandDown(p) ==
    /\ p \notin Wedged
    /\ Lost(p)
    /\ Go(p, "session", "stopping")
    /\ UNCHANGED <<mode, fileVars, stealVars, seen>>

\* The work is done, or Ctrl-C, SIGTERM (`lock kill`) or SIGHUP ends it.
Stop(p) ==
    /\ Go(p, "session", "stopping")
    /\ UNCHANGED <<mode, fileVars, stealVars, seen>>

\* release: unlock and close.  The PID stays in the file.
Release(p) ==
    /\ Go(p, "stopping", "done")
    /\ CloseFd(p)
    /\ UNCHANGED <<mode, stealVars, seen>>

-----------------------------------------------------------------------------
(* The environment *)

\* SIGKILL, a power cut for one process: the kernel closes its descriptors.
Crash(p) ==
    /\ Alive(p)
    /\ pc' = [pc EXCEPT ![p] = "dead"]
    /\ CloseFd(p)
    /\ stealFd' = stealFd \ {p}
    /\ UNCHANGED <<mode, steal, seen>>

\* Somebody removes the lock file; open descriptors keep its inode.
RemoveLockFile ==
    /\ path # NoInode
    /\ path' = NoInode
    /\ UNCHANGED <<pc, mode, recorded, flock, fd, ident, stealVars, seen>>

\* STEAL_TTL_S passes since the request was written.
Expire ==
    /\ \E r \in steal : ~r.expired
    /\ steal' = {[r EXCEPT !.expired = TRUE] : r \in steal}
    /\ UNCHANGED <<pc, mode, fileVars, stealFd, seen>>

-----------------------------------------------------------------------------

Acquiring(p) ==
    \/ Launch(p) \/ Look(p) \/ Peek(p) \/ Unpeek(p)
    \/ Open(p) \/ TryLock(p) \/ TryLockFails(p) \/ Refuse(p) \/ ReadHolder(p)
    \/ OpenSteal(p) \/ WriteSteal(p) \/ GiveUp(p)

Claim(p) == Truncate(p) \/ WritePid(p) \/ ReadSteal(p) \/ ClearMoot(p)

Ending(p) == StandDown(p) \/ Stop(p) \/ Release(p)

Next ==
    \/ \E p \in Proc : Acquiring(p) \/ Claim(p) \/ Ending(p) \/ Crash(p)
    \/ RemoveLockFile
    \/ Expire

Spec == Init /\ [][Next]_vars

\* The watchdog thread polls for ever, a claim is straight-line code, and the
\* shutdown it starts runs to its end: each is a thread of a running process.
Fairness ==
    \A p \in Proc \ Wedged :
        /\ WF_vars(Claim(p))
        /\ WF_vars(StandDown(p))
        /\ WF_vars(Release(p))

FairSpec == Spec /\ Fairness

-----------------------------------------------------------------------------
(* Properties *)

Holds(p) == pc[p] \in Claiming \cup Session

\* Two sessions never both own the linked lock file: of two processes past the
\* flock, at most one has the inode that LOCK_FILE names.  The other was
\* overtaken by a removal of the file, and its watchdog will find out.
AtMostOneRightful ==
    \A p, q \in Proc :
        Holds(p) /\ Holds(q) /\ p # q => fd[p] # fd[q]

\* Whoever is in a session on the linked file is the PID that file records, so
\* `canair lock`, the contender's request and the watchdog of every other
\* process name the process that really has the connection.
RecordedHolder ==
    \A p \in Proc : pc[p] \in Session => recorded[fd[p]] = p

\* A request is aimed at a process that has written its PID under the flock:
\* a leftover request cannot abort a session that had not claimed the mutex
\* when the request was written (the promise of the module's docstring).
StealAimsAtAHolder ==
    \A r \in steal :
        pc[r.target] \in {"written", "clearing", "done", "dead"} \cup Session

\* The inductive invariant behind the four above: a descriptor is open exactly
\* while the code between open and close runs, the kernel's flock table and the
\* program counters agree, whoever wrote its PID is still the one recorded, and
\* every PID that is passed around was once written by a holder.
HasFlock == {"peeking"} \cup Claiming \cup Session
HasFd == {"opened", "blocked", "asking", "stealing", "waiting"} \cup HasFlock
HasRecord == {"written", "clearing"} \cup Session
Wrote == HasRecord \cup {"done", "dead"}

MutexInv ==
    /\ TypeOK
    /\ \A p \in Proc : pc[p] \in HasFd <=> fd[p] # NoInode
    /\ \A p \in Proc : pc[p] \in HasFlock => flock[fd[p]] = p
    /\ \A i \in Inode : flock[i] # NoProc =>
            pc[flock[i]] \in HasFlock /\ fd[flock[i]] = i
    /\ \A p \in Proc : pc[p] \in HasRecord => recorded[fd[p]] = p /\ ident[p] = fd[p]
    /\ \A p \in Proc : pc[p] \in {"asking", "stealing"} => seen[p] # NoProc
    /\ \A i \in Inode : recorded[i] # NoProc => pc[recorded[i]] \in Wrote
    /\ \A p \in Proc : seen[p] # NoProc => pc[seen[p]] \in Wrote
    /\ \A r \in steal : pc[r.target] \in Wrote

\* What the mutex is for.  The rightful user of the connection is the process
\* past the flock of the linked file, a stray is one past the flock of another.
Lease == INSTANCE ConnectionLease WITH
    holder <- IF path # NoInode /\ flock[path] # NoProc /\ Holds(flock[path])
              THEN flock[path] ELSE NoProc,
    stray <- {p \in Proc : Holds(p) /\ fd[p] # path}

\* The protocol of files implements the lease: a process becomes the rightful
\* user only when there is none, and no removal makes two of them.
ImplementsLease == Lease!Spec

\* Once its file is removed or replaced a session ends, with no help from the
\* process that took its place.
StraysLeave == Lease!StraysLeave

\* Asking works: a responsive session that somebody alive has asked to leave
\* leaves, unless the request is withdrawn, overwritten or expires first.
AskedLeaves ==
    \A p \in Proc \ Wedged :
        (pc[p] = "session" /\ \E r \in steal : Actionable(r, p))
            ~> (pc[p] # "session" \/ ~\E r \in steal : Actionable(r, p))
=============================================================================
