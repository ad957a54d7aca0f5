--------------------------- MODULE SessionKeeper ---------------------------
(***************************************************************************)
(* SessionManager over its SessionTable (transport/session_manager.py,     *)
(* transport/session_table.py): a command opens diagnostic sessions, reads *)
(* and switches them while the background task sends TesterPresent, and    *)
(* closes them.  The two tasks share one terminal, whose transactions are  *)
(* a lock granted in the order it was asked for.                           *)
(*                                                                         *)
(* Time passes in ticks of 0.5 s, and only while every task waits for      *)
(* something; an ECU falls back to its default session when it has heard   *)
(* no request for S3 ticks.  A request is heard at once and answered within *)
(* Delay ticks; a request or its answer may be lost and the link may fail.  *)
(* Most bounds how often each of these happens.                             *)
(***************************************************************************)
EXTENDS Naturals, FiniteSets, SequencesExt

CONSTANTS
    Steps,           \* the ECUs whose sessions the command opens, in order
    Mode,            \* the session types asked for
    S3,              \* the ECUs' session timer
    Interval,        \* KEEPALIVE_INTERVAL_S
    IdleLimit,       \* KEEPALIVE_IDLE_S, also the background task's threshold
    Delay,           \* the ticks an answer takes at most, from request to reply
    TimeoutOf,       \* TimeoutOf[request]: when the terminal gives up on it
    CloseLimit,      \* the caller's wait_for around close_all
    Most, MostAtAll  \* Most[b]: how often a bounded event happens, and all of them

VARIABLES
    tracked,     \* SessionTable._sessions, in the order they were opened
    mode,        \* _Session.mode: ecu -> session type or Unknown
    idle,        \* ticks since _Session.refreshed, up to IdleLimit + 1
    refusing,    \* _no_keepalive
    bg,          \* the background task
    linkError,   \* link_error is set
    phase,       \* where the command is
    job,         \* the command's exchange under way
    lock,        \* who holds the terminal, and who waits
    wire,        \* the request being answered
    limit,       \* what is left of CloseLimit
    session,     \* ECU: the session it is in, Default when it timed out
    s3,          \* ECU: what is left of its session timer
    late,        \* history: what exchanges took of the ECU's timer, up to Patience
    spent

vars == <<tracked, mode, idle, refusing, bg, linkError, phase, job, lock, wire,
          limit, session, s3, late, spent>>
table == <<tracked, mode, idle, refusing>>
ecus == <<session, s3, late>>

Default == "default"
Unknown == "unknown"
Bounded == {"refusal", "keepalive", "request", "answer", "broken", "again"}
Request == {"wake", "session", "read", "tester", "default"}

ASSUME KeeperAssumption ==
    /\ Steps \in Seq(Range(Steps)) /\ IsInjective(Steps)
    /\ Default \notin Mode /\ Unknown \notin Mode
    /\ \A n \in {S3, Interval, IdleLimit, Delay, CloseLimit} : n \in Nat
    /\ Most \in [Bounded -> Nat] /\ MostAtAll \in Nat
    /\ TimeoutOf \in [Request -> Nat] /\ \A q \in Request : Delay <= TimeoutOf[q]
    /\ S3 > 0

\* What an ECU's timer leaves for exchanges, next to the ticks a session may be idle
\* and not be stale and those the background task sleeps.
Patience == IF S3 > IdleLimit + Interval THEN S3 - (IdleLimit + Interval) ELSE 0

Ecu == Range(Steps)
NoJob == [step |-> "none"]
NoWire == [by |-> "none"]
Off == [pc |-> "off", left |-> 0, rest |-> <<>>]
Asleep == [pc |-> "sleep", left |-> Interval, rest |-> <<>>]
Max1(n) == IF n > 0 THEN n - 1 ELSE 0

TypeOK ==
    /\ tracked \in Seq(Ecu) /\ IsInjective(tracked)
    /\ mode \in [Ecu -> Mode \cup {Unknown}]
    /\ idle \in [Ecu -> 0..(IdleLimit + 1)]
    /\ refusing \subseteq Ecu
    /\ bg.pc \in {"off", "sleep", "round"} /\ bg.left \in 0..Interval /\ bg.rest \in Seq(Ecu)
    /\ linkError \in BOOLEAN
    /\ phase \in {"opening", "running", "closing", "closed"}
    /\ job = NoJob \/ (job.step \in Request /\ job.ecu \in Ecu /\ job.tries \in 1..2
                       /\ job.mode \in Mode \cup {Unknown} /\ job.inline \in Seq(Ecu))
    /\ lock \in Seq({"fg", "bg"}) /\ IsInjective(lock)
    /\ ("bg" \in Range(lock)) = (bg.pc = "round") /\ ("fg" \in Range(lock)) = (job # NoJob)
    /\ wire = NoWire \/ (lock # <<>> /\ wire.by = Head(lock))
    /\ limit \in 0..CloseLimit
    /\ session \in [Ecu -> Mode \cup {Default}]
    /\ s3 \in [Ecu -> 0..S3] /\ \A e \in Ecu : (s3[e] = 0) = (session[e] = Default)
    /\ late \in [Ecu -> 0..Patience]
    /\ spent \in [Bounded -> Nat]

Init ==
    /\ tracked = <<>> /\ mode = [e \in Ecu |-> Unknown] /\ idle = [e \in Ecu |-> 0]
    /\ refusing = {} /\ bg = Off /\ linkError = FALSE
    /\ phase = "opening" /\ job = NoJob /\ lock = <<>> /\ wire = NoWire /\ limit = 0
    /\ session = [e \in Ecu |-> Default] /\ s3 = [e \in Ecu |-> 0]
    /\ late = [e \in Ecu |-> 0] /\ spent = [f \in Bounded |-> 0]

\* The elements of s that are in S, in their order.
Among(s, S) ==
    LET f[i \in 0..Len(s)] == IF i = 0 THEN <<>>
                              ELSE IF s[i] \in S THEN Append(f[i - 1], s[i]) ELSE f[i - 1]
    IN  f[Len(s)]

Free == job = NoJob
SpentAtAll == FoldFunction(+, 0, spent)
Spend(b) ==
    /\ spent[b] < Most[b] /\ SpentAtAll < MostAtAll
    /\ spent' = [spent EXCEPT ![b] = @ + 1]
Has(e) == e \in Range(tracked)

----------------------------------------------------------------------------
(* The table. *)

\* SessionTable.stale, in tracking order.  _note_answers and mark_active both set
\* `refreshed' to the time of the last answer: idle counts from there.
Stale == {e \in Ecu : idle[e] > IdleLimit /\ e \notin refusing}
StaleList == Among(tracked, Stale)

TrackAgain(e) == Append(tracked, e)
Track(e) == IF Has(e) THEN tracked ELSE Append(tracked, e)

\* mark_active: nothing without a tracked session.
RefreshAll(e) == [f \in Ecu |-> 0]
Refresh(e) == IF Has(e) THEN [idle EXCEPT ![e] = 0] ELSE idle

\* An ECU whose session the table refreshes, or may mistake, without having heard it: of
\* its timer nothing can be said until it is heard again in the session it is held for.
Spoilt(e) == [late EXCEPT ![e] = Patience]

----------------------------------------------------------------------------
(* The command. *)

Start(step, e, m, inline) ==
    /\ job' = [step |-> step, ecu |-> e, mode |-> m, tries |-> 1, inline |-> inline]
    /\ lock' = Append(lock, "fg")

\* open_session of the next ECU, woken first or not.
Open ==
    /\ phase = "opening" /\ Free /\ Len(tracked) < Len(Steps)
    /\ \E m \in Mode, step \in {"wake", "session"} :
        Start(step, Steps[Len(tracked) + 1], m, <<>>)
    /\ UNCHANGED <<table, bg, linkError, phase, wire, limit, ecus, spent>>

\* start_background_keepalive, once every session is open.
StartBackground ==
    /\ phase = "opening" /\ Free /\ Len(tracked) = Len(Steps)
    /\ phase' = "running" /\ bg' = Asleep
    /\ UNCHANGED <<table, linkError, job, lock, wire, limit, ecus, spent>>

\* open_session with force: the type of a session is switched while it is kept.
Switch(e) ==
    /\ phase = "running" /\ Free /\ Has(e)
    /\ \E m \in Mode : Start("session", e, m, <<>>)
    /\ UNCHANGED <<table, bg, linkError, phase, wire, limit, ecus, spent>>

\* open_session of a tracked ECU without force: nothing is sent.
OpenAgain(e) ==
    /\ phase = "running" /\ Free /\ Has(e)
    /\ idle' = [idle EXCEPT ![e] = 0]
    /\ late' = Spoilt(e) /\ Spend("again")
    /\ UNCHANGED <<tracked, mode, refusing, bg, linkError, phase, job, lock, wire,
                   limit, session, s3>>

LeavingTheTask ==
    /\ idle' = [e \in Ecu |-> 0] /\ late' = late /\ bg' = bg /\ job' = NoJob
    /\ lock' = SelectSeq(lock, LAMBDA t : t = "bg")
    /\ wire' = IF wire.by = "bg" THEN wire ELSE NoWire
    /\ phase' = "closed" /\ UNCHANGED <<limit, tracked>>
\* What the callers do last: stop the task, and close the sessions or forget them.
\* From here on nobody asks how long a session was idle.
Leaving ==
    /\ idle' = [e \in Ecu |-> 0] /\ late' = [e \in Ecu |-> 0]
    /\ bg' = Off /\ lock' = <<>> /\ wire' = NoWire /\ job' = NoJob
    /\ \/ phase' = "closing" /\ limit' = CloseLimit /\ UNCHANGED tracked
       \/ phase' = "closed" /\ UNCHANGED limit /\ tracked' = <<>>

ReadUnaware(e) ==
    /\ phase = "running" /\ Free /\ Start("read", e, Unknown, StaleList)
    /\ UNCHANGED <<table, bg, linkError, phase, wire, limit, ecus, spent>>
\* keepalive_stale and a read.  link_error is raised before anything is sent.
Read(e) ==
    /\ phase = "running" /\ Free /\ ~linkError
    /\ Start("read", e, Unknown, StaleList)
    /\ UNCHANGED <<table, bg, linkError, phase, wire, limit, ecus, spent>>

ReadRaises ==
    /\ phase = "running" /\ Free /\ linkError /\ Leaving
    /\ UNCHANGED <<mode, refusing, linkError, session, s3, spent>>

Stop ==
    /\ phase = "running" /\ Free /\ Leaving
    /\ UNCHANGED <<mode, refusing, linkError, session, s3, spent>>

\* close_all, one session after the other.
CloseNext ==
    /\ phase = "closing" /\ Free
    /\ \/ /\ tracked # <<>> /\ Start("default", Head(tracked), Unknown, <<>>)
          /\ UNCHANGED phase
       \/ tracked = <<>> /\ phase' = "closed" /\ UNCHANGED <<job, lock>>
    /\ UNCHANGED <<table, bg, linkError, wire, limit, ecus, spent>>

\* The caller's wait_for expires.
CloseCut ==
    /\ phase = "closing" /\ limit = 0 /\ ~Free
    /\ phase' = "closed" /\ job' = NoJob /\ lock' = <<>> /\ wire' = NoWire
    /\ UNCHANGED <<table, bg, linkError, limit, ecus, spent>>

----------------------------------------------------------------------------
(* The background task. *)

Wakes ==
    /\ bg.pc = "sleep" /\ bg.left = 0
    /\ \/ linkError /\ bg' = Off /\ UNCHANGED lock
       \/ ~linkError /\ StaleList = <<>> /\ bg' = Asleep /\ UNCHANGED lock
       \/ /\ ~linkError /\ StaleList # <<>> /\ lock' = Append(lock, "bg")
          /\ bg' = [pc |-> "round", left |-> 0, rest |-> StaleList]
    /\ UNCHANGED <<table, linkError, phase, job, wire, limit, ecus, spent>>

----------------------------------------------------------------------------
(* The wire. *)

Step(t) ==
    CASE t = "bg" -> [req |-> "tester", ecu |-> Head(bg.rest)]
      [] t = "fg" /\ job.inline # <<>> -> [req |-> "tester", ecu |-> Head(job.inline)]
      [] OTHER -> [req |-> job.step, ecu |-> job.ecu]

\* What an ECU says, and the session it is in after it.
Verdicts(r) == CASE r.req = "session" -> {"ok", "nrc"}
                 [] r.req = "tester" /\ r.ecu \in refusing -> {"nrc"}
                 [] OTHER -> {"ok"}
After(r, verdict) ==
    CASE r.req = "session" /\ verdict = "ok" -> job.mode
      [] r.req \in {"wake", "default"} -> Default
      [] OTHER -> session[r.ecu]

Heard(r, verdict) ==
    /\ session' = [session EXCEPT ![r.ecu] = After(r, verdict)]
    /\ s3' = [s3 EXCEPT ![r.ecu] = IF After(r, verdict) = Default THEN 0 ELSE S3]
    /\ late' = IF After(r, verdict) = mode[r.ecu] \/ (r.req = "session" /\ verdict = "ok")
                 THEN [late EXCEPT ![r.ecu] = 0] ELSE late

\* Not counted against the bounds: the second silence of an ECU that is asked
\* twice, and silence at the end, when a session is closed.
Silent(b, r) ==
    IF r.req = "default" \/ (r.req # "tester" /\ job # NoJob /\ job.tries = 2)
    THEN UNCHANGED spent ELSE Spend(b)

Send ==
    /\ lock # <<>> /\ wire = NoWire
    /\ LET r == Step(Head(lock))
           Goes(left, verdict) == wire' = [by |-> Head(lock), ecu |-> r.ecu, req |-> r.req,
                                           left |-> left, verdict |-> verdict]
       IN \/ /\ \E v \in Verdicts(r), left \in 0..Delay : Heard(r, v) /\ Goes(left, v)
             /\ UNCHANGED spent
          \/ /\ r.req = "tester" /\ Spend("refusal")
             /\ Heard(r, "nrc") /\ Goes(0, "nrc")
          \/ /\ Silent("answer", r) /\ Goes(TimeoutOf[r.req], "none")
             /\ \E v \in Verdicts(r) : Heard(r, v)
          \/ /\ Silent(IF r.req = "tester" THEN "keepalive" ELSE "request", r)
             /\ Goes(TimeoutOf[r.req], "none") /\ UNCHANGED ecus
          \/ Spend("broken") /\ Goes(0, "broken") /\ UNCHANGED ecus
    /\ UNCHANGED <<table, bg, linkError, phase, job, lock, limit>>

Answered(by, reqs) == wire # NoWire /\ wire.left = 0 /\ wire.by = by /\ wire.req \in reqs
Leave(t) == wire' = NoWire /\ lock' = Tail(lock)

\* send_keepalive: refreshed whatever the reply.
Kept(e) ==
    /\ idle' = Refresh(e)
    /\ refusing' = IF wire.verdict = "nrc" THEN refusing \cup {e} ELSE refusing
    /\ late' = IF wire.verdict = "none" THEN Spoilt(e) ELSE late
    /\ UNCHANGED <<tracked, mode, linkError>>

BackgroundKept ==
    /\ Answered("bg", {"tester"})
    /\ \/ /\ wire.verdict # "broken" /\ Kept(wire.ecu) /\ wire' = NoWire
          /\ \/ Len(bg.rest) = 1 /\ bg' = Asleep /\ lock' = Tail(lock)
             \/ /\ Len(bg.rest) > 1 /\ bg' = [bg EXCEPT !.rest = Tail(@)]
                /\ lock' = Append(Tail(lock), "bg")
       \/ /\ wire.verdict = "broken" /\ linkError' = TRUE /\ bg' = Off /\ Leave("bg")
          /\ UNCHANGED <<table, late>>
    /\ UNCHANGED <<phase, job, limit, session, s3, spent>>

InlineKept ==
    /\ Answered("fg", {"tester"}) /\ wire.verdict # "broken" /\ Kept(wire.ecu)
    /\ wire' = NoWire /\ lock' = Append(Tail(lock), "fg")
    /\ job' = [job EXCEPT !.inline = Tail(@)]
    /\ UNCHANGED <<bg, phase, limit, session, s3, spent>>

\* _wake: 10 01, asked twice when the first draws no answer.
Woken ==
    /\ Answered("fg", {"wake"}) /\ wire.verdict # "broken"
    /\ wire' = NoWire
    /\ job' = IF wire.verdict = "ok" \/ job.tries = 2
              THEN [job EXCEPT !.step = "session", !.tries = 1] ELSE [job EXCEPT !.tries = 2]
    /\ UNCHANGED <<table, bg, linkError, phase, lock, limit, ecus, spent>>

\* _session_request, once more when nothing answers, and SessionTable.opened.
Opened ==
    /\ Answered("fg", {"session"}) /\ wire.verdict # "broken"
    /\ \/ /\ wire.verdict = "none" /\ job.tries = 1
          /\ job' = [job EXCEPT !.tries = 2] /\ wire' = NoWire
          /\ UNCHANGED <<lock, tracked, mode, idle, late>>
       \/ /\ ~(wire.verdict = "none" /\ job.tries = 1)
          /\ job' = NoJob /\ Leave("fg")
          /\ tracked' = Track(wire.ecu) /\ idle' = [idle EXCEPT ![wire.ecu] = 0]
          /\ mode' = IF wire.verdict = "ok" THEN [mode EXCEPT ![wire.ecu] = job.mode] ELSE mode
          /\ late' = IF wire.verdict = "none" \/ (wire.verdict # "ok" /\ job.tries = 2)
                       THEN Spoilt(wire.ecu) ELSE late
    /\ UNCHANGED <<refusing, bg, linkError, phase, limit, session, s3, spent>>

\* send_uds with one retry on silence.
ReadDone ==
    /\ Answered("fg", {"read"}) /\ wire.verdict # "broken"
    /\ \/ /\ wire.verdict = "none" /\ job.tries = 1
          /\ job' = [job EXCEPT !.tries = 2] /\ wire' = NoWire /\ UNCHANGED <<lock, idle>>
       \/ /\ ~(wire.verdict = "none" /\ job.tries = 1)
          /\ job' = NoJob /\ Leave("fg")
          /\ idle' = IF wire.verdict = "ok" THEN Refresh(wire.ecu) ELSE idle
    /\ UNCHANGED <<tracked, mode, refusing, bg, linkError, phase, limit, ecus, spent>>

\* A ConnectionError leaves the command, through the finally that stops the task.
Raised ==
    /\ Answered("fg", Request \ {"default"}) /\ wire.verdict = "broken" /\ Leaving
    /\ UNCHANGED <<mode, refusing, linkError, session, s3, spent>>

\* close_session: forgotten whatever the ECU says.
Closed ==
    /\ Answered("fg", {"default"}) /\ job' = NoJob /\ Leave("fg")
    /\ tracked' = Among(tracked, Ecu \ {wire.ecu})
    /\ mode' = [mode EXCEPT ![wire.ecu] = Unknown]
    /\ UNCHANGED <<idle, refusing, bg, linkError, phase, limit, ecus, spent>>

----------------------------------------------------------------------------
(* The clock: it runs while every task waits. *)

Waiting ==
    /\ wire # NoWire => wire.left > 0
    /\ lock # <<>> => wire # NoWire
    /\ bg.pc = "sleep" => bg.left > 0
    /\ phase \in {"opening", "closing"} => ~Free
    /\ phase = "closing" => limit > 0

\* A tick that is neither of the background task's sleep nor leaves the ECU idle: a
\* round waits for the terminal or uses it, or the ECU's own exchange is under way.
Late(e) == /\ session[e] # Default /\ e \notin refusing
           /\ \/ phase = "opening" \/ bg.pc = "round"
              \/ bg.pc = "sleep" /\ wire # NoWire /\ wire.ecu = e

Tick ==
    /\ Waiting
    /\ idle' = [e \in Ecu |-> IF (phase = "opening" \/ bg # Off) /\ Has(e) /\ idle[e] <= IdleLimit
                              THEN idle[e] + 1 ELSE idle[e]]
    /\ late' = [e \in Ecu |-> IF Late(e) /\ late[e] < Patience THEN late[e] + 1 ELSE late[e]]
    /\ s3' = [e \in Ecu |-> Max1(s3[e])]
    /\ session' = [e \in Ecu |-> IF s3[e] <= 1 THEN Default ELSE session[e]]
    /\ wire' = IF wire = NoWire THEN wire ELSE [wire EXCEPT !.left = @ - 1]
    /\ bg' = IF bg.pc = "sleep" THEN [bg EXCEPT !.left = @ - 1] ELSE bg
    /\ limit' = IF phase = "closing" THEN limit - 1 ELSE limit
    /\ UNCHANGED <<tracked, mode, refusing, linkError, phase, job, lock, spent>>

Exchange == Send \/ InlineKept \/ Woken \/ Opened \/ ReadDone \/ Raised \/ Closed
Work == Exchange \/ BackgroundKept \/ Wakes \/ Open \/ StartBackground \/ CloseNext \/ CloseCut
Poll == ReadRaises \/ \E e \in Ecu : Read(e)
Next == Tick \/ Work \/ Poll \/ Stop \/ \E e \in Ecu : Switch(e) \/ OpenAgain(e)

Spec == Init /\ [][Next]_vars

\* Time passes, the event loop runs its tasks and their exchanges end, and the
\* command polls: it comes back to a read whenever it is free often enough.
FairSpec == Spec /\ WF_vars(Tick) /\ WF_vars(Work) /\ SF_vars(Poll)

----------------------------------------------------------------------------
Switching(e) == job # NoJob /\ job.step = "session" /\ job.ecu = e

BelievedRightly(e) == mode[e] # Unknown /\ ~Switching(e) => session[e] = mode[e]
(* The mode the table records is the one the ECU is in, while the background
   task runs: every session is refreshed before its timer runs out, whatever the
   command reads, switches and has refreshed meanwhile and whatever is lost, as
   long as the rounds that it waited in and its own exchange have taken less of
   its timer than the idle limit and the sleep leave (1.5 s of 5 s).  Not for an ECU
   without TesterPresent, nor, until it is next heard, for one that the table takes
   to be refreshed though it did not answer (session_manager.py:376-380). *)
SessionsKept ==
    bg.pc # "off" =>
        \A e \in Range(tracked) \ refusing : late[e] < Patience => BelievedRightly(e)

(* One lost keepalive does not end the session (session_manager.py:58-59), even
   when nothing else is lost, refused or slow. *)
OneLossSurvived ==
    bg.pc # "off" /\ spent["keepalive"] = 1 /\ SpentAtAll = 1 =>
        \A e \in Range(tracked) : BelievedRightly(e)

(* Once the command has closed or forgotten its sessions nothing keeps an ECU in
   one: each returns to its default session, by 10 01 or by its own timer. *)
SessionsEnd == (phase = "closed") ~> (\A e \in Ecu : session[e] = Default)

(* A link that fails under the background task, whose error nobody awaits, ends
   the command all the same. *)
LinkErrorSurfaces == linkError ~> (phase \in {"closing", "closed"})
=============================================================================
