----------------------------- MODULE MonitorRun -----------------------------
(***************************************************************************)
(* A live monitor over the raw CAN client: the poll loop of the TUI        *)
(* (tui/apps/monitor/polling.py) or of a run without a terminal            *)
(* (live/monitor/run.py), the tick of MonitorController, the reconnector   *)
(* (live/monitor/reconnect.py) that re-homes a dropped session, and the    *)
(* link events (live/monitor/link_events.py) that a --save run writes to   *)
(* the journal of its current segment.                                     *)
(*                                                                         *)
(* The loop is one task; what the user does (pause, rotate the segment,    *)
(* stop) and what happens to the link come between any two of its awaits.  *)
(* A link that is `mute' carries requests and no answer; one that is       *)
(* `down' raises.                                                          *)
(***************************************************************************)
EXTENDS PollHealth

CONSTANTS
    Runs,            \* the kinds of run: a TUI or not, its schedule, recorded or not
    Candidate,       \* the devices the reconnector may turn to
    Forever,         \* ReconnectPolicy.forever: --wait
    SilentPolls,     \* ECU_SILENT_POLLS
    Overrun,         \* the longest a tick takes, in units of age
    MaxUser          \* bound: pauses, resumptions and rotations, together

VARIABLES
    tui,           \* which loop this is
    at,            \* where the loop is; "failed": an error left the run uncaught
    got,           \* the tick's requests and their outcome, "pending" until one is in
    disconnected, candidates,
    tried,         \* the reconnector was asked about the current drop
    paused, noted, \* the user's pause, and the one the loop has acted on
    stop,          \* the user, a signal or the lock watchdog asked the run to end
    open,          \* LinkEventTracker._open: the id of each open event, 0 when closed
    misses,        \* _ecu_misses, up to SilentPolls
    recording,     \* "off", "on", or "broken": the journal is closed for good
    written,       \* the events of the current journal that have no end yet
    link,          \* the link and the car: "up", "mute" or "down"
    user           \* what is left of MaxUser

loop_vars == <<tui, at, got, disconnected, candidates, tried>>
user_vars == <<paused, noted, stop, user>>
event_vars == <<open, misses, recording, written>>
vars == <<loop_vars, user_vars, event_vars, link, health_vars>>

DISCONNECT == <<"disconnect">>
PAUSED == <<"paused">>
Silent(e) == <<"ecu_silent", e>>
Slow(k) == <<"backoff", k>>
Event == {DISCONNECT, PAUSED} \cup {Silent(e) : e \in Ecu} \cup {Slow(k) : k \in Key}

ASSUME RunAssumption ==
    /\ Runs \subseteq [tui : BOOLEAN, schedule : {"fixed", "dynamic"}, save : BOOLEAN]
    /\ Forever \in BOOLEAN
    /\ IsFiniteSet(Candidate)
    /\ SilentPolls \in Nat \ {0} /\ Overrun \in Nat /\ MaxUser \in Nat

Reconnecting == {"probe", "setup"}
Over == at \in {"ended", "faulted", "failed"}

TypeOK ==
    /\ HealthTypeOK
    /\ tui \in BOOLEAN
    /\ at \in {"loop", "tick", "ended", "faulted", "failed"} \cup Reconnecting
    /\ DOMAIN got \subseteq Key /\ \A k \in DOMAIN got : got[k] \in Outcome \cup {"pending"}
    /\ {disconnected, tried, paused, noted, stop} \subseteq BOOLEAN
    /\ candidates \subseteq Candidate
    /\ open \in [Event -> 0..2] /\ misses \in [Ecu -> 0..SilentPolls]
    /\ recording \in {"off", "on", "broken"} /\ written \subseteq Event \X (1..2)
    /\ link \in {"up", "mute", "down"} /\ user \in 0..MaxUser

Idle == [k \in {} |-> "none"]

Init ==
    /\ HealthInit
    /\ \E r \in Runs : /\ tui = r.tui /\ schedule = r.schedule
                      /\ recording = IF r.save THEN "on" ELSE "off"
    /\ at = "loop" /\ got = Idle
    /\ disconnected = FALSE /\ candidates = Candidate /\ tried = FALSE
    /\ paused = FALSE /\ noted = FALSE /\ stop = FALSE /\ user = MaxUser
    /\ open = [v \in Event |-> 0] /\ misses = [e \in Ecu |-> 0]
    /\ written = {}
    /\ link = "up"

-----------------------------------------------------------------------------
(* Link events: what is open, and what the journal has of it *)

\* An id no event of the tracker or of the journal bears (the code counts up).
FreshId(v) == CHOOSE n \in 1..2 : n # open[v] /\ <<v, n>> \notin written

Ids(evs) == {<<v, open[v]>> : v \in evs}
Started(evs) == {<<v, FreshId(v)>> : v \in evs}

\* Close the open ones of `closing', then start `opening': each is one durable append,
\* dropped when the journal cannot take it.
Record(closing, opening) ==
    /\ open' = [v \in Event |-> IF v \in opening THEN FreshId(v)
                                ELSE IF v \in closing THEN 0 ELSE open[v]]
    /\ written' = IF recording = "on" THEN (written \ Ids(closing)) \cup Started(opening)
                                      ELSE written

-----------------------------------------------------------------------------
(* A lost link *)

LostAnew == {DISCONNECT}

\* LinkEventTracker.disconnected: opens once.
Lost == IF open[DISCONNECT] = 0 THEN {DISCONNECT} ELSE {}

\* _attempt_reconnect: the reconnector closes the dead client and probes, unless it has
\* nobody to turn to.
HandOver ==
    /\ at' = IF candidates = {} THEN "ended" ELSE "probe"
    /\ tried' = TRUE

-----------------------------------------------------------------------------
(* The tick: MonitorController.poll_once over MonitorRawPoller.poll *)

\* The wait for the next tick.  Between two slices of it the sessions are kept alive,
\* which is where a quiet link is found to be down.
Waits == at = "loop" /\ ~(tui /\ paused # noted) /\ (paused \/ ~TickDue)

Wait ==
    /\ Waits /\ ~paused /\ (tui \/ ~(stop \/ disconnected))
    /\ SleepUntilDue
    /\ UNCHANGED <<loop_vars, user_vars, event_vars, link>>

KeepAliveFails ==
    /\ Waits /\ (tui \/ ~stop) /\ ~disconnected /\ link = "down"
    /\ disconnected' = TRUE
    /\ Record({}, Lost)
    /\ UNCHANGED <<tui, at, got, candidates, tried, user_vars, misses, recording,
                   link, health_vars>>

NotePause ==
    /\ at = "loop" /\ tui /\ paused # noted
    /\ noted' = paused
    /\ IF paused THEN Record({}, IF open[PAUSED] = 0 THEN {PAUSED} ELSE {})
                 ELSE Record({PAUSED}, {})
    /\ UNCHANGED <<loop_vars, paused, stop, user, misses, recording, link, health_vars>>

StartTick ==
    /\ at = "loop" /\ TickDue
    /\ IF tui THEN paused = noted /\ ~paused ELSE ~stop /\ ~disconnected
    /\ BeginTick
    /\ got' = [k \in TakeDue |-> "pending"]
    /\ at' = "tick"
    /\ UNCHANGED <<tui, disconnected, candidates, tried, user_vars, event_vars, link>>

\* A request resolves.  An answer ends a disconnect and its ECU's silence.
Resolve(k) ==
    /\ at = "tick" /\ k \in DOMAIN got /\ got[k] = "pending" /\ link # "down"
    /\ \E outcome \in Outcome :
         /\ outcome # "none" => link = "up"
         /\ got' = [got EXCEPT ![k] = outcome]
         /\ IF outcome = "none" THEN UNCHANGED <<open, written>>
            ELSE Record({DISCONNECT, Silent(k[1])}, {})
    /\ UNCHANGED <<tui, at, disconnected, candidates, tried, user_vars, misses,
                   recording, link, health_vars>>

Resolved == {k \in DOMAIN got : got[k] # "pending"}
Answered == {k \in DOMAIN got : got[k] \in {"prompt", "slow"}}
Of(keys) == {k[1] : k \in keys}

\* A poll that went through, or that a signal interrupted: what is pending then has no
\* answer.  Then the link events of this tick's ECUs, the backoff, and the liveness check.
FinishTick ==
    LET due == DOMAIN got
        outcome == [k \in due |-> IF got[k] = "pending" THEN "none" ELSE got[k]]
        linkOk == Answered # {}
        miss == [e \in Ecu |-> IF e \in Of(Answered) THEN 0
                               ELSE IF e \in Of(due) /\ linkOk
                                 THEN Least(misses[e] + 1, SilentPolls) ELSE misses[e]]
        silent == {Silent(e) : e \in {e \in Of(due) \ Of(Answered) :
                                        linkOk /\ miss[e] = SilentPolls /\ open[Silent(e)] = 0}}
        factor == [k \in Key |-> Observed(outcome)[k].slowdown]
        stale == Stale(linkOk, Of(due))
    IN /\ at = "tick" /\ \A k \in due : got[k] = "pending" => (stop /\ ~tui)
       /\ link = "down" => Resolved = due
       /\ misses' = miss
       /\ ApplyBackoff(outcome, due)
       /\ CheckLiveness(linkOk, Of(due))
       /\ Record({Slow(k) : k \in Changed(outcome)},
                 silent \cup {Slow(k) : k \in {k \in Changed(outcome) : factor[k] > 1}}
                        \cup (IF stale THEN Lost ELSE {}))
       /\ disconnected' = ((disconnected \/ stale) /\ ~(stop /\ candidates = {}))
       /\ IF disconnected \/ stale THEN HandOver ELSE at' = "loop" /\ UNCHANGED tried
       /\ \E d \in 0..Overrun : age' = [k \in Key |-> age[k] + d]
       /\ got' = Idle
       /\ UNCHANGED <<tui, candidates, user_vars, recording, link, schedule, woken>>

\* The client's error comes out of the executor: the answers that were in are kept, and
\* no PID's cost is known.
FailTick ==
    LET polled == Of(Resolved) IN
    /\ at = "tick" /\ link = "down" /\ Resolved # DOMAIN got
    /\ HandOver /\ got' = Idle
    /\ disconnected' = ~(stop /\ candidates = {})
    /\ Record({}, Lost)
    /\ skip' = SkipAfter(DOMAIN got)
    /\ CheckLiveness(Answered # {}, polled)
    /\ UNCHANGED <<tui, candidates, user_vars, misses, recording, link, schedule, woken,
                   age, slowdown, health>>

-----------------------------------------------------------------------------
(* MonitorReconnector, and what the loops make of its answer *)

\* A reachable candidate that its firmware cannot serve is not asked again in this run.
\* (One that does not answer, or refuses the connection, is: nothing changes.)
Refuse ==
    /\ at = "probe" /\ ~stop
    /\ \E c \in candidates : candidates' = candidates \ {c}
    /\ at' = IF candidates' = {} THEN "ended" ELSE "probe"
    /\ UNCHANGED <<tui, got, disconnected, tried, user_vars, event_vars, link, health_vars>>

GiveUpByBudget ==
    /\ at = "probe" /\ ~Forever
    /\ at' = "ended"
    /\ disconnected' = ~stop
    /\ UNCHANGED <<tui, got, candidates, tried, user_vars, event_vars, link, health_vars>>

\* The user stopped (then it was no failure), or the retry budget is spent.
GiveUp ==
    /\ at = "probe" /\ (stop \/ ~Forever)
    /\ at' = "ended"
    /\ disconnected' = ~stop
    /\ UNCHANGED <<tui, got, candidates, tried, user_vars, event_vars, link, health_vars>>

RebindEndsGap ==
    /\ at = "probe"
    /\ disconnected' = FALSE /\ tried' = FALSE
    /\ link' \in {"up", "mute"}
    /\ ResetBackoff
    /\ Record({Slow(k) : k \in Slowed} \cup {DISCONNECT}, {})
    /\ at' = "setup"
    /\ UNCHANGED <<tui, got, candidates, user_vars, misses, recording>>

\* A candidate answers and connects: MonitorController.rebind, on a link that may be no
\* better than the old one.
Rebind ==
    /\ at = "probe"
    /\ disconnected' = FALSE /\ tried' = FALSE
    /\ link' \in {"up", "mute"}
    /\ ResetBackoff
    /\ Record({Slow(k) : k \in Slowed}, {})
    /\ at' = "setup"
    /\ UNCHANGED <<tui, got, candidates, user_vars, misses, recording>>

\* MonitorRawPoller.setup: the sessions are opened again, and an error of the link there
\* is nobody's to catch (reconnect.py:184, sessions.py:102).  A run without sessions, or
\* past them, has its warm-up reads' errors suppressed and goes on to poll.
Setup ==
    /\ at = "setup"
    /\ \/ at' = "loop"
       \/ link = "down" /\ at' = "failed"
    /\ UNCHANGED <<tui, got, disconnected, candidates, tried, user_vars, event_vars,
                   link, health_vars>>

LeaveAnyLoop ==
    /\ at = "loop" /\ (stop \/ disconnected)
    /\ at' = "ended"
    /\ UNCHANGED <<tui, got, disconnected, candidates, tried, user_vars, event_vars,
                   link, health_vars>>

\* The loop without a terminal is left, by a stop or because the link was lost.
Leave ==
    /\ at = "loop" /\ ~tui /\ (stop \/ disconnected)
    /\ at' = "ended"
    /\ UNCHANGED <<tui, got, disconnected, candidates, tried, user_vars, event_vars,
                   link, health_vars>>

\* An internal fault of the tick: the TUI stops itself and reports a disconnection.
\* (Where in the tick makes no difference to what remains.)
InternalFault ==
    /\ at = "tick" /\ Resolved = {}
    /\ at' = "faulted"
    /\ disconnected' = (disconnected \/ tui)
    /\ UNCHANGED <<tui, got, candidates, tried, user_vars, event_vars, link,
                   health_vars>>

\* The TUI exits: its poll worker is cancelled wherever it waits, in a reconnect before
\* or after that has seen the request.
WorkerCancelled ==
    /\ tui /\ stop /\ at \in Reconnecting
    /\ at' = "ended"
    /\ UNCHANGED <<tui, got, disconnected, candidates, tried, user_vars, event_vars,
                   link, health_vars>>

-----------------------------------------------------------------------------
(* The user and the link *)

Stop ==
    /\ ~Over /\ ~stop
    /\ stop' = TRUE
    /\ at' = IF tui /\ at \notin Reconnecting THEN "ended" ELSE at
    /\ UNCHANGED <<tui, got, disconnected, candidates, tried, paused, noted, user,
                   event_vars, link, health_vars>>

InTui == tui /\ ~Over /\ ~stop
Bounded == user > 0 /\ user' = user - 1

Pause ==
    /\ InTui
    /\ paused' = ~paused
    /\ IF paused THEN UNCHANGED user ELSE Bounded
    /\ UNCHANGED <<loop_vars, noted, stop, event_vars, link, health_vars>>

\* MonitorRecorder.new_segment: the old journal is reconciled, and the open events are
\* restated in the new one under new ids.  When it cannot be opened, the reconciled
\* journal stays in place and takes nothing more.  (With no event open, nothing changes.)
Rotate ==
    LET still == {v \in Event : open[v] # 0} IN
    /\ InTui /\ Bounded /\ recording # "off" /\ still # {}
    /\ \/ /\ recording' = "on"
          /\ open' = [v \in Event |-> IF v \in still THEN FreshId(v) ELSE 0]
          /\ written' = Started(still)
       \/ recording' = "broken" /\ written' = {} /\ UNCHANGED open
    /\ UNCHANGED <<loop_vars, paused, noted, stop, misses, link, health_vars>>

LinkChanges ==
    /\ at \in {"loop", "setup"} \/ (at = "tick" /\ Resolved # DOMAIN got)
    /\ link # "down" /\ link' \in {"up", "mute", "down"} \ {link}
    /\ at # "loop" => link' = "down"
    /\ UNCHANGED <<loop_vars, user_vars, event_vars, health_vars>>

Loop ==
    \/ Wait \/ KeepAliveFails \/ NotePause \/ StartTick \/ FinishTick \/ FailTick
    \/ GiveUp \/ Setup \/ Leave \/ InternalFault \/ WorkerCancelled
    \/ \E k \in Key : Resolve(k)

Next == Loop \/ Refuse \/ Rebind \/ Stop \/ Pause \/ Rotate \/ LinkChanges

Spec == Init /\ [][Next]_vars

\* The event loop runs a ready task, the client's calls come back, a retry budget is
\* spent at last and a TUI that exits cancels its workers.  A device need never return.
FairSpec == Spec /\ WF_vars(Loop)

-----------------------------------------------------------------------------
\* The three accounts of a slowed-down PID agree: the backoff's, the scheduler's and the
\* recording's link event.  A reconnect resets the first two, and must close the third
\* (health.py:132-152, backoff.py:135-142).
SlowdownsRecorded ==
    SlowdownsAgree /\ \A k \in Key : slowdown[k] > 1 <=> open[Slow(k)] # 0

\* Whatever is open now is open, under the same id, in the journal that is being
\* written: an end that refers to another segment's start would be lost, and so would
\* the part of a gap that a segment begins with (link_events.py:216-226).
EventsMirrored ==
    recording = "on" => written = Ids({v \in Event : open[v] # 0})

\* While the session is dropped a disconnect is on record, also when it drops again in
\* the set-up, where nobody marks it; and nothing but an ECU's answer ends it: neither
\* the reconnect, nor a pause, nor a new segment (link_events.py:8-12).
GapIsRecorded ==
    /\ []((disconnected /\ ~Over) \/ at = "failed" => open[DISCONNECT] # 0)
    /\ [][open[DISCONNECT] # 0 /\ open'[DISCONNECT] = 0
            => \E k \in DOMAIN got : got[k] = "pending" /\ got'[k] \in {"prompt", "slow"}]_vars

\* A run that nobody asked to stop and that the link ends, in a poll, in a keepalive or
\* in the opening of sessions, has asked the reconnector about that drop first
\* (run.py:59-61, link-health.md:27).  An internal fault is no drop.
DropsAreRehomed ==
    (at = "ended" /\ disconnected) \/ at = "failed" => stop \/ tried

\* The TUI's loop does so for a drop in a poll or in a keepalive.  It does not for one
\* in the opening of the sessions on a new link, whose error ends the run unasked.
TuiRehomesDrops == tui /\ at # "failed" => DropsAreRehomed

\* A link that is open and useless is handed to the reconnector (health.py:154-163).
HandedOver == Over \/ at \in Reconnecting
DeadLinkIsRehomed == link = "mute" ~> (link # "mute" \/ HandedOver \/ paused)
PerPidDeadLinkIsRehomed ==
    link = "mute" ~> (link # "mute" \/ HandedOver \/ paused \/ schedule = "fixed")

\* A PID that answers promptly from some point on gets its rate back, on either
\* schedule, however slow it had become (backoff.py:33-37).
Prompt == /\ at \in {"loop", "tick"} /\ ~paused /\ link = "up"
          /\ \A k \in DOMAIN got : got[k] \in {"pending", "prompt"}
RatesRecover == <>[]Prompt => <>[](\A k \in Key : slowdown[k] = 1)

\* A signal ends a run without a terminal wherever it is, also in a reconnect that
\* would wait for ever (run.py:40-48, reconnect.py:146).
StopEnds == stop /\ ~tui ~> Over
=============================================================================
