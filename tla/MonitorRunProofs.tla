-------------------------- MODULE MonitorRunProofs --------------------------
(***************************************************************************)
(* The safety properties of a monitor run, for every set of PIDs and of    *)
(* candidates, every threshold and any number of pauses and rotations.     *)
(*                                                                         *)
(* RunInv strengthens them by what they rest on: the journal holds exactly *)
(* the open events (so a fresh id exists and an end finds its start), and  *)
(* a dropped session that is still polling has a link that is down (so     *)
(* nothing can answer and end its gap), and the gap stays open from the    *)
(* hand-over to the first poll on a new link.                              *)
(***************************************************************************)
EXTENDS MonitorRun, TLAPS

-----------------------------------------------------------------------------
(* The slow-PID backoff: what each operation of the monitor's health does  *)
(* to the factors and to the rounds a PID sits out.  That a factor stays   *)
(* below the ceiling is not inductive by itself, since 2 * f may pass it:  *)
(* the factors are the doublings of 1, which end at it.                    *)

Factors == CHOOSE F \in SUBSET Factor : Doubling(F)

HealthInv ==
    /\ HealthTypeOK
    /\ \A k \in Key : health[k].slowdown \in Factors
    /\ SlowdownsAgree
    /\ SitsOutLessThanItsFactor

\* The factors are closed under the backoff's doubling and halving.
LEMMA FactorsDouble ==
    /\ MaxSlowdown \in Nat \ {0} /\ Factors \subseteq Factor
    /\ 1 \in Factors
    /\ \A f \in Factors : /\ f < MaxSlowdown => 2 * f \in Factors
                          /\ f > 1 => f \div 2 \in Factors
<1>1. \E F \in SUBSET Factor : Doubling(F)
  BY HealthAssumption
<1>2. Factors \in SUBSET Factor /\ Doubling(Factors)
  BY <1>1 DEF Factors
<1> QED
  BY <1>2, HealthAssumption DEF Doubling

\* PollBackoff.observe keeps a PID's record in range.
LEMMA ObserveInRange ==
    ASSUME NEW h \in Backoff, h.slowdown \in Factors, NEW outcome \in Outcome
    PROVE  Observe(h, outcome) \in Backoff /\ Observe(h, outcome).slowdown \in Factors
<1> USE FactorsDouble, HealthAssumption DEF Backoff, Factor
<1>0. /\ h.slowdown \in 1..MaxSlowdown /\ h.slow \in Nat /\ h.ok \in Nat
      /\ EscalateAfter \in Nat \ {0} /\ RecoverAfter \in Nat \ {0}
  OBVIOUS
<1>1. CASE outcome # "prompt" /\ h.slowdown = 1 /\ h.slow + 1 < EscalateAfter
  <2>1. Observe(h, outcome) = [h EXCEPT !.slow = h.slow + 1]
    BY <1>1 DEF Observe
  <2> QED
    BY <2>1, <1>1, <1>0
<1>2. CASE outcome # "prompt" /\ ~(h.slowdown = 1 /\ h.slow + 1 < EscalateAfter)
  <2>1. Observe(h, outcome) = [slowdown |-> Slower(h.slowdown), slow |-> 0, ok |-> 0]
    BY <1>2, <1>0 DEF Observe
  <2>2. Slower(h.slowdown) \in Factors
    BY <1>0 DEF Slower
  <2>3. Slower(h.slowdown) \in Factor
    BY <2>2, FactorsDouble
  <2>4. 0 \in 0..(EscalateAfter - 1) /\ 0 \in 0..(RecoverAfter - 1)
    BY <1>0
  <2> QED
    BY <2>1, <2>2, <2>3, <2>4
<1>3. CASE outcome = "prompt" /\ h.slowdown > 1 /\ h.ok + 1 < RecoverAfter
  <2>1. Observe(h, outcome) = [h EXCEPT !.ok = h.ok + 1]
    BY <1>3, <1>0 DEF Observe
  <2> QED
    BY <2>1, <1>3, <1>0
<1>4. CASE outcome = "prompt" /\ h.slowdown > 1 /\ h.ok + 1 >= RecoverAfter
  <2>1. Observe(h, outcome) = [slowdown |-> h.slowdown \div 2, slow |-> 0,
                               ok |-> IF h.slowdown = 2 THEN 0 ELSE h.ok]
    BY <1>4, <1>0 DEF Observe
  <2> QED
    BY <2>1, <1>4, <1>0
<1>5. CASE outcome = "prompt" /\ h.slowdown = 1
  <2>1. Observe(h, outcome) = Healthy
    BY <1>5, <1>0 DEF Observe
  <2> QED
    BY <2>1 DEF Healthy
<1> QED
  BY <1>0, <1>1, <1>2, <1>3, <1>4, <1>5

\* PollScheduler.set_slowdown: however the factor changes, the rounds that are left to
\* sit out stay below it.
LEMMA ShiftedBelowFactor ==
    ASSUME NEW left \in Nat, NEW old \in Nat \ {0}, NEW factor \in Nat \ {0}
    PROVE  Shifted(left, old, factor) \in Nat /\ Shifted(left, old, factor) < factor
BY DEF Shifted, Least

\* A round that has been read is sat out at most factor - 1 times.
LEMMA SkipAfterBelowFactor ==
    ASSUME HealthInv, NEW due
    PROVE  /\ SkipAfter(due) \in [Key -> Nat]
           /\ \A k \in Key : SkipAfter(due)[k] < slowdown[k]
BY DEF HealthInv, HealthTypeOK, SitsOutLessThanItsFactor, SkipAfter, Factor

\* A monitor starts healthy.
LEMMA HealthStarts == HealthInit => HealthInv
BY FactorsDouble, HealthAssumption
   DEF HealthInit, HealthInv, HealthTypeOK, SlowdownsAgree, SitsOutLessThanItsFactor,
       Backoff, Factor, Healthy

\* Starting a tick moves anchors and counts rounds down.
LEMMA BeginTickHealthy == HealthInv /\ BeginTick => HealthInv'
<1> SUFFICES ASSUME HealthInv, BeginTick PROVE HealthInv'
  OBVIOUS
<1>0. HealthTypeOK /\ Period \in [Key -> Nat \ {0}] /\ slowdown \in [Key -> Nat \ {0}]
  BY HealthAssumption DEF HealthInv, HealthTypeOK, Factor
<1>1. \A k \in Key : EffectivePeriod(k) \in Nat \ {0}
  <2> TAKE k \in Key
  <2>1. Period[k] \in Nat \ {0} /\ slowdown[k] \in Nat \ {0}
    BY <1>0
  <2>2. \A m, n \in Nat \ {0} : m * n \in Nat \ {0}
    OBVIOUS
  <2> QED
    BY <2>1, <2>2 DEF EffectivePeriod
<1>2. \A m \in Nat, n \in Nat \ {0} : m % n \in Nat
  OBVIOUS
<1>3. age' \in [Key -> Nat]
  BY <1>0, <1>1, <1>2 DEF BeginTick, HealthTypeOK
<1>4. skip' \in [Key -> Nat] /\ \A k \in Key : skip'[k] <= skip[k]
  BY <1>0 DEF BeginTick, HealthTypeOK
<1>5. UNCHANGED <<schedule, slowdown, health, unanswered>> /\ woken' \in BOOLEAN
  BY DEF BeginTick
<1>6. SitsOutLessThanItsFactor'
  BY <1>0, <1>4, <1>5 DEF HealthInv, HealthTypeOK, SitsOutLessThanItsFactor
<1> QED
  BY <1>0, <1>3, <1>4, <1>5, <1>6 DEF HealthInv, HealthTypeOK, SlowdownsAgree

\* Sleeping until the next PID is due changes nothing but the time.
LEMMA SleepHealthy == HealthInv /\ SleepUntilDue => HealthInv'
<1> SUFFICES ASSUME HealthInv, SleepUntilDue PROVE HealthInv'
  OBVIOUS
<1>0. HealthTypeOK /\ Period \in [Key -> Nat \ {0}] /\ slowdown \in [Key -> Nat \ {0}]
  BY HealthAssumption DEF HealthInv, HealthTypeOK, Factor
<1>1. \A k \in Key : EffectivePeriod(k) \in Nat
  <2> TAKE k \in Key
  <2>1. \A m, n \in Nat : m * n \in Nat
    OBVIOUS
  <2> QED
    BY <1>0, <2>1 DEF EffectivePeriod
<1>2. age' \in [Key -> Nat] /\ woken' \in BOOLEAN
  <2>1. CASE schedule = "fixed"
    BY <2>1, <1>0 DEF SleepUntilDue, HealthTypeOK
  <2>2. CASE schedule # "fixed"
    <3>1. \A k \in Key : ~(age[k] >= EffectivePeriod(k))
      BY <2>2, <1>0 DEF SleepUntilDue, TickDue, IsDue, HealthTypeOK
    <3>2. PICK k \in Key :
            age' = [j \in Key |-> age[j] + (EffectivePeriod(k) - age[k])]
      BY <2>2 DEF SleepUntilDue
    <3> QED
      BY <2>2, <3>1, <3>2, <1>0, <1>1 DEF SleepUntilDue, HealthTypeOK
  <2> QED
    BY <2>1, <2>2
<1> QED
  BY <1>0, <1>2
     DEF SleepUntilDue, HealthInv, HealthTypeOK, SlowdownsAgree, SitsOutLessThanItsFactor

\* The counts of the liveness check stay in range.
LEMMA LivenessInRange ==
    ASSUME HealthTypeOK, NEW answered \in BOOLEAN, NEW polled, CheckLiveness(answered, polled)
    PROVE  unanswered' \in [Ecu -> 0..StaleLimit]
<1>1. StaleLimit \in Nat \ {0}
  BY HealthAssumption
<1>2. \A n \in 0..StaleLimit : Least(n + 1, StaleLimit) \in 0..StaleLimit
  BY <1>1 DEF Least
<1>3. Unanswered(answered, polled) \in [Ecu -> 0..StaleLimit]
  BY <1>1, <1>2 DEF Unanswered, HealthTypeOK
<1> QED
  BY <1>1, <1>3 DEF CheckLiveness

\* MonitorHealth.apply_backoff over a finished tick: the scheduler follows the backoff.
LEMMA ApplyBackoffHealthy ==
    ASSUME HealthInv, NEW answers, NEW due,
           \A k \in DOMAIN answers : answers[k] \in Outcome,
           ApplyBackoff(answers, due)
    PROVE  /\ slowdown' \in [Key -> Factor] /\ skip' \in [Key -> Nat]
           /\ health' \in [Key -> Backoff]
           /\ \A k \in Key : health'[k].slowdown \in Factors
           /\ SlowdownsAgree' /\ SitsOutLessThanItsFactor'
           /\ \A k \in Key : slowdown'[k] = IF k \in Changed(answers)
                               THEN Observed(answers)[k].slowdown ELSE slowdown[k]
<1>0. HealthTypeOK /\ MaxSlowdown \in Nat \ {0} /\ Factors \subseteq Factor
  BY FactorsDouble DEF HealthInv
<1>1. /\ Observed(answers) \in [Key -> Backoff]
      /\ \A k \in Key : Observed(answers)[k].slowdown \in Factors
  <2> SUFFICES ASSUME NEW k \in Key
               PROVE /\ Observed(answers)[k] \in Backoff
                     /\ Observed(answers)[k].slowdown \in Factors
    BY DEF Observed
  <2>1. health[k] \in Backoff /\ health[k].slowdown \in Factors
    BY DEF HealthInv, HealthTypeOK
  <2> QED
    BY <2>1, ObserveInRange DEF Observed
<1>2. /\ health' = Observed(answers)
      /\ slowdown' = [k \in Key |-> IF k \in Changed(answers)
                                      THEN Observed(answers)[k].slowdown ELSE slowdown[k]]
  BY DEF ApplyBackoff
<1>3. SlowdownsAgree'
  BY <1>2 DEF HealthInv, SlowdownsAgree, Changed
<1>4. slowdown' \in [Key -> Factor]
  BY <1>0, <1>1, <1>2 DEF HealthTypeOK
<1>5. \A k \in Key : skip'[k] \in Nat /\ skip'[k] < slowdown'[k]
  <2> TAKE k \in Key
  <2>1. SkipAfter(due)[k] \in Nat /\ SkipAfter(due)[k] < slowdown[k]
    BY SkipAfterBelowFactor
  <2>2. slowdown[k] \in Nat \ {0} /\ Observed(answers)[k].slowdown \in Nat \ {0}
    <3>1. slowdown[k] \in Factor /\ Observed(answers)[k].slowdown \in Factor
      BY <1>0, <1>1 DEF HealthTypeOK
    <3> QED
      BY <3>1, <1>0 DEF Factor
  <2>3. CASE k \in Changed(answers)
    <3>1. skip'[k] = Shifted(SkipAfter(due)[k], slowdown[k], Observed(answers)[k].slowdown)
      BY <2>3 DEF ApplyBackoff
    <3> QED
      BY <3>1, <2>1, <2>2, <2>3, <1>2, ShiftedBelowFactor
  <2>4. CASE k \notin Changed(answers)
    BY <2>1, <2>4, <1>2 DEF ApplyBackoff
  <2> QED
    BY <2>3, <2>4
<1>6. skip' \in [Key -> Nat]
  BY <1>5 DEF ApplyBackoff
<1> QED
  BY <1>1, <1>2, <1>3, <1>4, <1>5, <1>6 DEF SitsOutLessThanItsFactor

\* MonitorHealth.reset_backoff leaves every PID at its own rate.
LEMMA ResetHealthy ==
    ASSUME HealthInv, ResetBackoff
    PROVE  HealthInv' /\ \A k \in Key : slowdown'[k] = 1
<1>0. HealthTypeOK
  BY FactorsDouble DEF HealthInv
<1>1. \A k \in Key : slowdown'[k] = 1 /\ (k \notin Slowed => skip[k] = 0)
  BY DEF ResetBackoff, Slowed, HealthInv, HealthTypeOK, SitsOutLessThanItsFactor, Factor
<1>2. slowdown' \in [Key -> Factor] /\ skip' \in [Key -> Nat]
      /\ \A k \in Key : skip'[k] = 0
  BY <1>0, <1>1, FactorsDouble DEF ResetBackoff, HealthTypeOK, Factor
<1>3. Healthy \in Backoff /\ Healthy.slowdown = 1
  BY FactorsDouble, HealthAssumption DEF Healthy, Backoff, Factor
<1> QED
  BY <1>0, <1>1, <1>2, <1>3, FactorsDouble
     DEF ResetBackoff, HealthInv, HealthTypeOK, SlowdownsAgree, SitsOutLessThanItsFactor

-----------------------------------------------------------------------------
(* The run *)

ControlInv ==
    /\ tui \in BOOLEAN /\ stop \in BOOLEAN /\ paused \in BOOLEAN /\ noted \in BOOLEAN
    /\ disconnected \in BOOLEAN /\ tried \in BOOLEAN
    /\ at \in {"loop", "tick", "ended", "faulted", "failed", "probe", "setup"}
    /\ DOMAIN got \subseteq Key /\ \A k \in DOMAIN got : got[k] \in Outcome \cup {"pending"}
    /\ candidates \subseteq Candidate
    /\ misses \in [Ecu -> 0..SilentPolls]
    /\ link \in {"up", "mute", "down"} /\ user \in 0..MaxUser

EventInv ==
    /\ open \in [Event -> 0..2] /\ recording \in {"off", "on", "broken"}
    /\ written = IF recording = "on" THEN Ids({v \in Event : open[v] # 0}) ELSE {}

SlowInv == \A k \in Key : slowdown[k] > 1 <=> open[Slow(k)] # 0

GapInv ==
    /\ disconnected /\ ~Over => open[DISCONNECT] # 0
    /\ disconnected /\ at \in {"loop", "tick", "setup"} => link = "down"
    /\ at \in {"probe", "setup", "failed"} => open[DISCONNECT] # 0

RunInv == HealthInv /\ ControlInv /\ EventInv /\ SlowInv /\ GapInv

\* A step that leaves an open disconnect open.
GapKept == open[DISCONNECT] # 0 => open'[DISCONNECT] # 0

-----------------------------------------------------------------------------
(* Events *)

\* The four kinds of event are different, and a slowed-down PID has one of its own.
LEMMA EventsDiffer ==
    /\ DISCONNECT \in Event /\ PAUSED \in Event /\ DISCONNECT # PAUSED
    /\ \A k \in Key : Slow(k) \in Event /\ Slow(k) # DISCONNECT /\ Slow(k) # PAUSED
    /\ \A e \in Ecu : Silent(e) \in Event /\ Silent(e) # DISCONNECT /\ Silent(e) # PAUSED
    /\ \A k \in Key, e \in Ecu : Slow(k) # Silent(e)
    /\ \A j, k \in Key : Slow(j) = Slow(k) => j = k
BY DEF DISCONNECT, PAUSED, Slow, Silent, Event

\* An id that neither the tracker nor the journal uses exists and is no zero.
LEMMA FreshIds ==
    ASSUME EventInv, NEW v \in Event
    PROVE  FreshId(v) \in 1..2
<1>1. \A n \in 1..2 : <<v, n>> \in written => n = open[v]
  BY DEF EventInv, Ids
<1>2. \E n \in 1..2 : n # open[v] /\ <<v, n>> \notin written
  <2>1. CASE open[v] = 1
    BY <2>1, <1>1
  <2>2. CASE open[v] # 1
    BY <2>2, <1>1
  <2> QED
    BY <2>1, <2>2
<1> QED
  BY <1>2 DEF FreshId

\* What a step that closes and opens events leaves open, and that the journal follows.
LEMMA Recording ==
    ASSUME EventInv, NEW closing, NEW opening,
           opening \subseteq Event, \A v \in opening : open[v] = 0 \/ v \in closing,
           closing \subseteq Event, Record(closing, opening), recording' = recording
    PROVE  /\ EventInv'
           /\ \A v \in Event : open'[v] # 0 <=> (v \in opening \/ (v \notin closing /\ open[v] # 0))
<1>0. open \in [Event -> 0..2] /\ recording \in {"off", "on", "broken"}
  BY DEF EventInv
<1>1. open' = [v \in Event |-> IF v \in opening THEN FreshId(v)
                               ELSE IF v \in closing THEN 0 ELSE open[v]]
  BY DEF Record
<1>2. \A v \in Event : FreshId(v) \in 1..2
  BY FreshIds
<1>3. open' \in [Event -> 0..2]
  BY <1>0, <1>1, <1>2
<1>4. \A v \in Event : open'[v] # 0 <=> (v \in opening \/ (v \notin closing /\ open[v] # 0))
  BY <1>1, <1>2
<1>5. recording = "on" => written' = {<<v, open'[v]>> : v \in {v \in Event : open'[v] # 0}}
  <2> SUFFICES ASSUME recording = "on"
               PROVE written' = {<<v, open'[v]>> : v \in {v \in Event : open'[v] # 0}}
    OBVIOUS
  <2>1. written = {<<v, open[v]>> : v \in {v \in Event : open[v] # 0}}
    BY DEF EventInv, Ids
  <2>2. written' = (written \ {<<v, open[v]>> : v \in closing})
                     \cup {<<v, FreshId(v)>> : v \in opening}
    BY DEF Record, Ids, Started
  <2>3. \A v \in opening : open'[v] = FreshId(v) /\ open'[v] # 0
    BY <1>1, <1>2
  <2>4. \A v \in Event : v \notin opening /\ open'[v] # 0 => v \notin closing /\ open'[v] = open[v]
    BY <1>1
  <2>5. \A v \in Event : open[v] # 0 /\ v \notin closing => v \notin opening /\ open'[v] = open[v]
    BY <1>1
  <2>6. ASSUME NEW w \in written'
        PROVE w \in {<<v, open'[v]>> : v \in {v \in Event : open'[v] # 0}}
    <3>1. CASE w \in {<<v, FreshId(v)>> : v \in opening}
      BY <3>1, <2>3
    <3>2. CASE w \in written /\ w \notin {<<v, open[v]>> : v \in closing}
      <4>1. PICK v \in Event : open[v] # 0 /\ w = <<v, open[v]>>
        BY <3>2, <2>1
      <4>2. v \notin closing
        BY <3>2, <4>1
      <4> QED
        BY <4>1, <4>2, <2>5
    <3> QED
      BY <2>2, <2>6, <3>1, <3>2
  <2>7. ASSUME NEW v \in Event, open'[v] # 0
        PROVE <<v, open'[v]>> \in written'
    <3>1. CASE v \in opening
      BY <3>1, <2>2, <2>3
    <3>2. CASE v \notin opening
      <4>1. v \notin closing /\ open'[v] = open[v] /\ open[v] # 0
        BY <3>2, <2>4, <2>7
      <4>2. \A u \in closing : <<u, open[u]>> # <<v, open[v]>>
        BY <4>1
      <4> QED
        BY <4>1, <4>2, <2>1, <2>2
    <3> QED
      BY <3>1, <3>2
  <2> QED
    BY <2>6, <2>7
<1>6. recording # "on" => written' = {}
  BY DEF Record, EventInv
<1> QED
  BY <1>0, <1>3, <1>4, <1>5, <1>6 DEF EventInv, Ids
\* A step that records nothing keeps the events, and one that reschedules nothing the
\* health.
LEMMA EventsKept == EventInv /\ UNCHANGED <<open, written, recording>> => EventInv' /\ GapKept
BY DEF EventInv, GapKept, Ids

\* What leaves the scheduler and the backoff alone keeps their accounts.
LEMMA HealthKept == HealthInv /\ UNCHANGED health_vars => HealthInv'
BY DEF HealthInv, HealthTypeOK, SlowdownsAgree, SitsOutLessThanItsFactor, health_vars

-----------------------------------------------------------------------------
(* The steps *)

\* The invariant holds at the start.
LEMMA Starts == Init => RunInv
<1> SUFFICES ASSUME Init PROVE RunInv
  OBVIOUS
<1>1. HealthInv
  BY HealthStarts DEF Init
<1>2. ControlInv
  <2>1. misses \in [Ecu -> 0..SilentPolls] /\ user \in 0..MaxUser
    BY RunAssumption DEF Init
  <2>2. DOMAIN got = {} /\ tui \in BOOLEAN
    BY RunAssumption DEF Init, Idle
  <2> QED
    BY <2>1, <2>2 DEF Init, ControlInv
<1>3. EventInv
  <2>1. Ids({v \in Event : open[v] # 0}) = {}
    BY DEF Init, Ids
  <2> QED
    BY <2>1 DEF Init, EventInv
<1>4. SlowInv
  BY EventsDiffer DEF Init, HealthInit, SlowInv
<1> QED
  BY <1>1, <1>2, <1>3, <1>4 DEF RunInv, GapInv, Init

\* The steps of the loop, the user and the link that record nothing.
LEMMA PlainSteps ==
    ASSUME RunInv, Wait \/ StartTick \/ Refuse \/ GiveUp \/ Setup \/ Leave \/ InternalFault
                   \/ WorkerCancelled \/ Stop \/ Pause \/ LinkChanges
    PROVE  RunInv' /\ GapKept
<1> USE DEF RunInv
<1>1. UNCHANGED <<open, written, recording>>
  BY DEF Wait, StartTick, Refuse, GiveUp, Setup, Leave, InternalFault, WorkerCancelled,
         Stop, Pause, LinkChanges, event_vars
<1>2. EventInv' /\ GapKept
  BY <1>1, EventsKept
<1>3. HealthInv'
  BY HealthKept, SleepHealthy, BeginTickHealthy
     DEF Wait, StartTick, Refuse, GiveUp, Setup, Leave, InternalFault, WorkerCancelled,
         Stop, Pause, LinkChanges
<1>4. UNCHANGED slowdown
  BY DEF Wait, StartTick, Refuse, GiveUp, Setup, Leave, InternalFault, WorkerCancelled,
         Stop, Pause, LinkChanges, health_vars, SleepUntilDue, BeginTick
<1>5. SlowInv'
  BY <1>1, <1>4 DEF SlowInv
<1>6. ControlInv'
  <2> USE DEF ControlInv, loop_vars, user_vars, event_vars
  <2>1. CASE Wait
    BY <2>1 DEF Wait
  <2>2. CASE StartTick
    <3>1. TakeDue \subseteq Key
      BY DEF TakeDue
    <3> QED
      BY <2>2, <3>1 DEF StartTick
  <2>3. CASE Refuse \/ GiveUp \/ Setup \/ Leave
    BY <2>3 DEF Refuse, GiveUp, Setup, Leave
  <2>4. CASE InternalFault \/ WorkerCancelled \/ Stop
    BY <2>4 DEF InternalFault, WorkerCancelled, Stop
  <2>5. CASE Pause
    BY <2>5, RunAssumption DEF Pause, Bounded
  <2>6. CASE LinkChanges
    BY <2>6 DEF LinkChanges
  <2> QED
    BY <2>1, <2>2, <2>3, <2>4, <2>5, <2>6
<1>7. GapInv'
  <2> USE <1>1 DEF GapInv, ControlInv, Over, loop_vars, user_vars
  <2>1. CASE Wait \/ StartTick \/ Refuse \/ GiveUp
    BY <2>1 DEF Wait, StartTick, Refuse, GiveUp
  <2>2. CASE Setup \/ Leave \/ InternalFault
    BY <2>2 DEF Setup, Leave, InternalFault
  <2>3. CASE WorkerCancelled \/ Stop \/ Pause \/ LinkChanges
    BY <2>3 DEF WorkerCancelled, Stop, Pause, LinkChanges
  <2> QED
    BY <2>1, <2>2, <2>3
<1> QED
  BY <1>2, <1>3, <1>5, <1>6, <1>7

\* A keepalive that finds the link down opens the gap.
LEMMA KeepAliveStep == RunInv /\ KeepAliveFails => RunInv' /\ GapKept
<1> SUFFICES ASSUME RunInv, KeepAliveFails PROVE RunInv' /\ GapKept
  OBVIOUS
<1> USE DEF RunInv
<1>1. /\ EventInv'
      /\ \A v \in Event : open'[v] # 0 <=> (v = DISCONNECT \/ open[v] # 0)
  <2>1. /\ Lost \subseteq Event /\ \A v \in Lost : open[v] = 0 \/ v \in {}
        /\ Record({}, Lost) /\ recording' = recording
    BY EventsDiffer DEF KeepAliveFails, Lost
  <2>2. /\ EventInv'
        /\ \A v \in Event : open'[v] # 0 <=> (v \in Lost \/ (v \notin {} /\ open[v] # 0))
    BY <2>1, Recording
  <2> QED
    BY <2>2 DEF Lost
<1>2. HealthInv' /\ UNCHANGED slowdown
  BY HealthKept DEF KeepAliveFails, health_vars
<1>3. ControlInv'
  BY DEF KeepAliveFails, ControlInv, user_vars
<1>4. SlowInv' /\ GapKept
  BY <1>1, <1>2, EventsDiffer DEF SlowInv, GapKept
<1>5. GapInv'
  BY <1>1, EventsDiffer DEF GapInv, KeepAliveFails
<1> QED
  BY <1>1, <1>2, <1>3, <1>4, <1>5

\* A pause is on record from the loop's noting it to its noting the end.
LEMMA NotePauseStep == RunInv /\ NotePause => RunInv' /\ GapKept
<1> SUFFICES ASSUME RunInv, NotePause PROVE RunInv' /\ GapKept
  OBVIOUS
<1> USE DEF RunInv
<1>1. /\ EventInv'
      /\ \A v \in Event : v # PAUSED => (open'[v] # 0 <=> open[v] # 0)
  <2>1. CASE paused
    <3> DEFINE opening == IF open[PAUSED] = 0 THEN {PAUSED} ELSE {}
    <3>1. /\ opening \subseteq Event /\ \A v \in opening : open[v] = 0 \/ v \in {}
          /\ Record({}, opening) /\ recording' = recording
      BY <2>1, EventsDiffer DEF NotePause
    <3>2. /\ EventInv'
          /\ \A v \in Event : open'[v] # 0 <=> (v \in opening \/ (v \notin {} /\ open[v] # 0))
      BY <3>1, Recording
    <3> QED
      BY <3>2
  <2>2. CASE ~paused
    <3>1. Record({PAUSED}, {}) /\ recording' = recording
      BY <2>2 DEF NotePause
    <3>2. /\ EventInv'
          /\ \A v \in Event : open'[v] # 0 <=> (v \in {} \/ (v \notin {PAUSED} /\ open[v] # 0))
      BY <3>1, Recording, EventsDiffer
    <3> QED
      BY <3>2
  <2> QED
    BY <2>1, <2>2
<1>2. HealthInv' /\ UNCHANGED slowdown
  BY HealthKept DEF NotePause, health_vars
<1>3. ControlInv'
  BY DEF NotePause, ControlInv, loop_vars
<1>4. SlowInv' /\ GapKept
  BY <1>1, <1>2, EventsDiffer DEF SlowInv, GapKept
<1>5. GapInv'
  BY <1>1, EventsDiffer DEF GapInv, NotePause, loop_vars, Over
<1> QED
  BY <1>1, <1>2, <1>3, <1>4, <1>5

\* An answer ends a gap, and comes only over a link that is not down.
LEMMA ResolveStep ==
    ASSUME RunInv, NEW k \in Key, Resolve(k)
    PROVE  /\ RunInv'
           /\ GapKept \/ (k \in DOMAIN got /\ got[k] = "pending" /\ got'[k] \in {"prompt", "slow"})
<1> USE DEF RunInv
<1>0. Silent(k[1]) \in Event
  BY EventsDiffer DEF Ecu
<1>1. PICK outcome \in Outcome :
        /\ got' = [got EXCEPT ![k] = outcome]
        /\ IF outcome = "none" THEN UNCHANGED <<open, written>>
           ELSE Record({DISCONNECT, Silent(k[1])}, {})
  BY DEF Resolve
<1>2. /\ EventInv'
      /\ \A v \in Event : v \notin {DISCONNECT, Silent(k[1])} => (open'[v] # 0 <=> open[v] # 0)
      /\ outcome = "none" => GapKept
  <2>1. CASE outcome = "none"
    BY <2>1, <1>1, EventsKept DEF Resolve
  <2>2. CASE outcome # "none"
    <3>1. Record({DISCONNECT, Silent(k[1])}, {}) /\ recording' = recording
      BY <2>2, <1>1 DEF Resolve
    <3>2. /\ EventInv'
          /\ \A v \in Event : open'[v] # 0
               <=> (v \in {} \/ (v \notin {DISCONNECT, Silent(k[1])} /\ open[v] # 0))
      BY <3>1, <1>0, Recording, EventsDiffer
    <3> QED
      BY <2>2, <3>2
  <2> QED
    BY <2>1, <2>2
<1>3. HealthInv' /\ UNCHANGED slowdown
  BY HealthKept DEF Resolve, health_vars
<1>4. ControlInv'
  BY <1>1 DEF Resolve, ControlInv, user_vars
<1>5. SlowInv'
  BY <1>2, <1>3, EventsDiffer DEF SlowInv, Ecu
<1>6. GapInv'
  BY DEF GapInv, Resolve, Over
<1>7. GapKept \/ (k \in DOMAIN got /\ got[k] = "pending" /\ got'[k] \in {"prompt", "slow"})
  BY <1>1, <1>2 DEF Resolve, Outcome
<1> QED
  BY <1>2, <1>3, <1>4, <1>5, <1>6, <1>7

-----------------------------------------------------------------------------
(* The end of a tick *)

\* A tick that went through: the answers, the backoff and the liveness check.
LEMMA FinishTickStep == RunInv /\ FinishTick => RunInv' /\ GapKept
<1> SUFFICES ASSUME RunInv, FinishTick PROVE RunInv' /\ GapKept
  OBVIOUS
<1> USE DEF RunInv
<1> DEFINE due == DOMAIN got
           outcome == [k \in due |-> IF got[k] = "pending" THEN "none" ELSE got[k]]
           linkOk == Answered # {}
           miss == [e \in Ecu |-> IF e \in Of(Answered) THEN 0
                                  ELSE IF e \in Of(due) /\ linkOk
                                    THEN Least(misses[e] + 1, SilentPolls) ELSE misses[e]]
           silent == {Silent(e) : e \in {e \in Of(due) \ Of(Answered) :
                                           linkOk /\ miss[e] = SilentPolls /\ open[Silent(e)] = 0}}
           factor == [k \in Key |-> Observed(outcome)[k].slowdown]
           stale == Stale(linkOk, Of(due))
           closing == {Slow(k) : k \in Changed(outcome)}
           opening == silent \cup {Slow(k) : k \in {k \in Changed(outcome) : factor[k] > 1}}
                             \cup (IF stale THEN Lost ELSE {})
<1>1. /\ at = "tick" /\ misses' = miss /\ ApplyBackoff(outcome, due)
      /\ CheckLiveness(linkOk, Of(due)) /\ Record(closing, opening)
      /\ disconnected' = ((disconnected \/ stale) /\ ~(stop /\ candidates = {}))
      /\ IF disconnected \/ stale THEN HandOver ELSE at' = "loop" /\ UNCHANGED tried
      /\ \E d \in 0..Overrun : age' = [k \in Key |-> age[k] + d]
      /\ got' = Idle
      /\ UNCHANGED <<tui, candidates, user_vars, recording, link, schedule, woken>>
  BY DEF FinishTick
<1> HIDE DEF miss, silent, factor, stale, closing, opening, linkOk, outcome
<1>2. \A k \in DOMAIN outcome : outcome[k] \in Outcome
  BY DEF outcome, ControlInv, Outcome
<1>3. linkOk \in BOOLEAN /\ stale \in BOOLEAN
  BY DEF linkOk, stale, Stale
<1>4. Changed(outcome) \subseteq Key /\ Of(due) \subseteq Ecu
  BY DEF Changed, Of, Ecu, ControlInv
<1>5. /\ slowdown' \in [Key -> Factor] /\ skip' \in [Key -> Nat] /\ health' \in [Key -> Backoff]
      /\ \A k \in Key : health'[k].slowdown \in Factors
      /\ SlowdownsAgree' /\ SitsOutLessThanItsFactor'
      /\ \A k \in Key : slowdown'[k] = IF k \in Changed(outcome) THEN factor[k] ELSE slowdown[k]
  BY <1>1, <1>2, ApplyBackoffHealthy DEF factor
<1>6. HealthInv'
  <2>1. age' \in [Key -> Nat]
    BY <1>1, RunAssumption DEF HealthInv, HealthTypeOK
  <2>2. unanswered' \in [Ecu -> 0..StaleLimit]
    BY <1>1, <1>3, LivenessInRange DEF HealthInv
  <2> QED
    BY <1>1, <1>5, <2>1, <2>2 DEF HealthInv, HealthTypeOK
<1>7. /\ opening \subseteq Event /\ closing \subseteq Event
      /\ \A v \in opening : open[v] = 0 \/ v \in closing
      /\ \A k \in Key : Slow(k) \in opening <=> k \in Changed(outcome) /\ factor[k] > 1
      /\ \A k \in Key : Slow(k) \in closing <=> k \in Changed(outcome)
      /\ DISCONNECT \notin closing
      /\ stale /\ open[DISCONNECT] = 0 => DISCONNECT \in opening
  <2>1. /\ silent \subseteq Event /\ \A v \in silent : open[v] = 0
        /\ \A k \in Key : Slow(k) \notin silent
    BY <1>4, EventsDiffer DEF silent
  <2>2. /\ Lost \subseteq Event /\ \A v \in Lost : open[v] = 0
        /\ \A k \in Key : Slow(k) \notin Lost
    BY EventsDiffer DEF Lost
  <2>3. \A k \in Key : Slow(k) \in closing <=> k \in Changed(outcome)
    BY <1>4, EventsDiffer DEF closing
  <2>4. closing \subseteq Event /\ DISCONNECT \notin closing
    BY <1>4, EventsDiffer DEF closing
  <2> QED
    BY <1>4, <2>1, <2>2, <2>3, <2>4, EventsDiffer DEF opening, closing, Lost
<1>8. /\ EventInv'
      /\ \A v \in Event : open'[v] # 0 <=> (v \in opening \/ (v \notin closing /\ open[v] # 0))
  BY <1>1, <1>7, Recording
<1>9. SlowInv' /\ GapKept
  BY <1>5, <1>7, <1>8, EventsDiffer DEF SlowInv, GapKept
<1>10. ControlInv'
  <2>1. miss \in [Ecu -> 0..SilentPolls]
    BY RunAssumption DEF miss, ControlInv, Least
  <2> QED
    BY <1>1, <1>3, <2>1 DEF ControlInv, HandOver, Idle, user_vars
<1>11. GapInv'
  <2>1. CASE disconnected \/ stale
    <3>1. open'[DISCONNECT] # 0
      BY <2>1, <1>1, <1>7, <1>8, EventsDiffer DEF GapInv, Over
    <3>2. at' \in {"ended", "probe"}
      BY <2>1, <1>1 DEF HandOver
    <3> QED
      BY <3>1, <3>2 DEF GapInv
  <2>2. CASE ~(disconnected \/ stale)
    <3>1. at' = "loop" /\ ~disconnected'
      BY <2>2, <1>1
    <3> QED
      BY <3>1 DEF GapInv
  <2> QED
    BY <2>1, <2>2
<1> QED
  BY <1>6, <1>8, <1>9, <1>10, <1>11

\* A tick that failed opens a gap and changes no rate.
LEMMA FailTickStep == RunInv /\ FailTick => RunInv' /\ GapKept
<1> SUFFICES ASSUME RunInv, FailTick PROVE RunInv' /\ GapKept
  OBVIOUS
<1> USE DEF RunInv
<1>1. /\ EventInv'
      /\ \A v \in Event : open'[v] # 0 <=> (v = DISCONNECT \/ open[v] # 0)
  <2>1. /\ Lost \subseteq Event /\ \A v \in Lost : open[v] = 0 \/ v \in {}
        /\ Record({}, Lost) /\ recording' = recording
    BY EventsDiffer DEF FailTick, Lost
  <2>2. /\ EventInv'
        /\ \A v \in Event : open'[v] # 0 <=> (v \in Lost \/ (v \notin {} /\ open[v] # 0))
    BY <2>1, Recording
  <2> QED
    BY <2>2 DEF Lost
<1>2. UNCHANGED <<schedule, woken, age, slowdown, health>> /\ skip' = SkipAfter(DOMAIN got)
  BY DEF FailTick
<1>3. HealthInv'
  <2>1. unanswered' \in [Ecu -> 0..StaleLimit]
    BY LivenessInRange DEF FailTick, HealthInv
  <2>2. skip' \in [Key -> Nat] /\ \A k \in Key : skip'[k] < slowdown'[k]
    BY <1>2, SkipAfterBelowFactor
  <2> QED
    BY <1>2, <2>1, <2>2 DEF HealthInv, HealthTypeOK, SlowdownsAgree, SitsOutLessThanItsFactor
<1>4. ControlInv'
  BY DEF FailTick, ControlInv, HandOver, Idle, user_vars
<1>5. SlowInv' /\ GapKept
  BY <1>1, <1>2, EventsDiffer DEF SlowInv, GapKept
<1>6. GapInv'
  BY <1>1, EventsDiffer DEF GapInv, FailTick, HandOver
<1> QED
  BY <1>1, <1>3, <1>4, <1>5, <1>6

\* A new client starts every PID at its own rate, and says so in the recording.
LEMMA RebindStep == RunInv /\ Rebind => RunInv' /\ GapKept
<1> SUFFICES ASSUME RunInv, Rebind PROVE RunInv' /\ GapKept
  OBVIOUS
<1> USE DEF RunInv
<1> DEFINE closing == {Slow(k) : k \in Slowed}
<1>1. closing \subseteq Event /\ DISCONNECT \notin closing
  BY EventsDiffer DEF Slowed
<1>2. Record(closing, {}) /\ recording' = recording
  BY DEF Rebind
<1>3. /\ EventInv'
      /\ \A v \in Event : open'[v] # 0 <=> (v \in {} \/ (v \notin closing /\ open[v] # 0))
  <2> HIDE DEF closing
  <2> QED
    BY <1>1, <1>2, Recording
<1>4. HealthInv' /\ \A k \in Key : slowdown'[k] = 1
  BY ResetHealthy DEF Rebind
<1>5. SlowInv'
  <2>1. \A k \in Key : slowdown[k] > 1 => Slow(k) \in closing
    BY DEF Slowed
  <2> QED
    BY <1>3, <1>4, <2>1, EventsDiffer DEF SlowInv
<1>6. ControlInv'
  BY DEF Rebind, ControlInv, user_vars
<1>7. GapKept
  BY <1>1, <1>3, EventsDiffer DEF GapKept
<1>8. GapInv'
  <2>1. open'[DISCONNECT] # 0 /\ ~disconnected'
    BY <1>7 DEF Rebind, GapInv, GapKept
  <2> QED
    BY <2>1 DEF GapInv
<1> QED
  BY <1>3, <1>4, <1>5, <1>6, <1>7, <1>8

\* A new segment restates what is open, or the journal stays closed.
LEMMA RotateStep == RunInv /\ Rotate => RunInv' /\ GapKept
<1> SUFFICES ASSUME RunInv, Rotate PROVE RunInv' /\ GapKept
  OBVIOUS
<1> USE DEF RunInv
<1> DEFINE still == {v \in Event : open[v] # 0}
<1>1. \A v \in Event : FreshId(v) \in 1..2
  BY FreshIds
<1>2. EventInv' /\ \A v \in Event : open'[v] # 0 <=> open[v] # 0
  <2>1. CASE recording' = "on" /\ open' = [v \in Event |-> IF v \in still THEN FreshId(v) ELSE 0]
             /\ written' = Started(still)
    <3>1. open' \in [Event -> 0..2] /\ \A v \in Event : open'[v] # 0 <=> open[v] # 0
      BY <2>1, <1>1
    <3>2. written' = {<<v, open'[v]>> : v \in {v \in Event : open'[v] # 0}}
      BY <2>1, <3>1 DEF Started
    <3> QED
      BY <2>1, <3>1, <3>2 DEF EventInv, Ids
  <2>2. CASE recording' = "broken" /\ written' = {} /\ UNCHANGED open
    BY <2>2 DEF EventInv
  <2> QED
    BY <2>1, <2>2 DEF Rotate
<1>3. HealthInv' /\ UNCHANGED slowdown
  BY HealthKept DEF Rotate, health_vars
<1>4. ControlInv'
  BY RunAssumption DEF Rotate, Bounded, ControlInv, loop_vars
<1>5. SlowInv' /\ GapKept
  BY <1>2, <1>3, EventsDiffer DEF SlowInv, GapKept
<1>6. GapInv'
  BY <1>2, EventsDiffer DEF GapInv, Rotate, loop_vars, Over
<1> QED
  BY <1>2, <1>3, <1>4, <1>5, <1>6

-----------------------------------------------------------------------------
(* The theorems *)

\* The step that ends a gap is an answer.
EndsByAnswer ==
    open[DISCONNECT] # 0 /\ open'[DISCONNECT] = 0
        => \E k \in DOMAIN got : got[k] = "pending" /\ got'[k] \in {"prompt", "slow"}

\* The invariant is inductive, and only an answer ends a gap.
LEMMA Steps == RunInv /\ [Next]_vars => RunInv' /\ [EndsByAnswer]_vars
<1> SUFFICES ASSUME RunInv, [Next]_vars PROVE RunInv' /\ [EndsByAnswer]_vars
  OBVIOUS
<1>0. GapKept => EndsByAnswer
  BY DEF GapKept, EndsByAnswer
<1>1. CASE Wait \/ StartTick \/ Refuse \/ GiveUp \/ Setup \/ Leave \/ InternalFault
           \/ WorkerCancelled \/ Stop \/ Pause \/ LinkChanges
  BY <1>0, <1>1, PlainSteps
<1>2. CASE KeepAliveFails
  BY <1>0, <1>2, KeepAliveStep
<1>3. CASE NotePause
  BY <1>0, <1>3, NotePauseStep
<1>4. ASSUME NEW k \in Key, Resolve(k) PROVE RunInv' /\ [EndsByAnswer]_vars
  BY <1>0, <1>4, ResolveStep DEF EndsByAnswer
<1>5. CASE FinishTick
  BY <1>0, <1>5, FinishTickStep
<1>6. CASE FailTick
  BY <1>0, <1>6, FailTickStep
<1>7. CASE Rebind
  BY <1>0, <1>7, RebindStep
<1>8. CASE Rotate
  BY <1>0, <1>8, RotateStep
<1>9. CASE UNCHANGED vars
  <2>1. HealthInv'
    BY <1>9, HealthKept DEF RunInv, vars
  <2>2. EventInv' /\ UNCHANGED <<slowdown, open>>
    BY <1>9, EventsKept DEF RunInv, vars, event_vars, health_vars
  <2> QED
    BY <1>9, <2>1, <2>2
       DEF RunInv, vars, loop_vars, user_vars, event_vars, ControlInv, SlowInv, GapInv, Over
<1> QED
  BY <1>1, <1>2, <1>3, <1>4, <1>5, <1>6, <1>7, <1>8, <1>9 DEF Next, Loop

\* The inductive invariant holds of every run.
THEOREM RunInvariant == Spec => []RunInv
BY Starts, Steps, PTL DEF Spec

\* Every variable keeps its range: no factor passes the ceiling, no PID is ever due to
\* sit out a negative number of rounds, and two ids per event are enough.
THEOREM TypeCorrect == Spec => []TypeOK
<1>1. RunInv => TypeOK
  <2>1. EventInv => written \subseteq Event \X (1..2)
    BY DEF EventInv, Ids
  <2> QED
    BY <2>1 DEF RunInv, HealthInv, ControlInv, EventInv, TypeOK, Reconnecting
<1> QED
  BY <1>1, RunInvariant, PTL

\* The backoff, the scheduler and the recording agree on every slowed-down PID, through
\* every failed tick, reconnect and new segment.
THEOREM ThreeAccounts == Spec => []SlowdownsRecorded
<1>1. RunInv => SlowdownsRecorded
  BY DEF RunInv, HealthInv, SlowInv, SlowdownsRecorded
<1> QED
  BY <1>1, RunInvariant, PTL

\* A slowed-down PID is read again within as many rounds as its factor.
THEOREM ReadAgain == Spec => []SitsOutLessThanItsFactor
<1>1. RunInv => SitsOutLessThanItsFactor
  BY DEF RunInv, HealthInv
<1> QED
  BY <1>1, RunInvariant, PTL

\* The journal being written holds the open events, under the ids their ends will use.
THEOREM JournalMirrors == Spec => []EventsMirrored
<1>1. RunInv => EventsMirrored
  BY DEF RunInv, EventInv, EventsMirrored
<1> QED
  BY <1>1, RunInvariant, PTL

\* A dropped session has its gap on record until an ECU answers, also when it drops in
\* the set-up after a reconnect.
THEOREM GapOnRecord == Spec => GapIsRecorded
<1>1. RunInv => ((disconnected /\ ~Over) \/ at = "failed" => open[DISCONNECT] # 0)
  BY DEF RunInv, GapInv
<1>2. Spec => []((disconnected /\ ~Over) \/ at = "failed" => open[DISCONNECT] # 0)
  BY <1>1, RunInvariant, PTL
<1>3. Spec => [][EndsByAnswer]_vars
  BY RunInvariant, Steps, PTL DEF Spec
<1> QED
  BY <1>2, <1>3, PTL DEF GapIsRecorded, EndsByAnswer
-----------------------------------------------------------------------------
(* Whom a dropped TUI run asked *)

\* Where the loop is tells whether the reconnector has been asked, and whether it has
\* found someone.
RehomeInv ==
    /\ TuiRehomesDrops
    /\ at = "probe" => tried
    /\ at = "setup" => ~disconnected

\* A poll or keepalive that finds the link down ends a TUI run only in a reconnect, or
\* by a stop.
LEMMA RehomeSteps == RehomeInv /\ [Next]_vars => RehomeInv'
<1> SUFFICES ASSUME RehomeInv, [Next]_vars PROVE RehomeInv'
  OBVIOUS
<1> USE DEF RehomeInv, TuiRehomesDrops, DropsAreRehomed, loop_vars, user_vars
<1>1. CASE Wait \/ KeepAliveFails \/ NotePause \/ StartTick \/ Pause \/ Rotate \/ LinkChanges
  BY <1>1 DEF Wait, KeepAliveFails, NotePause, StartTick, Pause, Rotate, LinkChanges, Waits
<1>2. CASE FinishTick \/ FailTick
  BY <1>2 DEF FinishTick, FailTick, HandOver
<1>3. CASE Refuse \/ GiveUp \/ Rebind \/ Setup
  BY <1>3 DEF Refuse, GiveUp, Rebind, Setup
<1>4. CASE Leave \/ InternalFault \/ WorkerCancelled \/ Stop
  BY <1>4 DEF Leave, InternalFault, WorkerCancelled, Stop, Reconnecting
<1>5. CASE \E k \in Key : Resolve(k)
  BY <1>5 DEF Resolve
<1>6. CASE UNCHANGED vars
  BY <1>6 DEF vars
<1> QED
  BY <1>1, <1>2, <1>3, <1>4, <1>5, <1>6 DEF Next, Loop

\* A TUI run that was not asked to stop has asked the reconnector about a drop in a poll
\* or in a keepalive before it ends on it.
THEOREM TuiRehomes == Spec => []TuiRehomesDrops
<1>1. Init => RehomeInv
  BY DEF Init, RehomeInv, TuiRehomesDrops, DropsAreRehomed
<1>2. RehomeInv => TuiRehomesDrops
  BY DEF RehomeInv
<1> QED
  BY <1>1, <1>2, RehomeSteps, PTL DEF Spec
=============================================================================
