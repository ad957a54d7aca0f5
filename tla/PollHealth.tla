----------------------------- MODULE PollHealth -----------------------------
(***************************************************************************)
(* Which PIDs a monitor tick reads, and what their answers mean: the       *)
(* PollScheduler (live/monitor/schedule.py), the slow-PID PollBackoff      *)
(* (live/monitor/backoff.py) and the liveness check of MonitorHealth       *)
(* (live/monitor/health.py).  The scheduler and the backoff each hold a    *)
(* slowdown factor per PID, and only their callers keep the two in step.   *)
(*                                                                         *)
(* These are the state and the operations; MonitorRun makes them one       *)
(* program.  A PID is a pair <<ecu, pid>>.  Time is in whole units and     *)
(* counted from each PID's anchor; the counters that only ever matter up   *)
(* to a threshold stop there.                                              *)
(***************************************************************************)
EXTENDS Naturals, FiniteSets

CONSTANTS
    Key,             \* the polled PIDs
    Period,          \* Period[k]: the PID's period on the per-PID schedule
    EscalateAfter, RecoverAfter, MaxSlowdown,
    StaleLimit       \* transport.stale_cycles_before_reconnect

VARIABLES
    schedule,    \* "fixed" or "dynamic"
    woken,       \* the next tick runs now
    age,         \* dynamic: time since the PID's anchor
    slowdown,    \* PollScheduler._slowdown
    skip,        \* fixed: rounds the PID still sits out
    health,      \* PollBackoff._keys
    unanswered   \* MonitorHealth.unanswered, up to StaleLimit

health_vars == <<schedule, woken, age, slowdown, skip, health, unanswered>>

Ecu == {k[1] : k \in Key}
Outcome == {"prompt", "slow", "none"}
Healthy == [slowdown |-> 1, slow |-> 0, ok |-> 0]
Least(m, n) == IF m < n THEN m ELSE n

Factor == 1..MaxSlowdown
Backoff == [slowdown : Factor, slow : 0..(EscalateAfter - 1), ok : 0..(RecoverAfter - 1)]

\* Doubling from 1 ends at MaxSlowdown: it is a power of two.
Doubling(F) ==
    /\ 1 \in F
    /\ \A f \in F : (f < MaxSlowdown => 2 * f \in F) /\ (f > 1 => f \div 2 \in F)

ASSUME HealthAssumption ==
    /\ IsFiniteSet(Key) /\ Key # {} /\ Period \in [Key -> Nat \ {0}]
    /\ {EscalateAfter, RecoverAfter, StaleLimit} \subseteq Nat \ {0}
    /\ MaxSlowdown \in Nat \ {0} /\ \E F \in SUBSET Factor : Doubling(F)

HealthTypeOK ==
    /\ schedule \in {"fixed", "dynamic"} /\ woken \in BOOLEAN
    /\ age \in [Key -> Nat]
    /\ slowdown \in [Key -> Factor] /\ skip \in [Key -> Nat]
    /\ health \in [Key -> Backoff]
    /\ unanswered \in [Ecu -> 0..StaleLimit]

\* A PID without an anchor is due: it starts a whole period old.
HealthInit ==
    /\ schedule \in {"fixed", "dynamic"} /\ woken = TRUE
    /\ age = Period
    /\ slowdown = [k \in Key |-> 1] /\ skip = [k \in Key |-> 0]
    /\ health = [k \in Key |-> Healthy]
    /\ unanswered = [e \in Ecu |-> 0]

-----------------------------------------------------------------------------
(* The tick: what is due, and how long the loop may sleep *)

EffectivePeriod(k) == Period[k] * slowdown[k]
IsDue(k) == age[k] >= EffectivePeriod(k)

TakeDue == IF schedule = "fixed" THEN {k \in Key : skip[k] = 0}
                                 ELSE {k \in Key : IsDue(k)}

\* An anchor moves to the latest point of its PID's grid; a PID that sits a round
\* out has one round less to sit out.
BeginTick ==
    /\ woken' = FALSE
    /\ IF schedule = "fixed"
         THEN /\ skip' = [k \in Key |-> IF skip[k] > 0 THEN skip[k] - 1 ELSE 0]
              /\ UNCHANGED age
         ELSE /\ age' = [k \in Key |-> IF IsDue(k) THEN age[k] % EffectivePeriod(k)
                                                   ELSE age[k]]
              /\ UNCHANGED skip
    /\ UNCHANGED <<schedule, slowdown, health, unanswered>>

SkipAfter(due) ==
    [k \in Key |-> IF schedule = "fixed" /\ k \in due THEN slowdown[k] - 1 ELSE skip[k]]

TickDue == woken \/ (schedule = "dynamic" /\ \E k \in Key : IsDue(k))

\* Until the next PID is due: a round of the fixed schedule is always the same length.
SleepUntilDue ==
    /\ ~TickDue
    /\ IF schedule = "fixed"
         THEN woken' = TRUE /\ UNCHANGED age
         ELSE \E k \in Key :
                /\ \A j \in Key : EffectivePeriod(k) - age[k] <= EffectivePeriod(j) - age[j]
                /\ age' = [j \in Key |-> age[j] + (EffectivePeriod(k) - age[k])]
                /\ UNCHANGED woken
    /\ UNCHANGED <<schedule, slowdown, skip, health, unanswered>>

-----------------------------------------------------------------------------
(* The backoff *)

SlowerUncapped(f) == 2 * f
Slower(f) == IF f < MaxSlowdown THEN 2 * f ELSE f

\* PollBackoff.observe: two slow polls in a row slow a PID down, each further one
\* doubles it; three healthy ones in a row halve it, and each further one does again.
\* The slow streak counts only at the normal rate, the healthy one only below it.
Observe(h, outcome) ==
    CASE outcome # "prompt" /\ h.slowdown = 1 /\ h.slow + 1 < EscalateAfter ->
           [h EXCEPT !.slow = h.slow + 1]
      [] outcome # "prompt" /\ (h.slowdown > 1 \/ h.slow + 1 >= EscalateAfter) ->
           [slowdown |-> Slower(h.slowdown), slow |-> 0, ok |-> 0]
      [] outcome = "prompt" /\ h.slowdown > 1 /\ h.ok + 1 < RecoverAfter ->
           [h EXCEPT !.ok = h.ok + 1]
      [] outcome = "prompt" /\ h.slowdown > 1 /\ h.ok + 1 >= RecoverAfter ->
           [slowdown |-> h.slowdown \div 2, slow |-> 0,
            ok |-> IF h.slowdown = 2 THEN 0 ELSE h.ok]
      [] outcome = "prompt" /\ h.slowdown = 1 -> Healthy

ShiftedNever(left, old, factor) == left

\* PollScheduler.set_slowdown on the rounds left to sit out.
Shifted(left, old, factor) ==
    IF factor = 1 THEN 0
    ELSE Least(IF left + factor > old THEN left + factor - old ELSE 0, factor - 1)

\* MonitorHealth.apply_backoff: answers maps the PIDs whose cost is known.
Observed(answers) ==
    [k \in Key |-> IF k \in DOMAIN answers THEN Observe(health[k], answers[k]) ELSE health[k]]
ChangedForWorse(answers) == {k \in Key : Observed(answers)[k].slowdown > health[k].slowdown}
Changed(answers) == {k \in Key : Observed(answers)[k].slowdown # health[k].slowdown}

ApplyBackoff(answers, due) ==
    LET factor == [k \in Key |-> Observed(answers)[k].slowdown]
    IN /\ health' = Observed(answers)
       /\ slowdown' = [k \in Key |-> IF k \in Changed(answers) THEN factor[k] ELSE slowdown[k]]
       /\ skip' = [k \in Key |->
                     IF k \in Changed(answers)
                       THEN Shifted(SkipAfter(due)[k], slowdown[k], factor[k])
                       ELSE SkipAfter(due)[k]]

\* MonitorHealth.reset_backoff: both halves.
Slowed == {k \in Key : slowdown[k] > 1 \/ health[k].slowdown > 1}
ResetTrackerOnly ==
    /\ health' = [k \in Key |-> Healthy]
    /\ UNCHANGED <<schedule, woken, age, slowdown, skip, unanswered>>
ResetBackoff ==
    /\ health' = [k \in Key |-> Healthy]
    /\ slowdown' = [k \in Key |-> IF k \in Slowed THEN 1 ELSE slowdown[k]]
    /\ skip' = [k \in Key |-> IF k \in Slowed THEN 0 ELSE skip[k]]
    /\ UNCHANGED <<schedule, woken, age, unanswered>>

-----------------------------------------------------------------------------
(* The liveness check *)

UnansweredOfFullRounds(answered, polled) ==
    [e \in Ecu |-> IF answered \/ polled # Ecu THEN 0 ELSE Least(unanswered[e] + 1, StaleLimit)]

\* polled: the ECUs with a row this tick; answered: something answered.
Unanswered(answered, polled) ==
    [e \in Ecu |-> IF answered \/ polled = {} THEN 0
                   ELSE IF e \in polled THEN Least(unanswered[e] + 1, StaleLimit)
                   ELSE unanswered[e]]
Stale(answered, polled) ==
    \A e \in Ecu : Unanswered(answered, polled)[e] >= StaleLimit

CheckLiveness(answered, polled) ==
    unanswered' = IF Stale(answered, polled) THEN [e \in Ecu |-> 0]
                  ELSE Unanswered(answered, polled)

-----------------------------------------------------------------------------
\* The scheduler's factor of a PID is the backoff's, and a PID sits out fewer rounds
\* than its factor: it is read again within that many (schedule.py:96-99,
\* backoff.py:135-142).
SlowdownsAgree == \A k \in Key : slowdown[k] = health[k].slowdown
SitsOutLessThanItsFactor == \A k \in Key : skip[k] < slowdown[k]
=============================================================================
