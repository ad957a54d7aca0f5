----------------------------- MODULE RawClient -----------------------------
(***************************************************************************)
(* RawUdsClient (transport/raw/uds_client.py): the client of the live      *)
(* monitor on slcan-tcp, with the liveness check of live/monitor/health.py *)
(* that rebuilds it.  One ISO-TP stack per ECU delivers whole messages in  *)
(* the order the ECU sends them; a poll sends one request to every ECU per *)
(* round and harvests whatever arrives; a read sends one request to one    *)
(* ECU.  A request that reached its deadline leaves the ECU owing a reply, *)
(* and the ledger `owed' counts those, so that a late reply is not taken   *)
(* for the answer to the next request of the same PID.                     *)
(*                                                                         *)
(* A request is its PID; a message says which PID it answers and whether   *)
(* it answers the request now waiting (own) or an earlier one.  Deadlines  *)
(* carry no clock: a request whose reply is still on its way may only      *)
(* expire by a fault, and MaxFaults bounds the faults.                     *)
(***************************************************************************)
EXTENDS Naturals, FiniteSets, SequencesExt

CONSTANTS
    Ecu,          \* the ECUs of the query steps
    Plan,         \* Plan[e]: the requests of one poll of e, in order
    Held,         \* the ECUs whose session the monitor keeps open
    KeepAlive,    \* TesterPresent, the request of a keepalive read
    OpenSession,  \* DiagnosticSessionControl, which opens the session of a held ECU
    MaxOwed,      \* _MAX_OWED_RESPONSES
    DeadLimit,    \* stale_cycles_before_reconnect
    MaxFaults     \* bound: lost replies, late replies and dropped links

VARIABLES
    phase,         \* what the monitor does with the client
    todo,          \* the reads still to make before the next poll: ecu -> request
    due,           \* the ECUs this poll reads
    queue,         \* poll(): the requests of each ECU not sent yet
    asked,         \* the request each ECU was sent and has not settled
    bus,           \* the requests an ECU has not answered, oldest first
    stack,         \* the messages an ISO-TP stack has queued
    owed,          \* _owed
    cycleAnswered, \* MonitorHealth.cycle_answered
    unanswered,    \* MonitorHealth.unanswered, counted up to DeadLimit
    doubt,         \* history: the ledger gave up a debt that may still be paid
    faults

vars == <<phase, todo, due, queue, asked, bus, stack, owed, cycleAnswered,
          unanswered, doubt, faults>>

Planned == UNION {Range(Plan[e]) : e \in Ecu}

ASSUME RawAssumption ==
    /\ IsFiniteSet(Ecu) /\ Ecu # {} /\ Held \subseteq Ecu
    /\ \A e \in Ecu : Plan[e] \in Seq(Planned) /\ Plan[e] # <<>>
    /\ KeepAlive \notin Planned /\ OpenSession \notin Planned /\ KeepAlive # OpenSession
    /\ MaxOwed \in Nat \ {0} /\ DeadLimit \in Nat \ {0} /\ MaxFaults \in Nat

\* Requests whose replies echo no identifier.
Unechoed == {KeepAlive, OpenSession}
Pid == Planned \cup Unechoed
Nothing == [how |-> "none"]
Waiting == [how: {"read", "poll"}, pid: Pid, acked: BOOLEAN]
Message == [pid: Pid, kind: {"data", "nrc", "pending"}, own: BOOLEAN]

Request == [pid: Pid, own: BOOLEAN, acked: BOOLEAN]

\* What the ECU still has to answer, of requests the client has given up.
Final(m) == m.kind # "pending"
Counted(s, A) == Cardinality({i \in DOMAIN s : s[i] \in A})
GivenUp == {r \in Request : ~r.own}
LateReply == {m \in Message : ~m.own /\ Final(m)}
Debts(e) == Counted(bus[e], GivenUp) + Counted(stack[e], LateReply)

Idle == \A e \in Ecu : asked[e] = Nothing
Earlier(s) == [i \in DOMAIN s |-> [s[i] EXCEPT !.own = FALSE]]

TypeOK ==
    /\ phase \in {"opening", "setup", "ready", "polling", "down"}
    /\ DOMAIN todo \subseteq Ecu /\ \A e \in DOMAIN todo : todo[e] \in Pid
    /\ due \subseteq Ecu
    /\ queue \in [Ecu -> Seq(Planned)]
    /\ asked \in [Ecu -> Waiting \cup {Nothing}]
    /\ bus \in [Ecu -> Seq(Request)]
    /\ stack \in [Ecu -> Seq(Message)]
    /\ owed \in [Ecu -> 0..(MaxOwed - 1)]
    /\ cycleAnswered \in BOOLEAN
    /\ unanswered \in [Ecu -> 0..DeadLimit]
    /\ doubt \subseteq Ecu
    /\ faults \in 0..MaxFaults

NoReads == [e \in {} |-> KeepAlive]
Openings == [e \in Held |-> OpenSession]
WarmUp == [e \in Ecu |-> Head(Plan[e])]

Init ==
    /\ phase = "opening" /\ todo = Openings /\ due = {}
    /\ queue = [e \in Ecu |-> <<>>]
    /\ asked = [e \in Ecu |-> Nothing]
    /\ bus = [e \in Ecu |-> <<>>] /\ stack = [e \in Ecu |-> <<>>]
    /\ owed = [e \in Ecu |-> 0]
    /\ cycleAnswered = FALSE /\ unanswered = [e \in Ecu |-> 0]
    /\ doubt = {} /\ faults = 0

----------------------------------------------------------------------------
(* The ledger. *)

\* _abandon: one more reply owed, unless the count has reached its ceiling.
AbandonForever(n) == n + 1
Abandon(n) == IF n + 1 >= MaxOwed THEN 0 ELSE n + 1

\* is_response_pending, and the service a negative response names.
SameService(p, q) == \A r \in Unechoed : (p = r) = (q = r)
IsPending(m, p) == m.kind = "pending" /\ SameService(m.pid, p)

\* _stale_reason: the ledger first, then the service of a negative response,
\* then the echo, which only a read has.
StaleByEcho(m, p, n) == m.kind = "data" /\ p \notin Unechoed /\ m.pid # p
Stale(m, p, n) ==
    \/ n > 0
    \/ m.kind # "data" /\ ~SameService(m.pid, p)
    \/ m.kind = "data" /\ p \notin Unechoed /\ m.pid # p

Minus(n, k) == IF n > k THEN n - k ELSE 0

(* _drain and stack.send: the queued messages are discarded, each paying a
   debt, and the request goes out.  S are the ECUs sent to, req their requests. *)
Send(S, req, how) ==
    /\ asked' = [e \in Ecu |-> IF e \in S
                   THEN [how |-> how, pid |-> req[e], acked |-> FALSE] ELSE asked[e]]
    /\ stack' = [e \in Ecu |-> IF e \in S THEN <<>> ELSE stack[e]]
    /\ owed' = [e \in Ecu |-> IF e \in S THEN Minus(owed[e], Len(stack[e])) ELSE owed[e]]
    /\ bus' = [e \in Ecu |-> IF e \in S
                 THEN Append(Earlier(bus[e]), [pid |-> req[e], own |-> TRUE, acked |-> FALSE])
                 ELSE bus[e]]
    /\ doubt' = (doubt \ S)
                \cup {e \in S : /\ bus[e] # <<>>
                                /\ (e \in doubt \/ \E m \in Range(stack[e]) : ~Final(m))}

----------------------------------------------------------------------------
(* What the monitor asks of the client. *)

\* A read of the set-up (the held sessions' 10 xx, then one per ECU) or a keepalive
\* between two polls.
Read(e) ==
    /\ phase \in {"opening", "setup", "ready"} /\ Idle /\ e \in DOMAIN todo
    /\ todo' = [f \in DOMAIN todo \ {e} |-> todo[f]]
    /\ Send({e}, todo, "read")
    /\ UNCHANGED <<phase, due, queue, cycleAnswered, unanswered, faults>>

StartWarmUp ==
    /\ phase = "opening" /\ Idle /\ todo = NoReads
    /\ phase' = "setup" /\ todo' = WarmUp
    /\ UNCHANGED <<due, queue, asked, bus, stack, owed, cycleAnswered, unanswered, doubt,
                   faults>>

StartPoll ==
    /\ phase \in {"setup", "ready"} /\ Idle /\ todo = NoReads
    /\ \E D \in SUBSET Ecu \ {{}} :
        /\ due' = D
        /\ queue' = [e \in Ecu |-> IF e \in D THEN Plan[e] ELSE <<>>]
    /\ phase' = "polling" /\ cycleAnswered' = FALSE
    /\ UNCHANGED <<todo, asked, bus, stack, owed, unanswered, doubt, faults>>

\* poll(): the next request of every ECU that has one.
StartRound ==
    /\ phase = "polling" /\ Idle
    /\ LET S == {e \in Ecu : queue[e] # <<>>} IN
        /\ S # {}
        /\ Send(S, [e \in S |-> Head(queue[e])], "poll")
        /\ queue' = [e \in Ecu |-> IF e \in S THEN Tail(queue[e]) ELSE <<>>]
    /\ UNCHANGED <<phase, todo, due, cycleAnswered, unanswered, faults>>

\* Harvest: the oldest queued message of an ECU that was asked something.
Harvest(e, m) == asked[e] # Nothing /\ stack[e] # <<>> /\ m = Head(stack[e])

TakePending(e) ==
    \E m \in Message :
        /\ Harvest(e, m) /\ IsPending(m, asked[e].pid)
        /\ stack' = [stack EXCEPT ![e] = Tail(@)]
        /\ asked' = [asked EXCEPT ![e].acked = TRUE]
        /\ UNCHANGED <<phase, todo, due, queue, bus, owed, cycleAnswered, unanswered,
                       doubt, faults>>

TakeStale(e) ==
    \E m \in Message :
        /\ Harvest(e, m) /\ ~IsPending(m, asked[e].pid) /\ Stale(m, asked[e].pid, owed[e])
        /\ stack' = [stack EXCEPT ![e] = Tail(@)]
        /\ owed' = [owed EXCEPT ![e] = Minus(@, 1)]
        /\ doubt' = IF ~Final(m) THEN doubt \cup {e} ELSE doubt
        /\ UNCHANGED <<phase, todo, due, queue, asked, bus, cycleAnswered, unanswered, faults>>

\* The request is settled: what is still on its way answers an earlier request.
Settle(e, pending, answered) ==
    /\ asked' = [asked EXCEPT ![e] = Nothing]
    /\ bus' = [bus EXCEPT ![e] = Earlier(@)]
    /\ cycleAnswered' = (cycleAnswered \/ (answered /\ asked[e].how = "poll"))
    /\ stack' = [stack EXCEPT ![e] = Earlier(pending)]
    /\ UNCHANGED <<phase, todo, due, queue, unanswered>>

Serve(e) ==
    \E m \in Message :
        /\ Harvest(e, m) /\ ~IsPending(m, asked[e].pid) /\ ~Stale(m, asked[e].pid, owed[e])
        /\ owed' = [owed EXCEPT ![e] = 0]
        /\ doubt' = IF m.own THEN doubt \ {e} ELSE doubt \cup {e}
        /\ Settle(e, Tail(stack[e]), TRUE)
        /\ UNCHANGED faults

\* The deadline passes: in time when no reply to this request is on its way,
\* early, a fault, when one is.
Deadline(e) ==
    /\ asked[e] # Nothing /\ stack[e] = <<>>
    /\ LET late == \E r \in Range(bus[e]) : r.own IN
        /\ late => faults < MaxFaults
        /\ faults' = IF late THEN faults + 1 ELSE faults

ExpireUnrecorded(e) ==
    /\ Deadline(e) /\ ~(asked[e].how = "read" /\ asked[e].acked)
    /\ Settle(e, <<>>, FALSE) /\ UNCHANGED <<owed, doubt>>
Expire(e) ==
    /\ Deadline(e) /\ ~(asked[e].how = "read" /\ asked[e].acked)
    /\ owed' = [owed EXCEPT ![e] = Abandon(@)]
    /\ doubt' = IF Abandon(owed[e]) = 0 /\ bus[e] # <<>> THEN doubt \cup {e} ELSE doubt
    /\ Settle(e, <<>>, FALSE)

\* read(): the ECU asked for time and never answered; its 7F xx 78 is returned
\* and the ledger is cleared as for an answer.
ReturnPending(e) ==
    /\ Deadline(e) /\ asked[e].how = "read" /\ asked[e].acked
    /\ owed' = [owed EXCEPT ![e] = 0]
    /\ doubt' = IF bus[e] # <<>> THEN doubt \cup {e} ELSE doubt
    /\ Settle(e, <<>>, FALSE)

----------------------------------------------------------------------------
(* The end of a poll, and a new client. *)

\* check_liveness: every ECU on screen unanswered for DeadLimit polls of its own.
Count(e) == IF unanswered[e] = DeadLimit THEN DeadLimit ELSE unanswered[e] + 1
Blind == \A e \in Ecu : (IF e \in due THEN Count(e) ELSE unanswered[e]) >= DeadLimit

EndPoll ==
    /\ phase = "polling" /\ Idle /\ \A e \in Ecu : queue[e] = <<>>
    /\ \/ /\ cycleAnswered
          /\ unanswered' = [e \in Ecu |-> 0] /\ phase' = "ready"
       \/ /\ ~cycleAnswered /\ Blind
          /\ unanswered' = [e \in Ecu |-> 0] /\ phase' = "down"
       \/ /\ ~cycleAnswered /\ ~Blind /\ phase' = "ready"
          /\ unanswered' = [e \in Ecu |-> IF e \in due THEN Count(e) ELSE unanswered[e]]
    /\ due' = {}
    /\ \E S \in SUBSET Held : todo' = IF phase' = "down" THEN NoReads
                                     ELSE [e \in S |-> KeepAlive]
    /\ UNCHANGED <<queue, asked, bus, stack, owed, cycleAnswered, doubt, faults>>

\* A poll that raises hands the session to the reconnector, and so does a keepalive
\* between two polls, which leaves those that were to follow unsent.
LinkFails ==
    /\ faults < MaxFaults
    /\ phase = "polling" \/ (phase = "ready" /\ (todo # NoReads \/ ~Idle))
    /\ todo' = NoReads
    /\ faults' = faults + 1 /\ phase' = "down" /\ due' = {}
    /\ queue' = [e \in Ecu |-> <<>>] /\ asked' = [e \in Ecu |-> Nothing]
    /\ bus' = [e \in Ecu |-> Earlier(bus[e])]
    /\ doubt' = doubt \cup {e \in Ecu : bus[e] # <<>>}
    /\ UNCHANGED <<stack, owed, cycleAnswered, unanswered>>

\* rebind and setup: a new client knows nothing of what the ECUs still owe.
RebindKeepsLedger ==
    /\ phase = "down" /\ phase' = "opening" /\ todo' = Openings
    /\ stack' = [e \in Ecu |-> <<>>] /\ bus' = [e \in Ecu |-> Earlier(bus[e])]
    /\ UNCHANGED <<due, queue, asked, owed, cycleAnswered, unanswered, doubt, faults>>
Rebind ==
    /\ phase = "down"
    /\ phase' = "opening" /\ todo' = Openings
    /\ stack' = [e \in Ecu |-> <<>>] /\ owed' = [e \in Ecu |-> 0]
    /\ bus' = [e \in Ecu |-> Earlier(bus[e])]
    /\ doubt' = {e \in Ecu : bus[e] # <<>>}
    /\ UNCHANGED <<due, queue, asked, cycleAnswered, unanswered, faults>>

----------------------------------------------------------------------------
(* The ECUs (external). *)

\* The harvest looks at the stacks every 2 ms and takes one message at a time:
\* a message that arrives behind one it is taking is found as if it arrived after.
Harvested == \A e \in Ecu : asked[e] = Nothing \/ stack[e] = <<>>

Deliver(e, kind) ==
    /\ bus[e] # <<>> /\ Harvested
    /\ LET r == Head(bus[e]) IN
        stack' = [stack EXCEPT ![e] = Append(@, [pid |-> r.pid, kind |-> kind, own |-> r.own])]
    /\ UNCHANGED <<phase, todo, due, queue, asked, owed, cycleAnswered, unanswered, doubt, faults>>

Answers(e) ==
    /\ \E kind \in {"data", "nrc"} : Deliver(e, kind)
    /\ bus' = [bus EXCEPT ![e] = Tail(@)]

AsksForTime(e) ==
    /\ bus[e] # <<>> /\ ~Head(bus[e]).acked
    /\ Deliver(e, "pending")
    /\ bus' = [bus EXCEPT ![e][1].acked = TRUE]

Loses(e) ==
    /\ bus[e] # <<>> /\ Harvested /\ faults < MaxFaults
    /\ bus' = [bus EXCEPT ![e] = Tail(@)] /\ faults' = faults + 1
    /\ UNCHANGED <<phase, todo, due, queue, asked, stack, owed, cycleAnswered, unanswered, doubt>>

----------------------------------------------------------------------------
Client(e) == Read(e) \/ TakePending(e) \/ TakeStale(e) \/ Serve(e)
Ends(e) == Expire(e) \/ ReturnPending(e)
Monitor == StartWarmUp \/ StartPoll \/ StartRound \/ EndPoll \/ Rebind

Next ==
    \/ Monitor \/ LinkFails
    \/ \E e \in Ecu : Client(e) \/ Ends(e) \/ Answers(e) \/ AsksForTime(e) \/ Loses(e)

Spec == Init /\ [][Next]_vars

\* Every ECU has its own cadence, so each is due again and again; the monitor's
\* loop runs, the notifier thread delivers, clocks advance: a
\* deadline is due once no reply of the request is on its way.
InTime(e) == Ends(e) /\ faults' = faults
FairSpec ==
    /\ Spec /\ WF_vars(Monitor)
    /\ \A e \in Ecu : SF_vars(StartPoll /\ e \in due')
    /\ \A e \in Ecu : WF_vars(Client(e)) /\ WF_vars(InTime(e)) /\ WF_vars(Answers(e))

----------------------------------------------------------------------------
(* While nothing cast doubt on it the ledger counts at least every reply an
   ECU may still send to a request that was given up: this is the arithmetic
   that _drain, _abandon and the harvest maintain between them. *)
LedgerCovers == \A e \in Ecu \ doubt : Debts(e) <= owed[e]

(* A reply that poll() or read() returns answers the request it is returned
   for, also when the same PID is polled again and again and the echo cannot
   tell (uds_client.py, _stale_reason).  The exceptions are the four events
   that void the ledger: its ceiling, a 7F xx 78 that paid a debt or was
   returned by read(), and a new client. *)
ServedIsOwn ==
    [][\A e \in Ecu :
        asked[e] # Nothing /\ asked'[e] = Nothing /\ phase' # "down" /\ stack[e] # <<>>
        => Head(stack[e]).own \/ e \in doubt]_vars

(* Once the faults end the monitor does not stay blind: some ECU's answer is
   shown again and again, through the ledger or, when it discards every reply
   as the debt of the one before, through check_liveness and a new client. *)
NeverBlindForGood == []<>cycleAnswered
=============================================================================
