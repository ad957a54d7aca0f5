----------------------------- MODULE ElmTerminal ----------------------------
(***************************************************************************)
(* Several tasks sharing one Elm327Terminal                                *)
(* (transport/elm327/terminal.py, addressing.py): each runs transactions   *)
(* that point the adapter at an ECU and read it, and the adapter keeps one *)
(* header for all of them.  A reading belongs to whichever ECU the adapter *)
(* really addressed, which nothing in a reply says: the terminal believes  *)
(* its own cache of the adapter's settings.                                *)
(*                                                                         *)
(* The ledger is ResponsePipe's, here over whole blocks.  Of the adapter's *)
(* settings there is the header, and fc, which stands for what else an ECU *)
(* is addressed by (flow-control header, filter): it matters to what is    *)
(* planned, not to who answers.  Deadlines, and the gap after which the    *)
(* cache is too old to be believed, may pass at any moment.                *)
(***************************************************************************)
EXTENDS ResponsePipe

CONSTANTS
    Task,       \* tasks that read over the terminal (polling, keepalive)
    Ecu,        \* the ECUs they address
    Refused,    \* ECUs whose header the adapter answers with ?
    Nobody,     \* no ECU, no task: a value not known, a lock not held
    Retries,    \* send_uds(retries=...)
    Rounds,     \* _ADDRESSING_ROUNDS
    Backlog,    \* bound on the replies in flight
    MaxFaults   \* bound on replies lost, adapter resets, links dropped

ASSUME TerminalAssumption ==
    /\ Refused \subseteq Ecu
    /\ Nobody \notin Ecu \cup Task
    /\ Retries \in Nat /\ Rounds \in Nat \ {0}
    /\ Backlog \in Nat \ {0} /\ MaxFaults \in Nat

VARIABLES
    owner,      \* the task that holds _cmd_lock: _lock_owner
    local,      \* what each task is at, and the locals of its calls
    overtaken,  \* AdapterState.epoch moved since the round of set_header began
    addressed,  \* Elm327Terminal._addressed, shared
    cache,      \* AdapterState, shared: what the adapter is believed to hold
    reinit,     \* _reinit_pending
    link,       \* "dead" once the channel raised ConnectionError, "doubted"
                \* once the terminal did; either way it is to be rebuilt
    pipe,       \* the ledger
    header,     \* the header the adapter really has (Nobody: its default)
    adapter,    \* commands the adapter has received and not answered
    wire,       \* blocks on their way to the reader
    faults,     \* faults so far
    doubt       \* history: since the last alignment a debt was written off, or
                \* a start-up banner was thrown away unread

taskVars == <<owner, local, overtaken>>
sharedVars == <<addressed, cache, reinit, link, pipe>>
adapterVars == <<header, adapter, wire>>
vars == <<taskVars, sharedVars, adapterVars, faults, doubt>>

\* op: ATSH, ATFCSH (and what goes with it), a UDS request, or the ATI probe.
Command == [op : {"header", "fc", "request", "probe"}, ecu : Ecu \cup {Nobody},
            by : Task \cup {Nobody}]

\* What the adapter prints for one command: what an AT command draws, or the
\* reply of an ECU to what task `to` asked.
Text == [kind : {"ok", "refused", "reply", "nodata", "banner"},
         ecu : Ecu \cup {Nobody}, to : Task \cup {Nobody}]

\* at: where the task is.  goal: the ECU it means to read.  todo: the command it
\* is sending, and what is left of set_header's plan.  round: the rounds of that
\* set_header.  try: its try of send_uds, 0 while in a set_header of its own.
\* next: where it goes on when its resync is over.
Local == [at : {"idle", "plan", "issue", "collect", "drain", "probe"},
          goal : Ecu \cup {Nobody}, todo : Seq(Command), round : 0..Rounds,
          try : 0..Retries + 1, next : {"idle", "plan", "issue"}]

TypeOK ==
    /\ owner \in Task \cup {Nobody}
    /\ local \in [Task -> Local]
    /\ overtaken \in BOOLEAN
    /\ addressed \in Ecu \cup {Nobody}
    /\ cache \in [header : Ecu \cup {Nobody}, fc : Ecu \cup {Nobody}]
    /\ reinit \in BOOLEAN /\ link \in {"up", "doubted", "dead"}
    /\ pipe.owed \in 0..MaxOwed /\ pipe.dirty \in BOOLEAN
    /\ header \in Ecu \cup {Nobody}
    /\ adapter \in Seq(Command) /\ wire \in Seq(Text)
    /\ faults \in 0..MaxFaults /\ doubt \in BOOLEAN

Idle == [at |-> "idle", goal |-> Nobody, todo |-> <<>>, round |-> 0, try |-> 0,
         next |-> "idle"]
Unknown == [header |-> Nobody, fc |-> Nobody]
Probe == [op |-> "probe", ecu |-> Nobody, by |-> Nobody]
Banner == [kind |-> "banner", ecu |-> Nobody, to |-> Nobody]

Init ==
    /\ owner = Nobody /\ local = [t \in Task |-> Idle] /\ overtaken = FALSE
    /\ addressed = Nobody /\ cache = Unknown /\ reinit = FALSE /\ link = "up"
    /\ pipe = FreshPipe
    /\ header = Nobody /\ adapter = <<>> /\ wire = <<>>
    /\ faults = 0 /\ doubt = FALSE

-----------------------------------------------------------------------------
\* What the terminal makes of a reply.

\* AdapterState.plan: only what differs from what the adapter is known to hold.
Set(op, e) == [op |-> op, ecu |-> e, by |-> Nobody]
IfDiffers(op, e) == IF cache[op] = e THEN <<>> ELSE <<Set(op, e)>>

Plan(e) == IfDiffers("header", e) \o IfDiffers("fc", e)

Kind(block) == IF block = <<>> THEN "silence" ELSE Last(block).kind

\* A setting recorded as done whether or not its reply came.
ObserveAlways(known, c, kind, answered) ==
    IF c.op \in {"header", "fc"} THEN [known EXCEPT ![c.op] = c.ecu] ELSE known

\* AdapterState.observe: a setting that was refused or not answered is unknown.
Observe(known, c, kind, answered) ==
    IF c.op \in {"header", "fc"}
    THEN [known EXCEPT ![c.op] = IF answered /\ kind # "refused" THEN c.ecu ELSE Nobody]
    ELSE known

\* parse_uds_response and _RESYNC_ON, for what task t asked.
Verdict(t, block) ==
    CASE Kind(block) = "reply" -> IF Last(block).to = t THEN "ok" ELSE "resync"
      [] Kind(block) \in {"ok", "banner"} -> "resync"
      [] OTHER -> "none"

\* The task goes on with locals l; or leaves the transaction, by an answer or
\* an exception.
Becomes(t, l) == local' = [local EXCEPT ![t] = l] /\ UNCHANGED owner
Leaves(t) ==
    /\ local' = [local EXCEPT ![t] = Idle]
    /\ owner' = IF owner = t THEN Nobody ELSE owner

Cmd(t) == Head(local[t].todo)

-----------------------------------------------------------------------------
\* A task's transaction: set_header, then send_uds.

\* A caller that leaves out terminal.transaction().
EnterWithoutLock(t) ==
    /\ local[t].at = "idle" /\ owner = Nobody /\ link # "dead"
    /\ \E e \in Ecu : Becomes(t, [Idle EXCEPT !.at = "plan", !.goal = e]) /\ addressed' = e
    /\ cache' \in {cache, Unknown}
    /\ UNCHANGED <<overtaken, reinit, link, pipe, adapterVars, faults, doubt>>

\* transaction(), and set_header up to its first round.  After a long gap the
\* cache is forgotten.  On a dead link every send raises.
Enter(t) ==
    /\ local[t].at = "idle" /\ owner = Nobody /\ link # "dead"
    /\ owner' = t
    /\ \E e \in Ecu :
          /\ local' = [local EXCEPT ![t] = [Idle EXCEPT !.at = "plan", !.goal = e]]
          /\ addressed' = e
    /\ cache' \in {cache, Unknown}
    /\ UNCHANGED <<overtaken, reinit, link, pipe, adapterVars, faults, doubt>>

\* What set_header is to address: its caller's ECU, or what send_uds restates.
Target(t) == IF local[t].try = 0 THEN local[t].goal ELSE addressed

\* set_header returns: to the task, which calls send_uds, and that restates the
\* addressing; or to send_uds, which sends the request.
Addressed(t) ==
    Becomes(t, [local[t] EXCEPT
        !.round = 0, !.try = IF @ = 0 THEN 1 ELSE @,
        !.at = IF local[t].try = 0 THEN "plan" ELSE "issue",
        !.todo = IF local[t].try = 0 THEN <<>>
                 ELSE <<[op |-> "request", ecu |-> Nobody, by |-> t]>>])

\* A round of set_header begins.  Nothing to send, and it returns; after Rounds
\* of them the header was never confirmed: ConnectionError.
SetHeader(t) ==
    /\ local[t].at = "plan"
    /\ LET todo == Plan(Target(t))
       IN  \/ /\ local[t].round = Rounds
              /\ Leaves(t) /\ link' = "doubted"
              /\ UNCHANGED overtaken
           \/ /\ local[t].round < Rounds /\ todo = <<>>
              /\ Addressed(t)
              /\ UNCHANGED <<link, overtaken>>
           \/ /\ local[t].round < Rounds /\ todo # <<>>
              /\ Becomes(t, [local[t] EXCEPT !.at = "issue", !.todo = todo])
              /\ overtaken' = FALSE
              /\ UNCHANGED link
    /\ UNCHANGED <<addressed, cache, reinit, pipe, adapterVars, faults, doubt>>

\* _send_command_locked up to its wait.  The lock of a transaction is the lock
\* of a single command too.
Issue(t) ==
    /\ local[t].at = "issue"
    /\ owner \in {t, Nobody}
    /\ \A u \in Task \ {t} : local[u].at \notin {"collect", "drain", "probe"}
    /\ IF NeedsResync(pipe) \/ reinit
       THEN /\ Becomes(t, [local[t] EXCEPT !.at = "drain", !.next = "issue"])
            /\ reinit' = (reinit /\ NeedsResync(pipe))
            /\ UNCHANGED <<pipe, adapter>>
       ELSE /\ Becomes(t, [local[t] EXCEPT !.at = "collect"])
            /\ pipe' = Begin(pipe)
            /\ adapter' = IF Len(adapter) + Len(wire) < Backlog
                          THEN Append(adapter, Cmd(t)) ELSE adapter
            /\ UNCHANGED reinit
    /\ UNCHANGED <<overtaken, addressed, cache, link, header, wire, faults, doubt>>

\* Each text, and the prompt that closes it.
Prompted(texts) ==
    [k \in 1..2 * Len(texts) |->
        IF k % 2 = 1 THEN texts[(k + 1) \div 2] ELSE [kind |-> "prompt"]]

\* channel.recv: some blocks arrive together.
Receive(t) ==
    /\ local[t].at \in {"collect", "probe"}
    /\ ~Satisfied(pipe)
    /\ \E n \in 1..Len(wire) :
          /\ pipe' = Feed(pipe, Prompted(SubSeq(wire, 1, n)))
          /\ wire' = SubSeq(wire, n + 1, Len(wire))
    /\ UNCHANGED <<taskVars, addressed, cache, reinit, link, header, adapter, faults, doubt>>

\* A round that never ends the loop.
AnotherRoundUncounted(t) == Becomes(t, [local[t] EXCEPT !.at = "plan", !.todo = <<>>])

AnotherRound(t) ==
    Becomes(t, [local[t] EXCEPT !.at = "plan", !.todo = <<>>, !.round = @ + 1])

\* The reply of an addressing command: the next one, or the end of the round.
\* A refused header fails the request before it is sent.
AddressingAnswered(t, kind) ==
    /\ Cmd(t).op \in {"header", "fc"}
    /\ IF Cmd(t).op = "header" /\ kind = "refused" THEN Leaves(t)
       ELSE IF Len(local[t].todo) > 1
       THEN Becomes(t, [local[t] EXCEPT !.at = "issue", !.todo = Tail(@)])
       ELSE IF ~overtaken' /\ cache'.header = Target(t) THEN Addressed(t)
       ELSE AnotherRound(t)

\* The reply of the request: the reading, a resync, silence; and the retries.
RequestAnswered(t, verdict) ==
    /\ Cmd(t).op = "request"
    /\ LET again == verdict # "ok" /\ local[t].try <= Retries
           next == [local[t] EXCEPT !.todo = <<>>, !.at = IF again THEN "plan" ELSE "idle",
                                    !.try = IF again THEN @ + 1 ELSE @]
       IN  IF verdict = "resync" THEN Becomes(t, [next EXCEPT !.at = "drain", !.next = next.at])
           ELSE IF again THEN Becomes(t, next)
           ELSE Leaves(t)

\* The collection ends, satisfied or at its deadline.  A start-up banner is
\* recognised in the answer, and only there.
Conclude(t) ==
    /\ local[t].at = "collect"
    /\ LET answer == Block(pipe)
           clean == pipe.done # <<>>
           rebooted == Kind(answer) = "banner"
       IN  /\ cache' = Observe(IF rebooted THEN Unknown ELSE cache,
                               Cmd(t), Kind(answer), clean)
           /\ overtaken' = (overtaken \/ rebooted)
           /\ reinit' = (reinit \/ rebooted)
           /\ doubt' = (doubt \/ (clean /\ ~Satisfied(pipe))
                              \/ (clean /\ <<Banner>> \in Range(Front(pipe.done))))
           /\ \/ AddressingAnswered(t, Kind(answer))
              \/ RequestAnswered(t, Verdict(t, answer))
    /\ pipe' = Finish(pipe)
    /\ UNCHANGED <<addressed, link, adapterVars, faults>>

\* _resync: the quiet window has passed; forget, and probe.
Drain(t) ==
    /\ local[t].at = "drain"
    /\ adapter = <<>>
    /\ Becomes(t, [local[t] EXCEPT !.at = "probe"])
    /\ wire' = <<>>
    /\ pipe' = Begin(ClearBacklog(pipe))
    /\ cache' = Unknown /\ overtaken' = TRUE
    /\ adapter' = <<Probe>>
    /\ doubt' = FALSE
    /\ UNCHANGED <<addressed, reinit, link, header, faults>>

\* Anything that ends in a prompt will do for an answer to the probe.
ProbeEnds(t) ==
    /\ local[t].at = "probe"
    /\ pipe' = Finish(pipe)
    /\ IF pipe.done = <<>>
       THEN Leaves(t) /\ link' = "doubted"
       ELSE /\ IF local[t].next = "idle" THEN Leaves(t)
               ELSE Becomes(t, [local[t] EXCEPT !.at = local[t].next, !.next = "idle"])
            /\ UNCHANGED link
    /\ doubt' = (doubt \/ Kind(Block(pipe)) = "banner")
    /\ UNCHANGED <<overtaken, addressed, cache, reinit, adapterVars, faults>>

\* channel.recv or channel.drain raises ConnectionError.
LinkDrops(t) ==
    /\ local[t].at \in {"collect", "drain", "probe"}
    /\ faults < MaxFaults /\ faults' = faults + 1
    /\ Leaves(t) /\ link' = "dead"
    /\ UNCHANGED <<overtaken, addressed, cache, reinit, pipe, adapterVars, doubt>>

\* The owner of the connection reconnects the same terminal.  A banner may
\* outlive the drain that the channel makes while it settles.
Connect ==
    /\ link # "up" /\ owner = Nobody /\ \A t \in Task : local[t].at = "idle"
    /\ link' = "up"
    /\ pipe' = FreshPipe /\ cache' = Unknown /\ addressed' = Nobody
    /\ overtaken' = TRUE
    /\ adapter' = <<>> /\ header' \in {header, Nobody}
    /\ \/ wire' = <<>> /\ UNCHANGED faults
       \/ wire' = <<Banner>> /\ faults < MaxFaults /\ faults' = faults + 1
    /\ doubt' = FALSE
    /\ UNCHANGED <<owner, local, reinit>>

-----------------------------------------------------------------------------
\* The adapter, external.

\* The header after command c, and what it may print.
SetsHeader(c) == c.op = "header" /\ c.ecu \notin Refused
HeaderAfter(c) == IF SetsHeader(c) THEN c.ecu ELSE header

\* Behind its default header the adapter broadcasts: any ECU may answer.
Prints(c) ==
    LET said(kind, e) == [kind |-> kind, ecu |-> e, to |-> c.by]
    IN  CASE c.op = "request" ->
                {said("reply", e) : e \in IF header = Nobody THEN Ecu ELSE {header}}
                    \cup {said("nodata", Nobody)}
          [] c.op = "header" /\ c.ecu \in Refused -> {said("refused", Nobody)}
          [] OTHER -> {said("ok", Nobody)}

Answers ==
    /\ adapter # <<>>
    /\ adapter' = Tail(adapter)
    /\ header' = HeaderAfter(Head(adapter))
    /\ \E text \in Prints(Head(adapter)) : wire' = Append(wire, text)
    /\ UNCHANGED <<taskVars, sharedVars, faults, doubt>>

\* The link loses a command, or its reply.
Loses ==
    /\ adapter # <<>>
    /\ faults < MaxFaults /\ faults' = faults + 1
    /\ adapter' = Tail(adapter)
    /\ header' \in {header, HeaderAfter(Head(adapter))}
    /\ UNCHANGED <<taskVars, sharedVars, wire, doubt>>

\* A voltage dip: settings and pending commands are gone, the banner is printed.
ResetsItself ==
    /\ faults < MaxFaults /\ faults' = faults + 1
    /\ header' = Nobody /\ adapter' = <<>>
    /\ wire' = Append(wire, Banner)
    /\ UNCHANGED <<taskVars, sharedVars, doubt>>

-----------------------------------------------------------------------------
TaskStep(t) ==
    \/ SetHeader(t) \/ Issue(t) \/ Receive(t) \/ Conclude(t)
    \/ Drain(t) \/ ProbeEnds(t)

Next ==
    \/ \E t \in Task : Enter(t) \/ TaskStep(t) \/ LinkDrops(t)
    \/ Connect \/ Answers \/ Loses \/ ResetsItself

Spec == Init /\ [][Next]_vars

\* A task that has begun goes on: the event loop runs it, deadlines expire,
\* and the adapter says something.
Fairness ==
    /\ \A t \in Task : WF_vars(SetHeader(t)) /\ WF_vars(Issue(t)) /\ WF_vars(Conclude(t))
                       /\ WF_vars(Drain(t)) /\ WF_vars(ProbeEnds(t))
    /\ WF_vars(Answers)

FairSpec == Spec /\ Fairness

-----------------------------------------------------------------------------
\* The header the adapter will have once it has done what it was sent.
EffectiveHeader ==
    LET set == {i \in DOMAIN adapter : SetsHeader(adapter[i])}
    IN  IF set = {} THEN header ELSE adapter[CHOOSE i \in set : \A j \in set : j <= i].ecu

\* The cache is what the adapter holds: nothing moves the adapter behind the
\* terminal's back (addressing.py AdapterState), but for a reset whose banner
\* is on its way, was thrown away unread or has its init and resync pending, a
\* reply that was taken for another command's, and the header just being sent.
CacheCoherent ==
    \/ cache.header = Nobody
    \/ doubt \/ reinit \/ link = "dead" \/ \E t \in Task : local[t].at = "drain"
    \/ Banner \in Range(wire) \/ <<Banner>> \in Range(pipe.done)
    \/ \E t \in Task : local[t].at = "collect" /\ Cmd(t).op = "header"
    \/ EffectiveHeader = cache.header

Accepts(t) == Conclude(t) /\ Cmd(t).op = "request" /\ Verdict(t, Block(pipe)) = "ok"

\* A task is never given another ECU's reply, as long as the reply is the
\* request's own and the terminal knew the header it was sent under: the
\* transaction keeps any other task from moving the header between addressing
\* and asking (terminal.py transaction).
AcceptedFromAddressed ==
    [][ \A t \in Task : Accepts(t) /\ ~doubt' /\ Satisfied(pipe) /\ cache.header # Nobody
                           => Last(Block(pipe)).ecu = local[t].goal ]_vars

\* Neither the retries, the rounds, the resyncs nor the init after a reset
\* keep the lock for ever.
TransactionsEnd ==
    \A t \in Task : local[t].at # "idle" ~> local[t].at = "idle"
=============================================================================
