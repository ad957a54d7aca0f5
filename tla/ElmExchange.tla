----------------------------- MODULE ElmExchange ----------------------------
(***************************************************************************)
(* One ELM327 connection carrying a poll cycle                             *)
(* (transport/elm327/terminal.py over a Channel): commands are sent one at *)
(* a time, the adapter answers them in order, and the reader has no more   *)
(* than the > prompts and the echo in a reply to tell which command a      *)
(* reply belongs to.  A reply may be late, lost, or announced by any       *)
(* number of ResponsePending frames; the adapter may reset itself and      *)
(* print its banner; the link may drop.                                    *)
(*                                                                         *)
(* Deadlines are not timed: a collection may be abandoned at any moment.   *)
(* The one timing fact used is the one _resync states: silence longer than *)
(* the adapter's own budget plus the link's latency means nothing is in    *)
(* flight.                                                                 *)
(***************************************************************************)
EXTENDS ResponsePipe, FiniteSets

CONSTANTS
    Cycle,      \* length of the poll cycle: positions 1..Cycle
    Unchecked,  \* positions that are AT commands: no echo to validate
    Silent,     \* positions whose ECU does not answer: the adapter says NO DATA
    Retries,    \* send_uds(retries=...): how often silence is asked again
    Backlog,    \* bound on the requests the adapter has not fully answered
    MaxCancels, \* bound on the commands cancelled before the ledger is zeroed
    Faulty      \* whether replies get lost and the adapter resets itself

ASSUME ExchangeAssumption ==
    /\ Cycle \in Nat \ {0}
    /\ Unchecked \subseteq 1..Cycle
    /\ Silent \subseteq 1..Cycle
    /\ Retries \in Nat
    /\ Backlog \in Nat \ {0}
    /\ MaxCancels \in Nat
    /\ Faulty \in BOOLEAN

VARIABLES
    phase,      \* what the task holding the command lock is doing
    asked,      \* the position of the last command, the probe apart
    verdict,    \* what came of its reply
    attempt,    \* how often its request has been sent again
    pipe,       \* the terminal's ResponsePipe
    reinit,     \* _reinit_pending
    adapter,    \* requests the adapter has received and not answered
    wire,       \* tokens on their way to the channel's reader
    cancelled,  \* history: commands cancelled since the ledger was zeroed
    doubt       \* history: since the last alignment a reply was lost, a banner
                \* printed, a debt written off or never counted, or half a reply
                \* thrown away

vars == <<phase, asked, verdict, attempt, pipe, reinit, adapter, wire,
          cancelled, doubt>>

Position == 0..Cycle
Kind == {"answer", "nodata", "pending", "banner", "prompt"}

\* own: it belongs to the command sent last.
Request == [of : Position, own : BOOLEAN]
Token == [kind : Kind, of : Position, own : BOOLEAN]

TypeOK ==
    /\ phase \in {"idle", "collect", "drain", "probe", "down"}
    /\ asked \in 1..Cycle
    /\ verdict \in {"ok", "none", "resync"}
    /\ attempt \in 0..Retries
    /\ pipe.owed \in 0..(MaxOwed + MaxCancels) /\ pipe.dirty \in BOOLEAN
    /\ pipe.tail \in Seq(Token) /\ pipe.done \in Seq(Seq(Token))
    /\ reinit \in BOOLEAN
    /\ adapter \in Seq(Request)
    /\ wire \in Seq(Token)
    /\ cancelled \in 0..MaxCancels
    /\ doubt \in BOOLEAN

Init ==
    /\ phase = "idle" /\ asked = Cycle /\ verdict = "ok" /\ attempt = 0
    /\ pipe = FreshPipe /\ reinit = FALSE
    /\ adapter = <<>> /\ wire = <<>>
    /\ cancelled = 0 /\ doubt = FALSE

-----------------------------------------------------------------------------
\* What the adapter still has to deliver.

Texts(tokens) == Cardinality({i \in DOMAIN tokens :
                                 tokens[i].kind \in {"answer", "nodata", "banner"}})

\* Replies the pipe has not completed yet: of requests the adapter is still to
\* answer, and those whose text or closing prompt is on its way.
Outstanding == Len(adapter) + Texts(wire) + Texts(pipe.tail)

Disown(s) == [i \in DOMAIN s |-> [s[i] EXCEPT !.own = FALSE]]

Framed(kind, r) == << [kind |-> kind, of |-> r.of, own |-> r.own],
                      [kind |-> "prompt", of |-> r.of, own |-> r.own] >>

Banner == Framed("banner", [of |-> 0, own |-> FALSE])

\* A reader that trusts an echo it did not ask for.
VerdictWithoutEcho(block, p) ==
    LET said(kind) == {t \in Range(block) : t.kind = kind}
    IN  IF p \in Unchecked \/ said("answer") # {} THEN "ok"
        ELSE IF said("banner") # {} THEN "resync"
        ELSE "none"

\* What parse_uds_response and send_uds make of a block when a reply of
\* position p is due: "ok", "none" (no_data, bus error) or "resync" (a stale
\* echo or something that is not a UDS reply).  An AT command takes anything.
Verdict(block, p) ==
    LET said(kind) == {t \in Range(block) : t.kind = kind}
    IN  IF p \in Unchecked THEN "ok"
        ELSE IF \E t \in said("answer") : t.of = p THEN "ok"
        ELSE IF said("answer") \cup said("banner") # {} THEN "resync"
        ELSE "none"

-----------------------------------------------------------------------------
\* The task that holds the command lock.

\* channel.send and begin().  A request the adapter has no room for is lost.
Transmit(p, ledger) ==
    /\ asked' = p
    /\ pipe' = [Begin(ledger) EXCEPT !.tail = Disown(@)]
    /\ wire' = Disown(wire)
    /\ IF Outstanding < Backlog
       THEN /\ adapter' = Append(Disown(adapter), [of |-> p, own |-> TRUE])
            /\ doubt' = doubt
       ELSE /\ adapter' = Disown(adapter)
            /\ doubt' = TRUE

\* _send_command_locked up to the wait.  The cycle moves on, or the same
\* request is retried when it drew no answer.
Send ==
    /\ phase = "idle"
    /\ ~NeedsResync(pipe) /\ ~reinit
    /\ \/ /\ Transmit((asked % Cycle) + 1, pipe)
          /\ attempt' = 0
       \/ /\ verdict # "ok" /\ attempt < Retries
          /\ Transmit(asked, pipe)
          /\ attempt' = attempt + 1
    /\ phase' = "collect"
    /\ UNCHANGED <<verdict, reinit, cancelled>>

\* channel.recv: one or more tokens arrive together and are harvested.
Receive ==
    /\ phase \in {"collect", "probe"}
    /\ ~Satisfied(pipe)
    /\ \E n \in 1..Len(wire) :
          /\ pipe' = Feed(pipe, SubSeq(wire, 1, n))
          /\ wire' = SubSeq(wire, n + 1, Len(wire))
    /\ UNCHANGED <<phase, asked, verdict, attempt, reinit, adapter, cancelled, doubt>>

\* The collection ends, satisfied or at its deadline, and send_uds looks at
\* what it was given: a reply that is not this request's starts a resync.
Conclude ==
    /\ phase = "collect"
    /\ LET block == Block(pipe)
       IN  /\ verdict' = Verdict(block, asked)
           /\ phase' = IF verdict' = "resync" THEN "drain" ELSE "idle"
           /\ reinit' = (reinit \/ \E t \in Range(block) : t.kind = "banner")
    /\ pipe' = Finish(pipe)
    /\ doubt' = (doubt \/ (pipe.done # <<>> /\ ~Satisfied(pipe)))
    /\ cancelled' = IF pipe.done # <<>> THEN 0 ELSE cancelled
    /\ UNCHANGED <<asked, attempt, adapter, wire>>

\* The next command finds a pipe it cannot account for, or a pending init.
\* The init itself, a run of AT commands, is not modelled.
StartResync ==
    /\ phase = "idle"
    /\ NeedsResync(pipe) \/ reinit
    /\ phase' = "drain"
    /\ reinit' = (reinit /\ NeedsResync(pipe))
    /\ UNCHANGED <<asked, verdict, attempt, pipe, adapter, wire, cancelled, doubt>>

Drain ==
    /\ phase = "drain"
    /\ wire # <<>>
    /\ wire' = Tail(wire)
    /\ UNCHANGED <<phase, asked, verdict, attempt, pipe, reinit, adapter, cancelled, doubt>>

\* The quiet window has passed: zero the ledger and probe.
Probe ==
    /\ phase = "drain"
    /\ wire = <<>> /\ adapter = <<>>
    /\ phase' = "probe"
    /\ pipe' = Begin(ClearBacklog(pipe))
    /\ adapter' = <<[of |-> 0, own |-> TRUE]>>
    /\ cancelled' = 0 /\ doubt' = FALSE
    /\ UNCHANGED <<asked, verdict, attempt, reinit, wire>>

\* The probe's reply, or its absence, ends the resync.
ProbeEnds ==
    /\ phase = "probe"
    /\ phase' = IF pipe.done = <<>> \/ Block(pipe) = <<>> THEN "down" ELSE "idle"
    /\ pipe' = Finish(pipe)
    /\ UNCHANGED <<asked, verdict, attempt, reinit, adapter, wire, cancelled, doubt>>

\* The task is cancelled in its await (a keepalive task being stopped, a mode
\* being left): the lock is released, finish() never runs, and begin() will
\* start the next collection without what this one has read.
Cancel ==
    /\ phase' = "idle"
    /\ \/ /\ phase \in {"collect", "probe"} /\ ~Satisfied(pipe)
          /\ cancelled < MaxCancels
          /\ cancelled' = cancelled + 1
          /\ pipe' = [pipe EXCEPT !.tail = <<>>, !.done = <<>>]
          /\ doubt' = (doubt \/ pipe.tail # <<>> \/ pipe.done # <<>>)
       \/ /\ phase = "drain" /\ MaxCancels > 0
          /\ doubt' = TRUE
          /\ UNCHANGED <<cancelled, pipe>>
    /\ UNCHANGED <<asked, verdict, attempt, reinit, adapter, wire>>

\* The task is cancelled while channel.send still waits for its buffer to empty: the
\* request is on its way and begin() has not counted it.  The bound: with MaxCancels = 1
\* only while nothing else is in doubt.
CancelSend ==
    /\ phase = "idle"
    /\ ~NeedsResync(pipe) /\ ~reinit
    /\ cancelled < MaxCancels /\ Outstanding < Backlog
    /\ doubt => MaxCancels > 1
    /\ asked' = (asked % Cycle) + 1 /\ verdict' = "ok" /\ attempt' = 0
    /\ adapter' = Append(Disown(adapter), [of |-> asked', own |-> FALSE])
    /\ wire' = Disown(wire)
    /\ pipe' = [pipe EXCEPT !.tail = Disown(@)]
    /\ doubt' = TRUE
    /\ UNCHANGED <<phase, reinit, cancelled>>

\* channel.recv or channel.drain raises: the caller reconnects.
LinkDrops ==
    /\ phase \in {"collect", "drain", "probe"}
    /\ phase' = "down"
    /\ UNCHANGED <<asked, verdict, attempt, pipe, reinit, adapter, wire, cancelled, doubt>>

\* A new connection.  The adapter's start-up banner may outlive the drain that
\* the channel makes while it settles.
Connect ==
    /\ phase = "down"
    /\ phase' = "idle"
    /\ pipe' = FreshPipe
    /\ adapter' = <<>>
    /\ \E late \in {FALSE, Faulty} :
          /\ wire' = IF late THEN Banner ELSE <<>>
          /\ doubt' = late
    /\ cancelled' = 0
    /\ UNCHANGED <<asked, verdict, attempt, reinit>>

-----------------------------------------------------------------------------
\* The adapter, external: one prompt per reply, replies in request order.

Answers ==
    /\ adapter # <<>>
    /\ wire' = wire \o Framed(IF Head(adapter).of \in Silent THEN "nodata" ELSE "answer",
                              Head(adapter))
    /\ adapter' = Tail(adapter)
    /\ UNCHANGED <<phase, asked, verdict, attempt, pipe, reinit, cancelled, doubt>>

\* The ECU asks for more time.
AnswersPending ==
    /\ adapter # <<>> /\ wire = <<>>
    /\ Head(adapter).of \notin Unchecked \cup {0}
    /\ wire' = Framed("pending", Head(adapter))
    /\ UNCHANGED <<phase, asked, verdict, attempt, pipe, reinit, adapter, cancelled, doubt>>

\* A reply the adapter owes and will never send.
LosesReply ==
    /\ Faulty /\ adapter # <<>>
    /\ adapter' = Tail(adapter)
    /\ doubt' = TRUE
    /\ UNCHANGED <<phase, asked, verdict, attempt, pipe, reinit, wire, cancelled>>

\* A voltage dip: the adapter forgets its requests and prints its banner.
ResetsItself ==
    /\ Faulty /\ adapter # <<>>
    /\ adapter' = <<>>
    /\ wire' = wire \o Banner
    /\ doubt' = TRUE
    /\ UNCHANGED <<phase, asked, verdict, attempt, pipe, reinit, cancelled>>

-----------------------------------------------------------------------------
Terminal == Send \/ Receive \/ Conclude \/ StartResync \/ Drain \/ Probe
            \/ ProbeEnds \/ Cancel \/ CancelSend \/ LinkDrops \/ Connect

Adapter == Answers \/ AnswersPending \/ LosesReply \/ ResetsItself

Next == Terminal \/ Adapter

Spec == Init /\ [][Next]_vars

\* The task that has the connection goes on (it polls, reads what has arrived or gives up
\* at its deadline, resyncs, reconnects), and the adapter keeps its contract to say
\* something.
Progress == Send \/ Receive \/ Conclude \/ StartResync \/ Drain \/ Probe \/ ProbeEnds \/ Connect
Fairness == WF_vars(Progress) /\ WF_vars(Answers)

FairSpec == Spec /\ Fairness

-----------------------------------------------------------------------------
\* What the ledger promises.

\* The count stays evidence: it never exceeds the ceiling past which the code
\* gives up on it, but for commands cancelled in a row, whose debts leave the
\* pipe clean.  Between two commands a dirty pipe always has a debt to count
\* with, so a resync is for the ceiling alone (pipe.py needs_resync, finish).
LedgerBound ==
    /\ pipe.owed <= MaxOwed \/ pipe.owed <= cancelled + 1
    /\ phase \in {"idle", "drain"} =>
           IF pipe.dirty THEN pipe.owed > 0 ELSE pipe.owed = cancelled

\* Unless something was lost, thrown away or printed unasked, the prompts the
\* ledger says are owed are the ones the adapter is still to send: a collection
\* neither ends before its own reply nor waits for one that cannot come.
LedgerExact ==
    (~doubt /\ phase \in {"idle", "collect", "probe"})
        => pipe.owed = Len(pipe.done) + Outstanding

\* A block handed to a caller is one whole reply: the text of no two replies
\* shares a block, and no block lacks its text, unless a cancelled command
\* threw half of one away (split_prompt_blocks, carry).
BlocksAreWhole ==
    ~doubt => \A i \in DOMAIN pipe.done : Texts(pipe.done[i]) = 1

OwnBlock == \A t \in Range(Block(pipe)) : t.kind # "pending" => t.own

\* The collection returns its own command's reply, and what it discards as
\* stale is somebody else's, whenever the owed count is satisfied and nothing
\* has cast doubt on it (pipe.py finish).
SatisfiedIsOwn ==
    [][ (Conclude \/ ProbeEnds) /\ Satisfied(pipe) /\ ~doubt
           => /\ OwnBlock
              /\ \A b \in Range(Front(pipe.done)) : \A t \in Range(b) : ~t.own ]_vars

\* Replies the ledger does not know of are in flight: every command from here
\* on may be given its predecessor's reply.
Offset == Outstanding + Len(pipe.done) > pipe.owed

\* Cancellations stop at some time: commands that are cut off for ever never end
\* anything.
Undisturbed == <>[][~(Cancel \/ CancelSend)]_vars

\* An offset is carried on only by collections that miss their deadline: while they
\* end at their prompts, counting, the echo of a stale reply and the resync it calls
\* for end the offset, or the connection is given up (terminal.py _resync, send_uds).
\* Without the second disjunct this does not hold: with the retry of the polled reads
\* (exec_read.py:66, param.py:93) an offset goes on for as long as every read times
\* out once, because the second attempt collects the reply to the first.
OffsetHeals == Undisturbed => (Offset ~> (~Offset \/ pipe.dirty \/ phase = "down"))
=============================================================================
