# canair in TLA+

canair reads and records the diagnostics of a car through one small device: an
ELM327-compatible adapter behind WebSocket or TCP (the WiCAN), or raw CAN frames.
The device serves one client at a time, the adapter answers one command at a
time, and nothing in an ELM327 reply says which command it answers. Most of what
is hard in canair follows from those three facts and from the wish to lose no
recording. This directory holds specifications of that part of the program,
small instances of them for TLC, and proofs for TLAPS.

Paths below are relative to `src/src/canair/` unless they name a module.

## 1. The system

| part | state it keeps | operations | hard behaviour |
|---|---|---|---|
| device lock (`device/lock.py`, `lock_watchdog.py`, `cli/commands/lock.py`) | an flock, a PID in the locked file, a steal-request file, the inode a session claimed | acquire, wait, ask, give up, claim, watch, release, probe, kill | processes interleave between system calls; crashes; files removed under a holder; stale PIDs and requests |
| prompt ledger (`transport/elm327/pipe.py`) | prompts owed, dirty flag, carried text, completed blocks | begin, feed, finish, clear, reset | late, lost, torn and unasked replies; ResponsePending |
| terminal (`transport/elm327/terminal.py`, `addressing.py`, `channel.py`) | the command lock, what the adapter is believed to hold, the addressed ECU, pending re-init | transaction, set_header, send_command, send_uds, resync, reconnect | several tasks share one header; retries; resets; cancellation |
| session manager (`transport/session_manager.py`, `session_table.py`) | the table of open diagnostic sessions, who refuses keepalives, the background task and its error | open, wake, switch, keepalive (background and inline), close | the keepalive shares the terminal with reads; an ECU's timer runs out; a link error nobody awaits |
| monitor loop (`live/monitor/run.py`, `controller.py`, `reconnect.py`, `tui/apps/monitor/polling.py`) | connected or not, candidates, pause, stop | tick, keepalive, drop, reconnect, rebind, stop | a drop between two polls, a quit during a reconnect, a set-up that fails |
| poll health (`live/monitor/schedule.py`, `backoff.py`, `health.py`) | periods, slowdown factors (twice), rounds to sit out, unanswered cycles | take due, observe, slow down, recover, check liveness | two accounts of one factor; thinning out polls against counting dead ones |
| link events (`live/monitor/link_events.py`) | the open events and their ids | start, close, restate in a new segment | a gap across reconnect, pause and rotation |
| recording (`live/monitor/record.py`, `captures/journal.py`, `captures/save.py`) | a buffered journal, per-day capture files, unsaved history | append, flush, reconcile, recover, annotate, new segment, save now | crashes between steps, recordings over midnight, load-change-replace of files |
| raw transport (`transport/raw/uds_client.py`) | per ECU a request waiting and a count of replies owed | poll, read, drain, expire, new client | late replies of the same PID; `7F xx 78`; replies that never come |
| pure parts (`uds/`, `expression/`, `states/`, `analysis/`, `safety/`, `validation/`) | none | decode, evaluate, match, validate | numeric edges |
| files of definitions (`ecus/`, `profile/`, `variants/`, `yaml_edit/`, `migrations/`, `interop/`, `contribute/`) | none at run time | load, edit, convert | data handling |
| front ends (`cli/`, `tui/`, `render/`, `config/`, `install/`) | screens, settings | parse, show | - |

How they interact. A live command takes the **device lock** before it opens the
channel and gives it back after it has closed it; a watchdog thread stops the
command when the lock is lost. Inside a command, asyncio tasks (the poll loop or
the read, and a keepalive) call the **terminal**, which serialises commands with
one lock and holds it over a *transaction* (address, ask, retry). Every command
goes through the **ledger**, which decides when a reply is complete and whose it
is. The live monitor on raw CAN has its own client in the place of terminal and
ledger: one ISO-TP stack per ECU, all ECUs asked at once. **Scheduler** and
**backoff** decide what a tick asks, the **liveness check** hands a dead link to
the **reconnector**. Readings and link events are appended to the **journal**; on exit, or by a later
`captures uds --recover`, the journal is folded into a day's capture file.

What makes each part correct:

- *lock*: one rightful session; the PID on file is the session's; a request
  reaches only the process it was written for; who is overtaken or asked leaves.
- *ledger and exchange*: prompts owed are the prompts still to come; a reply goes
  to the command that asked for it; misalignment is bounded and ends.
- *terminal*: the cached header is the adapter's; a reading is of the ECU that
  was addressed; a transaction ends.
- *recording*: what reached the disk stays retrievable; nothing is stored twice
  without a crash; every row is in its day's file; a clean exit saves everything.
- *session manager*: no session the table believes in runs out by the program's own
  waits, and one lost keepalive costs none (the second is a promise that does not
  hold); no ECU stays in a session after the command has closed; a link error found in the
  background ends the command.
- *raw client*: a reply is returned for the request it answers; the debts cover what
  may still arrive; the monitor does not stay blind.
- *monitor*: a drop reaches the reconnector, and is on record until an ECU answers;
  slowdowns are the same in all three accounts and end; a dead link is noticed; a
  stop ends the run.

## 2. Modules

| module | what it is |
|---|---|
| `ConnectionLease` | abstract: at most one rightful user, overtaken users leave |
| `DeviceLock` | the flock, the PID file and the request file, one action per system call; refines `ConnectionLease` |
| `DeviceLockProofs` | the inductive invariant and what follows from it |
| `ResponsePipe` | the ledger as a record and pure operators; no variables |
| `ElmExchange` | one task polling over one connection: ledger, deadlines, resync, cancellation, adapter and link |
| `ResponsePipeProofs` | a lemma for `ElmExchangeProofs`: the recursive function of the harvest exists for every length |
| `ElmExchangeProofs` | the bound on the ledger, and the bytes in flight: exactness, whole blocks, attribution |
| `ElmTerminal` | several tasks over one terminal: transactions, addressing, cache, resets; uses `ResponsePipe` |
| `ElmTerminalProofs` | one task at a time, what the replies still to come mean, the cache and the ECU that answers |
| `RecordingStore` | abstract: a row on the disk stays retrievable until its recording is thrown away |
| `CaptureJournal` | recorders and recoveries, journals and capture files; refines `RecordingStore` |
| `CaptureJournalProofs` | rows, sessions, savers; nothing lost, nothing stored twice; the refinement |
| `RawClient` | the raw CAN client: requests per ECU, replies late and lost, the owed ledger, new clients |
| `RawClientProofs` | the ledger is never short, a reply is its request's |
| `SessionKeeper` | sessions, the background keepalive and the command's reads over one lock, with a clock |
| `SessionKeeperProofs` | who has the terminal and what is on the wire; the arithmetic of the timers |
| `PollHealth` | scheduler, backoff and liveness check: state and operations |
| `MonitorRun` | the poll loops, the tick, the reconnector, link events and the segment's journal; composes `PollHealth` |
| `MonitorRunProofs` | what the operations of `PollHealth` keep, the inductive invariant of a monitor run and what follows |
| `MC...` | the instances that TLC runs, and their symmetry sets |

### DeviceLock

A process runs one command, in one of four modes: a live command without
(`plain`) or with `--force` (`force`), `canair lock steal`, or a command that
only looks (`probe`, `lock_state`). `pc` is the place between two system calls:
`Open` is `os.open(O_CREAT)`, `TryLock`/`TryLockFails` the non-blocking flock,
`ReadHolder` the read of the PID by path, `OpenSteal`/`WriteSteal` the truncation
and the write of the request, `Truncate`/`WritePid`/`ReadSteal`/`ClearMoot` the
steps of `_claim`, `StandDown` the watchdog's check and the SIGTERM it sends, `Release` the
unlock and close. `fd`, `flock` and `ident` are the process's descriptor, the
kernel's lock table and `_ident`; `path` is the inode linked at `LOCK_FILE`, so a
removal of the file (`RemoveLockFile`) leaves open descriptors on the old inode.
Waits are untimed: `_wait_for_lock` may give up at any moment, a request may
expire at any moment. PIDs are not reused, and the file is always writable.

### ResponsePipe and ElmExchange

The adapter's output is a sequence of tokens: text of a reply, a line
`7F xx 78`, a prompt. `Feed` is `feed` with its `_harvest`, `Finish` and `Block`
are the two halves of `finish`. In `ElmExchange` one task sends the positions of
a poll cycle one after the other; `own` marks what belongs to the command sent
last, which the reader cannot see and the properties can. A deadline is the
freedom of `Conclude` to end a collection early. `Drain`, `Probe` and `ProbeEnds`
are `_resync`; the only fact about time is the one its docstring states, that a
drain which outlasts the adapter's budget ends with nothing in flight. `Cancel`
is a task cancelled in its await of the reply, `CancelSend` one cancelled in the await
of `channel.send`, before `begin` counts the request, `LinkDrops` a `ConnectionError`, `Connect` the
reconnect. `doubt` is a history variable: something happened that counting
prompts cannot see (a reply lost, a banner, a debt written off or never counted, half
a reply thrown away), and no resync has followed.

### ElmTerminal

Each task repeats: take the transaction, `set_header`, `send_uds`. The locals of
those calls are the record `local[t]`; what tasks share is `_addressed`, the
`AdapterState` cache, `_reinit_pending` and the ledger. Of the adapter's settings
the header is kept as it is; everything else that is planned for an ECU is one
value, `fc`. `overtaken` is the epoch having moved. The adapter applies a header
when it answers, broadcasts behind its default header, refuses some headers,
loses commands and resets itself. The wire carries whole replies, each of which the
ledger is fed with its prompt (`Prompted`). The callers outside a transaction
(`live/read/raw.py`) are the mutant of `Enter`.

### CaptureJournal

A recorder appends rows to a buffer, which reaches the file at a flush (or in
part when the buffer overflows), and ends by reconciling, abandoning (an exception) or
discarding its journal. A recovery lists the journals that exist and reconciles
or deletes each. Reconciling is `Read`, then for each day `Load`, `Replace`,
`Annotate` and perhaps `Rewrite`, then `Unlink`: the points at which the code
can crash or raise. `Overlap` says whether two commands run at once; nothing in
the code forbids it, and nothing locks a capture file. `SessionsOf` goes through the
rows as `reconcile_file` does: `Placed` is one turn of its loop, which adds the row
to its day's session or begins one.

### RawClient

For each ECU `asked` is the request that waits, `bus` what the ECU has not yet
answered and `stack` what its ISO-TP stack has reassembled; `owed` is `_owed`.
`Send` drains and sends; `TakePending`, `TakeStale` and `Serve` are the three ends
of a harvested message, `Expire` and `ReturnPending` the two ends of a deadline
(read() returns a `7F xx 78` that was never followed up, and clears the debts).
`StartPoll`, `StartRound` and `EndPoll` are the rounds of `poll` and the liveness
check behind it, `Rebind` the new client. A new client opens the held sessions
first (`Openings`), then warms each ECU up (`StartWarmUp`); a poll that raises, or a
keepalive between two polls (`sessions.py:113-116`), ends it (`LinkFails`). `own`
tells a message that answers the waiting request from one that answers an earlier
one, which the client can only infer; `doubt` is a history variable: the ledger has let go of a debt that may
still be paid (its ceiling, a returned `7F xx 78`, a new client).

### SessionKeeper

`job` is the exchange the command is in, `bg` the background task, `lock` the
queue of those that hold and want the terminal, `wire` the request on the link.
Time is a counter of half seconds that advances when nothing else can (`Tick`):
the constants of the code, and the ECUs' session timer of 5 s, are numbers of
ticks. `tracked`, `mode`, `idle` and `refusing` are the table; `session` and `s3`
are the ECU's side. Every exchange takes time: an answer comes after 0 to `Delay` ticks,
or the request is waited for until its time is up. `late` is a history variable: the
ticks that rounds and the ECU's own exchanges took of its timer since it was last
heard. It stops at `Patience`, which is what the timer leaves next to the idle limit
and the sleep (1.5 s of 5 s), and jumps there (`Spoilt`) when the table records a
refresh of an ECU that did not answer.

### PollHealth and MonitorRun

`PollHealth` has the scheduler's factor (`slowdown`, `skip`) and the backoff's
(`health`) beside each other, as the code has. `MonitorRun` runs one poll loop,
of the TUI or of a run without a terminal: `at` is its place between two awaits.
`StartTick`, `Resolve` and `FinishTick` are `poll_once` over a raw client, whose
outcome per PID is prompt, slow or none; `FailTick` is a tick that raises.
`HandOver` to `Setup` are the reconnector. `Setup` opens the sessions again, which
raises on a link that is down and ends the run (`failed`), and warms the ECUs up, whose
errors are suppressed: without sessions to open it returns on any link. `open` is the link-event tracker's table of ids,
`written` what the current journal holds open. Times are in units of the shortest
period; `Overrun` lets a tick take longer than one. `link` is up, mute (open and
without answers) or down.

## 3. Runs

| run | question | bounds |
|---|---|---|
| `lock_safety` | exclusion, the recorded PID, the aim of requests, the inductive invariant, refinement of the lease | 3 processes, one wedged, 4 inodes (one more than descriptors can pin); symmetry of processes and inodes |
| `lock_live` | overtaken and asked sessions leave | 2 processes, 3 inodes |
| `exchange_safety` | the ledger's bound and exactness, whole blocks, attribution, an offset ends | a cycle of an AT command, an answering and a silent ECU; ceiling 3, 3 requests in flight, 1 retry, 1 cancellation |
| `terminal_shared` | cache coherence, attribution across tasks, transactions end | 2 tasks, 3 ECUs (one refused), ceiling 2, 2 rounds, 1 retry, 2 in flight, 1 fault |
| `journal_safety` | nothing on disk is lost, stored once, whole days | 2 recordings of up to 2 rows, 2 days, 2 recoveries, crashes and errors anywhere |
| `journal_overlap` | a docstring that does not hold | 1 recorder, 1 recovery at the same time |
| `raw_client` | debts covered, replies attributed, never blind for good | 2 ECUs with 1 and 2 PIDs, one kept in a session, ceiling 2, dead limit 3, 2 faults |
| `sessions_kept` | sessions kept, closed sessions end, link errors surface | 2 ECUs, the code's times in half seconds, answers of up to half a second, one unusual event of six kinds |
| `session_loss` | a comment that does not hold | the same, one lost keepalive and nothing else, answers without delay |
| `monitor_run` | accounts agree, events mirrored, drops and dead links handed over, rates recover, a stop ends | a recorded TUI run per PID and a plain run on rounds; 2 PIDs on 2 ECUs, factors up to 2, one user action, `--wait` |
| `monitor_drop` | a sentence of the docs and a comment that do not hold | the plain run |
| `poll_dead` | a sentence of the docs that does not hold | both loops on rounds, factors up to 4 |

The bounds. Every race of the lock needs at most a holder, a contender and a
third that interferes with the request file or replaces the lock file. An offset
needs one reply more in flight than the ledger knows of, so `Backlog` is at least
the ceiling; a cycle as long as the backlog keeps a stale echo from being
mistaken for a fresh one by wrapping around. The ceiling is a parameter; the code's
is 4, and smaller ones make the write-off and the resync happen sooner. Two
tasks and two ECUs that can be addressed are enough for one task to move the
other's header; the third is the one the adapter refuses. Two
recoveries let one be cut short and the next find what it left; two rows on two
days split a recording. The raw client's ceiling is 2 (the code's is 4), so
that it is reached with two faults; two PIDs on one ECU and one on the other give
both a repeated echo and an ECU that answers while another owes. A keepalive, a
read and a session change that wait for one another need no more than two ECUs.
Every answer may take half a second, so that rounds and exchanges add up to more than
the code's times leave, and to less; the unusual event comes on top, at any moment. One doubling is enough for a slowdown and its recovery; `poll_dead` has two (the
code five), and its other limits are the code's.
A send is cancelled only while nothing is in doubt (`CancelSend` with `MaxCancels = 1`;
the proofs are for any number).
`Backlog`, `MaxFaults`, `MaxCancels`, `MaxRows`, `Most`, `MostAtAll` and `MaxUser` are bounds in
guards, everything else is a parameter of the code.

`CHECK_DEADLOCK FALSE` is set where the system stops: processes of the lock and
of the journal run one command each, a monitor and a command with sessions end. The exchange and the terminal never stop.

### Fairness

- `DeviceLock`: the watchdog polls for ever in its own thread, a claim is
  straight-line code, the shutdown that SIGTERM starts runs to its end: weak
  fairness of `Claim`, `StandDown`, `Release` of each process that is not wedged.
  Nothing is assumed of contenders, of crashes or of who wins the flock.
- `ElmExchange`: weak fairness of the terminal's next step, whichever it is (a deadline
  may always come before what has arrived is read), and of the adapter's answers; none
  of losses, resets, cancellations.
- `ElmTerminal`: weak fairness of the steps of a task that has begun, and of the
  adapter's answers. Not of `Enter` (a task need not read) nor of `Receive` (what
  was sent may never arrive).
- `RawClient`: weak fairness of the loop, of what it does with each ECU's messages,
  of the ECUs' answers and of the deadlines that are due without a fault; every
  ECU is due for a poll again and again, as each has its own period.
- `SessionKeeper`: time passes, the event loop runs its tasks, exchanges end. The
  poll is fair in the strong sense: the command comes back to a read if it is
  free again and again, though a keepalive may hold the terminal in between.
- `MonitorRun`: weak fairness of the loop's next step. Nothing is assumed of the
  link, of candidates or of the user.

## 4. What the checks show

What holds: the inventory's properties for the lock, the ledger, the terminal and
the journal, within the conditions each property states. Those conditions are
the interesting part:

- The ledger is exact *until something is lost, thrown away or printed unasked*,
  and from a resync on again. `SatisfiedIsOwn` is what counting can promise.
- `OffsetHeals` needs the echo check, and is checked with the retry of the polled
  reads. It says that an offset ends, or the connection is given up, or a collection
  misses its deadline, once commands are no longer cut off (`Undisturbed`). It cannot
  say more: the retry collects its first attempt's reply, which has the right echo, so
  that an offset is carried along for as long as every read times out exactly once.
- `CacheCoherent` excludes the windows that the code cannot see: a banner that
  was paid for an earlier debt and dropped unread leaves a terminal that believes
  in a header the adapter has lost, until the next resync.
- `StoredOnce` excludes a reconcile that was cut short between the replacement of
  the file and the unlink of the journal; the recovery then stores the sessions
  again.
- `ImplementsStore` is checked for one command at a time. Overlapping commands
  load, change and replace a capture file with no lock and can overwrite each
  other.

- `ServedIsOwn` and `LedgerCovers` hold until the ledger is voided: at its ceiling, by a
  `7F xx 78` that paid for a debt or that `read` returned, and by a new client.
- `NeverBlindForGood` speaks of the monitor as a whole. One ECU may stay blind
  after a single lost reply, its answers discarded as debts one by one, for as
  long as another ECU answers, because the liveness check asks for all of them
  (`plans/2026-10-27-raw-owed-ledger-blackout.md` of the repository describes it).
- `SessionsKept` lets everything be lost, and promises a session until the rounds and
  exchanges since its ECU was last heard have taken 1.5 s of the timer's 5 s. Ten
  ECUs that answer in 0.15 s each are enough for a round to take as long; the code
  does not notice. An ECU that is taken for refreshed unheard is exempt until it is
  next heard, and no other is: what one ECU loses costs the others only its time.
- `TuiRehomesDrops` speaks of a drop that a poll or a keepalive meets. A drop while
  sessions are opened on a new client ends the TUI's run as it ends the other
  (`monitor_drop`), and is exempt, as are a run the user stops and an internal fault.

What does not hold, each shown by a run that ends in a counterexample:

1. `journal_overlap`: `flush` says a clean exit reconciles all; a recovery run
   meanwhile takes the live journal for an orphan and deletes it.
2. `monitor_drop`: the link-health document (line 27) says a session that drops is
   re-homed instead of abandoned. If the new link drops while the sessions are opened
   on it, the error of `open_raw` leaves the reconnector and ends the run: TLC's trace.
   The second way is against `run.py:59-60`: a drop that a keepalive finds between two
   polls ends both loops of a run without a terminal.
3. `session_loss`: `session_manager.py:58-59` says one lost keepalive does not end the
   session. Its wait of 1.5 s counts as a refresh, and with the sleeps of 2 s before
   and after it the ECU hears nothing for 5.5 s; its timer has 5 s.
4. `poll_dead`: the link-health document promises that a link without coherent
   answers is handed over after N cycles. On the fixed schedule the backoff slows
   every PID down after two dead cycles, the third polls nothing, and a cycle that
   polls nothing clears the count.

What was met while modelling and is part of the models, without a run of its own:

- `_claim`'s comment says a request aimed at the new holder is left alone; between
  its read and its unlink such a request can be written and is deleted
  (`ReadSteal`, `ClearMoot`).
- `lock_state` says it probes without disturbing; a live command that tries the
  flock during the probe is refused with nobody holding it (`Peek`, `Refuse`).
- `finish` says that a satisfied collection's last block is provably its own;
  after a late reply has been taken as the answer of a collection that expired,
  and the rest of the debt written off, it is not (`doubt` in `ElmExchange`).
- `send_uds` says every attempt first restates the addressed ECU; a resync begun by
  the request's own `send_command` comes after that and forgets it.
- A TUI that quits during a reconnect cancels the worker before it can clear
  `disconnected`, and reports a failure (`WorkerCancelled`).
- A candidate that is refused once is not asked again in that run (`Refuse`).

## 5. Proofs

`DeviceLockProofs`, for any sets `Proc`, `Wedged`, `Inode` that satisfy
`LockAssumption`:

- `MutexInvariant`: `Spec => []MutexInv`. Exclusion is not inductive: that two
  holders have different inodes follows from the kernel's table having one owner
  per inode, which needs program counters, descriptors and the table to agree
  (the first conjuncts of `MutexInv`). That a session is recorded in its file
  needs that nobody else writes into an inode whose flock is held, and that an
  inode is not reused while a descriptor is open on it. That requests are aimed
  at holders needs that every PID in a file, in a process's memory or in a
  request was once written by a holder.
- `TypeCorrect`, `Exclusion`, `RecordedPid` and `AimedRequests` are consequences.
- `LeaseImplemented`: the initial state maps to the lease's, and each action to a
  step of it or a stutter. `TryLock` is the interesting one: on the linked inode it is `Acquire`, on
  another `AcquireStray`; `RemoveLockFile` is `Overtake`.

`ResponsePipeProofs`, and the first parts of `CaptureJournalProofs` and
`SessionKeeperProofs`. The operators that go through a sequence (`Harvest`,
`Grouped`, `Among`) are recursive functions. What they return for every length is
proved in two steps: a lemma that the function exists and satisfies its equation
(`HarvestSteps`, `GroupedSteps`, `AmongSelects`), and a set of numbers that holds 0
and with n also n + 1 is all of `Nat` (`NatInduct`, which each of the three states
for itself). The second is proved from the library's fact that `Nat` is
well-founded, stated for sets, so that every use names the set of lengths for which
the claim holds.

`ElmExchangeProofs`, for any constants that satisfy the assumptions of the
exchange, in two layers:

- `LedgerInvariant` and `LedgerBounded`. The strengthening says that `owed` and
  `cancelled` are numbers, relates them in each phase, and states that a pipe is
  left dirty only with a debt: that is what makes `needs_resync` mean "at the
  ceiling".
- `ExchangeInvariant`, on which `ExchangeTypeCorrect`, `LedgerIsExact`, `BlocksWhole` and
  `SatisfiedOwn` rest. None of these three is inductive. The strengthening
  speaks of the whole text from the reader's tail to the adapter's last
  pending command: it is made of blocks that each end in one prompt and hold one
  reply (the framing); while nothing unaccounted for happened the prompts in it
  are as many as the ledger counts; and if the current command has been sent, its
  reply is the last. A lost token, a
  banner, a debt written off or one that was never counted sets `doubt`, and a resync, which leaves the text
  empty, ends it. `Feed` moves a prefix of the text of any length into the pipe,
  which is where the induction over the harvest is needed.

`ElmTerminalProofs`, for any tasks, ECUs, retries, rounds, ceiling and faults, and any
bound on the replies in flight that satisfy `TerminalAssumption`, in two layers:

- `SerialInv` is about the tasks: a task is in its transaction if and only if it owns
  the lock, its ECU is then the one `_addressed` names, what it has left to send is a
  plan for that ECU or its request, a request goes out only under a header that is
  that ECU's or unknown, and the ledger is at rest, settled or with a debt below the
  ceiling, whenever nobody waits for a reply. `TypeCorrect` needs the last part: the
  ceiling is kept because `needs_resync` is asked before each send.
- `FlightInv` is about the replies still to come, received, on the wire or not yet
  made, taken as one sequence (`Arrived`, then `adapter`). While nothing happened that
  the terminal cannot account for, those before the first banner are no more than the
  ledger counts, and the one that would pay the last debt is the reply to the command
  that waits (`Counted`); and the adapter's header is the one that is believed, with no
  command in flight that changes it, or the one just being set if its reply has come
  (`HeaderKnown`). During a probe there is one reply to come, and only banners after it.
- `TerminalInvariant` is both. Receiving leaves the sequence as it is and answering
  keeps every reply's place; a loss makes those still to come fewer than are counted,
  so that a satisfied collection can no longer happen by a reply of another command;
  a satisfied collection leaves nothing behind but what a banner precedes.
- `CacheIsCoherent` follows at once. `OwnEcuAnswers` is about a step: the reply accepted is
  the one the adapter gave to the request, under the header that was believed, which
  the transaction has kept at the task's own ECU.

`CaptureJournalProofs`, for any recorders, recoveries, days and rows:

- `SessionsAreDays`: by induction over the rows of a journal, the sessions built
  from it have a day each, hold all rows of that day in the order they were read,
  and leave no row out. Its hypothesis is that the rows are numbered in order,
  which is part of the invariant.
- `TypeCorrect` holds whether or not commands overlap.
- `JournalInvariant`, under the hypothesis `~Overlap` (the user runs one command at
  a time). It says who reads, files and unlinks a journal is alone with it; what
  a saver still has in hand and what is in the files are together the journal's
  sessions; and a journal that is still there has sessions in a file only while
  it is being saved or if that was cut short. `WholeSessions` and `StoredAtMostOnce` are
  consequences.
- `StoreImplemented`, under the same hypothesis: recorders and recoveries implement
  `RecordingStore`. The refinement mapping maps an unlinked journal to what the files
  hold, so the step that matters is `Unlink`; it needs `NothingLost`, that all rows of a
  journal that is gone and was not discarded are filed.
- The hypothesis is not one that the code enforces. `journal_overlap` shows what
  happens without it.

`RawClientProofs`, for any ECUs, plans and ceiling that satisfy `RawAssumption`:
`RawInvariant`, from which `TypeCorrect`, `LedgerNeverShort` and
`ReturnsItsOwnReply`. That the debts are covered is not inductive: a deadline
turns the request that waits into a debt and adds one to the ledger, which is
only enough if an ECU has at most one request of the client's own, and this the
last it was sent (`OwnIsLast`). Debts are counted as cardinalities of sets of
positions, so that the lemmas about appending to, taking from and ageing a
sequence follow from facts about finite sets and need no induction.

`MonitorRunProofs`, for any PIDs, periods and limits that
satisfy their assumptions: `RunInvariant`, from which `TypeCorrect`,
`ThreeAccounts`, `ReadAgain`, `JournalMirrors` and `GapOnRecord`. The invariant
adds to the four that open events have ids of their own in the journal being
written, and that a loop that is told of a drop has a link that is down.
`TuiRehomes` needs `RehomeInv` beside it: a worker that probes has been through the
reconnector, and one that sets up has cleared the flag. Like the property it leaves
out the set-up that fails; of that, `GapOnRecord` says that the gap is on record.

`SessionKeeperProofs`, for any ECUs, session types, timers and losses that satisfy
`KeeperAssumption`, in two layers:

- `KeeperInvariant` is about the tasks: a task is in the terminal's queue if and only
  if it has something to send, what is on the wire is what the task at the head sends
  next, the sessions tracked while they are being opened are the first of the steps,
  the background task runs neither before nor after the command's work. `TypeCorrect`
  follows. Of the table it needs what `SessionTable.stale` selects, for any number of
  sessions (`AmongSelects`).
- `TimerInv` is about the time, whatever is lost: what is left of an ECU's timer, with
  its session's age and `late`, is never less than a whole timer (`Fresh`). The age is
  the time since the table's last refresh up to `KEEPALIVE_IDLE_S`, and from there only
  what the task has slept. A tick takes one of the timer; if the task sleeps and the
  ECU has no exchange of its own, the age grows with it, else `late` does. That the
  table's mode is the ECU's (`InMode`) follows as long as `late` is below `Patience`,
  and holds through a switch, from the moment the ECU hears it to the moment the answer
  is read.
- `KeptInTime` is `Spec => []SessionsKept`, without a hypothesis about settings, delays
  or losses; with settings that leave nothing (`Patience = 0`) it promises nothing. TLC
  checks the same with one session type, the code's times and two ECUs.

Model-checked only: everything temporal under fairness (`StraysLeave`,
`AskedLeaves`, `OffsetHeals`, `TransactionsEnd`, `NeverBlindForGood`,
`SessionsEnd`, `LinkErrorSurfaces`, `RatesRecover`, `PerPidDeadLinkIsRehomed`,
`StopEnds`; liveness and `ENABLED` are out of the prover's reach). Every invariant
that a passing run checks is also the subject of a theorem.

## 6. The parts together

`ResponsePipe` is the ledger of `ElmExchange` and of `ElmTerminal`; `PollHealth` is
half of the state of `MonitorRun`. `RawClient` has in `EndPoll` the part of the
liveness check it needs, and `MonitorRun` has of the raw client the outcome of
each read; `SessionKeeper` has of the terminal its lock. Each boundary is where the
code has one: the outcome of a read, the lock, the journal.

## 7. Not modelled

- *Pure parts* (decoding, expressions, states, statistics, validation): functions
  of recorded data, without a state that steps could disturb. Most of the
  repository's lines are here and in the next two groups.
- *Files of definitions, imports, exports, migrations*: text in, text out.
- *Front ends*: screens and arguments, but for the poll loop of the monitor's TUI.
- *The recorder's on-demand save* and its keep-modes: with keep-mode `last` the
  history is trimmed while `_saved_counts` is an absolute count, so that a second
  save may report nothing new (`live/monitor/record.py:324`).
- Of the lock: permission errors of files of another user, PID reuse.
- Of the exchange: the cap on the drain's seconds
  (`terminal.py:425-428`: `Probe` waits until nothing is in flight, where a link that
  never stops printing would be probed at the cap).
- Of the terminal: the delay before a busy ECU is asked again and what becomes of its
  negative responses (`terminal.py:801-804`; `RequestAnswered` returns or retries),
  the time values of waits and budgets, the link-latency estimate, frame counts, functional sweeps, headers-on mode, the ECU-wait
  commands, the individual commands of the init.
- Of the journal: link events inside a session, metadata, withheld replies.
- Of the raw client: an exception of one stack's `recv`, a read from another
  thread during a poll (a session switch of the TUI), the interrupt of a close;
  a link that fails while the sessions are opened (it ends the run, which is
  `MonitorRun`'s `Setup`); the wake before a session is opened, the second asking of an
  unanswered session request (`session_manager.py:253-256`), a second mode of one
  ECU, and all but one warm-up per ECU; a negative response names no PID, as in the code.
- Of the session manager: a second background task, a held session
  (`live/read/exec.py:349`, which waits for ever after a link error).
- Of the monitor: the first set-up, before the loop (`Setup` is the one after a
  reconnect, which may have sessions to open or not); which ECUs have sessions
  (`KeepAliveFails` is possible at any time); rate, selection and forget keys, a disabled backoff, rounds that
  overrun, the ELM327 poller, events about a changed poll set; time stands
  still for the scheduler while paused.
