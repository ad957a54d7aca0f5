--------------------------- MODULE CaptureJournal ---------------------------
(***************************************************************************)
(* The write-ahead journal of a recording (captures/journal.py) and the    *)
(* capture files it ends up in (captures/save.py): a recorder appends rows *)
(* to a buffered journal, flushes it once per poll cycle, and on a clean   *)
(* exit folds it into one file per day; `captures uds --recover` does the  *)
(* same to every journal it finds.                                         *)
(*                                                                         *)
(* A process is one canair command; a recorder has one journal, named by   *)
(* the process.  A capture file is the sequence of the sessions in it, and *)
(* a session the rows of one journal on one day.  Metadata, events and the *)
(* keep-mode are left out: every row is kept, as under keep-mode `all`.    *)
(***************************************************************************)
EXTENDS Naturals, SequencesExt, FiniteSetsExt

CONSTANTS
    Recorder,   \* processes that record
    Recoverer,  \* processes that run captures uds --recover
    Day,        \* the days 1..Day a recording may span
    MaxRows,    \* bound on the rows of one recording
    Overlap     \* whether a recovery may run while other commands do

ASSUME JournalAssumption ==
    /\ Recorder \cap Recoverer = {}
    /\ Day \in Nat \ {0} /\ MaxRows \in Nat /\ Overlap \in BOOLEAN

Proc == Recorder \cup Recoverer
Row == [of : Recorder, n : 1..MaxRows, day : 1..Day]

VARIABLES
    pc,         \* where each process is
    today,
    buffer,     \* rows in each recorder's file buffer
    journal,    \* rows in each recorder's journal: its inode's contents
    linked,     \* the journals that are in .journal/
    file,       \* the sessions in each day's capture file
    orphans,    \* journals a recovery has listed and not come to
    target,     \* the journal a process is reconciling
    work,       \* sessions it has built and not saved
    copy,       \* the capture file as it loaded it
    discarded,  \* history: recordings thrown away on purpose
    torn        \* history: journals whose reconcile was cut short

recorderVars == <<today, buffer, journal>>
saverVars == <<file, orphans, target, work, copy>>
history == <<discarded, torn>>
vars == <<pc, recorderVars, linked, saverVars, history>>

Session == [of : Recorder, day : 1..Day, rows : Seq(Row)]

Reconciling == {"reconcile", "load", "replace", "annotate", "rewrite", "unlink"}

TypeOK ==
    /\ pc \in [Proc -> {"idle", "record", "list", "done", "dead"} \cup Reconciling]
    /\ today \in 1..Day
    /\ buffer \in [Recorder -> Seq(Row)] /\ journal \in [Recorder -> Seq(Row)]
    /\ linked \subseteq Recorder
    /\ file \in [1..Day -> Seq(Session)]
    /\ orphans \in [Proc -> SUBSET Recorder]
    /\ target \in [Proc -> Recorder \cup {"none"}]
    /\ work \in [Proc -> Seq(Session)] /\ copy \in [Proc -> Seq(Session)]
    /\ discarded \subseteq Recorder /\ torn \subseteq Recorder
    /\ \A j \in Recorder : Len(journal[j]) + Len(buffer[j]) <= MaxRows

Init ==
    /\ pc = [p \in Proc |-> "idle"] /\ today = 1
    /\ buffer = [j \in Recorder |-> <<>>] /\ journal = [j \in Recorder |-> <<>>]
    /\ linked = {} /\ file = [d \in 1..Day |-> <<>>]
    /\ orphans = [p \in Proc |-> {}] /\ target = [p \in Proc |-> "none"]
    /\ work = [p \in Proc |-> <<>>] /\ copy = [p \in Proc |-> <<>>]
    /\ discarded = {} /\ torn = {}

Busy(p) == pc[p] \notin {"idle", "done", "dead"}

\* Without Overlap the user runs one command at a time.
MayStart(p) == pc[p] = "idle" /\ (Overlap \/ \A q \in Proc : ~Busy(q))

Go(p, from, to) == pc[p] = from /\ pc' = [pc EXCEPT ![p] = to]

-----------------------------------------------------------------------------
\* The recorder.

Open(p) ==
    /\ MayStart(p) /\ Go(p, "idle", "record")
    /\ linked' = linked \cup {p}
    /\ UNCHANGED <<recorderVars, saverVars, history>>

\* append: a row stamped with the day its reply arrived, in the buffer.
Append1(p) ==
    /\ pc[p] = "record"
    /\ LET n == Len(journal[p]) + Len(buffer[p]) + 1
       IN  /\ n <= MaxRows
           /\ buffer' = [buffer EXCEPT ![p] = Append(@, [of |-> p, n |-> n, day |-> today])]
    /\ UNCHANGED <<pc, today, journal, linked, saverVars, history>>

Midnight ==
    /\ today < Day /\ today' = today + 1
    /\ UNCHANGED <<pc, buffer, journal, linked, saverVars, history>>

\* A flush that leaves in the buffer what it has written.
FlushRepeats(p) ==
    /\ pc[p] = "record"
    /\ buffer[p] # <<>>
    /\ journal' = [journal EXCEPT ![p] = @ \o buffer[p]]
    /\ UNCHANGED <<pc, today, buffer, linked, saverVars, history>>

\* Rows reach the file: all at a flush, some when the buffer overflows.  A line
\* that did not wholly reach it is skipped by the reader, and counts as not there.
Flush(p) ==
    /\ pc[p] = "record"
    /\ \E n \in 1..Len(buffer[p]) :
          /\ journal' = [journal EXCEPT ![p] = @ \o SubSeq(buffer[p], 1, n)]
          /\ buffer' = [buffer EXCEPT ![p] = SubSeq(@, n + 1, Len(@))]
    /\ UNCHANGED <<pc, today, linked, saverVars, history>>

CloseFile(p) ==
    /\ journal' = [journal EXCEPT ![p] = @ \o buffer[p]]
    /\ buffer' = [buffer EXCEPT ![p] = <<>>]
    /\ UNCHANGED today

\* reconcile, on a clean exit: close, then fold.
Reconcile(p) ==
    /\ Go(p, "record", "reconcile")
    /\ CloseFile(p)
    /\ target' = [target EXCEPT ![p] = p]
    /\ UNCHANGED <<linked, file, orphans, work, copy, history>>

\* __exit__ after an exception: the journal is left for a recovery.
Abandon(p) ==
    /\ Go(p, "record", "done")
    /\ CloseFile(p)
    /\ UNCHANGED <<linked, saverVars, history>>

Discard(p) ==
    /\ Go(p, "record", "done")
    /\ CloseFile(p)
    /\ linked' = linked \ {p}
    /\ discarded' = discarded \cup {p}
    /\ UNCHANGED <<saverVars, torn>>

-----------------------------------------------------------------------------
\* The recovery: whatever journal is there is an orphan.

ListOrphans(p) ==
    /\ p \in Recoverer
    /\ MayStart(p) /\ Go(p, "idle", "list")
    /\ orphans' = [orphans EXCEPT ![p] = linked]
    /\ UNCHANGED <<recorderVars, linked, file, target, work, copy, history>>

Recover(p) ==
    /\ pc[p] = "list"
    /\ IF orphans[p] = {}
       THEN pc' = [pc EXCEPT ![p] = "done"] /\ UNCHANGED <<orphans, target>>
       ELSE \E j \in orphans[p] :
                /\ pc' = [pc EXCEPT ![p] = "reconcile"]
                /\ orphans' = [orphans EXCEPT ![p] = @ \ {j}]
                /\ target' = [target EXCEPT ![p] = j]
    /\ UNCHANGED <<recorderVars, linked, file, work, copy, history>>

\* --discard: the orphan is deleted unread.
DiscardOrphan(p) ==
    /\ pc[p] = "list"
    /\ \E j \in orphans[p] :
          /\ orphans' = [orphans EXCEPT ![p] = @ \ {j}]
          /\ linked' = linked \ {j}
          /\ discarded' = discarded \cup {j}
    /\ UNCHANGED <<pc, recorderVars, file, target, work, copy, torn>>

-----------------------------------------------------------------------------
\* reconcile_file, by a recorder or a recovery.

\* What is next for p once it is through with a journal.
Through(p) == IF p \in Recoverer THEN "list" ELSE "done"

\* One session, dated as the recording's last day.
SessionsOfOneDay(j) ==
    IF journal[j] = <<>> THEN <<>>
    ELSE << [of |-> j, day |-> Last(journal[j]).day, rows |-> journal[j]] >>

\* A row joins its day's session, or begins one.
Placed(sessions, j, r) ==
    IF \E i \in DOMAIN sessions : sessions[i].day = r.day
    THEN [i \in DOMAIN sessions |->
             IF sessions[i].day = r.day THEN [sessions[i] EXCEPT !.rows = Append(@, r)]
             ELSE sessions[i]]
    ELSE Append(sessions, [of |-> j, day |-> r.day, rows |-> <<r>>])

\* The sessions after each of the journal's rows.
Grouped(j) ==
    LET after[n \in 0..Len(journal[j])] ==
            IF n = 0 THEN <<>> ELSE Placed(after[n - 1], j, journal[j][n])
    IN  after

\* build_session_from_records: one session per day, in order of appearance.
SessionsOf(j) == Grouped(j)[Len(journal[j])]

\* Read and build.  A journal that is gone, or has nothing in it, ends it here.
Read(p) ==
    /\ pc[p] = "reconcile"
    /\ LET j == target[p]
           sessions == IF j \in linked THEN SessionsOf(j) ELSE <<>>
       IN  /\ work' = [work EXCEPT ![p] = sessions]
           /\ pc' = [pc EXCEPT ![p] = IF sessions = <<>> THEN Through(p) ELSE "load"]
           /\ linked' = IF sessions = <<>> THEN linked \ {j} ELSE linked
    /\ UNCHANGED <<recorderVars, file, orphans, target, copy, history>>

\* save_session: load the day's file, append, and replace it.
Load(p) ==
    /\ Go(p, "load", "replace")
    /\ copy' = [copy EXCEPT ![p] = file[Head(work[p]).day]]
    /\ UNCHANGED <<recorderVars, linked, file, orphans, target, work, history>>

\* A new file is written where the old one was.
ReplaceAfresh(p) ==
    /\ Go(p, "replace", "annotate")
    /\ file' = [file EXCEPT ![Head(work[p]).day] = <<Head(work[p])>>]
    /\ copy' = [copy EXCEPT ![p] = <<>>]
    /\ UNCHANGED <<recorderVars, linked, orphans, target, work, history>>

Replace(p) ==
    /\ Go(p, "replace", "annotate")
    /\ file' = [file EXCEPT ![Head(work[p]).day] = Append(copy[p], Head(work[p]))]
    /\ copy' = [copy EXCEPT ![p] = <<>>]
    /\ UNCHANGED <<recorderVars, linked, orphans, target, work, history>>

\* The next day's session, or the journal's end.
Saved(p) ==
    /\ work' = [work EXCEPT ![p] = Tail(@)]
    /\ pc' = [pc EXCEPT ![p] = IF Len(work[p]) > 1 THEN "load" ELSE "unlink"]

\* annotate_session_spans loads the file again, and may find a timeline to add.
Annotate(p) ==
    /\ pc[p] = "annotate"
    /\ \/ Saved(p) /\ UNCHANGED copy
       \/ /\ pc' = [pc EXCEPT ![p] = "rewrite"]
          /\ copy' = [copy EXCEPT ![p] = file[Head(work[p]).day]]
          /\ UNCHANGED work
    /\ UNCHANGED <<recorderVars, linked, file, orphans, target, history>>

Rewrite(p) ==
    /\ pc[p] = "rewrite"
    /\ file' = [file EXCEPT ![Head(work[p]).day] = copy[p]]
    /\ copy' = [copy EXCEPT ![p] = <<>>]
    /\ Saved(p)
    /\ UNCHANGED <<recorderVars, linked, orphans, target, history>>

\* A reconcile that leaves the journal where it was.
UnlinkForgets(p) ==
    /\ Go(p, "unlink", Through(p))
    /\ UNCHANGED <<recorderVars, linked, saverVars, history>>

Unlink(p) ==
    /\ Go(p, "unlink", Through(p))
    /\ linked' = linked \ {target[p]}
    /\ UNCHANGED <<recorderVars, saverVars, history>>

\* The load or the write raises (a full disk, a file somebody broke): the journal
\* stays; a recovery goes on with the next one, a recorder's command ends.
SaveFails(p) ==
    /\ pc[p] \in {"load", "replace"}
    /\ pc' = [pc EXCEPT ![p] = IF p \in Recoverer THEN "list" ELSE "dead"]
    /\ work' = [work EXCEPT ![p] = <<>>] /\ copy' = [copy EXCEPT ![p] = <<>>]
    /\ torn' = torn \cup {target[p]}
    /\ UNCHANGED <<recorderVars, linked, file, orphans, target, discarded>>

\* kill -9: what the process has in memory is gone.
Crash(p) ==
    /\ Busy(p)
    /\ pc' = [pc EXCEPT ![p] = "dead"]
    /\ buffer' = IF p \in Recorder THEN [buffer EXCEPT ![p] = <<>>] ELSE buffer
    /\ torn' = IF pc[p] \in Reconciling THEN torn \cup {target[p]} ELSE torn
    /\ orphans' = [orphans EXCEPT ![p] = {}]
    /\ work' = [work EXCEPT ![p] = <<>>] /\ copy' = [copy EXCEPT ![p] = <<>>]
    /\ UNCHANGED <<today, journal, linked, file, target, discarded>>

-----------------------------------------------------------------------------
Saves(p) ==
    \/ Read(p) \/ Load(p) \/ Replace(p) \/ Annotate(p) \/ Rewrite(p) \/ Unlink(p)
    \/ SaveFails(p)

Records(p) == Open(p) \/ Append1(p) \/ Flush(p) \/ Reconcile(p) \/ Abandon(p) \/ Discard(p)

Next ==
    \/ \E p \in Recorder : Records(p)
    \/ \E p \in Recoverer : ListOrphans(p) \/ Recover(p) \/ DiscardOrphan(p)
    \/ \E p \in Proc : Saves(p) \/ Crash(p)
    \/ Midnight

Spec == Init /\ [][Next]_vars

-----------------------------------------------------------------------------
Stored(d) == UNION {Range(s.rows) : s \in Range(file[d])}
AllStored == UNION {Stored(d) : d \in 1..Day}

\* What can be read back: from a capture file, or by a recovery.
Retrievable == AllStored \cup UNION {Range(journal[j]) : j \in linked}

\* The journal and the files keep every row that reached the disk, through
\* crashes at any point of a recording, a save or a recovery.
Store == INSTANCE RecordingStore WITH
    pending <- {r \in UNION {Range(buffer[j]) : j \in Recorder} : r.of \notin discarded},
    kept <- {r \in Retrievable : r.of \notin discarded},
    dropped <- UNION {Range(journal[j]) : j \in discarded}

ImplementsStore == Store!Spec

\* A recording is stored once, unless a crash or an error cut its reconcile
\* short: then the recovery, which cannot tell what is already saved, stores it again.
StoredOnce ==
    \A j \in Recorder \ torn, d \in 1..Day :
        Cardinality({i \in DOMAIN file[d] : file[d][i].of = j}) <= 1

\* A stored session is its recording's whole day, rows in the order they were
\* read, in that day's file: midnight moves no row, and no save cuts one off.
InOrder(rows) == \A i, k \in DOMAIN rows : i < k => rows[i].n < rows[k].n

SessionsAreWhole ==
    \A d \in 1..Day : \A s \in Range(file[d]) :
        /\ s.day = d /\ InOrder(s.rows)
        /\ Range(s.rows) = {r \in Range(journal[s.of]) : r.day = d}

\* "clean exit / __exit__ reconciles all" (CaptureJournal.flush): once a
\* recorder has gone through its reconcile, all its rows are in capture files.
CleanExitSavesAll ==
    \A j \in Recorder :
        pc[j] = "done" /\ target[j] = j => Range(journal[j]) \subseteq AllStored
=============================================================================
