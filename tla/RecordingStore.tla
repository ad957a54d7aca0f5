--------------------------- MODULE RecordingStore ---------------------------
(***************************************************************************)
(* What saving a recording promises, without files, journals or days: a    *)
(* row that has reached the disk stays retrievable, in a capture file or   *)
(* by a recovery, until the user throws its recording away.  Only rows     *)
(* that are still in the recorder's memory may be lost.                    *)
(***************************************************************************)
CONSTANT Row

VARIABLES
    pending,    \* rows in a recorder's memory
    kept,       \* rows that are retrievable
    dropped     \* rows whose recording was thrown away on purpose

vars == <<pending, kept, dropped>>

Init == pending = {} /\ kept = {} /\ dropped = {}

Take ==
    /\ \E r \in Row \ (pending \cup kept \cup dropped) : pending' = pending \cup {r}
    /\ UNCHANGED <<kept, dropped>>

\* Some of what is pending becomes retrievable, the rest stays pending.
Keep ==
    /\ \E S \in SUBSET pending : pending' = pending \ S /\ kept' = kept \cup S
    /\ UNCHANGED dropped

Lose ==
    /\ pending' \subseteq pending
    /\ UNCHANGED <<kept, dropped>>

Drop ==
    /\ \E S \in SUBSET kept, T \in SUBSET pending :
           /\ kept' = kept \ S /\ pending' = pending \ T
           /\ dropped' = dropped \cup S \cup T

Next == Take \/ Keep \/ Lose \/ Drop

Spec == Init /\ [][Next]_vars
=============================================================================
