---- MODULE MCMonitorRun ----
EXTENDS MonitorRun
CONSTANTS bms, vcu
\* One PID on each of two ECUs; on the per-PID schedule the second has twice the period.
MCKey == {<<bms, "2101">>, <<vcu, "2101">>}
MCPeriod == [k \in MCKey |-> IF k[1] = bms THEN 1 ELSE 2]
\* A recorded TUI run on the per-PID schedule, and a run without a terminal on the fixed one.
MCRuns == {[tui |-> TRUE, schedule |-> "dynamic", save |-> TRUE],
           [tui |-> FALSE, schedule |-> "fixed", save |-> FALSE]}
\* Only the latter, and the same beside a TUI.
MCPlain == {[tui |-> FALSE, schedule |-> "fixed", save |-> FALSE]}
MCFixed == {[tui |-> t, schedule |-> "fixed", save |-> FALSE] : t \in BOOLEAN}
====
