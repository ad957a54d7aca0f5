---- MODULE MCRawClient ----
EXTENDS RawClient
CONSTANTS bms, vcu
\* Two ECUs: one polled for a single PID, one for two of them.
MCPlan == [e \in {bms, vcu} |-> IF e = bms THEN <<"2101", "2102">> ELSE <<"2101">>]
====
