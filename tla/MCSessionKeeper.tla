---- MODULE MCSessionKeeper ----
EXTENDS SessionKeeper
CONSTANTS igpm, skm
\* In ticks of 0.5 s: WAKE_TIMEOUT_S, SESSION_TIMEOUT_S, KEEPALIVE_TIMEOUT_S, the
\* 2.0 s of close_session, and 1 s for a read.
MCTimeoutOf == [wake |-> 6, session |-> 10, tester |-> 3, default |-> 4, read |-> 2]
MCSteps == <<igpm, skm>>
\* Each bounded event once.
MCMost == [refusal |-> 1, keepalive |-> 1, request |-> 1, answer |-> 1, broken |-> 1, again |-> 1]
\* A lost keepalive and nothing else.
MCOnlyKeepalive == [b \in Bounded |-> IF b = "keepalive" THEN 1 ELSE 0]
====
