------------------------------- MODULE McpRate -------------------------------
(***************************************************************************)
(* McpServer with the tokens its buckets earn by the clock alone.          *)
(***************************************************************************)
EXTENDS McpServer

VARIABLE allowance      \* history: by tool, the ticks earned and not used up

HistoryInit == Init /\ allowance = [t \in Offered |-> Capacity]

Used(t)   == \E c \in Calls : Rejected(c, t) \/ FailFast(c, t) \/ Send(c, t)
Earned(t) == IF Tick THEN AtMost(Capacity, allowance[t] + 1) ELSE allowance[t]

HistoryNext ==
    /\ Next
    /\ allowance' = [t \in Offered |-> IF Used(t) THEN allowance[t] - TicksPerToken ELSE Earned(t)]

HistorySpec == HistoryInit /\ [][HistoryNext]_<<vars, allowance>>

\* No tool is called more often than a token bucket of RATE_LIMIT_RPM tokens
\* that earns as many in a minute allows (checkRateLimit).
CallsStayWithinTheRate == \A t \in Offered : allowance[t] >= 0
=============================================================================
