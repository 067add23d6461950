------------------------------ MODULE MCClaims ------------------------------
EXTENDS Claims

\* Every frame carries two calls, so a call meets those that started before
\* it and those that start after it.
MCMaxCalls == 2 * Cardinality(Frame)

\* Long enough for a deadline to pass and to be noticed.
MCMaxNow == AgentTtl + 1
=============================================================================
