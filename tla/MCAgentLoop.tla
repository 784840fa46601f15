---------------------------- MODULE MCAgentLoop -----------------------------
(***************************************************************************)
(* Small instances of AgentLoop.                                           *)
(***************************************************************************)
EXTENDS AgentLoop

CONSTANTS m1, m2, lookup, payout, unknown

\* Both servers list lookup, one of them payout; nobody serves unknown.
TwoServers == [e \in {m1, m2} |-> IF e = m1 THEN {lookup} ELSE {lookup, payout}]
=============================================================================
