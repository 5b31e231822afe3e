------------------------------ MODULE MCAgentRuns ------------------------------
(***************************************************************************)
(* Two requests for runs on one search and one source, the second one for   *)
(* an organization; two operations, one listing or suggestion, and one      *)
(* request of an agent's tool at a time.                                    *)
(***************************************************************************)
EXTENDS AgentRuns, TLC
===============================================================================
