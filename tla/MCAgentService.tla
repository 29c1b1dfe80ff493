---------------------------- MODULE MCAgentService ----------------------------
(* A small instance of AgentService: two commands and one backoff step.       *)
EXTENDS AgentService

MCCallers == {Main}
MCMultipliers == {3}
===============================================================================
