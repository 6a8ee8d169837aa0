----------------------------- MODULE MCAgentRun -----------------------------
(* One cancel request served by the instance of the run, one by another.     *)
EXTENDS AgentRun

CONSTANTS here, there

MCCancellers == {here, there}
MCLocal == {here}
=============================================================================
