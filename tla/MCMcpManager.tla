---------------------------- MODULE MCMcpManager ----------------------------
(* One server, which may list one tool or none at each discovery; two delays *)
(* are enough for the backoff to rise, to stay at its limit and to be reset. *)
(* Three calls for its two places, and a breaker that opens after two        *)
(* failures, so that calls admitted before it opened are still running.      *)
EXTENDS McpManager
CONSTANTS t, c1, c2, c3
MCTools == {t}
MCCalls == {c1, c2, c3}
=============================================================================
