---------------------------- MODULE MCMcpSession ----------------------------
(* Two calls and a queue of one message, where the server may send more      *)
(* messages than fit while the reader posts a reply.                         *)
EXTENDS McpSession

CONSTANTS c1, c2

MCRequests == {c1, c2}
=============================================================================
