----------------------------- MODULE MCChatStream -----------------------------
(* One cancel request, on the instance of the stream or elsewhere; two       *)
(* providers with one retry each; a queue of one event; up to four earlier   *)
(* messages of sizes 0, 1 and 2, in a window of three messages and size 3.   *)
EXTENDS ChatStream

CONSTANTS request

MCCancellers == {request}

Message(role, status, size) == [role |-> role, status |-> status, size |-> size]
Messages ==
  {Message("user", "COMPLETED", 1), Message("assistant", "COMPLETED", 1),
   Message("assistant", "COMPLETED", 2), Message("assistant", "FAILED", 0),
   Message("assistant", "FAILED", 1), Message("system", "COMPLETED", 1)}

\* Every turn begins with a question.
MCHistories ==
  {h \in UNION {[1..n -> Messages] : n \in 0..4} :
     \A i \in DOMAIN h : h[i].role = "assistant" => i > 1 /\ h[i - 1].role = "user"}
=============================================================================
