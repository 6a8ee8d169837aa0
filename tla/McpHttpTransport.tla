--------------------------- MODULE McpHttpTransport ---------------------------
(***************************************************************************)
(* httpTransport (infrastructure/mcp/transport_http.go): every message is  *)
(* a POST; a goroutine per response body (consume, consumeSSE) puts the    *)
(* messages of the server into a bounded queue, from which receive takes   *)
(* them.  One lock, closeMu, guards the flag `closed`.                     *)
(*                                                                         *)
(* closeMu has no variable: it is held from one step to the next only by a *)
(* deliver that waits for room in the queue (bodies are "blocked"); the    *)
(* other critical sections are one step each.  The goroutines that read    *)
(* response bodies are one here: only one of them can be in deliver, and   *)
(* which body a message comes from makes no difference.                    *)
(***************************************************************************)
EXTENDS Integers, Sequences

CONSTANTS
  Requests,       \* requests of the session, each with its id
  QueueSize    \* capacity of inbound, 16

ASSUME QueueAssumption == QueueSize \in Nat \ {0}

VARIABLES
  inbound,     \* the queue
  shut,        \* closed, under closeMu
  alive,       \* baseCtx is not cancelled
  bodies       \* the response bodies being read, and the message in hand

transport == <<inbound, shut, alive, bodies>>

\* What a server may send: an answer to a call (also a second one, or one that
\* nobody waits for), a notification, a request, or something undecodable.
Answer(c) == [kind |-> "answer", call |-> c]
Messages == {Answer(c) : c \in Requests} \cup [kind : {"note", "request", "bad"}]

None == [phase |-> "none"]
Streaming == [phase |-> "open"]
Blocked(m) == [phase |-> "blocked", message |-> m]
Bodies == {None, Streaming} \cup {Blocked(m) : m \in Messages}

TransportTypeOK ==
  /\ inbound \in Seq(Messages) /\ Len(inbound) <= QueueSize
  /\ shut \in BOOLEAN /\ alive \in BOOLEAN
  /\ bodies \in Bodies

TransportInit ==
  /\ inbound = <<>>
  /\ shut = FALSE
  /\ alive = TRUE
  /\ bodies = None

CloseMuFree == bodies.phase # "blocked"

\* send looks at `closed`, then posts without a lock.
SendAllowed == CloseMuFree /\ ~shut
SendRefused == CloseMuFree /\ shut

\* A 2xx reply: without a body, or with one that consume will read.
Posted ==
  /\ \/ UNCHANGED bodies
     \/ bodies = None /\ bodies' = Streaming
  /\ UNCHANGED <<inbound, shut, alive>>

-----------------------------------------------------------------------------
HasRoom == Len(inbound) < QueueSize

\* deliver: dropped after close, queued, or waiting for room with closeMu held.
Deliver(m) ==
  /\ bodies = Streaming
  /\ ~shut
  /\ IF HasRoom
       THEN inbound' = Append(inbound, m) /\ UNCHANGED bodies
       ELSE bodies' = Blocked(m) /\ UNCHANGED inbound
  /\ UNCHANGED <<shut, alive>>

Unblock ==
  /\ bodies.phase = "blocked"
  /\ \/ HasRoom /\ inbound' = Append(inbound, bodies.message)
     \/ ~alive /\ UNCHANGED inbound
  /\ bodies' = Streaming
  /\ UNCHANGED <<shut, alive>>

\* The last body ends: the server is done, the client's timeout, or baseCtx.
EndBodies ==
  /\ bodies = Streaming
  /\ bodies' = None
  /\ UNCHANGED <<inbound, shut, alive>>

\* receive.
Receive(m) ==
  /\ inbound # <<>>
  /\ m = Head(inbound)
  /\ inbound' = Tail(inbound)
  /\ UNCHANGED <<shut, alive, bodies>>
ReceiveEnds == ~alive /\ UNCHANGED transport

\* close: the flag under closeMu, then cancel.
MayShut == CloseMuFree
Shut ==
  /\ MayShut
  /\ shut' = TRUE
  /\ UNCHANGED <<inbound, alive, bodies>>
CancelBase ==
  /\ alive' = FALSE
  /\ UNCHANGED <<inbound, shut, bodies>>
=============================================================================
