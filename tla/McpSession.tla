------------------------------ MODULE McpSession ------------------------------
(***************************************************************************)
(* session (infrastructure/mcp/session.go) over the HTTP transport: calls  *)
(* that register a waiter, post and wait; the reading goroutine, which     *)
(* dispatches answers and itself posts the refusal of a server's request;  *)
(* and whoever closes the client (dial, dropClient, Manager.Close).        *)
(*                                                                         *)
(* The lock mu guards single steps and has no variable.                    *)
(***************************************************************************)
EXTENDS McpHttpTransport

CONSTANTS Reader, Closer, Nobody

ASSUME ProcessesAssumption ==
  /\ Reader \notin Requests /\ Closer \notin Requests /\ Reader # Closer
  /\ Nobody \notin Requests \cup {Reader, Closer}

Senders == Requests \cup {Reader}

VARIABLES
  pc,         \* where each call, readLoop and the closer is
  abandoned,  \* calls whose context is done
  pending,    \* calls with a registered waiter
  waiter,     \* answers in the waiter channel of each call, capacity 1
  writeMu,    \* who holds writeMu
  handing,    \* the call whose answer readLoop has in hand
  ended,      \* the flag `closed`
  once,       \* closeFn: "unused", "running", "finished"
  done        \* the channel done is closed

session == <<pc, abandoned, pending, waiter, writeMu, handing, ended, once, done>>
sessionVars == <<transport, session>>

Sending == {"write", "check", "post"}
Terminating == {"terminate", "mark", "wake", "shut", "cancel"}

SessionTypeOK ==
  /\ TransportTypeOK
  /\ pc \in [Requests \cup {Reader, Closer} ->
               {"idle", "wait", "remove", "receive", "hand", "returned"} \cup Sending \cup Terminating]
  /\ abandoned \in SUBSET Requests
  /\ pending \in SUBSET Requests
  /\ waiter \in [Requests -> 0..1]
  /\ writeMu \in Senders \cup {Nobody}
  /\ handing \in Requests \cup {Nobody}
  /\ ended \in BOOLEAN /\ done \in BOOLEAN
  /\ once \in {"unused", "running", "finished"}

SessionInit ==
  /\ TransportInit
  /\ pc = [p \in Requests \cup {Reader, Closer} |-> IF p = Reader THEN "receive" ELSE "idle"]
  /\ abandoned = {}
  /\ pending = {}
  /\ waiter = [c \in Requests |-> 0]
  /\ writeMu = Nobody
  /\ handing = Nobody
  /\ ended = FALSE
  /\ once = "unused"
  /\ done = FALSE

Go(p, place) == pc' = [pc EXCEPT ![p] = place]

-----------------------------------------------------------------------------
\* call: registers its waiter unless the session is closed.
Register(c) ==
  /\ pc[c] = "idle"
  /\ IF ended THEN Go(c, "returned") /\ UNCHANGED pending
     ELSE Go(c, "write") /\ pending' = pending \cup {c}
  /\ UNCHANGED <<transport, abandoned, waiter, writeMu, handing, ended, once, done>>

ContextEnds(c) ==
  /\ c \notin abandoned
  /\ pc[c] \notin {"idle", "returned"}
  /\ abandoned' = abandoned \cup {c}
  /\ UNCHANGED <<transport, pc, pending, waiter, writeMu, handing, ended, once, done>>

\* transport.send under writeMu, by a call or by replyMethodNotFound.
LockWrite(p) ==
  /\ pc[p] = "write"
  /\ writeMu = Nobody
  /\ writeMu' = p
  /\ Go(p, "check")
  /\ UNCHANGED <<transport, abandoned, pending, waiter, handing, ended, once, done>>

AfterSend(p, sent) ==
  /\ Go(p, IF p = Reader THEN "receive" ELSE IF sent THEN "wait" ELSE "remove")
  /\ writeMu' = Nobody

CheckOpen(p) ==
  /\ pc[p] = "check"
  /\ \/ SendAllowed /\ Go(p, "post") /\ UNCHANGED writeMu
     \/ SendRefused /\ AfterSend(p, FALSE)
  /\ UNCHANGED <<transport, abandoned, pending, waiter, handing, ended, once, done>>

\* The POST returns: its client has a timeout.
Post(p) ==
  /\ pc[p] = "post"
  /\ \/ alive /\ Posted /\ AfterSend(p, TRUE)
     \/ UNCHANGED transport /\ AfterSend(p, FALSE)
  /\ UNCHANGED <<abandoned, pending, waiter, handing, ended, once, done>>

\* The select of call.
Await(c) ==
  /\ pc[c] = "wait"
  /\ \/ c \in abandoned /\ Go(c, "remove") /\ UNCHANGED waiter
     \/ done /\ Go(c, "returned") /\ UNCHANGED waiter
     \/ waiter[c] > 0 /\ Go(c, "returned") /\ waiter' = [waiter EXCEPT ![c] = @ - 1]
  /\ UNCHANGED <<transport, abandoned, pending, writeMu, handing, ended, once, done>>

KeptPending(c) == pending             \* mutant: the waiter is not unregistered
WithoutPending(c) == pending \ {c}
RemovePending(c) ==
  /\ pc[c] = "remove"
  /\ pending' = WithoutPending(c)
  /\ Go(c, "returned")
  /\ UNCHANGED <<transport, abandoned, waiter, writeMu, handing, ended, once, done>>

-----------------------------------------------------------------------------
\* readLoop.
Taken(c) == pending \ {c}

ReadLoop ==
  /\ pc[Reader] = "receive"
  /\ \/ ReceiveEnds /\ Go(Reader, "terminate") /\ UNCHANGED <<pending, handing>>
     \/ \E m \in Messages :
          /\ Receive(m)
          /\ \/ m.kind = "bad" /\ Go(Reader, "terminate") /\ UNCHANGED <<pending, handing>>
             \/ m.kind = "note" /\ UNCHANGED <<pc, pending, handing>>
             \/ m.kind = "request" /\ Go(Reader, "write") /\ UNCHANGED <<pending, handing>>
             \/ m.kind = "answer" /\ m.call \notin pending /\ UNCHANGED <<pc, pending, handing>>
             \/ /\ m.kind = "answer" /\ m.call \in pending
                /\ pending' = Taken(m.call)
                /\ handing' = m.call
                /\ Go(Reader, "hand")
  /\ UNCHANGED <<abandoned, waiter, writeMu, ended, once, done>>

\* waiter <- msg, outside mu: blocks when the channel is full.
Hand ==
  /\ pc[Reader] = "hand"
  /\ waiter[handing] < 1
  /\ waiter' = [waiter EXCEPT ![handing] = @ + 1]
  /\ handing' = Nobody
  /\ Go(Reader, "receive")
  /\ UNCHANGED <<transport, abandoned, pending, writeMu, ended, once, done>>

-----------------------------------------------------------------------------
\* terminate, by readLoop or by close; sync.Once lets the second wait.
Close ==
  /\ pc[Closer] = "idle"
  /\ Go(Closer, "terminate")
  /\ UNCHANGED <<transport, abandoned, pending, waiter, writeMu, handing, ended, once, done>>

CloseFn(p) ==
  /\ pc[p] = "terminate"
  /\ \/ once = "unused" /\ once' = "running" /\ Go(p, "mark")
     \/ once = "finished" /\ Go(p, "returned") /\ UNCHANGED once
  /\ UNCHANGED <<transport, abandoned, pending, waiter, writeMu, handing, ended, done>>

\* What follows the step that clears pending.
WithoutWaking == "shut"               \* mutant: done is not closed
AfterMark == "wake"

Mark(p) ==
  /\ pc[p] = "mark"
  /\ ended' = TRUE
  /\ pending' = {}
  /\ Go(p, AfterMark)
  /\ UNCHANGED <<transport, abandoned, waiter, writeMu, handing, once, done>>

Wake(p) ==
  /\ pc[p] = "wake"
  /\ done' = TRUE
  /\ Go(p, "shut")
  /\ UNCHANGED <<transport, abandoned, pending, waiter, writeMu, handing, ended, once>>

ShutTransport(p) ==
  /\ pc[p] = "shut"
  /\ Shut
  /\ Go(p, "cancel")
  /\ UNCHANGED <<abandoned, pending, waiter, writeMu, handing, ended, once, done>>

CancelTransport(p) ==
  /\ pc[p] = "cancel"
  /\ CancelBase
  /\ once' = "finished"
  /\ Go(p, "returned")
  /\ UNCHANGED <<abandoned, pending, waiter, writeMu, handing, ended, done>>

Terminate(p) == CloseFn(p) \/ Mark(p) \/ Wake(p) \/ ShutTransport(p) \/ CancelTransport(p)

-----------------------------------------------------------------------------
Arrive == (\E m \in Messages : Deliver(m)) /\ UNCHANGED session
Consume == Unblock /\ UNCHANGED session
BodyEnds == EndBodies /\ UNCHANGED session

SessionNext ==
  \/ \E c \in Requests : Register(c) \/ ContextEnds(c) \/ Await(c) \/ RemovePending(c)
  \/ \E p \in Senders : LockWrite(p) \/ CheckOpen(p) \/ Post(p)
  \/ Arrive \/ Consume \/ BodyEnds
  \/ ReadLoop \/ Hand \/ Close
  \/ Terminate(Reader) \/ Terminate(Closer)

SessionSpec == SessionInit /\ [][SessionNext]_sessionVars

\* The goroutines of calls and of whoever terminates the session run.
FairSessionSpec ==
  /\ SessionSpec
  /\ \A c \in Requests : WF_sessionVars(Await(c)) /\ WF_sessionVars(RemovePending(c))
  /\ \A p \in {Reader, Closer} : WF_sessionVars(Terminate(p))

\* So does everything else: mutexes are starvation-free (sync.Mutex hands over to
\* a waiter of 1 ms), and the timeout of http.Client ends every POST and body.
TimelySpec ==
  /\ FairSessionSpec
  /\ \A p \in Senders :
       SF_sessionVars(LockWrite(p)) /\ SF_sessionVars(CheckOpen(p)) /\ WF_sessionVars(Post(p))
  /\ WF_sessionVars(Consume) /\ SF_sessionVars(BodyEnds)
  /\ WF_sessionVars(ReadLoop) /\ WF_sessionVars(Hand)
  /\ \A p \in {Reader, Closer} : SF_sessionVars(ShutTransport(p))

-----------------------------------------------------------------------------
\* session.go:120-121: no waiter is left in the map, neither of a call that has
\* returned nor in a closed session.
NoWaiterLeaks ==
  /\ \A c \in pending : pc[c] \in Sending \cup {"wait", "remove"}
  /\ ended => pending = {}

\* session.go:97: an answer in hand always has its place in the waiter's channel,
\* also when the server answers one call twice or a call it has not been sent.
ReaderNotHeldByWaiter == pc[Reader] = "hand" => waiter[handing] = 0

\* The map and the channels of the waiters are exactly those of waiting calls.
WaitersExact == NoWaiterLeaks /\ ReaderNotHeldByWaiter

\* transport_http.go:180: nothing is queued any more once the transport is closed,
\* also by a deliver that was under way.
QuietOnceShut == [][shut => Len(inbound') <= Len(inbound)]_sessionVars

\* session.go:188-192: terminating wakes every call that waits for its answer,
\* whatever the transport does meanwhile.
CloseWakesCalls ==
  \A c \in Requests : (ended /\ pc[c] = "wait") ~> (pc[c] = "returned")

\* What closing a session brings about, on both sides of the transport.
ClosingEnds == QuietOnceShut /\ CloseWakesCalls

\* session.go:120: a call is bound by its context.
CallsHeedContext ==
  \A c \in Requests : (c \in abandoned) ~> (pc[c] = "returned")
=============================================================================
