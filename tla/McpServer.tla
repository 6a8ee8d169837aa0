------------------------------ MODULE McpServer ------------------------------
(***************************************************************************)
(* The supervision of one MCP server (infrastructure/mcp/manager.go): the  *)
(* goroutine `supervise` connects, discovers, announces, watches, drops    *)
(* and reconnects; Manager.Close and the shutdown of the process interfere *)
(* at any point.  A connection is a Client, see McpSession for its inside; *)
(* here closing one is a step that ends.                                   *)
(***************************************************************************)
EXTENDS Integers

CONSTANT MaxBackoff     \* doublings up to reconnectMaxBackoff

ASSUME BackoffAssumption == MaxBackoff \in Nat \ {0}

VARIABLES
  sup,         \* where supervise is
  conn,        \* the connection it has in hand: "none", "open", "dead", "closed"
  published,   \* server.client is that connection
  state,       \* server.state
  hasTools,
  backoff,     \* doublings of the next delay
  longLived,   \* the connection has been up for minServerUptime
  ctxDone,     \* superviseCtx
  closed,      \* m.closed
  closer,      \* where Manager.Close is
  paced        \* since the last connection or attempt ended, supervise has slept
               \* or that connection was long-lived, history

supervision == <<sup, conn, published, state, hasTools, backoff, longLived, paced>>
vars == <<supervision, ctxDone, closed, closer>>

Places == {"top", "dial", "handshake", "discover", "publish", "announce", "watch",
           "drop", "unset", "degrade", "judge", "failed", "sleep", "exited"}
States == {"disconnected", "connecting", "ready", "failed"}

TypeOK ==
  /\ sup \in Places
  /\ conn \in {"none", "open", "dead", "closed"}
  /\ published \in BOOLEAN
  /\ state \in States
  /\ hasTools \in BOOLEAN
  /\ backoff \in 0..MaxBackoff
  /\ longLived \in BOOLEAN
  /\ ctxDone \in BOOLEAN /\ closed \in BOOLEAN
  /\ closer \in {"idle", "cancel", "client", "state", "wait", "returned", "expired"}
  /\ paced \in BOOLEAN

Init ==
  /\ sup = "top"
  /\ conn = "none" /\ published = FALSE
  /\ state = "disconnected"
  /\ hasTools = FALSE
  /\ backoff = 0 /\ longLived = FALSE
  /\ ctxDone = FALSE /\ closed = FALSE
  /\ closer = "idle"
  /\ paced = TRUE

-----------------------------------------------------------------------------
\* supervise and connectOnce.
Top ==
  /\ sup = "top"
  /\ IF ctxDone THEN sup' = "exited" /\ UNCHANGED state
     ELSE sup' = "dial" /\ state' = "connecting"
  /\ UNCHANGED <<conn, published, hasTools, backoff, longLived, paced>>

\* Nothing open and nothing published: the attempt has failed.
Fail(c) == sup' = "failed" /\ conn' = c /\ paced' = FALSE

Dial ==
  /\ sup = "dial"
  /\ \/ sup' = "handshake" /\ conn' = "open" /\ UNCHANGED paced
     \/ Fail("none")
  /\ UNCHANGED <<published, state, hasTools, backoff, longLived>>

\* initialize; a failure closes the connection.
AfterFailureOpen == "open"       \* mutant: the failed connection is not closed
AfterFailure == "closed"

HandshakeSucceeds ==
  /\ sup = "handshake"
  /\ conn = "open"
  /\ sup' = "discover"
  /\ UNCHANGED <<conn, published, state, hasTools, backoff, longLived, paced>>

DiscoverSucceeds ==
  /\ sup = "discover"
  /\ conn = "open"
  /\ sup' = "publish"
  /\ hasTools' = TRUE
  /\ UNCHANGED <<conn, published, state, backoff, longLived, paced>>

AttemptFails ==
  /\ sup \in {"handshake", "discover"}
  /\ Fail(AfterFailure)
  /\ UNCHANGED <<published, state, hasTools, backoff, longLived>>

Publish ==
  /\ sup = "publish"
  /\ published' = TRUE
  /\ sup' = "announce"
  /\ UNCHANGED <<conn, state, hasTools, backoff, longLived, paced>>

\* State ready, then onReady reloads the tools.
Announce ==
  /\ sup = "announce"
  /\ state' = "ready"
  /\ longLived' = FALSE
  /\ sup' = "watch"
  /\ UNCHANGED <<conn, published, hasTools, backoff, paced>>

Failed ==
  /\ sup = "failed"
  /\ IF ctxDone THEN sup' = "exited" /\ UNCHANGED state
     ELSE sup' = "sleep" /\ state' = "failed"
  /\ UNCHANGED <<conn, published, hasTools, backoff, longLived, paced>>

\* runHealthLoop: ctx, a closed client, or a failed ping, which a live server may
\* also answer too late.
MustDrop == ctxDone \/ conn # "open"

Watch ==
  /\ sup = "watch"
  /\ MustDrop
  /\ sup' = "drop"
  /\ UNCHANGED <<conn, published, state, hasTools, backoff, longLived, paced>>
PingFails ==
  /\ sup = "watch"
  /\ conn = "open"
  /\ sup' = "drop"
  /\ UNCHANGED <<conn, published, state, hasTools, backoff, longLived, paced>>

LivesLong ==
  /\ sup \in {"watch", "drop", "unset", "degrade"}
  /\ ~longLived
  /\ longLived' = TRUE
  /\ UNCHANGED <<sup, conn, published, state, hasTools, backoff, paced>>

\* dropClient.
Drop ==
  /\ sup = "drop"
  /\ conn' = "closed"
  /\ sup' = "unset"
  /\ UNCHANGED <<published, state, hasTools, backoff, longLived, paced>>

Published == FALSE
Unset ==
  /\ sup = "unset"
  /\ published' = Published
  /\ sup' = "degrade"
  /\ UNCHANGED <<conn, state, hasTools, backoff, longLived, paced>>

Degrade ==
  /\ sup = "degrade"
  /\ state' = IF closed THEN state ELSE "disconnected"
  /\ sup' = "judge"
  /\ UNCHANGED <<conn, published, hasTools, backoff, longLived, paced>>

\* Only a long-lived connection is replaced at once.
StableAlways == TRUE             \* mutant: every connection resets the backoff
Stable == longLived

Judge ==
  /\ sup = "judge"
  /\ paced' = longLived
  /\ \/ ctxDone /\ sup' = "exited" /\ UNCHANGED backoff
     \/ ~ctxDone /\ Stable /\ backoff' = 0 /\ sup' = "top"
     \/ ~ctxDone /\ ~Stable /\ sup' = "sleep" /\ UNCHANGED backoff
  /\ UNCHANGED <<conn, published, state, hasTools, longLived>>

Doubled == IF backoff < MaxBackoff THEN backoff + 1 ELSE MaxBackoff

Sleep ==
  /\ sup = "sleep"
  /\ \/ ctxDone /\ sup' = "exited" /\ UNCHANGED <<backoff, paced>>
     \/ sup' = "top" /\ backoff' = Doubled /\ paced' = TRUE
  /\ UNCHANGED <<conn, published, state, hasTools, longLived>>

Supervise ==
  /\ \/ Top \/ Dial \/ HandshakeSucceeds \/ DiscoverSucceeds \/ AttemptFails \/ Publish
     \/ Announce \/ Failed \/ Watch \/ Drop \/ Unset \/ Degrade \/ Judge \/ Sleep
  /\ UNCHANGED <<ctxDone, closed, closer>>

-----------------------------------------------------------------------------
\* readLoop ends: the server is gone.
ConnectionDies ==
  /\ conn = "open"
  /\ conn' = "dead"
  /\ UNCHANGED <<sup, published, state, hasTools, backoff, longLived, paced, ctxDone, closed, closer>>

\* The maintenance context, parent of superviseCtx, is cancelled before Close.
StopTasks ==
  /\ ~ctxDone
  /\ ctxDone' = TRUE
  /\ UNCHANGED <<supervision, closed, closer>>

\* Manager.Close.
MarkClosed ==
  /\ closer = "idle"
  /\ closed' = TRUE
  /\ closer' = "cancel"
  /\ UNCHANGED <<supervision, ctxDone>>

Cancelled == TRUE
CancelSupervise ==
  /\ closer = "cancel"
  /\ ctxDone' = Cancelled
  /\ closer' = "client"
  /\ UNCHANGED <<supervision, closed>>

CloseClient ==
  /\ closer = "client"
  /\ conn' = IF published THEN "closed" ELSE conn
  /\ closer' = "state"
  /\ UNCHANGED <<sup, published, state, hasTools, backoff, longLived, paced, ctxDone, closed>>

SetDisconnected ==
  /\ closer = "state"
  /\ state' = "disconnected"
  /\ closer' = "wait"
  /\ UNCHANGED <<sup, conn, published, hasTools, backoff, longLived, paced, ctxDone, closed>>

WaitEnds ==
  /\ closer = "wait"
  /\ \/ sup = "exited" /\ closer' = "returned"
     \/ closer' = "expired"
  /\ UNCHANGED <<supervision, ctxDone, closed>>

Closing == MarkClosed \/ CancelSupervise \/ CloseClient \/ SetDisconnected \/ WaitEnds

Next ==
  \/ Supervise
  \/ (PingFails \/ LivesLong) /\ UNCHANGED <<ctxDone, closed, closer>>
  \/ ConnectionDies \/ StopTasks \/ Closing

Spec == Init /\ [][Next]_vars

\* The goroutines run: dial, discovery and ping have timeouts, sleeps end.  A server
\* that is tried again and again answers some time, and does not fail every ping.
Attempt(A) == A /\ UNCHANGED <<ctxDone, closed, closer>>
FairSpec ==
  /\ Spec
  /\ WF_vars(Supervise)
  /\ SF_vars(Attempt(Dial /\ sup' = "handshake"))
  /\ SF_vars(Attempt(HandshakeSucceeds))
  /\ SF_vars(Attempt(DiscoverSucceeds))
  /\ WF_vars(CancelSupervise) /\ WF_vars(CloseClient) /\ WF_vars(SetDisconnected)

-----------------------------------------------------------------------------
\* manager.go:89, 474: wherever the shutdown finds it, supervise leaves no open
\* connection and no client for the executor behind.
ExitReclaims == sup = "exited" => conn # "open" /\ ~published

\* manager.go:405-432 and executor.go:79: what the executor gets from getClient is
\* the connection supervise watches or is about to drop, and its tools are known.
PublishedIsWatched ==
  published => conn # "none" /\ hasTools /\ sup \in {"announce", "watch", "drop", "unset"}

\* manager.go:215-217, 248-257: no new attempt without a delay, unless the last
\* connection lived long; and the delay is reset by such a connection only.
Paced == [][/\ (sup = "top" /\ sup' = "dial") => paced
            /\ (backoff' < backoff) => longLived]_vars

\* What the executor can get hold of is alive, watched and, in the end, gone.
OnlyWatched == ExitReclaims /\ PublishedIsWatched

\* manager.go:190-191, 474: after a cancel or a Close the goroutine ends.
ShutdownEnds == (ctxDone \/ closer # "idle") ~> (sup = "exited")

\* manager.go:215, 307-308: a published connection that died is replaced by one
\* that found its tools.
Reconnects == (published /\ conn = "dead") ~> (sup = "publish" \/ ctxDone)

\* How supervision goes on: paced, replacing what died, and to an end.
SupervisionGoesOn == Paced /\ Reconnects /\ ShutdownEnds
=============================================================================
