------------------------------- MODULE Lifecycle -------------------------------
(***************************************************************************)
(* The process: New opens what it needs and starts the background loops,   *)
(* Run serves until a signal or until the listener fails, Shutdown drains, *)
(* stops the server and releases everything in order.  Around it: requests *)
(* in three kinds and a load balancer that follows /readyz.                *)
(*                                                                         *)
(* Time is counted in ticks.  What ends at a deadline ends before the      *)
(* clock goes on.  net/http, the balancer and the stores are external.     *)
(***************************************************************************)
EXTENDS Naturals, Sequences, Functions

CONSTANTS Requests,
          DrainTimeout, ShutdownTimeout, APIRequestTimeout,  \* config.HTTP, in ticks
          DbCloseTimeout,
          ProbePeriod,      \* of the balancer
          LastSignal,       \* the last tick at which the signal comes
          Kinds             \* what the requests are: functions to "plain", "stream" and "exec"

\* isLongLivedAPIRequest: what the API timeout leaves alone; "exec" hijacks its connection.
RequestKinds == {"plain", "stream", "exec"}

\* The defaults keep these orders: 5 s, 20 s and 10 s.
ASSUME LifecycleAssumption ==
    /\ {DrainTimeout, ShutdownTimeout, APIRequestTimeout, DbCloseTimeout, ProbePeriod} \subseteq Nat \ {0}
    /\ DrainTimeout + APIRequestTimeout < ShutdownTimeout
    /\ ProbePeriod < DrainTimeout
    /\ LastSignal \in Nat
    /\ Kinds \subseteq [Requests -> RequestKinds]

VARIABLES main,       \* where the main goroutine is
          now,
          since,      \* when Shutdown began
          began,      \* when the cleanup did, history
          until,      \* the end of the cleanup's context
          listening, draining,
          open,       \* what has been opened and not released
          signalled, failed,          \* ctx is done; ListenAndServe has failed
          kind, req, start,           \* of every request
          balancer,   \* routes traffic here; its last probe and what that has seen
          stuck, lost \* MCP's Close used up the cleanup's time; the spans were not flushed

lifecycleVars == <<main, now, since, began, until, listening, draining, open, signalled, failed,
          kind, req, start, balancer, stuck, lost>>
clock == <<now, since, began, until>>
outside == <<kind, req, start, balancer>>

Shutdowners == <<"loops", "mcp", "trace", "redis", "db">>
\* What both health checks ping, and requests need.
StoresOpen == {"redis", "db"} \subseteq open
Platform == {"trace", "redis", "db"}
Active(r) == req[r] = "active"
EndOfShutdown == since + ShutdownTimeout
MaxNow == LastSignal + 2 * ShutdownTimeout + DbCloseTimeout + 1

------------------------------------------------------------------------------
(* Start.                                                                  *)

\* New: a failure leaves what is open to the end of the process.
OpenPlatform ==
    /\ main = "new"
    /\ \/ open' = Platform /\ main' = "opened"
       \/ open' \in {{}, {"trace"}, {"trace", "db"}, Platform} /\ main' = "exited"
    /\ UNCHANGED <<clock, listening, draining, signalled, failed, outside, stuck, lost>>

StartBackgroundTasks ==
    /\ main = "opened"
    /\ open' = open \cup {"loops", "mcp"}
    /\ main' = "run"
    /\ UNCHANGED <<clock, listening, draining, signalled, failed, outside, stuck, lost>>

\* ListenAndServe in a goroutine of its own: not after Server.Shutdown.
Listen ==
    /\ main \in {"run", "drain"} /\ ~listening /\ ~failed
    /\ \/ listening' = TRUE /\ UNCHANGED failed
       \/ failed' = TRUE /\ UNCHANGED listening
    /\ UNCHANGED <<main, clock, draining, open, signalled, outside, stuck, lost>>

AcceptFails ==
    /\ listening
    /\ listening' = FALSE /\ failed' = TRUE
    /\ UNCHANGED <<main, clock, draining, open, signalled, outside, stuck, lost>>

Signal ==
    /\ ~signalled /\ now <= LastSignal
    /\ signalled' = TRUE
    /\ UNCHANGED <<main, clock, listening, draining, open, failed, outside, stuck, lost>>

------------------------------------------------------------------------------
(* Shutdown.                                                               *)

Leaves == [r \in Requests |-> IF Active(r) THEN "killed" ELSE req[r]]

\* Run returns the listener's error, and main ends with nothing released.
ReturnError ==
    /\ main = "run" /\ failed
    /\ main' = "exited" /\ req' = Leaves
    /\ UNCHANGED <<clock, listening, draining, open, signalled, failed, kind, start, balancer, stuck, lost>>

SetDraining == draining' = TRUE

BeginShutdown ==
    /\ main = "run" /\ signalled
    /\ main' = "drain" /\ since' = now /\ SetDraining
    /\ UNCHANGED <<now, began, until, listening, open, signalled, failed, outside, stuck, lost>>

Drained == main = "drain" /\ (now >= since + DrainTimeout \/ now >= EndOfShutdown)

\* Server.Shutdown closes the listener ...
CloseListener ==
    /\ Drained
    /\ main' = "stop" /\ listening' = FALSE
    /\ UNCHANGED <<clock, draining, open, signalled, failed, outside, stuck, lost>>

NoWait == TRUE   \* mutant
\* ... and waits for the connections that were not hijacked, or its context.
Quiet == (\A r \in Requests : Active(r) => kind[r] = "exec") \/ now >= EndOfShutdown

SharedDeadline == EndOfShutdown   \* mutant
CleanupDeadline == now + ShutdownTimeout

StopServer ==
    /\ main = "stop" /\ Quiet
    /\ main' = "loops" /\ until' = CleanupDeadline /\ began' = now
    /\ UNCHANGED <<now, since, listening, draining, open, signalled, failed, outside, stuck, lost>>

Following(x) == LET i == CHOOSE i \in 1..Len(Shutdowners) : Shutdowners[i] = x
                IN IF i = Len(Shutdowners) THEN "exit" ELSE Shutdowners[i + 1]

Released(x) == main = x /\ main' = Following(x) /\ open' = open \ {x}

\* Cancels the loops' context, and waits for none of them.
StopLoops == /\ Released("loops")
             /\ UNCHANGED <<clock, listening, draining, signalled, failed, outside, stuck, lost>>

\* What closing MCP takes is up to its goroutines.
UsedUp == now >= began + ShutdownTimeout
CloseMcp == /\ Released("mcp")
            /\ stuck' = UsedUp
            /\ UNCHANGED <<clock, listening, draining, signalled, failed, outside, lost>>
WaitForAll == FALSE   \* mutant
McpGivesUp == now >= until
CloseMcpExpires == /\ Released("mcp") /\ McpGivesUp
                   /\ stuck' = UsedUp
                   /\ UNCHANGED <<clock, listening, draining, signalled, failed, outside, lost>>

TraceShutdown == /\ Released("trace")
                 /\ lost' = (now >= until)
                 /\ UNCHANGED <<clock, listening, draining, signalled, failed, outside, stuck>>

CloseRedis == /\ Released("redis")
              /\ until' = now + DbCloseTimeout   \* db.Close has a timeout of its own
              /\ UNCHANGED <<now, since, began, listening, draining, signalled, failed, outside, stuck, lost>>

CloseDb == /\ Released("db")
           /\ UNCHANGED <<clock, listening, draining, signalled, failed, outside, stuck, lost>>
CloseDbExpires == now >= until /\ CloseDb

Exit == /\ main = "exit"
        /\ main' = "exited" /\ req' = Leaves
        /\ UNCHANGED <<clock, listening, draining, open, signalled, failed, kind, start, balancer, stuck, lost>>

------------------------------------------------------------------------------
(* Requests: bounded by the API timeout, streaming, or hijacked.           *)

Arrive(r) ==
    /\ req[r] = "none" /\ balancer.routes
    /\ req' = [req EXCEPT ![r] = IF listening THEN "active" ELSE "refused"]
    /\ start' = IF listening THEN [start EXCEPT ![r] = now] ELSE start
    /\ UNCHANGED <<main, clock, listening, draining, open, signalled, failed, kind, balancer, stuck, lost>>

\* It answers if the stores are there to answer from.
Answer(r) ==
    /\ Active(r) /\ main # "exited"
    /\ req' = [req EXCEPT ![r] = IF StoresOpen THEN "answered" ELSE "cut"]
    /\ start' = [start EXCEPT ![r] = 0]
    /\ UNCHANGED <<main, clock, listening, draining, open, signalled, failed, kind, balancer, stuck, lost>>

------------------------------------------------------------------------------
(* The balancer probes at least once a period.  A probe looks at the flag  *)
(* first and at the stores after it.                                       *)

ProbeStart ==
    /\ balancer.seen = "none" /\ balancer.last <= now
    /\ balancer' = [balancer EXCEPT !.last = now + 1,
                                    !.seen = IF ~listening THEN "down" ELSE IF draining THEN "draining" ELSE "up"]
    /\ UNCHANGED <<main, clock, listening, draining, open, signalled, failed, kind, req, start, stuck, lost>>

ReadyHandler ==
    /\ balancer.seen # "none"
    /\ \/ balancer' = [balancer EXCEPT !.seen = "none",
                                       !.routes = balancer.seen = "up" /\ StoresOpen]
       \/ balancer' = [balancer EXCEPT !.seen = "none", !.routes = FALSE]   \* a store does not answer
    /\ UNCHANGED <<main, clock, listening, draining, open, signalled, failed, kind, req, start, stuck, lost>>

------------------------------------------------------------------------------
Due == \/ main \in {"new", "opened", "loops", "trace", "redis", "exit"}
       \/ main = "run" /\ signalled
       \/ Drained
       \/ main = "stop" /\ (now >= EndOfShutdown \/ Quiet)
       \/ main \in {"mcp", "db"} /\ now >= until
       \/ balancer.seen # "none" \/ (main # "exited" /\ now + 1 >= balancer.last + ProbePeriod)
       \/ \E r \in Requests : Active(r) /\ kind[r] = "plain" /\ now >= start[r] + APIRequestTimeout

Tick == /\ ~Due /\ now < MaxNow
        /\ now' = now + 1
        /\ UNCHANGED <<main, since, began, until, listening, draining, open, signalled, failed, outside, stuck, lost>>

\* What the code sees to by itself: CloseMcp and CloseDb may hang.
Main == \/ OpenPlatform \/ StartBackgroundTasks \/ BeginShutdown \/ CloseListener \/ StopServer
        \/ StopLoops \/ CloseMcpExpires \/ TraceShutdown \/ CloseRedis \/ CloseDbExpires \/ Exit

Bounded == \E r \in Requests : kind[r] = "plain" /\ Answer(r)

Probe == ProbeStart \/ ReadyHandler

LifecycleNext == \/ Main \/ ReturnError \/ Signal \/ Listen \/ AcceptFails \/ CloseMcp \/ CloseDb
        \/ \E r \in Requests : Arrive(r) \/ Answer(r)
        \/ Probe \/ Tick

LifecycleInit == /\ main = "new" /\ now = 0 /\ since = 0 /\ began = 0 /\ until = 0
        /\ listening = FALSE /\ draining = FALSE /\ open = {} /\ signalled = FALSE /\ failed = FALSE
        /\ kind \in Kinds
        /\ req = [r \in Requests |-> "none"] /\ start = [r \in Requests |-> 0]
        /\ balancer = [routes |-> FALSE, last |-> 0, seen |-> "none"]
        /\ stuck = FALSE /\ lost = FALSE

LifecycleSpec == LifecycleInit /\ [][LifecycleNext]_lifecycleVars /\ WF_lifecycleVars(Main) /\ WF_lifecycleVars(Bounded) /\ WF_lifecycleVars(Probe) /\ WF_lifecycleVars(Tick)

LifecycleTypeOK == /\ main \in {"new", "opened", "run", "drain", "stop", "exit", "exited"} \cup Range(Shutdowners)
          /\ {now, since, began, until} \subseteq 0..(MaxNow + ShutdownTimeout)
          /\ {listening, draining, signalled, failed, stuck, lost} \subseteq BOOLEAN
          /\ open \subseteq Range(Shutdowners)
          /\ kind \in Kinds
          /\ req \in [Requests -> {"none", "refused", "active", "answered", "cut", "killed"}]
          /\ start \in [Requests -> 0..MaxNow]
          /\ balancer \in [routes : BOOLEAN, last : 0..(MaxNow + 1), seen : {"none", "down", "draining", "up"}]

------------------------------------------------------------------------------
\* A request under the API timeout that was accepted is answered from stores
\* that are still open, whenever the signal comes and however many streams
\* hold the server up; unless the listener itself has failed.
PlainAnswered == \A r \in Requests : kind[r] = "plain" /\ req[r] \in {"cut", "killed"} => failed

\* The same for streams does not hold: they outlast the shutdown's context
\* and find the stores closed.
StreamAnswered == \A r \in Requests : kind[r] = "stream" /\ req[r] \in {"cut", "killed"} => failed

\* A balancer that probes more often than the drain lasts sends nobody to a
\* listener that the shutdown has closed, though a probe under way when the
\* drain begins still answers that the instance is ready.
NobodyRefused == \A r \in Requests : req[r] = "refused" => failed

\* A rollout loses no ordinary request, accepted or on its way.
RolloutLosesNone == PlainAnswered /\ NobodyRefused

\* The spans are flushed within the cleanup's own time, whatever the drain
\* and the server took of theirs; unless MCP's Close used that up.
FlushedUnlessStuck == lost => stuck

\* A signalled process ends, with streams that go on, a goroutine of MCP
\* that hangs and a database that does not close.
ShutdownReturns == (signalled /\ main = "run") ~> (main = "exited")

\* Everything opened is released when the process ends by itself: refuted by
\* a listener that fails, which leaves MCP's child processes to themselves.
AllReleased == main = "exited" => open = {}
=============================================================================
