------------------------------ MODULE McpCalls ------------------------------
(***************************************************************************)
(* The calls of one MCP server: Executor.Execute, Manager.acquire and the  *)
(* done function, over the server's limiter (KeyedSemaphore with one key,  *)
(* see RunLimiter for its inside) and its circuit breaker.                 *)
(***************************************************************************)
EXTENDS CircuitBreaker, FiniteSets

CONSTANTS
  Calls,            \* goroutines that execute tools of this server
  MaxConcurrency    \* at least 1: the configuration replaces 0 by the default

ASSUME CallsAssumption == IsFiniteSet(Calls) /\ MaxConcurrency \in Nat \ {0}

VARIABLES
  call,       \* where each call is
  used,       \* places taken in the limiter
  admitted,   \* calls admitted since the breaker became half-open, history
  latecomer,  \* the last half-open period was decided by another call, history
  failed      \* calls in a row the server failed or left unanswered, history

history == <<admitted, latecomer, failed>>
callVars == <<breaker, call, used, history>>

\* "limited": holds a place; "denied": the breaker said no, the place is to be
\* given back; "running": admitted; "done": reported, the place is to be given back.
Stages == {"idle", "limited", "denied", "running", "done"}
Holding == Stages \ {"idle"}

\* How a call ends: the server answers (a tool error included), fails, or says
\* nothing for CallTimeout; or the caller's context is cancelled.
Outcomes == {"answer", "failure", "silence", "cancelled"}

CallsTypeOK ==
  /\ BreakerTypeOK
  /\ call \in [Calls -> Stages]
  /\ used \in Nat
  /\ admitted \in SUBSET Calls
  /\ latecomer \in BOOLEAN
  /\ failed \in 0..Threshold

CallsInit ==
  /\ BreakerInit
  /\ call = [c \in Calls |-> "idle"]
  /\ used = 0
  /\ admitted = {}
  /\ latecomer = FALSE
  /\ failed = 0

Move(c, next) == call' = [call EXCEPT ![c] = next]

\* KeyedSemaphore.Acquire; a full limiter rejects without a change.
Full == used >= MaxConcurrency

Limit(c) ==
  /\ call[c] = "idle"
  /\ ~Full
  /\ used' = used + 1
  /\ Move(c, "limited")
  /\ UNCHANGED <<breaker, history>>

\* breaker.allow.
Allow(c) ==
  /\ call[c] = "limited"
  /\ \/ AllowClosed /\ admitted' = admitted
     \/ AllowProbe /\ admitted' = {c} \cup (IF breakerState = "halfopen" THEN admitted ELSE {})
  /\ Move(c, "running")
  /\ UNCHANGED <<used, latecomer, failed>>

Deny(c) ==
  /\ call[c] = "limited"
  /\ Rejects
  /\ Move(c, "denied")
  /\ UNCHANGED <<breaker, used, history>>

\* isClientCanceled is true of every deadline: also of CallTimeout, the one
\* Executor.call itself sets on the server's answer.
IsClientCanceled(outcome) == outcome \in {"cancelled", "silence"}

RecordUnlessCancelled(outcome) ==          \* mutant: a cancelled call does not report
  IF IsClientCanceled(outcome) THEN UNCHANGED breaker ELSE Record(outcome = "answer")
RecordOutcome(outcome) == Record(outcome = "answer" \/ IsClientCanceled(outcome))

\* The call returns and done reports it.
Report(c, outcome) ==
  /\ call[c] = "running"
  /\ RecordOutcome(outcome)
  /\ Move(c, "done")
  /\ admitted' = IF breakerState = "halfopen" THEN {} ELSE admitted
  /\ latecomer' = IF breakerState = "halfopen" THEN c \notin admitted ELSE latecomer
  /\ failed' = CASE outcome = "answer" -> 0
                 [] outcome = "cancelled" -> failed
                 [] OTHER -> IF failed < Threshold THEN failed + 1 ELSE failed
  /\ UNCHANGED used

\* release, by done or after a denial.
GivenBack(c) == used' = used - 1

Release(c) ==
  /\ call[c] \in {"denied", "done"}
  /\ GivenBack(c)
  /\ Move(c, "idle")
  /\ UNCHANGED <<breaker, history>>

Cool == CoolDown /\ UNCHANGED <<call, used, history>>

CallsNext ==
  \/ Cool
  \/ \E c \in Calls :
       \/ Limit(c) \/ Allow(c) \/ Deny(c) \/ Release(c)
       \/ \E outcome \in Outcomes : Report(c, outcome)

CallsSpec == CallsInit /\ [][CallsNext]_callVars

\* Time passes; a call has a deadline (CallTimeout), so it returns.
Goes(c) == Allow(c) \/ Deny(c) \/ Release(c) \/ \E outcome \in Outcomes : Report(c, outcome)
FairCallsSpec == CallsSpec /\ WF_callVars(Cool) /\ \A c \in Calls : WF_callVars(Goes(c))

-----------------------------------------------------------------------------
\* breaker.go:32: the half-open period has one admitted call, and it lasts only
\* while that call is really executing, so every period ends: no rejected call
\* used the probe up (manager.go:405-408).
ProbeInFlight ==
  /\ breakerState = "halfopen" <=> halfOpenInFlight
  /\ breakerState = "halfopen" => \E c \in Calls : admitted = {c} /\ call[c] = "running"

Inside == {c \in Calls : call[c] \in Holding}

\* manager.go:409-432: the limiter's count is the calls inside acquire..done,
\* whichever way they leave, and never above the maximum.
PlacesExact ==
  /\ used = Cardinality(Inside)
  /\ used <= MaxConcurrency

\* breaker.go:101-104: a closed breaker has fewer failures than the threshold,
\* also when calls admitted before an earlier opening report late.
ClosedBelowThreshold == breakerState = "closed" => consecutiveErr < Threshold

\* The three together: every admission and every report is accounted for.
AdmissionExact == ProbeInFlight /\ PlacesExact /\ ClosedBelowThreshold

CallsIInv == CallsTypeOK /\ ProbeInFlight /\ PlacesExact /\ ClosedBelowThreshold

\* breaker.go:63-67: however calls end, a call can be admitted again and again.
CanAdmit == breakerState = "closed" \/ (breakerState = "open" /\ cooled)
NeverWedged == []<>CanAdmit

\* breaker.go:14 and 17-19: the probe decides the half-open state.
ProbeDecides == ~latecomer

\* breaker.go:17: a server that failed Threshold calls in a row, or left them
\* unanswered, finds its breaker not closed.
FailuresOpen == failed = Threshold => breakerState # "closed"
=============================================================================
