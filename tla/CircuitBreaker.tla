--------------------------- MODULE CircuitBreaker ---------------------------
(***************************************************************************)
(* The circuit breaker of one MCP server: infrastructure/mcp/breaker.go.   *)
(* allow and record run under one mutex, hence one step each; McpCalls     *)
(* drives them.                                                            *)
(***************************************************************************)
EXTENDS Integers

CONSTANT Threshold   \* consecutive failures that open the breaker

ASSUME ThresholdAssumption == Threshold \in Nat \ {0}

VARIABLES
  breakerState,      \* circuitBreaker.state
  consecutiveErr,
  cooled,            \* the cooldown since openedAt is over
  halfOpenInFlight

breaker == <<breakerState, consecutiveErr, cooled, halfOpenInFlight>>

BreakerTypeOK ==
  /\ breakerState \in {"closed", "open", "halfopen"}
  /\ consecutiveErr \in 0..Threshold
  /\ cooled \in BOOLEAN
  /\ halfOpenInFlight \in BOOLEAN

BreakerInit ==
  /\ breakerState = "closed"
  /\ consecutiveErr = 0
  /\ cooled = FALSE
  /\ halfOpenInFlight = FALSE

-----------------------------------------------------------------------------
\* allow() = false.
Rejects == \/ breakerState = "open" /\ ~cooled
           \/ breakerState = "halfopen" /\ halfOpenInFlight

\* allow() = true: a closed breaker is not changed, an open one whose cooldown
\* is over becomes half-open and this call is its probe; so would be a call
\* that found the breaker half-open without a probe.
AllowClosed == breakerState = "closed" /\ UNCHANGED breaker

StartHalfOpenUnmarked == breakerState' = "halfopen" /\ UNCHANGED halfOpenInFlight  \* mutant
StartHalfOpen == breakerState' = "halfopen" /\ halfOpenInFlight' = TRUE

AllowProbe ==
  /\ breakerState # "closed"
  /\ ~Rejects
  /\ StartHalfOpen
  /\ UNCHANGED <<consecutiveErr, cooled>>

-----------------------------------------------------------------------------
\* record(success), by the state it meets.
Open == breakerState' = "open" /\ cooled' = FALSE

Opens(n) == n >= Threshold

RecordHalfOpen(success) ==
  /\ breakerState = "halfopen"
  /\ halfOpenInFlight' = FALSE
  /\ IF success THEN breakerState' = "closed" /\ consecutiveErr' = 0 /\ UNCHANGED cooled
                ELSE Open /\ UNCHANGED consecutiveErr

RecordClosed(success) ==
  /\ breakerState = "closed"
  /\ consecutiveErr' = IF success THEN 0 ELSE consecutiveErr + 1
  /\ IF Opens(consecutiveErr') THEN Open ELSE UNCHANGED <<breakerState, cooled>>
  /\ UNCHANGED halfOpenInFlight

RecordOpen == breakerState = "open" /\ UNCHANGED breaker

Record(success) == RecordHalfOpen(success) \/ RecordClosed(success) \/ RecordOpen

\* The cooldown runs out.
CoolDown ==
  /\ breakerState = "open"
  /\ ~cooled
  /\ cooled' = TRUE
  /\ UNCHANGED <<breakerState, consecutiveErr, halfOpenInFlight>>
=============================================================================
