------------------------------ MODULE McpProofs ------------------------------
(***************************************************************************)
(* Proofs about the MCP stack: one server of the manager, its supervision, *)
(* its tools, the admission of its calls, and the three together; and the  *)
(* session over the HTTP transport.                                        *)
(*                                                                         *)
(* Supervision, for every limit of the backoff and every moment of a       *)
(* cancel, a Close or the death of the connection.  Tools, for every set   *)
(* of them and any order of loads, announcements and overrides: a registry *)
(* that is behind is owed a load (Owed).  Calls, for every number of them, *)
(* every maximum and every threshold.                                      *)
(*                                                                         *)
(* The session: the bookkeeping of waiters for any number of concurrent    *)
(* requests and any behaviour of the server, duplicate and unsolicited     *)
(* answers included; the transport for every size of its queue.            *)
(***************************************************************************)
EXTENDS McpManager, McpSession, FiniteSetTheorems, TLAPS

USE BackoffAssumption, ThresholdAssumption, CallsAssumption

-----------------------------------------------------------------------------
(* Supervision. *)

WithClient == {"publish", "announce", "watch", "drop", "unset"}

\* What supervise holds at each of its places.
ServerHolds ==
  /\ sup \in {"top", "dial", "failed", "sleep", "exited", "unset", "degrade", "judge"} => conn # "open"
  /\ sup \in {"handshake", "discover"} \cup WithClient => conn # "none"
  /\ sup \in WithClient => hasTools = TRUE
  /\ sup = "top" => paced = TRUE

\* What the proof needs of the types.
ServerTyping ==
  /\ sup \in Places
  /\ conn \in {"none", "open", "dead", "closed"}
  /\ backoff \in 0..MaxBackoff

ServerIInv == ServerTyping /\ ServerHolds /\ ExitReclaims /\ PublishedIsWatched

LEMMA ServerInitInv == Init => ServerIInv
BY DEF Init, ServerIInv, ServerTyping, ServerHolds, ExitReclaims, PublishedIsWatched, Places, States, WithClient

\* supervise, place by place.
LEMMA SuperviseStep ==
  ASSUME ServerIInv, Supervise
  PROVE  ServerIInv'
<1> USE DEF ServerIInv, ServerTyping, ServerHolds, ExitReclaims, PublishedIsWatched, Places, States, WithClient
<1> UNCHANGED <<ctxDone, closed, closer>>
  BY DEF Supervise
<1>1. CASE Top \/ Failed
  BY <1>1 DEF Top, Failed
<1>2. CASE Dial \/ AttemptFails
  BY <1>2 DEF Dial, AttemptFails, Fail, AfterFailure
<1>3. CASE HandshakeSucceeds \/ DiscoverSucceeds
  BY <1>3 DEF HandshakeSucceeds, DiscoverSucceeds
<1>4. CASE Publish \/ Announce
  BY <1>4 DEF Publish, Announce
<1>5. CASE Watch \/ Drop
  BY <1>5 DEF Watch, Drop
<1>6. CASE Unset
  BY <1>6 DEF Unset, Published
<1>7. CASE Degrade
  BY <1>7 DEF Degrade
<1>8. CASE Judge
  BY <1>8 DEF Judge, Stable
<1>9. CASE Sleep
  BY <1>9 DEF Sleep, Doubled
<1> QED BY <1>1, <1>2, <1>3, <1>4, <1>5, <1>6, <1>7, <1>8, <1>9 DEF Supervise

\* Everything around it.
LEMMA SurroundingsStep ==
  ASSUME ServerIInv, \/ (PingFails \/ LivesLong) /\ UNCHANGED <<ctxDone, closed, closer>>
               \/ ConnectionDies \/ StopTasks \/ Closing \/ UNCHANGED vars
  PROVE  ServerIInv'
<1> USE DEF ServerIInv, ServerTyping, ServerHolds, ExitReclaims, PublishedIsWatched, Places, States, WithClient, supervision
<1>1. CASE (PingFails \/ LivesLong) /\ UNCHANGED <<ctxDone, closed, closer>>
  BY <1>1 DEF PingFails, LivesLong
<1>2. CASE ConnectionDies \/ StopTasks \/ UNCHANGED vars
  BY <1>2 DEF ConnectionDies, StopTasks, vars
<1>3. CASE MarkClosed \/ CancelSupervise
  BY <1>3 DEF MarkClosed, CancelSupervise, Cancelled
<1>4. CASE CloseClient \/ SetDisconnected \/ WaitEnds
  BY <1>4 DEF CloseClient, SetDisconnected, WaitEnds
<1> QED BY <1>1, <1>2, <1>3, <1>4 DEF Closing

LEMMA ServerInductive == Spec => []ServerIInv
<1>1. ServerIInv /\ [Next]_vars => ServerIInv'
  BY SuperviseStep, SurroundingsStep DEF Next
<1> QED BY ServerInitInv, <1>1, PTL DEF Spec

\* manager.go:89, 474: supervise never ends with an open or published connection.
THEOREM NothingIsLeaked == Spec => []ExitReclaims
<1>1. ServerIInv => ExitReclaims
  BY DEF ServerIInv
<1> QED BY ServerInductive, <1>1, PTL

\* executor.go:79: the executor is given only a connection that is being watched,
\* of a server whose tools are known.
THEOREM OnlyWatchedArePublished == Spec => []PublishedIsWatched
<1>1. ServerIInv => PublishedIsWatched
  BY DEF ServerIInv
<1> QED BY ServerInductive, <1>1, PTL

\* manager.go:215-217: attempts are spaced, and the delay shrinks only after a
\* long-lived connection.
THEOREM AttemptsArePaced == Spec => Paced
<1> DEFINE P == /\ (sup = "top" /\ sup' = "dial") => paced
                /\ (backoff' < backoff) => longLived
<1>1. ASSUME ServerIInv, Next PROVE P
  <2>1. (sup = "top" /\ sup' = "dial") => paced
    BY <1>1 DEF ServerIInv, ServerHolds
  <2>2. CASE Judge
    BY <1>1, <2>2 DEF Judge, Stable, ServerIInv, ServerTyping
  <2>3. CASE Sleep
    BY <1>1, <2>3 DEF Sleep, Doubled, ServerIInv, ServerTyping
  <2>4. CASE UNCHANGED backoff
    <3>1. ~(backoff' < backoff)
      BY <1>1, <2>4 DEF ServerIInv, ServerTyping
    <3> QED BY <2>1, <3>1
  <2>5. Judge \/ Sleep \/ UNCHANGED backoff
    <3>1. CASE Supervise
      BY <3>1 DEF Supervise, Top, Dial, HandshakeSucceeds, DiscoverSucceeds, AttemptFails, Publish, Announce,
                  Failed, Watch, Drop, Unset, Degrade
    <3>2. CASE PingFails \/ LivesLong \/ ConnectionDies
      BY <3>2 DEF PingFails, LivesLong, ConnectionDies
    <3>3. CASE StopTasks \/ Closing
      BY <3>3 DEF StopTasks, Closing, MarkClosed, CancelSupervise, CloseClient, SetDisconnected, WaitEnds, supervision
    <3> QED BY <1>1, <3>1, <3>2, <3>3 DEF Next
  <2> QED BY <2>1, <2>2, <2>3, <2>4, <2>5
<1>2. ServerIInv /\ [Next]_vars => [P]_vars
  BY <1>1
<1> QED BY ServerInductive, <1>2, PTL DEF Spec, Paced

\* The executor gets only watched connections, and none once supervise has ended.
THEOREM OnlyTheWatched == Spec => []OnlyWatched
BY NothingIsLeaked, OnlyWatchedArePublished, PTL DEF OnlyWatched

-----------------------------------------------------------------------------
(* Tools. *)

\* What the proof needs of the types; SetMCP comes before the first load.
ToolsTyping ==
  /\ load \in [Loaders -> {"set", "due", "read", "store", "idle"}]
  /\ read \in [Loaders -> SUBSET Tools] /\ lastTools \in SUBSET Tools
  /\ mcpSet = (load["start"] # "set")
  /\ load["announced"] # "set"

\* reloadMu: one load at a time is between its read and its store.
OneAtATime ==
  \A l, m \in Loaders : load[l] \in {"read", "store"} /\ load[m] \in {"read", "store"} => l = m

\* Tools were discovered and their load is still to read them.
Owed(l) ==
  \/ sup \in {"publish", "announce"}
  \/ \E m \in Loaders \ {l} : load[m] \in {"set", "due"}

\* What a load has read is what there is, and so is what the registry has, or
\* another load comes after it.
Newest ==
  /\ \A l \in Loaders : load[l] = "store" => read[l] = AllTools \/ Owed(l)
  /\ \/ base = AllTools
     \/ sup \in {"publish", "announce"}
     \/ \E l \in Loaders : load[l] # "idle"

ToolsIInv == ToolsTyping /\ OneAtATime /\ Newest /\ OffStaysOff

LEMMA ToolsInitInv == ToolsInit => ToolsIInv
<1> SUFFICES ASSUME ToolsInit PROVE ToolsIInv
  OBVIOUS
<1> USE DEF ToolsInit, Loaders
<1>1. ToolsTyping /\ OneAtATime
  BY DEF ToolsTyping, OneAtATime
<1>2. Newest /\ OffStaysOff
  BY DEF Newest, OffStaysOff, ToolsForAgent
<1> QED BY <1>1, <1>2 DEF ToolsIInv

\* A step that keeps the tools and the loads keeps them current, if the place of
\* supervise is as good as before.
LEMMA ToolsKept ==
  ASSUME ToolsIInv, UNCHANGED toolVars,
         sup \in {"publish", "announce"} => sup' \in {"publish", "announce"}
  PROVE  ToolsIInv'
BY DEF ToolsIInv, ToolsTyping, OneAtATime, Newest, Owed, OffStaysOff, ToolsForAgent, AllTools, toolVars, registry

\* supervise: a discovery changes the tools and owes a load, the announcement pays.
LEMMA SuperviseToolsStep ==
  ASSUME ToolsIInv, SuperviseTools
  PROVE  ToolsIInv'
<1> USE DEF ToolsIInv, Loaders
<1>1. UNCHANGED <<mcpSet, read, base, off, tools>> /\ load["announced"] = "idle"
  BY DEF SuperviseTools, registry, Announced
<1>2. CASE sup = "announce"
  <2>1. load' = [load EXCEPT !["announced"] = "due"] /\ UNCHANGED lastTools
    BY <1>2 DEF SuperviseTools
  <2> QED BY <1>1, <2>1 DEF ToolsTyping, OneAtATime, Newest, Owed, OffStaysOff, ToolsForAgent, AllTools
<1>3. CASE sup # "announce"
  <2>1. load' = load
    BY <1>3 DEF SuperviseTools, ToolsTyping
  <2>2. CASE sup' = "publish"
    <3>1. lastTools' \in SUBSET Tools
      BY DEF SuperviseTools, ToolsTyping
    <3> QED BY <1>1, <2>1, <2>2, <3>1 DEF ToolsTyping, OneAtATime, Newest, Owed, OffStaysOff, ToolsForAgent
  <2>3. CASE sup' # "publish"
    <3>1. UNCHANGED lastTools
      BY <2>3 DEF SuperviseTools
    <3>2. sup = "publish" => sup' = "announce"
      BY DEF SuperviseTools, Supervise, Top, Dial, HandshakeSucceeds, DiscoverSucceeds, AttemptFails, Publish,
             Announce, Failed, Watch, Drop, Unset, Degrade, Judge, Sleep
    <3> QED BY <1>1, <1>3, <2>1, <3>1, <3>2, ToolsKept DEF toolVars, registry
  <2> QED BY <2>2, <2>3
<1> QED BY <1>2, <1>3

LEMMA SurroundingsToolsStep ==
  ASSUME ToolsIInv, Surroundings
  PROVE  ToolsIInv'
<1>1. UNCHANGED toolVars
  BY DEF Surroundings
<1>2. sup \in {"publish", "announce"} => sup' = sup
  BY DEF Surroundings, PingFails, LivesLong, ConnectionDies, StopTasks, Closing, MarkClosed, CancelSupervise,
         CloseClient, SetDisconnected, WaitEnds, supervision
<1> QED BY <1>1, <1>2, ToolsKept

\* The loads, and the overrides put on top.
LEMMA LoadStep ==
  ASSUME ToolsIInv, SetMCP \/ SetOverrides \/ \E l \in Loaders : Load(l)
  PROVE  ToolsIInv'
<1> USE DEF ToolsIInv, registry
<1>1. UNCHANGED <<sup, lastTools>>
  BY DEF SetMCP, SetOverrides, Load, TakeReloadMu, ReadProviders, StoreTools, vars, supervision
<1>2. CASE SetMCP
  <2>1. load["start"] = "set" /\ mcpSet' = TRUE /\ load' = [load EXCEPT !["start"] = "due"]
        /\ UNCHANGED <<read, base, off, tools>>
    BY <1>2 DEF SetMCP
  <2> QED BY <1>1, <2>1 DEF Loaders, ToolsTyping, OneAtATime, Newest, Owed, OffStaysOff, ToolsForAgent
<1>3. CASE SetOverrides
  BY <1>1, <1>3 DEF SetOverrides, ToolsTyping, OneAtATime, Newest, Owed, OffStaysOff, ToolsForAgent, AllTools,
                    Rebuilt, ApplyTo
<1>4. ASSUME NEW l \in Loaders, TakeReloadMu(l) PROVE ToolsIInv'
  <2>1. /\ load[l] = "due" /\ load' = [load EXCEPT ![l] = "read"]
        /\ \A m \in Loaders : load[m] \notin {"read", "store"}
        /\ UNCHANGED <<mcpSet, read, base, off, tools>>
    BY <1>4 DEF TakeReloadMu, ReloadMu
  <2>2. ToolsTyping' /\ OneAtATime' /\ OffStaysOff'
    BY <1>1, <2>1 DEF Loaders, ToolsTyping, OneAtATime, OffStaysOff, ToolsForAgent
  <2>3. AllTools' = AllTools /\ \A m \in Loaders : load'[m] # "store"
    BY <1>1, <2>1 DEF AllTools, ToolsTyping
  <2>4. Newest'
    BY <1>1, <2>1, <2>3 DEF Newest, ToolsTyping
  <2> QED BY <2>2, <2>4
<1>5. ASSUME NEW l \in Loaders, ReadProviders(l) PROVE ToolsIInv'
  <2>1. /\ load[l] = "read" /\ load' = [load EXCEPT ![l] = "store"]
        /\ read' = [read EXCEPT ![l] = AllTools]
        /\ UNCHANGED <<mcpSet, base, off, tools>>
    BY <1>5 DEF ReadProviders
  <2>2. AllTools' = AllTools
    BY <1>1, <2>1 DEF AllTools
  <2>3. ToolsTyping' /\ OneAtATime' /\ OffStaysOff'
    BY <1>1, <2>1 DEF Loaders, ToolsTyping, OneAtATime, OffStaysOff, ToolsForAgent, AllTools
  <2>4. \A m \in Loaders \ {l} : load[m] # "store"
    BY <2>1 DEF OneAtATime
  <2>5. Newest'
    BY <2>1, <2>2, <2>4 DEF Newest, ToolsTyping
  <2> QED BY <2>3, <2>5
<1>6. ASSUME NEW l \in Loaders, StoreTools(l) PROVE ToolsIInv'
  <2>1. /\ load[l] = "store" /\ load' = [load EXCEPT ![l] = "idle"]
        /\ base' = read[l] /\ tools' = base' \ off /\ UNCHANGED <<mcpSet, off>>
        /\ read' = [read EXCEPT ![l] = {}]
    BY <1>6 DEF StoreTools, Rebuilt, ApplyTo
  <2>2. AllTools' = AllTools
    BY <1>1, <2>1 DEF AllTools
  <2>3. ToolsTyping' /\ OneAtATime' /\ OffStaysOff'
    BY <1>1, <2>1 DEF ToolsTyping, OneAtATime, OffStaysOff, ToolsForAgent, Loaders
  <2>4. \A m \in Loaders : load'[m] # "store"
    BY <2>1 DEF ToolsTyping, OneAtATime
  <2>5. base' = AllTools \/ Owed(l)
    BY <2>1 DEF Newest
  <2>6. Newest'
    BY <1>1, <2>1, <2>2, <2>4, <2>5 DEF Newest, Owed, ToolsTyping
  <2> QED BY <2>3, <2>6
<1> QED BY <1>2, <1>3, <1>4, <1>5, <1>6 DEF Load

LEMMA ToolsInductive == ToolsSpec => []ToolsIInv
<1>1. ToolsIInv /\ [ToolsNext]_allVars => ToolsIInv'
  <2> SUFFICES ASSUME ToolsIInv, [ToolsNext]_allVars PROVE ToolsIInv'
    OBVIOUS
  <2>1. CASE UNCHANGED allVars
    BY <2>1, ToolsKept DEF allVars, vars, supervision
  <2> QED BY <2>1, SuperviseToolsStep, SurroundingsToolsStep, LoadStep DEF ToolsNext
<1> QED BY ToolsInitInv, <1>1, PTL DEF ToolsSpec

\* provider_reload.go:26-31, registry.go:193-203: for every set of tools and any
\* order of loads, announcements and overrides.
THEOREM ToolsAreCurrent == ToolsSpec => []ToolsCurrent
<1>1. ToolsIInv => ToolsCurrent
  <2> SUFFICES ASSUME ToolsIInv, \A l \in Loaders : load[l] = "idle", sup \notin {"publish", "announce"}
               PROVE  base = lastTools
    BY DEF ToolsIInv, ToolsCurrent, NewestToolsServed
  <2>1. mcpSet
    BY DEF ToolsIInv, ToolsTyping, Loaders
  <2> QED BY <2>1 DEF ToolsIInv, Newest, AllTools
<1> QED BY ToolsInductive, <1>1, PTL

\* The tools are an addition: what they make of supervise is supervise.
THEOREM ToolsKeepSupervision == ToolsSpec => Spec
<1>1. ToolsInit => Init
  BY DEF ToolsInit
<1>2. [ToolsNext]_allVars => [Next]_vars
  BY DEF ToolsNext, Next, SuperviseTools, Surroundings, SetMCP, SetOverrides, Load, TakeReloadMu, ReadProviders,
         StoreTools, allVars
<1> QED BY <1>1, <1>2, PTL DEF ToolsSpec, Spec


-----------------------------------------------------------------------------
(* Calls.  The invariants are inductive together: the bound on             *)
(* consecutiveErr needs ClosedBelowThreshold, the end of the half-open     *)
(* period needs the probe to be a running call.                            *)

\* A call more inside, or one less, changes the count by one.
LEMMA InsideAdd ==
  ASSUME NEW S \in SUBSET Calls, NEW c \in Calls \ S
  PROVE  /\ Cardinality(S) \in Nat
         /\ Cardinality(S \cup {c}) = Cardinality(S) + 1
  BY FS_Subset, FS_CardinalityType, FS_AddElement

LEMMA InsideRemove ==
  ASSUME NEW S \in SUBSET Calls, NEW c \in S
  PROVE  /\ Cardinality(S) \in Nat \ {0}
         /\ Cardinality(S \ {c}) = Cardinality(S) - 1
  <1>1. IsFiniteSet(S) /\ IsFiniteSet(S \ {c})
    BY FS_Subset
  <1>2. Cardinality(S) \in Nat /\ Cardinality(S \ {c}) \in Nat
    BY <1>1, FS_CardinalityType
  <1>3. Cardinality(S \ {c}) = Cardinality(S) - 1
    BY <1>1, FS_RemoveElement
  <1> QED
    BY <1>2, <1>3

LEMMA CallsInitInv == CallsInit => CallsIInv
  <1> SUFFICES ASSUME CallsInit PROVE CallsIInv
    OBVIOUS
  <1>1. CallsTypeOK
    <2>1. cooled \in BOOLEAN /\ halfOpenInFlight \in BOOLEAN /\ latecomer \in BOOLEAN
      BY Zenon DEF CallsInit, BreakerInit
    <2>2. /\ breakerState \in {"closed", "open", "halfopen"} /\ consecutiveErr \in 0..Threshold
          /\ call \in [Calls -> Stages] /\ used \in Nat
          /\ admitted \in SUBSET Calls /\ failed \in 0..Threshold
      BY DEF CallsInit, BreakerInit, Stages
    <2> QED
      BY <2>1, <2>2 DEF CallsTypeOK, BreakerTypeOK
  <1>2. Inside = {}
    BY DEF CallsInit, Inside, Holding, Stages
  <1>3. Cardinality({}) = 0
    BY FS_EmptySet
  <1>4. PlacesExact
    BY <1>2, <1>3 DEF CallsInit, PlacesExact
  <1>5. ProbeInFlight /\ ClosedBelowThreshold
    BY DEF CallsInit, BreakerInit, ProbeInFlight, ClosedBelowThreshold
  <1> QED
    BY <1>1, <1>4, <1>5 DEF CallsIInv

-----------------------------------------------------------------------------
\* A step that neither enters nor leaves acquire..done keeps the count.
LEMMA PlacesKept ==
  ASSUME CallsTypeOK, PlacesExact, UNCHANGED used, NEW c \in Calls,
         NEW next \in Holding, call[c] \in Holding, Move(c, next)
  PROVE  PlacesExact'
  <1>1. Inside' = Inside
    BY DEF CallsTypeOK, Inside, Move
  <1> QED
    BY <1>1 DEF PlacesExact

LEMMA LimitInv == ASSUME CallsIInv, NEW c \in Calls, Limit(c) PROVE CallsIInv'
  <1> USE DEF CallsIInv
  <1>1. CallsTypeOK'
    BY DEF Limit, Move, CallsTypeOK, BreakerTypeOK, Stages, breaker, history
  <1>2. Inside' = Inside \cup {c} /\ c \in Calls \ Inside /\ Inside \in SUBSET Calls
    BY DEF Limit, Move, CallsTypeOK, Inside, Holding, Stages
  <1>3. Cardinality(Inside)' = Cardinality(Inside) + 1 /\ Cardinality(Inside) \in Nat
    BY <1>2, InsideAdd
  <1>4. PlacesExact'
    BY <1>3 DEF Limit, Full, PlacesExact
  <1>5. ProbeInFlight' /\ ClosedBelowThreshold'
    BY DEF Limit, Move, CallsTypeOK, ProbeInFlight, ClosedBelowThreshold, breaker, history
  <1> QED
    BY <1>1, <1>4, <1>5

LEMMA AllowInv == ASSUME CallsIInv, NEW c \in Calls, Allow(c) PROVE CallsIInv'
  <1> USE DEF CallsIInv
  <1>1. PlacesExact'
    BY PlacesKept DEF Allow, Holding, Stages
  <1>2. CASE AllowClosed /\ admitted' = admitted
    <2>1. CallsTypeOK'
      <3>1. /\ UNCHANGED breaker /\ UNCHANGED <<used, latecomer, failed>>
            /\ admitted' = admitted
        BY <1>2 DEF Allow, AllowClosed
      <3>2. call' \in [Calls -> Stages]
        BY DEF Allow, Move, CallsTypeOK, Stages
      <3> QED
        BY <3>1, <3>2 DEF CallsTypeOK, BreakerTypeOK, breaker
    <2>2. ProbeInFlight' /\ ClosedBelowThreshold'
      BY <1>2 DEF AllowClosed, ProbeInFlight, ClosedBelowThreshold, breaker
    <2> QED
      BY <1>1, <2>1, <2>2
  <1>3. CASE AllowProbe /\ admitted' = {c} \cup (IF breakerState = "halfopen" THEN admitted ELSE {})
    <2>1. breakerState = "open"
      BY <1>3 DEF AllowProbe, Rejects, ProbeInFlight, CallsTypeOK, BreakerTypeOK
    <2>2. breakerState' = "halfopen" /\ halfOpenInFlight' = TRUE /\ admitted' = {c}
      BY <1>3, <2>1 DEF AllowProbe, StartHalfOpen
    <2>3. call'[c] = "running"
      BY DEF Allow, Move, CallsTypeOK
    <2>4. CallsTypeOK'
      BY <1>3, <2>2 DEF Allow, AllowProbe, Move, CallsTypeOK, BreakerTypeOK, Stages
    <2>5. ProbeInFlight' /\ ClosedBelowThreshold'
      BY <2>2, <2>3 DEF ProbeInFlight, ClosedBelowThreshold
    <2> QED
      BY <1>1, <2>4, <2>5
  <1> QED
    BY <1>2, <1>3 DEF Allow

LEMMA DenyInv == ASSUME CallsIInv, NEW c \in Calls, Deny(c) PROVE CallsIInv'
  <1> USE DEF CallsIInv
  <1>1. PlacesExact'
    BY PlacesKept DEF Deny, Holding, Stages
  <1>2. CallsTypeOK'
    BY DEF Deny, Move, CallsTypeOK, BreakerTypeOK, Stages, breaker, history
  <1>3. ProbeInFlight' /\ ClosedBelowThreshold'
    BY DEF Deny, Move, CallsTypeOK, ProbeInFlight, ClosedBelowThreshold, breaker, history
  <1> QED
    BY <1>1, <1>2, <1>3

\* record leaves the half-open state, whoever reports, and opens a closed
\* breaker at the threshold.
LEMMA RecordKeeps ==
  ASSUME CallsIInv, NEW success \in BOOLEAN, Record(success)
  PROVE  /\ BreakerTypeOK'
         /\ breakerState' \in {"closed", "open"} /\ halfOpenInFlight' = FALSE
         /\ ClosedBelowThreshold'
  <1> USE DEF CallsIInv
  <1>1. CASE RecordHalfOpen(success)
    <2>1. /\ halfOpenInFlight' = FALSE
          /\ \/ breakerState' = "closed" /\ consecutiveErr' = 0 /\ cooled' = cooled
             \/ breakerState' = "open" /\ cooled' = FALSE /\ consecutiveErr' = consecutiveErr
      BY <1>1 DEF RecordHalfOpen, Open
    <2>2. cooled' \in BOOLEAN
      BY <2>1, Zenon DEF CallsTypeOK, BreakerTypeOK
    <2>3. breakerState' \in {"closed", "open"} /\ consecutiveErr' \in 0..Threshold
      BY <2>1 DEF CallsTypeOK, BreakerTypeOK
    <2>4. ClosedBelowThreshold'
      BY <2>1 DEF ClosedBelowThreshold
    <2> QED
      BY <2>1, <2>2, <2>3, <2>4 DEF BreakerTypeOK
  <1>2. CASE RecordClosed(success)
    <2>1. halfOpenInFlight' = FALSE
      BY <1>2 DEF RecordClosed, CallsTypeOK, BreakerTypeOK, ProbeInFlight
    <2>2. consecutiveErr' \in 0..Threshold
      BY <1>2 DEF RecordClosed, CallsTypeOK, BreakerTypeOK, ClosedBelowThreshold
    <2>3. CASE Opens(consecutiveErr')
      BY <1>2, <2>1, <2>2, <2>3 DEF RecordClosed, Open, CallsTypeOK, BreakerTypeOK, ClosedBelowThreshold
    <2>4. CASE ~Opens(consecutiveErr')
      <3>1. breakerState' = "closed" /\ cooled' = cooled
        BY <1>2, <2>4 DEF RecordClosed
      <3>2. consecutiveErr' < Threshold
        BY <2>2, <2>4 DEF Opens
      <3> QED
        BY <2>1, <2>2, <3>1, <3>2 DEF CallsTypeOK, BreakerTypeOK, ClosedBelowThreshold
    <2> QED
      BY <2>3, <2>4
  <1>3. CASE RecordOpen
    BY <1>3 DEF RecordOpen, CallsTypeOK, BreakerTypeOK, ProbeInFlight, ClosedBelowThreshold, breaker
  <1> QED
    BY <1>1, <1>2, <1>3 DEF Record

LEMMA ReportInv ==
  ASSUME CallsIInv, NEW c \in Calls, NEW outcome \in Outcomes, Report(c, outcome)
  PROVE  CallsIInv'
  <1> USE DEF CallsIInv
  <1>1. PlacesExact'
    BY PlacesKept DEF Report, Holding, Stages
  <1>2. PICK success \in BOOLEAN : Record(success)
    BY DEF Report, RecordOutcome
  <1>3. /\ BreakerTypeOK' /\ ClosedBelowThreshold'
        /\ breakerState' \in {"closed", "open"} /\ halfOpenInFlight' = FALSE
    BY <1>2, RecordKeeps
  <1>4. ProbeInFlight'
    BY <1>3 DEF ProbeInFlight
  <1>5. admitted' \in SUBSET Calls /\ call' \in [Calls -> Stages] /\ used' \in Nat
    BY DEF Report, Move, CallsTypeOK, Stages
  <1>6. failed' \in 0..Threshold
    BY DEF Report, CallsTypeOK, Outcomes
  <1>7. latecomer' \in BOOLEAN
    BY Zenon DEF Report, CallsTypeOK
  <1> QED
    BY <1>1, <1>3, <1>4, <1>5, <1>6, <1>7 DEF CallsTypeOK

LEMMA ReleaseInv == ASSUME CallsIInv, NEW c \in Calls, Release(c) PROVE CallsIInv'
  <1> USE DEF CallsIInv
  <1>1. Inside' = Inside \ {c} /\ c \in Inside /\ Inside \in SUBSET Calls
    BY DEF Release, Move, CallsTypeOK, Inside, Holding, Stages
  <1>2. Cardinality(Inside)' = Cardinality(Inside) - 1 /\ Cardinality(Inside) \in Nat \ {0}
    BY <1>1, InsideRemove
  <1>3. PlacesExact' /\ used' \in Nat
    BY <1>2 DEF Release, GivenBack, PlacesExact
  <1>4. CallsTypeOK'
    BY <1>3 DEF Release, Move, CallsTypeOK, BreakerTypeOK, Stages, breaker, history
  <1>5. ProbeInFlight' /\ ClosedBelowThreshold'
    BY DEF Release, Move, CallsTypeOK, ProbeInFlight, ClosedBelowThreshold, breaker, history
  <1> QED
    BY <1>3, <1>4, <1>5

LEMMA CoolInv == ASSUME CallsIInv, Cool PROVE CallsIInv'
  <1> USE DEF CallsIInv
  <1>1. Inside' = Inside
    BY DEF Cool, Inside
  <1>2. PlacesExact'
    BY <1>1 DEF Cool, PlacesExact
  <1>3. CallsTypeOK' /\ ProbeInFlight' /\ ClosedBelowThreshold'
    BY DEF Cool, CoolDown, CallsTypeOK, BreakerTypeOK, ProbeInFlight, ClosedBelowThreshold, history
  <1> QED
    BY <1>2, <1>3

LEMMA CallsStutterInv == ASSUME CallsIInv, UNCHANGED callVars PROVE CallsIInv'
  <1>1. Inside' = Inside
    BY DEF callVars, Inside
  <1> QED
    BY <1>1 DEF callVars, breaker, history, CallsIInv, CallsTypeOK, BreakerTypeOK, ProbeInFlight, PlacesExact, ClosedBelowThreshold

LEMMA CallsNextInv == CallsIInv /\ [CallsNext]_callVars => CallsIInv'
  BY CoolInv, LimitInv, AllowInv, DenyInv, ReleaseInv, ReportInv, CallsStutterInv DEF CallsNext

THEOREM CallsInductive == CallsSpec => []CallsIInv
  BY CallsInitInv, CallsNextInv, PTL DEF CallsSpec

-----------------------------------------------------------------------------
\* The failure counter stays within the threshold and every count has its type.
THEOREM CallsTypeCorrect == CallsSpec => []CallsTypeOK
  <1>1. CallsIInv => CallsTypeOK
    BY DEF CallsIInv
  <1> QED
    BY CallsInductive, <1>1, PTL

\* A half-open breaker always has exactly one admitted call, which is running:
\* for every interleaving of probes, stragglers and denials.
THEOREM ProbeIsInFlight == CallsSpec => []ProbeInFlight
  <1>1. CallsIInv => ProbeInFlight
    BY DEF CallsIInv
  <1> QED
    BY CallsInductive, <1>1, PTL

\* The limiter's count is the number of calls inside acquire..done, on every
\* path out of acquire.
THEOREM PlacesAreExact == CallsSpec => []PlacesExact
  <1>1. CallsIInv => PlacesExact
    BY DEF CallsIInv
  <1> QED
    BY CallsInductive, <1>1, PTL

\* No closed breaker with Threshold failures or more.
THEOREM ClosedIsBelowThreshold == CallsSpec => []ClosedBelowThreshold
  <1>1. CallsIInv => ClosedBelowThreshold
    BY DEF CallsIInv
  <1> QED
    BY CallsInductive, <1>1, PTL

\* Probe, places and failure count together, as the executor relies on them.
THEOREM AdmissionIsExact == CallsSpec => []AdmissionExact
  BY ProbeIsInFlight, PlacesAreExact, ClosedIsBelowThreshold, PTL DEF AdmissionExact

-----------------------------------------------------------------------------
(* The manager. *)

\* Every step of the manager is a step of its tools or of its calls.
THEOREM ManagerIsBoth == ManagerSpec => ToolsSpec /\ CallsSpec
<1>1. ManagerInit => ToolsInit /\ CallsInit
  BY DEF ManagerInit
<1>2. [ManagerNext]_managerVars => [ToolsNext]_allVars /\ [CallsNext]_callVars
  BY DEF ManagerNext, InTools, InCalls, managerVars
<1> QED BY <1>1, <1>2, PTL DEF ManagerSpec, ToolsSpec, CallsSpec

\* All that is promised of a server holds of the manager's.
THEOREM ServerIsManaged == ManagerSpec => [](OnlyWatched /\ ToolsCurrent /\ AdmissionExact) /\ Paced
BY ManagerIsBoth, ToolsKeepSupervision, OnlyTheWatched, AttemptsArePaced, ToolsAreCurrent, AdmissionIsExact, PTL

-----------------------------------------------------------------------------
(* The session and its transport. *)

USE ProcessesAssumption, QueueAssumption

\* What the proof needs of the types.
Typing ==
  /\ pc \in [Requests \cup {Reader, Closer} ->
               {"idle", "wait", "remove", "receive", "hand", "returned"} \cup Sending \cup Terminating]
  /\ pending \in SUBSET Requests
  /\ waiter \in [Requests -> 0..1]

\* An answer is in the channel or in hand only of a call without a waiter in the
\* map; an idle call has neither.
Waiters ==
  /\ \A c \in Requests : c \in pending \/ pc[c] = "idle" =>
       waiter[c] = 0 /\ (pc[Reader] = "hand" => handing # c)
  /\ pc[Reader] = "hand" => handing \in Requests /\ waiter[handing] = 0

\* terminate clears the map before it closes done.
Order ==
  /\ done = TRUE => ended = TRUE
  /\ \A p \in {Reader, Closer} : pc[p] = "wake" => ended = TRUE

IInv == Typing /\ Waiters /\ Order /\ NoWaiterLeaks

LEMMA InitInv == SessionInit => IInv
BY DEF SessionInit, IInv, Typing, Waiters, Order, NoWaiterLeaks, Sending, Terminating

\* The steps of a call.
LEMMA CallStep ==
  ASSUME IInv, NEW c \in Requests, Register(c) \/ ContextEnds(c) \/ Await(c) \/ RemovePending(c)
  PROVE  IInv'
<1> USE DEF IInv, Typing, Go
<1>1. CASE Register(c)
  BY <1>1 DEF Register, Waiters, Order, NoWaiterLeaks, Sending, Terminating
<1>2. CASE ContextEnds(c)
  BY <1>2 DEF ContextEnds, Waiters, Order, NoWaiterLeaks
<1>3. CASE Await(c)
  <2>1. \/ pc' = [pc EXCEPT ![c] = "remove"] /\ UNCHANGED waiter
        \/ pc' = [pc EXCEPT ![c] = "returned"] /\ c \notin pending
           /\ (UNCHANGED waiter \/ waiter' = [waiter EXCEPT ![c] = 0])
    BY <1>3 DEF Await, Waiters, Order, NoWaiterLeaks
  <2>2. pc[c] = "wait" /\ UNCHANGED <<pending, handing, ended, done>>
    BY <1>3 DEF Await
  <2>3. Typing'
    BY <2>1, <2>2
  <2>4. Waiters' /\ Order'
    BY <2>1, <2>2 DEF Waiters, Order
  <2>5. NoWaiterLeaks'
    BY <2>1, <2>2 DEF NoWaiterLeaks, Sending
  <2> QED BY <2>3, <2>4, <2>5
<1>4. CASE RemovePending(c)
  BY <1>4 DEF RemovePending, WithoutPending, Waiters, Order, NoWaiterLeaks, Sending, Terminating
<1> QED BY <1>1, <1>2, <1>3, <1>4

\* The steps of send, by a call or by readLoop.
LEMMA SendStep ==
  ASSUME IInv, NEW p \in Senders, LockWrite(p) \/ CheckOpen(p) \/ Post(p)
  PROVE  IInv'
<1> USE DEF IInv, Typing, Go
<1>1. pc[p] \in Sending /\ UNCHANGED <<pending, waiter, handing, ended, done>>
  BY DEF LockWrite, CheckOpen, Post, Sending
<1>2. PICK place : /\ pc' = [pc EXCEPT ![p] = place]
                   /\ IF p = Reader THEN place \in Sending \cup {"receive"} ELSE place \in Sending \cup {"wait", "remove"}
  BY DEF LockWrite, CheckOpen, Post, AfterSend, Sending
<1>3. Typing'
  BY <1>1, <1>2 DEF Senders
<1>4. Waiters'
  BY <1>1, <1>2 DEF Waiters, Senders, Sending
<1>5. Order' /\ NoWaiterLeaks'
  BY <1>1, <1>2 DEF Order, NoWaiterLeaks, Senders, Sending
<1> QED BY <1>3, <1>4, <1>5

\* The steps of readLoop.
LEMMA ReaderStep ==
  ASSUME IInv, ReadLoop \/ Hand
  PROVE  IInv'
<1> USE DEF IInv, Typing, Go
<1>1. CASE ReadLoop
  <2>1. pc[Reader] = "receive" /\ UNCHANGED <<waiter, ended, done>>
    BY <1>1 DEF ReadLoop
  <2>2. CASE /\ pc' = [pc EXCEPT ![Reader] = "terminate"] \/ pc' = [pc EXCEPT ![Reader] = "write"] \/ UNCHANGED pc
             /\ UNCHANGED <<pending, handing>>
    <3>1. Typing'
      BY <2>1, <2>2 DEF Sending, Terminating
    <3>2. Waiters' /\ Order' /\ NoWaiterLeaks'
      BY <2>1, <2>2 DEF Waiters, Order, NoWaiterLeaks
    <3> QED BY <3>1, <3>2
  <2>3. CASE \E c \in pending : /\ pending' = pending \ {c} /\ handing' = c
                                /\ pc' = [pc EXCEPT ![Reader] = "hand"]
    <3>1. PICK c \in pending : pending' = pending \ {c} /\ handing' = c /\ pc' = [pc EXCEPT ![Reader] = "hand"]
      BY <2>3
    <3>2. Typing'
      BY <2>1, <3>1
    <3>3. Waiters' /\ Order' /\ NoWaiterLeaks'
      BY <2>1, <3>1 DEF Waiters, Order, NoWaiterLeaks, Sending
    <3> QED BY <3>2, <3>3
  <2> QED BY <1>1, <2>2, <2>3 DEF ReadLoop, Taken
<1>2. CASE Hand
  <2>1. handing \in Requests /\ pc[Reader] = "hand"
    BY <1>2 DEF Hand, Waiters
  <2>2. waiter' = [waiter EXCEPT ![handing] = 1]
    BY <1>2, <2>1 DEF Hand, Waiters
  <2>3. pc' = [pc EXCEPT ![Reader] = "receive"] /\ UNCHANGED <<pending, ended, done>>
    BY <1>2 DEF Hand
  <2>4. Typing'
    BY <2>1, <2>2, <2>3
  <2>5. Waiters' /\ Order' /\ NoWaiterLeaks'
    BY <2>1, <2>2, <2>3 DEF Waiters, Order, NoWaiterLeaks
  <2> QED BY <2>4, <2>5
<1> QED BY <1>1, <1>2

\* The steps of terminate.
LEMMA TerminateStep ==
  ASSUME IInv, NEW p \in {Reader, Closer}, Terminate(p)
  PROVE  IInv'
<1> USE DEF IInv, Typing, Go
<1>1. CASE CloseFn(p)
  BY <1>1 DEF CloseFn, Waiters, Order, NoWaiterLeaks, Terminating
<1>2. CASE Mark(p)
  BY <1>2 DEF Mark, AfterMark, Waiters, Order, NoWaiterLeaks, Terminating
<1>3. CASE Wake(p)
  BY <1>3 DEF Wake, Waiters, Order, NoWaiterLeaks, Terminating
<1>4. CASE ShutTransport(p)
  BY <1>4 DEF ShutTransport, Waiters, Order, NoWaiterLeaks, Terminating
<1>5. CASE CancelTransport(p)
  BY <1>5 DEF CancelTransport, Waiters, Order, NoWaiterLeaks, Terminating
<1> QED BY <1>1, <1>2, <1>3, <1>4, <1>5 DEF Terminate

LEMMA Inductive == SessionSpec => []IInv
<1>1. IInv /\ [SessionNext]_sessionVars => IInv'
  <2> SUFFICES ASSUME IInv, [SessionNext]_sessionVars PROVE IInv'
    OBVIOUS
  <2>1. CASE Arrive \/ Consume \/ BodyEnds \/ UNCHANGED sessionVars
    BY <2>1 DEF Arrive, Consume, BodyEnds, session, sessionVars, IInv, Typing, Waiters, Order, NoWaiterLeaks
  <2>2. CASE Close
    BY <2>2 DEF Close, Go, IInv, Typing, Waiters, Order, NoWaiterLeaks, Terminating
  <2> QED BY <2>1, <2>2, CallStep, SendStep, ReaderStep, TerminateStep DEF SessionNext
<1> QED BY InitInv, <1>1, PTL DEF SessionSpec

-----------------------------------------------------------------------------
\* The transport: nobody is inside deliver once the transport is closed, as close
\* and deliver hold the same lock.
TransportInv ==
  /\ TransportTypeOK
  /\ shut => CloseMuFree

\* What a step of the session does to the transport.
TransportStep ==
  \/ UNCHANGED transport
  \/ Posted
  \/ \E m \in Messages : Deliver(m) \/ Receive(m)
  \/ Unblock \/ EndBodies \/ Shut \/ CancelBase

LEMMA OnlyTransportSteps == [SessionNext]_sessionVars => TransportStep
<1> SUFFICES ASSUME [SessionNext]_sessionVars PROVE TransportStep
  OBVIOUS
<1> USE DEF TransportStep
<1>1. ASSUME NEW c \in Requests, Register(c) \/ ContextEnds(c) \/ Await(c) \/ RemovePending(c)
      PROVE  UNCHANGED transport
  BY <1>1 DEF Register, ContextEnds, Await, RemovePending
<1>2. ASSUME NEW p \in Senders, LockWrite(p) \/ CheckOpen(p) \/ Post(p)
      PROVE  UNCHANGED transport \/ Posted
  BY <1>2 DEF LockWrite, CheckOpen, Post
<1>3. CASE Arrive \/ Consume \/ BodyEnds
  BY <1>3 DEF Arrive, Consume, BodyEnds
<1>4. CASE ReadLoop
  BY <1>4 DEF ReadLoop, ReceiveEnds
<1>5. CASE Hand \/ Close
  BY <1>5 DEF Hand, Close
<1>6. ASSUME NEW p \in {Reader, Closer}, Terminate(p)
      PROVE  UNCHANGED transport \/ Shut \/ CancelBase
  BY <1>6 DEF Terminate, CloseFn, Mark, Wake, ShutTransport, CancelTransport
<1>7. CASE UNCHANGED sessionVars
  BY <1>7 DEF sessionVars
<1> QED BY <1>1, <1>2, <1>3, <1>4, <1>5, <1>6, <1>7 DEF SessionNext

LEMMA TransportKept ==
  ASSUME TransportInv, TransportStep
  PROVE  /\ TransportInv'
         /\ shut => shut' /\ Len(inbound') <= Len(inbound)
<1> DEFINE Kept == TransportInv' /\ (shut => shut' /\ Len(inbound') <= Len(inbound))
<1> USE DEF TransportInv, TransportTypeOK, CloseMuFree
<1>1. ASSUME UNCHANGED transport \/ Posted \/ EndBodies PROVE Kept
  BY <1>1 DEF transport, Posted, EndBodies, Bodies, None, Streaming
<1>2. ASSUME NEW m \in Messages, Deliver(m) PROVE Kept
  <2>1. CASE HasRoom
    <3>1. /\ inbound' = Append(inbound, m)
          /\ UNCHANGED <<bodies, shut, alive>> /\ ~shut
      BY <1>2, <2>1 DEF Deliver
    <3> QED BY <2>1, <3>1 DEF HasRoom
  <2>2. CASE ~HasRoom
    BY <1>2, <2>2 DEF Deliver, Bodies
  <2> QED BY <2>1, <2>2
<1>3. ASSUME NEW m \in Messages, Receive(m)
      PROVE  Kept
  <2>1. inbound # <<>> /\ inbound' = Tail(inbound) /\ UNCHANGED <<shut, alive, bodies>>
    BY <1>3 DEF Receive
  <2>2. inbound' \in Seq(Messages) /\ Len(inbound') = Len(inbound) - 1
    BY <2>1
  <2> QED BY <2>1, <2>2
<1>4. ASSUME Unblock PROVE Kept
  <2>1. PICK m \in Messages : bodies = Blocked(m)
    BY <1>4 DEF Unblock, Bodies, None, Streaming
  <2>2. bodies.phase = "blocked" /\ bodies.message = m
    BY <2>1 DEF Blocked
  <2>3. ~shut /\ shut' = shut /\ alive' = alive /\ bodies' = Streaming
    BY <1>4, <2>2 DEF Unblock
  <2>4. inbound' \in Seq(Messages) /\ Len(inbound') <= QueueSize
    BY <1>4, <2>2 DEF Unblock, HasRoom
  <2> QED BY <2>3, <2>4 DEF Bodies, Streaming
<1>5. ASSUME Shut \/ CancelBase PROVE Kept
  <2>1. inbound' = inbound /\ bodies' = bodies
    BY <1>5 DEF Shut, CancelBase
  <2>2. shut' \in BOOLEAN /\ alive' \in BOOLEAN
    BY <1>5, Zenon DEF Shut, CancelBase
  <2>3. (shut => shut') /\ (shut' => CloseMuFree)
    <3>1. CASE Shut
      BY <3>1 DEF Shut, MayShut
    <3>2. CASE CancelBase
      BY <3>2, Zenon DEF CancelBase
    <3> QED BY <1>5, <3>1, <3>2
  <2>4. Len(inbound) \in Nat
    OBVIOUS
  <2> QED BY <2>1, <2>2, <2>3, <2>4
<1> HIDE DEF TransportInv, Kept
<1>6. Kept
  BY <1>1, <1>2, <1>3, <1>4, <1>5 DEF TransportStep
<1> QED BY <1>6 DEF Kept

\* No state of the transport has a message more than its queue takes, or a deliver
\* in its lock after close (transport_http.go:170-190).
THEOREM TransportIsSound == SessionSpec => []TransportInv
<1>1. SessionInit => TransportInv
  <2>1. None \in Bodies /\ None.phase # "blocked"
    BY DEF Bodies, None
  <2>2. <<>> \in Seq(Messages) /\ Len(<<>>) = 0
    OBVIOUS
  <2>3. QueueSize >= 0
    OBVIOUS
  <2> QED BY <2>1, <2>2, <2>3 DEF SessionInit, TransportInit, TransportInv, TransportTypeOK, CloseMuFree
<1>2. TransportInv /\ [SessionNext]_sessionVars => TransportInv'
  BY OnlyTransportSteps, TransportKept
<1> QED BY <1>1, <1>2, PTL DEF SessionSpec

\* transport_http.go:180: nothing is queued any more once the transport is closed.
THEOREM QuietForGood == SessionSpec => QuietOnceShut
<1>1. TransportInv /\ [SessionNext]_sessionVars => (shut => Len(inbound') <= Len(inbound))
  BY OnlyTransportSteps, TransportKept
<1> QED BY TransportIsSound, <1>1, PTL DEF SessionSpec, QuietOnceShut

-----------------------------------------------------------------------------
\* session.go:120-121: whatever the server sends and whoever closes the session,
\* the map holds no waiter of a returned call, and none at all once closed.
THEOREM NoWaiterIsLeaked == SessionSpec => []NoWaiterLeaks
<1>1. IInv => NoWaiterLeaks
  BY DEF IInv
<1> QED BY Inductive, <1>1, PTL

\* session.go:97: readLoop never blocks on the channel of a waiter.
THEOREM ReaderIsFree == SessionSpec => []ReaderNotHeldByWaiter
<1>1. IInv => ReaderNotHeldByWaiter
  BY DEF IInv, Waiters, ReaderNotHeldByWaiter
<1> QED BY Inductive, <1>1, PTL

\* No waiter too many in the map, and never a full channel before the reader.
THEOREM WaitersAreExact == SessionSpec => []WaitersExact
BY NoWaiterIsLeaked, ReaderIsFree, PTL DEF WaitersExact
=============================================================================
