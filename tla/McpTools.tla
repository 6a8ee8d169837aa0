------------------------------- MODULE McpTools -------------------------------
(***************************************************************************)
(* From the supervised server of McpServer to the tools the agent sees:    *)
(* what discovery stored, the loads of the tool registry that an           *)
(* announcement and the start of the process trigger, and the overrides    *)
(* put on top (mcp/provider.go, core/provider_reload.go, tool/providers.go *)
(* and tool/registry.go).                                                  *)
(*                                                                         *)
(* Each step of McpServer goes on as it is; onReady keeps supervise inside *)
(* the announcement until its load is through.  Built-in tools are always  *)
(* there and are left out.                                                 *)
(***************************************************************************)
EXTENDS McpServer

CONSTANT Tools          \* what the server may come to offer

VARIABLES
  lastTools,    \* managedServer.lastTools
  mcpSet,       \* ProviderSet.mcp is set
  load,         \* where each load is: of "start" and of "announced"
  read,         \* the tools it has got from its providers
  base, off,    \* the registry: tools of the providers, overrides that disable
  tools         \* the registry's view: what Get, List and ToolsForAgent read

\* What Provider.Tools is given, and what an agent is offered and the gate lets through.
AllTools == IF mcpSet THEN lastTools ELSE {}
ToolsForAgent == tools

registry == <<base, off, tools>>
toolVars == <<lastTools, mcpSet, load, read, registry>>
allVars == <<vars, toolVars>>

Loaders == {"start", "announced"}

ToolsTypeOK ==
  /\ TypeOK
  /\ lastTools \in SUBSET Tools
  /\ mcpSet \in BOOLEAN
  /\ load \in [Loaders -> {"set", "due", "read", "store", "idle"}]
  /\ read \in [Loaders -> SUBSET Tools]
  /\ base \in SUBSET Tools /\ off \in SUBSET Tools /\ tools \in SUBSET Tools

\* Manager.Start has let supervise go when SetToolProviders begins.
ToolsInit ==
  /\ Init
  /\ lastTools = {}
  /\ mcpSet = FALSE
  /\ load = [l \in Loaders |-> IF l = "start" THEN "set" ELSE "idle"]
  /\ read = [l \in Loaders |-> {}]
  /\ base = {} /\ off \in SUBSET Tools /\ tools = {}

Announced == load["announced"] = "idle"

\* A step of supervise: discovery stores what the server lists, which may differ from
\* what it listed before, and onReady loads before the watch begins.
SuperviseTools ==
  /\ Supervise
  /\ Announced
  /\ IF sup = "discover" /\ sup' = "publish" THEN lastTools' \in SUBSET Tools ELSE UNCHANGED lastTools
  /\ load' = [load EXCEPT !["announced"] = IF sup = "announce" THEN "due" ELSE @]
  /\ UNCHANGED <<mcpSet, read, registry>>

Surroundings ==
  /\ \/ PingFails /\ Announced /\ UNCHANGED <<ctxDone, closed, closer>>
     \/ LivesLong /\ Announced /\ UNCHANGED <<ctxDone, closed, closer>>
     \/ ConnectionDies \/ StopTasks \/ Closing
  /\ UNCHANGED toolVars

\* SetToolProviders: SetMCP, then a load.
SetMCP ==
  /\ load["start"] = "set"
  /\ mcpSet' = TRUE
  /\ load' = [load EXCEPT !["start"] = "due"]
  /\ UNCHANGED <<vars, lastTools, read, registry>>

\* reloadToolProviders, under reloadMu from before the providers are read until after
\* the registry is replaced.
LoadsAtOnce == TRUE                    \* mutant: no reloadMu
ReloadMu == \A l \in Loaders : load[l] \notin {"read", "store"}

TakeReloadMu(l) ==
  /\ load[l] = "due"
  /\ ReloadMu
  /\ load' = [load EXCEPT ![l] = "read"]
  /\ UNCHANGED <<vars, lastTools, mcpSet, read, registry>>

\* Specs and Provider.Tools, which never fails: a server that is down keeps offering
\* its last tools.
ReadProviders(l) ==
  /\ load[l] = "read"
  /\ load' = [load EXCEPT ![l] = "store"]
  /\ read' = [read EXCEPT ![l] = AllTools]
  /\ UNCHANGED <<vars, lastTools, mcpSet, registry>>

\* rebuildLocked applies the overrides to all the tools it was given.
ApplyTo(b, o) == b \ o
Rebuilt(b, o) == ApplyTo(b, o)

StoreTools(l) ==
  /\ load[l] = "store"
  /\ base' = read[l]
  /\ tools' = Rebuilt(base', off)
  /\ load' = [load EXCEPT ![l] = "idle"]
  /\ read' = [read EXCEPT ![l] = {}]
  /\ UNCHANGED <<vars, lastTools, mcpSet, off>>

\* applyRuntimeSnapshot, of a change or a refresh in RuntimeConfig.
SetOverrides ==
  /\ off' \in SUBSET Tools
  /\ tools' = Rebuilt(base, off')
  /\ UNCHANGED <<vars, lastTools, mcpSet, load, read, base>>

Load(l) == TakeReloadMu(l) \/ ReadProviders(l) \/ StoreTools(l)

ToolsNext ==
  \/ SuperviseTools \/ Surroundings \/ SetMCP \/ SetOverrides
  \/ \E l \in Loaders : Load(l)

ToolsSpec == ToolsInit /\ [][ToolsNext]_allVars

Works(A) == Attempt(A) /\ SuperviseTools
FairToolsSpec ==
  /\ ToolsSpec
  /\ WF_allVars(SuperviseTools)
  /\ SF_allVars(Works(Dial /\ sup' = "handshake"))
  /\ SF_allVars(Works(HandshakeSucceeds))
  /\ SF_allVars(Works(DiscoverSucceeds))
  /\ WF_allVars(CancelSupervise /\ UNCHANGED toolVars)
  /\ WF_allVars(CloseClient /\ UNCHANGED toolVars)
  /\ WF_allVars(SetDisconnected /\ UNCHANGED toolVars)
  /\ WF_allVars(SetMCP) /\ \A l \in Loaders : WF_allVars(Load(l))

-----------------------------------------------------------------------------
\* When no load is due or under way, the registry has the tools of the latest
\* discovery that was announced: a load that read before it cannot store after it
\* (provider_reload.go:26-31).
NewestToolsServed ==
  /\ \A l \in Loaders : load[l] = "idle"
  /\ sup \notin {"publish", "announce"}
  => base = lastTools

\* Whatever the order of loads and overrides, a tool that is switched off is in no
\* agent's list and passes no gate, and one that is neither off nor gone is there
\* (registry.go:193-203, loop.go:103 and 772).
OffStaysOff == ToolsForAgent = base \ off

ToolsCurrent == NewestToolsServed /\ OffStaysOff
=============================================================================
