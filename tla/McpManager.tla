------------------------------ MODULE McpManager ------------------------------
(***************************************************************************)
(* One managedServer of infrastructure/mcp/manager.go: its supervision and *)
(* its tools (McpTools), and the admission of its calls (McpCalls).  They  *)
(* meet only in getClient, which Executor.call asks after the call has     *)
(* been admitted and whose nil is one of the failures a call may report at *)
(* any time: neither half reads what the other writes, so a behaviour      *)
(* follows one of them and leaves the other where it started.              *)
(***************************************************************************)
EXTENDS McpTools, McpCalls

VARIABLE followed

managerVars == <<allVars, callVars, followed>>

ManagerInit ==
  /\ ToolsInit /\ CallsInit
  /\ followed \in {"tools", "calls"}
  /\ followed = "calls" => off = {}

InTools(Step) == followed = "tools" /\ Step /\ UNCHANGED <<callVars, followed>>
InCalls(Step) == followed = "calls" /\ Step /\ UNCHANGED <<allVars, followed>>

ManagerNext == InTools(ToolsNext) \/ InCalls(CallsNext)

\* The fairness of both halves, step for step.
ManagerFairness ==
  /\ WF_managerVars(InTools(SuperviseTools))
  /\ SF_managerVars(InTools(Works(Dial /\ sup' = "handshake")))
  /\ SF_managerVars(InTools(Works(HandshakeSucceeds)))
  /\ SF_managerVars(InTools(Works(DiscoverSucceeds)))
  /\ WF_managerVars(InTools(CancelSupervise /\ UNCHANGED toolVars))
  /\ WF_managerVars(InTools(CloseClient /\ UNCHANGED toolVars))
  /\ WF_managerVars(InTools(SetDisconnected /\ UNCHANGED toolVars))
  /\ WF_managerVars(InTools(SetMCP))
  /\ \A l \in Loaders : WF_managerVars(InTools(Load(l)))
  /\ WF_managerVars(InCalls(Cool))
  /\ \A c \in Calls : WF_managerVars(InCalls(Goes(c)))

ManagerSpec == ManagerInit /\ [][ManagerNext]_managerVars /\ ManagerFairness
=============================================================================
