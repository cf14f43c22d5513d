\* Two clients, two paths, three calls: register and unregister in every
\* interleaving with disconnects, timeouts and evictions (BlueZ's rule).
CONSTANTS
  c1 = c1
  c2 = c2
  p1 = p1
  p2 = p2
  agentManager = agentManager
  profileManager = profileManager
  NoClient = NoClient
  NoPath = NoPath
  WellKnown = {c1}
  Clients = {c1, c2}
  Paths = {p1, p2}
  Managers = {agentManager}
  AgentManagers = {agentManager}
  UseObjectPathOnUnregister = TRUE
  Requests <- AgentRequests
  MaxCalls = 3
  MaxCallbacks = 0
SPECIFICATION Spec
INVARIANTS
  TypeOK
  RegistryMatchesExports
  NoOrphanAtServer
  AnsweredExactlyOnce
CHECK_DEADLOCK FALSE
