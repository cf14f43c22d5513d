\* One client, two agents: which one does an Unregister call remove?
CONSTANTS
  c1 = c1
  c2 = c2
  p1 = p1
  p2 = p2
  agentManager = agentManager
  profileManager = profileManager
  NoClient = NoClient
  NoPath = NoPath
  WellKnown = {c1}
  Clients = {c1}
  Paths = {p1, p2}
  Managers = {agentManager}
  AgentManagers = {agentManager}
  UseObjectPathOnUnregister = TRUE
  Requests <- AgentRequests
  MaxCalls = 3
  MaxCallbacks = 0
SPECIFICATION Spec
PROPERTY UnregisterRemovesNamed
CHECK_DEADLOCK FALSE
