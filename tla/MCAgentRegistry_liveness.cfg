\* Two calls of any kind and callbacks of the service, under the fairness of
\* the main loop and of the GDBus timeouts.
CONSTANTS
  c1 = c1
  c2 = c2
  p1 = p1
  p2 = p2
  agentManager = agentManager
  profileManager = profileManager
  NoClient = NoClient
  NoPath = NoPath
  WellKnown = {c1}
  Clients = {c1, c2}
  Paths = {p1, p2}
  Managers = {agentManager, profileManager}
  AgentManagers = {agentManager}
  UseObjectPathOnUnregister = TRUE
  Requests <- MixedRequests
  MaxCalls = 2
  MaxCallbacks = 1
SPECIFICATION FairSpec
PROPERTIES
  CallsAnswered
  DisconnectedEvicted
CHECK_DEADLOCK FALSE
