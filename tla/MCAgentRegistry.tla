-------------------------- MODULE MCAgentRegistry --------------------------
(***************************************************************************)
(* Small instances of AgentRegistry.                                       *)
(***************************************************************************)
EXTENDS AgentRegistry

CONSTANTS c1, c2, p1, p2, agentManager, profileManager

(* Registrations of every path.  The proxy ignores the path of an Unregister *)
(* call, so one is enough.                                                   *)
AgentRequests ==
  [op : {"register"}, mgr : {agentManager}, path : Paths]
  \cup [op : {"unregister"}, mgr : {agentManager}, path : {p2}]

(* The same, the requests of a manager that has no rule, and a plain call. *)
MixedRequests ==
  AgentRequests
  \cup [op : {"register", "unregister"}, mgr : {profileManager}, path : {p1}]
  \cup {[op |-> "other", mgr |-> agentManager, path |-> p1]}
=============================================================================
