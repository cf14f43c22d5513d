--------------------------- MODULE AgentRegistry ---------------------------
(***************************************************************************)
(* The agent (callback) registry of dbus-proxy, one proxy process between  *)
(* the clients of the target bus and one service of the source bus.        *)
(*                                                                         *)
(* A client that calls RegisterAgent(path) on the mirrored manager object  *)
(* wants the service to call it back at path.  The proxy therefore exports *)
(* an object of its own at path on the source bus, remembers which client  *)
(* it stands for, and forwards the registration.  The registry is undone   *)
(* by UnregisterAgent or by a NameOwnerChanged signal of the target bus.   *)
(*                                                                         *)
(* GDBus runs every handler of the proxy on one main loop, so a handler is *)
(* one atomic step, except on_name_owner_changed, which blocks in          *)
(* g_dbus_connection_call_sync once for every entry it removes.            *)
(***************************************************************************)
EXTENDS Integers, Sequences, FiniteSets

CONSTANTS
  Clients,        \* unique names of the target bus
  WellKnown,      \* those that own a well-known name at the start
  NoClient,       \* stands for "no client"
  Managers,       \* manager interfaces of the service with Register*/Unregister*
  AgentManagers,  \* those with a rule whose Register takes an object path
  Paths,          \* object paths clients register
  NoPath,         \* an Unregister call without arguments
  UseObjectPathOnUnregister, \* AgentRule::use_object_path_on_unregister
  Requests,       \* the method calls clients may make
  MaxCalls,       \* bound: method calls in a behaviour
  MaxCallbacks    \* bound: callbacks of the service queued at a time

Ops == {"register", "unregister", "other"}

(***************************************************************************)
(* A service has at most one rule that can match (callback-rules.cpp):     *)
(* BlueZ and OBEX one each; NetworkManager's two rules never match, because *)
(* its Register takes an identifier string, so there AgentManagers = {}.   *)
(***************************************************************************)
ASSUME ConstantsAssumption ==
  /\ WellKnown \subseteq Clients
  /\ NoClient \notin Clients
  /\ NoPath \notin Paths
  /\ AgentManagers \subseteq Managers
  /\ \A m, n \in AgentManagers : m = n
  /\ UseObjectPathOnUnregister \in BOOLEAN
  /\ Requests \subseteq [op : Ops, mgr : Managers, path : Paths]
  /\ MaxCalls \in Nat
  /\ MaxCallbacks \in Nat

VARIABLES
  running,    \* the proxy's main loop has not quit
  registry,   \* proxy_state->agents_registry; the array order is the id order
  nextId,     \* the next registration/subscription id GDBus will hand out
  exported,   \* paths the proxy has registered on the source bus
  evicting,   \* old_owner of the NameOwnerChanged signal being handled
  sync,       \* state of the blocking Unregister call of that handler
  inbox,      \* target bus messages not yet dispatched by the main loop
  toServer,   \* calls sent on the source bus, not yet handled by the service
  fromServer, \* source bus messages not yet dispatched by the main loop
  alive,      \* clients connected to the target bus
  named,      \* clients that also own a well-known name
  calls,      \* calls made so far, for the bound MaxCalls
  pending,    \* calls of each client that have no reply yet
  server      \* what the service believes is registered through the proxy

proxyVars  == <<running, registry, nextId, exported, evicting, sync>>
busVars    == <<inbox, toServer, fromServer>>
clientVars == <<alive, named, calls, pending>>
vars       == <<proxyVars, busVars, clientVars, server>>

Entry == [id : Nat, owner : Clients, path : Paths]

(***************************************************************************)
(* Messages.  "for" in a Registration and in an agent call is history: the *)
(* client on whose behalf the service accepted the registration.           *)
(***************************************************************************)
CallMsg  == [kind : {"call"}, from : Clients, req : Requests]
GoneMsg  == [kind : {"gone"}, from : Clients, subs : SUBSET Nat]
Forward  == {m \in [op : Ops, mgr : Managers, path : Paths \cup {NoPath},
                    from : Clients, sync : BOOLEAN, live : BOOLEAN] :
               m.op = "register" => m.path \in Paths}
Registration == [mgr : Managers, path : Paths, for : Clients]
ReplyMsg == [kind : {"reply"}, to : Clients]
AgentMsg == [kind : {"agent"}, path : Paths, for : Clients]

(* Register rewrites the first argument with the unique path, which is the *)
(* agent's own path as object_path_customisable is FALSE in every rule.    *)
ForwardOf(c, r) == [op |-> r.op, mgr |-> r.mgr, path |-> r.path,
                    from |-> c, sync |-> FALSE, live |-> TRUE]

(* e is the first array element among the entries S. *)
IsFirst(e, S) == e \in S /\ \A f \in S : e.id <= f.id

RegisteredPaths == {e.path : e \in registry}
OwnedBy(c)      == {e \in registry : e.owner = c}
AtPath(p)       == {e \in registry : e.path = p}

(* find_registered_path followed by the owner comparison *)
SameOwnerAt(c, p) == \E e \in registry : IsFirst(e, AtPath(p)) /\ e.owner = c

(* The bus daemon sends NameOwnerChanged only to a subscribed connection,  *)
(* and GDBus delivers it to the subscriptions that existed when it came.   *)
NameOwnerSignal(c) ==
  IF registry = {} THEN <<>>
  ELSE <<[kind |-> "gone", from |-> c, subs |-> {e.id : e \in registry}]>>

Init ==
  /\ running = TRUE
  /\ registry = {}
  /\ nextId = 1
  /\ exported = {}
  /\ evicting = NoClient
  /\ sync = "idle"
  /\ inbox = <<>>
  /\ toServer = <<>>
  /\ fromServer = <<>>
  /\ alive = Clients
  /\ named = WellKnown
  /\ calls = 0
  /\ pending = [c \in Clients |-> 0]
  /\ server = {}
-----------------------------------------------------------------------------
(* Clients of the target bus. *)

ClientCall(c, r) ==
  /\ running
  /\ c \in alive
  /\ calls < MaxCalls
  /\ calls' = calls + 1
  /\ pending' = [pending EXCEPT ![c] = @ + 1]
  /\ inbox' = Append(inbox, [kind |-> "call", from |-> c, req |-> r])
  /\ UNCHANGED <<proxyVars, toServer, fromServer, alive, named, server>>

(* One signal stands for those of all names of c: the handler looks only at *)
(* the old owner, so the later ones find nothing left to remove.            *)
ClientDisconnect(c) ==
  /\ c \in alive
  /\ alive' = alive \ {c}
  /\ named' = named \ {c}
  /\ inbox' = inbox \o NameOwnerSignal(c)
  /\ UNCHANGED <<proxyVars, toServer, fromServer, calls, pending, server>>

(* A connected client gives up its well-known name: the same signal. *)
ClientReleaseName(c) ==
  /\ c \in alive \cap named
  /\ named' = named \ {c}
  /\ inbox' = inbox \o NameOwnerSignal(c)
  /\ UNCHANGED <<proxyVars, toServer, fromServer, alive, calls, pending, server>>
-----------------------------------------------------------------------------
(* The proxy. *)

(* The main loop takes the next target bus message; it cannot while         *)
(* on_name_owner_changed is blocked.                                        *)
Dispatch == running /\ evicting = NoClient /\ inbox # <<>>

IsRequest(op) == inbox[1].kind = "call" /\ inbox[1].req.op = op

Answer(c) == pending' = [pending EXCEPT ![c] = @ - 1]

(* handle_method_call_generic for a method without either prefix, and for a *)
(* Register* method that handle_agent_register_call returns FALSE for.      *)
ForwardCall(c, r) ==
  /\ toServer' = Append(toServer, ForwardOf(c, r))
  /\ UNCHANGED <<registry, nextId, exported, pending>>

(* Mutant: returns TRUE without answering the invocation. *)
RegisterAgain_NoReply(c, r) ==
  /\ r.mgr \in AgentManagers
  /\ SameOwnerAt(c, r.path)
  /\ UNCHANGED <<registry, nextId, exported, toServer, pending>>

(* Already registered by the same sender: refused by the proxy itself. *)
RegisterAgain(c, r) ==
  /\ r.mgr \in AgentManagers
  /\ SameOwnerAt(c, r.path)
  /\ Answer(c)
  /\ UNCHANGED <<registry, nextId, exported, toServer>>

(* Mutant: the entry's owner is never set. *)
RegisterNew_NoOwner(c, r) ==
  /\ r.mgr \in AgentManagers
  /\ ~ SameOwnerAt(c, r.path)
  /\ r.path \notin exported
  /\ exported' = exported \cup {r.path}
  /\ registry' = registry \cup {[id |-> nextId, owner |-> NoClient, path |-> r.path]}
  /\ nextId' = nextId + 1
  /\ toServer' = Append(toServer, ForwardOf(c, r))
  /\ UNCHANGED pending

(* g_dbus_connection_register_object succeeds: new entry, then forward. *)
RegisterNew(c, r) ==
  /\ r.mgr \in AgentManagers
  /\ ~ SameOwnerAt(c, r.path)
  /\ r.path \notin exported
  /\ exported' = exported \cup {r.path}
  /\ registry' = registry \cup {[id |-> nextId, owner |-> c, path |-> r.path]}
  /\ nextId' = nextId + 1
  /\ toServer' = Append(toServer, ForwardOf(c, r))
  /\ UNCHANGED pending

(* No rule, no object path, or the path is exported for another client:     *)
(* the call is forwarded although the registry does not know of it.         *)
RegisterRaw(c, r) ==
  /\ \/ r.mgr \notin AgentManagers
     \/ ~ SameOwnerAt(c, r.path) /\ r.path \in exported
  /\ ForwardCall(c, r)

HandleRegister ==
  /\ Dispatch /\ IsRequest("register")
  /\ LET c == inbox[1].from
         r == inbox[1].req
     IN  RegisterAgain(c, r) \/ RegisterNew(c, r) \/ RegisterRaw(c, r)
  /\ inbox' = Tail(inbox)
  /\ UNCHANGED <<running, evicting, sync, fromServer, alive, named, calls, server>>

(* The entries handle_agent_unregister_call can match: sender, manager and  *)
(* method are compared, the path argument is not.                           *)
UnregisterMatches(c, r) == IF r.mgr \in AgentManagers THEN OwnedBy(c) ELSE {}

(* Mutant: the exported object is not unregistered with its entry. *)
RemoveEntry_KeepsObject(e) == registry' = registry \ {e} /\ UNCHANGED exported

(* g_ptr_array_remove runs free_agent_callback_data on the entry. *)
RemoveEntry(e) ==
  /\ registry' = registry \ {e}
  /\ exported' = exported \ {e.path}

(* Mutant: the path the client named is forwarded, not that of the entry. *)
UnregisterFound_NotRewritten(c, r) ==
  /\ \E e \in registry : IsFirst(e, UnregisterMatches(c, r)) /\ RemoveEntry(e)
  /\ toServer' = Append(toServer, ForwardOf(c, r))
  /\ UNCHANGED pending

UnregisterFound(c, r) ==
  /\ \E e \in registry :
       /\ IsFirst(e, UnregisterMatches(c, r))
       /\ RemoveEntry(e)
       /\ toServer' = Append(toServer, ForwardOf(c, [r EXCEPT !.path = e.path]))
  /\ UNCHANGED pending

(* Mutant: nothing found, nothing answered. *)
UnregisterUnknown_NoReply(c, r) ==
  /\ UnregisterMatches(c, r) = {}
  /\ UNCHANGED <<registry, exported, toServer, pending>>

(* Nothing found: answered with success, never forwarded. *)
UnregisterUnknown(c, r) ==
  /\ UnregisterMatches(c, r) = {}
  /\ Answer(c)
  /\ UNCHANGED <<registry, exported, toServer>>

HandleUnregister ==
  /\ Dispatch /\ IsRequest("unregister")
  /\ LET c == inbox[1].from
         r == inbox[1].req
     IN  UnregisterFound(c, r) \/ UnregisterUnknown(c, r)
  /\ inbox' = Tail(inbox)
  /\ UNCHANGED <<running, nextId, evicting, sync, fromServer, alive, named, calls, server>>

HandleOther ==
  /\ Dispatch /\ IsRequest("other")
  /\ ForwardCall(inbox[1].from, inbox[1].req)
  /\ inbox' = Tail(inbox)
  /\ UNCHANGED <<running, evicting, sync, fromServer, alive, named, calls, server>>

(* on_name_owner_changed starts, unless every subscription the signal was   *)
(* queued for has been cancelled since.                                     *)
HandleNameOwnerChanged ==
  /\ Dispatch /\ inbox[1].kind = "gone"
  /\ inbox' = Tail(inbox)
  /\ evicting' = IF \E e \in registry : e.id \in inbox[1].subs
                 THEN inbox[1].from ELSE NoClient
  /\ UNCHANGED <<running, registry, nextId, exported, sync, toServer, fromServer,
                 clientVars, server>>

(* One round of its loop: the blocking Unregister call, to the manager of   *)
(* the rule that made the entry ...                                         *)
EvictCall ==
  /\ running /\ evicting # NoClient /\ sync = "idle"
  /\ sync' = "sent"
  /\ \E e \in registry, m \in AgentManagers :
       /\ IsFirst(e, OwnedBy(evicting))
       /\ toServer' = Append(toServer,
             [op |-> "unregister", mgr |-> m,
              path |-> IF UseObjectPathOnUnregister THEN e.path ELSE NoPath,
              from |-> evicting, sync |-> TRUE, live |-> TRUE])
  /\ UNCHANGED <<running, registry, nextId, exported, evicting, inbox, fromServer,
                 clientVars, server>>

(* Mutant: the loop ends after its first removal. *)
EvictRemove_Break ==
  /\ running /\ evicting # NoClient /\ sync = "done"
  /\ \E e \in registry : IsFirst(e, OwnedBy(evicting)) /\ RemoveEntry(e)
  /\ sync' = "idle"
  /\ evicting' = NoClient
  /\ UNCHANGED <<running, nextId, busVars, clientVars, server>>

(* ... and, whatever came of it, the removal of the entry. *)
EvictRemove ==
  /\ running /\ evicting # NoClient /\ sync = "done"
  /\ \E e \in registry : IsFirst(e, OwnedBy(evicting)) /\ RemoveEntry(e)
  /\ sync' = "idle"
  /\ UNCHANGED <<running, nextId, evicting, busVars, clientVars, server>>

EvictEnd ==
  /\ running /\ evicting # NoClient /\ sync = "idle"
  /\ OwnedBy(evicting) = {}
  /\ evicting' = NoClient
  /\ UNCHANGED <<running, registry, nextId, exported, sync, busVars, clientVars, server>>

(* The main loop takes the next source bus message. *)
DispatchSource == running /\ evicting = NoClient /\ fromServer # <<>>

(* method_call_reply_callback: value or error, the invocation is answered;  *)
(* the registry is not touched when the service refused a registration.     *)
HandleReply ==
  /\ DispatchSource /\ fromServer[1].kind = "reply"
  /\ Answer(fromServer[1].to)
  /\ fromServer' = Tail(fromServer)
  /\ UNCHANGED <<proxyVars, inbox, toServer, alive, named, calls, server>>

(* A callback of the service leaves the model here: get_agent_name looks up *)
(* its owner, it is forwarded there or answered with an error, and neither  *)
(* touches the registry.  What the owner answers goes back to the service.  *)
HandleAgentCall ==
  /\ DispatchSource /\ fromServer[1].kind = "agent"
  /\ fromServer' = Tail(fromServer)
  /\ UNCHANGED <<proxyVars, inbox, toServer, clientVars, server>>

(* The default timeout of a forwarded call: its caller gets an error while  *)
(* the call itself may still reach the service.                             *)
CallTimeout ==
  /\ running
  /\ \E i \in 1..Len(toServer) :
       /\ toServer[i].live
       /\ toServer' = [toServer EXCEPT ![i].live = FALSE]
       /\ IF toServer[i].sync
          THEN /\ sync' = "done"
               /\ UNCHANGED <<inbox, fromServer, pending>>
          ELSE /\ fromServer' = Append(fromServer,
                      [kind |-> "reply", to |-> toServer[i].from])
               /\ UNCHANGED <<inbox, sync, pending>>
  /\ UNCHANGED <<running, registry, nextId, exported, evicting, alive, named, calls, server>>

(* unregister_all_agent_registrations when the main loop has quit; the bus  *)
(* then drops the connection and the service what was registered over it.   *)
Shutdown ==
  /\ running /\ evicting = NoClient
  /\ running' = FALSE
  /\ registry' = {}
  /\ exported' = {}
  /\ inbox' = <<>> /\ toServer' = <<>> /\ fromServer' = <<>>
  /\ server' = {}
  /\ UNCHANGED <<nextId, evicting, sync, clientVars>>
-----------------------------------------------------------------------------
(* The service on the source bus (external): it may refuse a registration,  *)
(* refuses one for a path it already has, and needs the path to remove one. *)

AcceptRegister(m) ==
  /\ m.op = "register"
  /\ \A s \in server : s.mgr # m.mgr \/ s.path # m.path
  /\ server' = server \cup {[mgr |-> m.mgr, path |-> m.path, for |-> m.from]}

RefuseRegister(m) == m.op = "register" /\ UNCHANGED server

AcceptUnregister(m) ==
  /\ m.op = "unregister"
  /\ server' = {s \in server : s.mgr # m.mgr \/ s.path # m.path}

ServerHandle ==
  /\ toServer # <<>>
  /\ LET m == toServer[1]
     IN  /\ \/ AcceptRegister(m)
            \/ RefuseRegister(m)
            \/ AcceptUnregister(m)
            \/ m.op = "other" /\ UNCHANGED server
         /\ fromServer' = IF m.live /\ ~ m.sync
                          THEN Append(fromServer, [kind |-> "reply", to |-> m.from])
                          ELSE fromServer
         /\ sync' = IF m.live /\ m.sync THEN "done" ELSE sync
  /\ toServer' = Tail(toServer)
  /\ UNCHANGED <<running, registry, nextId, exported, evicting, inbox, clientVars>>

(* The service calls a registered agent. *)
ServerCallsAgent ==
  /\ Cardinality({i \in 1..Len(fromServer) : fromServer[i].kind = "agent"}) < MaxCallbacks
  /\ \E s \in server :
       /\ s.mgr \in AgentManagers
       /\ fromServer' = Append(fromServer,
             [kind |-> "agent", path |-> s.path, for |-> s.for])
  /\ UNCHANGED <<proxyVars, inbox, toServer, clientVars, server>>
-----------------------------------------------------------------------------
Client == \E c \in Clients :
            \/ \E r \in Requests : ClientCall(c, r)
            \/ ClientDisconnect(c)
            \/ ClientReleaseName(c)

TargetSide == \/ HandleRegister \/ HandleUnregister \/ HandleOther
              \/ HandleNameOwnerChanged \/ EvictCall \/ EvictRemove \/ EvictEnd

SourceSide == HandleReply \/ HandleAgentCall

Server == ServerHandle \/ ServerCallsAgent

Next == Client \/ TargetSide \/ SourceSide \/ CallTimeout \/ Shutdown \/ Server

Spec == Init /\ [][Next]_vars

(* A GMainContext dispatches every ready source of equal priority in each   *)
(* iteration, so neither bus connection starves the other, and the timeouts *)
(* of GDBus fire.  Nothing is assumed of the clients or of the service.     *)
FairSpec == /\ Spec
            /\ WF_vars(TargetSide) /\ WF_vars(SourceSide) /\ WF_vars(CallTimeout)
-----------------------------------------------------------------------------
(* Type invariant. *)
TypeOK ==
  /\ running \in BOOLEAN
  /\ registry \subseteq Entry
  /\ nextId \in Nat
  /\ exported \subseteq Paths
  /\ evicting \in Clients \cup {NoClient}
  /\ sync \in {"idle", "sent", "done"}
  /\ inbox \in Seq(CallMsg \cup GoneMsg)
  /\ toServer \in Seq(Forward)
  /\ fromServer \in Seq(ReplyMsg \cup AgentMsg)
  /\ alive \subseteq Clients
  /\ named \subseteq alive
  /\ calls \in 0..MaxCalls
  /\ pending \in [Clients -> Int]
  /\ server \subseteq Registration

(* The registry and the objects the proxy exports on the source bus never   *)
(* drift apart, whatever mix of registrations, removals and evictions ran:  *)
(* each exported path has exactly one entry, which find_registered_path     *)
(* returns, so a callback has one recipient and a removal frees the path.   *)
RegistryMatchesExports ==
  /\ exported = {e.path : e \in registry}
  /\ \A e, f \in registry : e.path = f.path \/ e.id = f.id => e = f

IsFor(m, op, p) == m.op = op /\ m.mgr \in AgentManagers /\ m.path = p

(* Everything the service holds or will hold for path p is undone by an     *)
(* Unregister call already under way.                                       *)
Undone(p) ==
  LET UnregisterAfter(i) == \E j \in 1..Len(toServer) :
                              j > i /\ IsFor(toServer[j], "unregister", p)
  IN  /\ (\E s \in server : s.mgr \in AgentManagers /\ s.path = p) => UnregisterAfter(0)
      /\ \A i \in 1..Len(toServer) :
           IsFor(toServer[i], "register", p) => UnregisterAfter(i)

(* "Need to call Unregister method on the server ... to allow proper        *)
(* cleanup": once the registry has let go of a path, by Unregister or by an *)
(* eviction whose blocking call may have timed out, the service is left     *)
(* with no agent there except one a queued Unregister call will remove.     *)
NoOrphanAtServer == \A p \in Paths : p \in RegisteredPaths \/ Undone(p)

(* Parts of the inductive invariant behind the two properties above: ids    *)
(* grow with the array; while the eviction loop is inside its blocking call *)
(* the main loop is busy with that client, at most one such call is live,   *)
(* and the entry about to be removed is already being undone.               *)
EntriesNumbered == \A e \in registry : e.id < nextId

LiveSync(i) == toServer[i].sync /\ toServer[i].live

OneBlockingCall ==
  /\ sync # "idle" => evicting # NoClient
  /\ \A i \in 1..Len(toServer) : LiveSync(i) => sync = "sent"
  /\ \A i, j \in 1..Len(toServer) : LiveSync(i) /\ LiveSync(j) => i = j

EvictedIsUndone ==
  sync # "idle" => \A e \in registry : IsFirst(e, OwnedBy(evicting)) => Undone(e.path)

RegistryInv == RegistryMatchesExports /\ EntriesNumbered

CleanupInv == RegistryInv /\ OneBlockingCall /\ EvictedIsUndone /\ NoOrphanAtServer

(* The calls of c without an answer: not yet dispatched, forwarded and not   *)
(* timed out, or answered by the service.                                   *)
QueuedCalls(c)    == {m \in CallMsg : m.from = c}
ForwardedCalls(c) == {m \in Forward : m.live /\ ~ m.sync /\ m.from = c}
Replies(c)        == {m \in ReplyMsg : m.to = c}

Count(q, S) == Cardinality({i \in 1..Len(q) : q[i] \in S})

InFlight(c) ==
  Count(inbox, QueuedCalls(c)) + Count(toServer, ForwardedCalls(c)) + Count(fromServer, Replies(c))

(* Every method call is answered once and only once: each unanswered call   *)
(* of a client is exactly one message still to be handled, on every early   *)
(* return of the Register and Unregister handlers and across timeouts.      *)
AnsweredExactlyOnce == running => \A c \in Clients : pending[c] = InFlight(c)

(* Every call gets its answer although the service may never reply and      *)
(* on_name_owner_changed blocks the main loop.                              *)
CallsAnswered == \A c \in Clients : pending[c] > 0 ~> pending[c] = 0 \/ ~ running

NoCallLeft(c) == \A i \in 1..Len(inbox) : inbox[i].kind # "call" \/ inbox[i].from # c

(* Once on_name_owner_changed runs for a client that has disconnected, all  *)
(* of its entries go, however many rounds of blocking calls that takes, and *)
(* none ever comes back.                                                    *)
DisconnectedEvicted ==
  \A c \in Clients :
    evicting = c /\ c \notin alive /\ NoCallLeft(c) ~> [](OwnedBy(c) = {})
-----------------------------------------------------------------------------
(* A comment of callback-handling.cpp the code departs from.                *)

(* "to allow proper unregistration of the correct callback": of a sender    *)
(* with several agents, an Unregister call for one of them removes that one *)
(* and no other.                                                            *)
UnregisterRemovesNamed ==
  [][HandleUnregister =>
       \A e \in OwnedBy(inbox[1].from) :
         e.path = inbox[1].req.path => registry \ registry' = {e}]_vars
=============================================================================
