---------------------------- MODULE ObjectMirror ----------------------------
(***************************************************************************)
(* The mirror of a service's object tree that dbus-proxy keeps on the      *)
(* target bus: discovery at start-up, InterfacesAdded, InterfacesRemoved   *)
(* and the signals passed on, the loss of the service, the clean-up.       *)
(*                                                                         *)
(* One main loop.  A handler makes blocking calls to the service, one task *)
(* of todo for each, and the service changes between two of them; the      *)
(* signals it sends meanwhile wait in queue.  Interfaces every object has  *)
(* (standard_interfaces) are left out, so an object without interfaces is  *)
(* one the proxy skips.                                                    *)
(***************************************************************************)
EXTENDS Integers, Sequences

CONSTANTS
  Paths,           \* object paths
  Root,            \* "/"
  Subtree,         \* Subtree[p]: p and every path below it
  Prefixed,        \* paths that start with source_object_path
  Ifaces,          \* interfaces other than the standard ones
  OM,              \* org.freedesktop.DBus.ObjectManager
  NoIface,         \* the interface of a task that is not about one
  NoSignal,        \* no signal is being handled
  InitialServices, \* what the service may export when the proxy starts
  MaxChanges,      \* bound: steps of the service
  MaxFailures      \* bound: failed calls

Children(p) == {c \in Subtree[p] \ {p} : \A d \in Subtree[p] \ {p} : c \in Subtree[d] => d = c}

Service == [Paths -> SUBSET Ifaces]
Signal  == [k : {"added", "removed", "signal", "vanished"}, p : Paths, is : SUBSET Ifaces]
Task    == [t : {"root", "tree", "managed", "node", "iface"}, p : Paths, i : Ifaces \cup {NoIface}]

ASSUME ConstantsAssumption ==
  /\ Root \in Paths /\ Prefixed \subseteq Paths
  /\ NoIface \notin Ifaces /\ NoSignal \notin Signal
  /\ InitialServices \subseteq Service
  /\ MaxChanges \in Nat /\ MaxFailures \in Nat

ASSUME TreeAssumption ==
  /\ Subtree \in [Paths -> SUBSET Paths] /\ Subtree[Root] = Paths
  /\ \A p \in Paths : p \in Subtree[p]
  /\ \A p \in Paths : \A q \in Subtree[p] \ {p} : \E c \in Children(p) : q \in Subtree[c]

VARIABLES
  phase,              \* "fetching", "starting", "setup", "running", "exit"
  queue,              \* signals received and not yet dispatched
  cur,                \* the InterfacesAdded being handled
  todo,               \* calls the handler has still to make
  setupOk,            \* what discover_and_proxy_object_tree will return
  named,              \* the proxy owns its name on the target bus
  proxied_objects,    \* keys of the table
  registration_ids,   \* of a proxied object: its registered interfaces
  registered_objects, \* all registrations, as <<path, interface>>
  node_info_cache,    \* keys of the table
  exported,           \* what GDBus serves on the target bus
  service,            \* what the service exports
  up,                 \* the service owns its name
  watching,           \* g_bus_watch_name has become effective
  stale,              \* has the service been away, and will the proxy know
  missed,             \* paths the proxy could not read because a call failed
  changes,            \* steps of the service so far, for MaxChanges
  failures            \* failed calls so far, for MaxFailures

tables      == <<proxied_objects, registration_ids, registered_objects, node_info_cache, exported>>
loopVars    == <<phase, queue, cur, todo, setupOk, named>>
serviceVars == <<service, up, watching, stale, changes>>
ghosts      == <<missed, failures>>
vars        == <<loopVars, tables, serviceVars, ghosts>>

Init ==
  /\ phase = "fetching" /\ queue = <<>> /\ cur = NoSignal /\ todo = {}
  /\ setupOk = TRUE /\ named = FALSE
  /\ proxied_objects = {} /\ registration_ids = [p \in Paths |-> {}]
  /\ registered_objects = {} /\ node_info_cache = {} /\ exported = {}
  /\ service \in InitialServices /\ up = TRUE /\ watching = FALSE /\ stale = "no"
  /\ missed = {} /\ changes = 0 /\ failures = 0
-----------------------------------------------------------------------------
(* The service and the bus daemon.  Signals reach a proxy that subscribed. *)

(* Mutant: the subscriptions are made after the discovery. *)
Subscribed_AfterDiscovery == phase = "running"

Subscribed == phase \in {"setup", "running"}
Send(s)    == queue' = IF Subscribed THEN Append(queue, s) ELSE queue

Change == up /\ phase # "exit" /\ changes < MaxChanges /\ changes' = changes + 1

ServiceAdds(p, is) ==
  /\ Change /\ p # Root
  /\ is # {} /\ is \cap service[p] = {} /\ OM \notin is
  /\ service' = [service EXCEPT ![p] = @ \cup is]
  /\ Send([k |-> "added", p |-> p, is |-> is])
  /\ UNCHANGED <<phase, cur, todo, setupOk, named, tables, up, watching, stale, ghosts>>

ServiceRemoves(p, is) ==
  /\ Change /\ p # Root
  /\ is # {} /\ is \subseteq service[p] /\ OM \notin is
  /\ service' = [service EXCEPT ![p] = @ \ is]
  /\ Send([k |-> "removed", p |-> p, is |-> is])
  /\ UNCHANGED <<phase, cur, todo, setupOk, named, tables, up, watching, stale, ghosts>>

(* Any other signal of an object, a property change for one. *)
ServiceEmits(p) ==
  /\ Change /\ service[p] # {}
  /\ Send([k |-> "signal", p |-> p, is |-> {}])
  /\ UNCHANGED <<phase, cur, todo, setupOk, named, tables, service, up, watching, stale, ghosts>>

Vanished == [k |-> "vanished", p |-> Root, is |-> {}]

(* The service exits; the watch, if it is effective, reports it. *)
ServiceLeaves ==
  /\ Change
  /\ up' = FALSE /\ service' = [p \in Paths |-> {}]
  /\ stale' = IF watching THEN "noticed" ELSE "blind"
  /\ queue' = IF watching THEN Append(queue, Vanished) ELSE queue
  /\ UNCHANGED <<phase, cur, todo, setupOk, named, tables, watching, ghosts>>

(* It is started again and exports its objects before it takes its name. *)
ServiceReturns ==
  /\ ~ up /\ phase # "exit"
  /\ up' = TRUE /\ service' \in InitialServices
  /\ UNCHANGED <<loopVars, tables, watching, stale, changes, ghosts>>

(* g_bus_watch_name asks for the owner when the main loop first gets to it: *)
(* before or after on_bus_acquired_for_owner, never during a handler.       *)
WatchStarts ==
  /\ phase \in {"starting", "running"} /\ cur = NoSignal /\ ~ watching
  /\ watching' = TRUE
  /\ IF up THEN UNCHANGED <<queue, stale>>
           ELSE queue' = Append(queue, Vanished) /\ stale' = "noticed"
  /\ UNCHANGED <<phase, cur, todo, setupOk, named, tables, service, up, changes, ghosts>>
-----------------------------------------------------------------------------
(* The life of the process. *)

(* fetch_introspection_data, then g_bus_own_name. *)
FetchIntrospection ==
  /\ phase = "fetching" /\ up
  /\ phase' = "starting"
  /\ UNCHANGED <<queue, cur, todo, setupOk, named, tables, serviceVars, ghosts>>

(* cleanup_proxy_state: whatever is in registered_objects is unregistered. *)
CleanupProxyState ==
  /\ phase' = "exit"
  /\ exported' = exported \ registered_objects
  /\ proxied_objects' = {} /\ registration_ids' = [p \in Paths |-> {}]
  /\ registered_objects' = {} /\ node_info_cache' = {}
  /\ queue' = <<>> /\ named' = FALSE

FetchFails ==
  /\ phase = "fetching"
  /\ IF up THEN failures < MaxFailures /\ failures' = failures + 1 ELSE UNCHANGED failures
  /\ CleanupProxyState
  /\ UNCHANGED <<cur, todo, setupOk, serviceVars, missed>>

(* on_bus_acquired_for_owner: setup_signal_forwarding first, then the tree. *)
(* Nothing has been read before, so what happened before does not count.    *)
BusAcquired ==
  /\ phase = "starting"
  /\ phase' = "setup"
  /\ todo' = {[t |-> "root", p |-> Root, i |-> NoIface]}
  /\ stale' = IF stale = "blind" /\ up THEN "no" ELSE stale
  /\ UNCHANGED <<queue, cur, setupOk, named, tables, service, up, watching, changes, ghosts>>

(* GDBus asks for the name once the handler returns, unless it gave it up. *)
SetupDone ==
  /\ phase = "setup" /\ todo = {}
  /\ phase' = "running" /\ named' = setupOk
  /\ UNCHANGED <<queue, cur, todo, setupOk, tables, serviceVars, ghosts>>

Idle == phase = "running" /\ cur = NoSignal

(* signal_handler: SIGTERM or SIGINT ends the main loop. *)
Terminate ==
  /\ phase = "starting" \/ Idle
  /\ CleanupProxyState
  /\ UNCHANGED <<cur, todo, setupOk, serviceVars, ghosts>>
-----------------------------------------------------------------------------
(* Discovery.  What Introspect at p tells: the interfaces of p and the      *)
(* nodes below p that lead to an object.                                    *)

Exists(p)          == up /\ (p = Root \/ \E q \in Subtree[p] : service[q] # {})
VisibleChildren(p) == {c \in Children(p) : \E q \in Subtree[c] : service[q] # {}}

TreeTasks(ps) == {[t |-> "tree", p |-> q, i |-> NoIface] : q \in ps}

(* proxy_single_object.  GDBus refuses an interface it already serves at p. *)
ProxySingleObject(p, is) ==
  LET ok == IF p \in proxied_objects THEN {} ELSE {i \in is : <<p, i>> \notin exported}
  IN  /\ exported' = exported \cup ({p} \X ok)
      /\ registered_objects' = registered_objects \cup ({p} \X ok)
      /\ registration_ids' = [registration_ids EXCEPT ![p] = @ \cup ok]
      /\ proxied_objects' = proxied_objects \cup (IF ok = {} THEN {} ELSE {p})
      /\ UNCHANGED node_info_cache

(* Mutant: the nodes below are not visited. *)
DiscoverTree_NoChildren(k) ==
  /\ k \in todo /\ k.t \in {"root", "tree"} /\ Exists(k.p)
  /\ ProxySingleObject(k.p, service[k.p])
  /\ todo' = (todo \ {k}) \cup
       IF k.t = "root" /\ OM \in service[k.p]
       THEN {[t |-> "managed", p |-> Root, i |-> NoIface]} ELSE {}
  /\ UNCHANGED <<phase, queue, cur, setupOk, named, serviceVars, ghosts>>

(* discover_and_proxy_object_tree at one path; at the root an ObjectManager *)
(* is preferred to the recursion.                                           *)
DiscoverTree(k) ==
  /\ k \in todo /\ k.t \in {"root", "tree"} /\ Exists(k.p)
  /\ ProxySingleObject(k.p, service[k.p])
  /\ todo' = (todo \ {k}) \cup
       IF k.t = "root" /\ OM \in service[k.p]
       THEN {[t |-> "managed", p |-> Root, i |-> NoIface]}
       ELSE TreeTasks(VisibleChildren(k.p))
  /\ UNCHANGED <<phase, queue, cur, setupOk, named, serviceVars, ghosts>>

(* proxy_object_manager_objects: GetManagedObjects, then every object. *)
GetManagedObjects(k) ==
  /\ k \in todo /\ k.t = "managed" /\ up
  /\ todo' = (todo \ {k}) \cup
       {[t |-> "node", p |-> q, i |-> NoIface] : q \in {r \in Paths : service[r] # {}}}
  /\ UNCHANGED <<phase, queue, cur, setupOk, named, tables, serviceVars, ghosts>>

ProxyManagedObject(k) ==
  /\ k \in todo /\ k.t = "node" /\ Exists(k.p)
  /\ ProxySingleObject(k.p, service[k.p])
  /\ todo' = todo \ {k}
  /\ UNCHANGED <<phase, queue, cur, setupOk, named, serviceVars, ghosts>>

(* Mutant: the result of g_dbus_node_info_lookup_interface is not checked. *)
RegisterSingleInterface_Null(k) ==
  LET e == <<k.p, IF k.i \in service[k.p] THEN k.i ELSE NoIface>>
  IN  /\ k \in todo /\ k.t = "iface" /\ e \notin exported
      /\ exported' = exported \cup {e}
      /\ registered_objects' = registered_objects \cup {e}
      /\ registration_ids' = [registration_ids EXCEPT ![k.p] = @ \cup {e[2]}]
      /\ node_info_cache' = node_info_cache \cup {e}
      /\ todo' = todo \ {k}
      /\ UNCHANGED <<phase, queue, cur, setupOk, named, proxied_objects, serviceVars, ghosts>>

(* register_single_interface *)
RegisterSingleInterface(k) ==
  /\ k \in todo /\ k.t = "iface" /\ k.i \in service[k.p] /\ <<k.p, k.i>> \notin exported
  /\ exported' = exported \cup {<<k.p, k.i>>}
  /\ registered_objects' = registered_objects \cup {<<k.p, k.i>>}
  /\ registration_ids' = [registration_ids EXCEPT ![k.p] = @ \cup {k.i}]
  /\ node_info_cache' = node_info_cache \cup {<<k.p, k.i>>}
  /\ todo' = todo \ {k}
  /\ UNCHANGED <<phase, queue, cur, setupOk, named, proxied_objects, serviceVars, ghosts>>

(* Mutant: an object that is gone is asked for again and again. *)
NothingThere_Retries(k) ==
  /\ k \in todo
  /\ \/ k.t \in {"root", "tree", "node"} /\ ~ Exists(k.p)
     \/ k.t = "managed" /\ ~ up
     \/ k.t = "iface" /\ (k.i \notin service[k.p] \/ <<k.p, k.i>> \in exported)
  /\ UNCHANGED vars

(* The object or the interface of the task is not there any more. *)
NothingThere(k) ==
  /\ k \in todo
  /\ \/ k.t \in {"root", "tree", "node"} /\ ~ Exists(k.p)
     \/ k.t = "managed" /\ ~ up
     \/ k.t = "iface" /\ (k.i \notin service[k.p] \/ <<k.p, k.i>> \in exported)
  /\ todo' = todo \ {k}
  /\ setupOk' = (setupOk /\ k.t # "managed")
  /\ UNCHANGED <<phase, queue, cur, named, tables, serviceVars, ghosts>>

(* The call times out or its XML does not parse; the latter makes the root *)
(* fail where the former is taken for an empty tree.  Nothing is retried.  *)
CallFails(k) ==
  /\ k \in todo /\ failures < MaxFailures
  /\ failures' = failures + 1
  /\ todo' = todo \ {k}
  /\ setupOk' \in {setupOk /\ k.t # "managed", setupOk /\ k.t \notin {"managed", "root"}}
  /\ missed' = missed \cup (IF k.t \in {"root", "tree", "managed"} THEN Subtree[k.p] ELSE {k.p})
  /\ UNCHANGED <<phase, queue, cur, named, tables, serviceVars>>
-----------------------------------------------------------------------------
(* Signals of the service. *)

Dispatch(kind) == Idle /\ queue # <<>> /\ Head(queue).k = kind

(* on_signal_received_catchall, for signals other than InterfacesAdded (it  *)
(* leaves that to its handler) and InterfacesRemoved.                       *)
ForwardSignal ==
  /\ Dispatch("signal")
  /\ Head(queue).p \in proxied_objects \cup Prefixed
  /\ queue' = Tail(queue)
  /\ UNCHANGED <<phase, cur, todo, setupOk, named, tables, serviceVars, ghosts>>

IgnoreSignal ==
  /\ Dispatch("signal")
  /\ Head(queue).p \notin proxied_objects \cup Prefixed
  /\ queue' = Tail(queue)
  /\ UNCHANGED <<phase, cur, todo, setupOk, named, tables, serviceVars, ghosts>>

(* on_interfaces_added, update_object_with_new_interfaces *)
OnInterfacesAdded ==
  /\ Dispatch("added")
  /\ queue' = Tail(queue)
  /\ cur' = Head(queue)
  /\ LET p == Head(queue).p
     IN  todo' = IF p \notin proxied_objects
                 THEN TreeTasks({p})
                 ELSE {[t |-> "iface", p |-> p, i |-> j] : j \in Head(queue).is \ registration_ids[p]}
  /\ UNCHANGED <<phase, setupOk, named, tables, serviceVars, ghosts>>

(* Mutant: the signal is passed on before the interfaces are registered. *)
ForwardInterfacesAdded_First ==
  /\ cur # NoSignal
  /\ cur' = NoSignal
  /\ UNCHANGED <<phase, queue, todo, setupOk, named, tables, serviceVars, ghosts>>

(* ... and the end of it: the signal is passed on to the target bus. *)
ForwardInterfacesAdded ==
  /\ cur # NoSignal /\ todo = {}
  /\ cur' = NoSignal
  /\ UNCHANGED <<phase, queue, todo, setupOk, named, tables, serviceVars, ghosts>>

(* Mutant: an object without interfaces stays in proxied_objects. *)
OnInterfacesRemoved_KeepsObject ==
  /\ Dispatch("removed")
  /\ queue' = Tail(queue)
  /\ LET p    == Head(queue).p
         gone == IF p \in proxied_objects THEN Head(queue).is \cap registration_ids[p] ELSE {}
     IN  /\ exported' = exported \ ({p} \X gone)
         /\ registered_objects' = registered_objects \ ({p} \X gone)
         /\ node_info_cache' = node_info_cache \ ({p} \X gone)
         /\ registration_ids' = [registration_ids EXCEPT ![p] = @ \ gone]
  /\ UNCHANGED <<phase, cur, todo, setupOk, named, proxied_objects, serviceVars, ghosts>>

(* on_interfaces_removed.  Just before, the catch-all has passed the signal *)
(* on if the object that sent it is proxied; that changes none of the state *)
(* and is not modelled.                                                     *)
OnInterfacesRemoved ==
  /\ Dispatch("removed")
  /\ queue' = Tail(queue)
  /\ LET p    == Head(queue).p
         gone == IF p \in proxied_objects THEN Head(queue).is \cap registration_ids[p] ELSE {}
     IN  /\ exported' = exported \ ({p} \X gone)
         /\ registered_objects' = registered_objects \ ({p} \X gone)
         /\ node_info_cache' = node_info_cache \ ({p} \X gone)
         /\ registration_ids' = [registration_ids EXCEPT ![p] = @ \ gone]
         /\ proxied_objects' = IF registration_ids[p] \subseteq gone
                               THEN proxied_objects \ {p} ELSE proxied_objects
  /\ UNCHANGED <<phase, cur, todo, setupOk, named, serviceVars, ghosts>>

(* Mutant: the main loop is not left. *)
OnServiceVanished_Stays ==
  /\ phase \in {"starting", "running"} /\ cur = NoSignal
  /\ queue # <<>> /\ Head(queue).k = "vanished"
  /\ queue' = Tail(queue)
  /\ UNCHANGED <<phase, cur, todo, setupOk, named, tables, serviceVars, ghosts>>

OnServiceVanished ==
  /\ phase \in {"starting", "running"} /\ cur = NoSignal
  /\ queue # <<>> /\ Head(queue).k = "vanished"
  /\ CleanupProxyState
  /\ UNCHANGED <<cur, todo, setupOk, serviceVars, ghosts>>
-----------------------------------------------------------------------------
ServiceStep ==
  \/ \E p \in Paths : \/ \E is \in SUBSET Ifaces : ServiceAdds(p, is) \/ ServiceRemoves(p, is)
                      \/ ServiceEmits(p)
  \/ ServiceLeaves \/ ServiceReturns

Call(k) == \/ DiscoverTree(k) \/ GetManagedObjects(k) \/ ProxyManagedObject(k)
           \/ RegisterSingleInterface(k) \/ NothingThere(k) \/ CallFails(k)

ProxyStep ==
  \/ FetchIntrospection \/ FetchFails \/ BusAcquired \/ SetupDone
  \/ \E k \in todo : Call(k)
  \/ ForwardSignal \/ IgnoreSignal \/ OnInterfacesAdded \/ ForwardInterfacesAdded
  \/ OnInterfacesRemoved \/ OnServiceVanished

Next == ServiceStep \/ WatchStarts \/ ProxyStep \/ Terminate

Spec == Init /\ [][Next]_vars

(* The main loop runs, calls to the service return or time out, and GDBus   *)
(* completes g_bus_watch_name.                                              *)
FairSpec == Spec /\ WF_vars(ProxyStep) /\ WF_vars(WatchStarts)
-----------------------------------------------------------------------------
(* Type invariant. *)
TypeOK ==
  /\ phase \in {"fetching", "starting", "setup", "running", "exit"}
  /\ queue \in Seq(Signal) /\ cur \in Signal \cup {NoSignal} /\ todo \subseteq Task
  /\ setupOk \in BOOLEAN /\ named \in BOOLEAN
  /\ proxied_objects \subseteq Paths /\ registration_ids \in Service
  /\ registered_objects \subseteq Paths \X Ifaces
  /\ node_info_cache \subseteq Paths \X Ifaces
  /\ exported \subseteq Paths \X Ifaces
  /\ service \in Service /\ up \in BOOLEAN /\ watching \in BOOLEAN
  /\ stale \in {"no", "noticed", "blind"}
  /\ missed \subseteq Paths /\ changes \in Nat /\ failures \in Nat

(* proxied_objects, registration_ids and registered_objects are three views *)
(* of what GDBus serves; an entry that is in one and not in another is an   *)
(* interface that is never withdrawn or never offered again.                *)
TablesAgree ==
  /\ registered_objects = exported
  /\ \A p \in Paths : registration_ids[p] = {i \in Ifaces : <<p, i>> \in exported}
  /\ proxied_objects = {p \in Paths : registration_ids[p] # {}}
  /\ node_info_cache \subseteq exported

Mentions(s, kind, p, i) == s.k = kind /\ s.p = p /\ i \in s.is
Queued(kind, p, i)      == \E n \in 1..Len(queue) : Mentions(queue[n], kind, p, i)

Settled == phase = "running" /\ cur = NoSignal /\ queue = <<>>

(* Once the proxy has nothing left to do the mirror is the service: nothing *)
(* is offered that is gone, and nothing is missing but what a failed call   *)
(* hid, in whatever order discovery, additions and removals met.            *)
MirrorConverges ==
  Settled /\ stale = "no" =>
    \A p \in Paths : /\ registration_ids[p] \subseteq service[p]
                     /\ p \notin missed => service[p] \subseteq registration_ids[p]

(* Parts of the inductive invariant behind MirrorConverges.  Nothing is     *)
(* mirrored before discovery starts; a handler's tasks end with it; tasks   *)
(* for one interface belong to an object that is proxied already.           *)
StartsEmpty ==
  phase \in {"fetching", "starting"} =>
    /\ exported = {} /\ todo = {} /\ cur = NoSignal /\ missed = {}
    /\ \A n \in 1..Len(queue) : queue[n].k = "vanished"

TasksInPlace ==
  /\ phase = "running" /\ cur = NoSignal => todo = {}
  /\ phase = "setup" => cur = NoSignal
  /\ \A k \in todo : k.t = "iface" => phase = "running" /\ k.p \in proxied_objects

OnceGoneStale == stale = "no" => up

(* The last word the queue has on an interface is true. *)
LastWord ==
  stale = "no" /\ phase # "exit" => \A n \in 1..Len(queue), p \in Paths, i \in Ifaces :
    /\ Mentions(queue[n], "added", p, i) /\ i \notin service[p] =>
         \E m \in 1..Len(queue) : m > n /\ Mentions(queue[m], "removed", p, i)
    /\ Mentions(queue[n], "removed", p, i) /\ i \in service[p] =>
         \E m \in 1..Len(queue) : m > n /\ Mentions(queue[m], "added", p, i)

(* A task that will read p. *)
Covers(k, p) == \/ k.t \in {"root", "tree", "managed"} /\ p \in Subtree[k.p]
                \/ k.t = "node" /\ k.p = p

Live == stale = "no" /\ phase \in {"setup", "running"}

GhostIsQueued ==
  Live => \A p \in Paths : \A i \in registration_ids[p] \ service[p] : Queued("removed", p, i)

MissingIsPending ==
  Live => \A p \in Paths \ missed : \A i \in service[p] \ registration_ids[p] :
    \/ Queued("added", p, i)
    \/ \E k \in todo : k.t = "iface" /\ k.p = p /\ k.i = i
    \/ p \notin proxied_objects /\ \E k \in todo : Covers(k, p)

(* InterfacesAdded is passed on only when its interfaces can be called: one *)
(* that cannot is being removed again, or its introspection failed.         *)
AnnouncedIsExported ==
  [][cur # NoSignal /\ cur' = NoSignal /\ stale = "no" =>
       \A i \in cur.is : \/ <<cur.p, i>> \in exported
                         \/ Queued("removed", cur.p, i) \/ cur.p \in missed]_vars

(* "Forwards signals": the catch-all drops the signal of an object only if   *)
(* that object's removal is already queued or it could not be read.          *)
DroppedIsGone ==
  [][Dispatch("signal") /\ Head(queue).p \notin proxied_objects \cup Prefixed
     /\ queue' = Tail(queue) /\ phase' # "exit" /\ stale = "no" =>
       \/ Head(queue).p \in missed
       \/ \E i \in Ifaces : Queued("removed", Head(queue).p, i)]_vars

(* Start-up ends, with the name or without it, and when the watch tells that *)
(* the service went away the process exits, however busy it is.              *)
StartupEnds  == <>(phase \in {"running", "exit"})
VanishedExits == (stale = "noticed") ~> (phase = "exit")
=============================================================================
