------------------------ MODULE ObjectMirror_proofs ------------------------
(***************************************************************************)
(* Proofs about ObjectMirror: the types, the agreement of the tables and   *)
(* the convergence of the mirror, for every tree of paths, every set of    *)
(* interfaces and every bound.                                             *)
(***************************************************************************)
EXTENDS ObjectMirror, TLAPS

LEMMA SeqFacts ==
  ASSUME NEW S
  PROVE  /\ <<>> \in Seq(S)
         /\ \A q \in Seq(S) : \A e \in S : Append(q, e) \in Seq(S)
         /\ \A q \in Seq(S) : q # <<>> => Head(q) \in S /\ Tail(q) \in Seq(S)
  OBVIOUS

LEMMA SignalTypes ==
  /\ Vanished \in Signal
  /\ \A p \in Paths : \A is \in SUBSET Ifaces : \A kind \in {"added", "removed", "signal", "vanished"} :
       [k |-> kind, p |-> p, is |-> is] \in Signal
  BY ConstantsAssumption DEF Vanished, Signal

LEMMA TaskTypes ==
  /\ \A ps \in SUBSET Paths : TreeTasks(ps) \subseteq Task
  /\ \A p \in Paths : \A kind \in {"root", "tree", "managed", "node", "iface"} :
       \A i \in Ifaces \cup {NoIface} : [t |-> kind, p |-> p, i |-> i] \in Task
  BY DEF TreeTasks, Task

LEMMA TaskFields ==
  ASSUME TypeOK, NEW k \in todo
  PROVE  /\ k.p \in Paths /\ k.i \in Ifaces \cup {NoIface} /\ k.t \in {"root", "tree", "managed", "node", "iface"}
         /\ service[k.p] \subseteq Ifaces /\ Subtree[k.p] \subseteq Paths
         /\ VisibleChildren(k.p) \subseteq Paths
  BY TreeAssumption DEF TypeOK, Task, Service, VisibleChildren, Children

LEMMA CleanupType ==
  ASSUME TypeOK, CleanupProxyState
  PROVE  /\ phase' = "exit" /\ queue' \in Seq(Signal) /\ named' \in BOOLEAN
         /\ proxied_objects' \subseteq Paths /\ registration_ids' \in Service
         /\ registered_objects' \subseteq Paths \X Ifaces
         /\ node_info_cache' \subseteq Paths \X Ifaces
         /\ exported' \subseteq Paths \X Ifaces
  BY SeqFacts DEF CleanupProxyState, TypeOK, Service

LEMMA ProxyType ==
  ASSUME TypeOK, NEW p \in Paths, NEW is \in SUBSET Ifaces, ProxySingleObject(p, is)
  PROVE  /\ proxied_objects' \subseteq Paths /\ registration_ids' \in Service
         /\ registered_objects' \subseteq Paths \X Ifaces
         /\ node_info_cache' \subseteq Paths \X Ifaces
         /\ exported' \subseteq Paths \X Ifaces
  BY DEF ProxySingleObject, TypeOK, Service

LEMMA SendType ==
  ASSUME TypeOK, NEW s \in Signal, Send(s)
  PROVE  queue' \in Seq(Signal)
  BY SeqFacts DEF Send, TypeOK

(* Type correctness of the tables, the queue and the tasks. *)
THEOREM TypeCorrect == Spec => []TypeOK
<1>1. Init => TypeOK
  <2>1. [p \in Paths |-> {}] \in Service
    BY DEF Service
  <2>2. <<>> \in Seq(Signal)
    OBVIOUS
  <2>3. Init => service \in Service
    BY ConstantsAssumption DEF Init
  <2>4. Init => setupOk \in BOOLEAN /\ named \in BOOLEAN /\ up \in BOOLEAN /\ watching \in BOOLEAN
    BY Zenon DEF Init
  <2> SUFFICES ASSUME Init PROVE TypeOK
    OBVIOUS
  <2>5. /\ phase = "fetching" /\ queue = <<>> /\ cur = NoSignal /\ todo = {}
        /\ proxied_objects = {} /\ registered_objects = {} /\ node_info_cache = {} /\ exported = {}
        /\ registration_ids = [p \in Paths |-> {}] /\ stale = "no" /\ missed = {}
        /\ changes = 0 /\ failures = 0
    BY Zenon DEF Init
  <2> QED
    BY <2>1, <2>2, <2>3, <2>4, <2>5 DEF TypeOK
<1>2. TypeOK /\ [Next]_vars => TypeOK'
  <2> SUFFICES ASSUME TypeOK, [Next]_vars PROVE TypeOK'
    OBVIOUS
  <2> USE DEF tables, loopVars, serviceVars, ghosts
  <2>1. ASSUME NEW p \in Paths, NEW is \in SUBSET Ifaces, ServiceAdds(p, is) PROVE TypeOK'
    <3>1. queue' \in Seq(Signal)
      BY <2>1, SendType, SignalTypes DEF ServiceAdds
    <3>2. service' \in Service /\ changes' \in Nat
      BY <2>1 DEF ServiceAdds, Change, TypeOK, Service
    <3> QED
      BY <2>1, <3>1, <3>2 DEF ServiceAdds, TypeOK
  <2>2. ASSUME NEW p \in Paths, NEW is \in SUBSET Ifaces, ServiceRemoves(p, is) PROVE TypeOK'
    <3>1. queue' \in Seq(Signal)
      BY <2>2, SendType, SignalTypes DEF ServiceRemoves
    <3>2. service' \in Service /\ changes' \in Nat
      BY <2>2 DEF ServiceRemoves, Change, TypeOK, Service
    <3> QED
      BY <2>2, <3>1, <3>2 DEF ServiceRemoves, TypeOK
  <2>3. ASSUME NEW p \in Paths, ServiceEmits(p) PROVE TypeOK'
    <3>1. queue' \in Seq(Signal)
      BY <2>3, SendType, SignalTypes DEF ServiceEmits
    <3> QED
      BY <2>3, <3>1 DEF ServiceEmits, Change, TypeOK
  <2>4. ASSUME ServiceLeaves PROVE TypeOK'
    <3>1. queue' \in Seq(Signal)
      BY <2>4, SeqFacts, SignalTypes DEF ServiceLeaves, TypeOK
    <3>2. service' \in Service /\ changes' \in Nat /\ stale' \in {"no", "noticed", "blind"}
      BY <2>4 DEF ServiceLeaves, Change, TypeOK, Service
    <3> QED
      BY <2>4, <3>1, <3>2 DEF ServiceLeaves, TypeOK
  <2>5. ASSUME ServiceReturns PROVE TypeOK'
    BY <2>5, ConstantsAssumption DEF ServiceReturns, TypeOK
  <2>6. ASSUME WatchStarts PROVE TypeOK'
    BY <2>6, SeqFacts, SignalTypes DEF WatchStarts, TypeOK
  <2>7. ASSUME FetchIntrospection PROVE TypeOK'
    BY <2>7 DEF FetchIntrospection, TypeOK
  <2>8. ASSUME FetchFails \/ Terminate \/ OnServiceVanished PROVE TypeOK'
    <3>1. CleanupProxyState /\ UNCHANGED <<cur, todo, setupOk, serviceVars, missed>> /\ failures' \in Nat
      BY <2>8 DEF FetchFails, Terminate, OnServiceVanished, TypeOK
    <3> QED
      BY <3>1, CleanupType DEF TypeOK
  <2>9. ASSUME BusAcquired PROVE TypeOK'
    BY <2>9, TaskTypes, ConstantsAssumption DEF BusAcquired, TypeOK
  <2>10. ASSUME SetupDone PROVE TypeOK'
    BY <2>10 DEF SetupDone, TypeOK
  <2>11. ASSUME NEW k \in todo, DiscoverTree(k) PROVE TypeOK'
    <3>1. todo' \subseteq Task
      BY <2>11, TaskTypes, TaskFields, ConstantsAssumption DEF DiscoverTree, TypeOK
    <3>2. ProxySingleObject(k.p, service[k.p])
      BY <2>11 DEF DiscoverTree
    <3> QED
      BY <2>11, <3>1, <3>2, ProxyType, TaskFields DEF DiscoverTree, TypeOK
  <2>12. ASSUME NEW k \in todo, GetManagedObjects(k) PROVE TypeOK'
    <3>1. todo' \subseteq Task
      BY <2>12, TaskTypes DEF GetManagedObjects, TypeOK
    <3> QED
      BY <2>12, <3>1 DEF GetManagedObjects, TypeOK
  <2>13. ASSUME NEW k \in todo, ProxyManagedObject(k) PROVE TypeOK'
    <3>1. ProxySingleObject(k.p, service[k.p]) /\ todo' \subseteq Task
      BY <2>13 DEF ProxyManagedObject, TypeOK
    <3> QED
      BY <2>13, <3>1, ProxyType, TaskFields DEF ProxyManagedObject, TypeOK
  <2>14. ASSUME NEW k \in todo, RegisterSingleInterface(k) PROVE TypeOK'
    <3>1. k.p \in Paths /\ k.i \in Ifaces
      BY <2>14, TaskFields DEF RegisterSingleInterface
    <3> QED
      BY <2>14, <3>1 DEF RegisterSingleInterface, TypeOK, Service
  <2>15. ASSUME NEW k \in todo, NothingThere(k) PROVE TypeOK'
    BY <2>15 DEF NothingThere, TypeOK
  <2>16. ASSUME NEW k \in todo, CallFails(k) PROVE TypeOK'
    <3>1. setupOk' \in BOOLEAN
      BY <2>16, Zenon DEF CallFails
    <3>2. missed' \subseteq Paths /\ todo' \subseteq Task /\ failures' \in Nat
      BY <2>16, TaskFields DEF CallFails, TypeOK
    <3> QED
      BY <2>16, <3>1, <3>2 DEF CallFails, TypeOK
  <2>17. ASSUME ForwardSignal \/ IgnoreSignal PROVE TypeOK'
    BY <2>17, SeqFacts DEF ForwardSignal, IgnoreSignal, Dispatch, TypeOK
  <2>18. ASSUME OnInterfacesAdded PROVE TypeOK'
    <3>1. Head(queue) \in Signal /\ Tail(queue) \in Seq(Signal)
      BY <2>18, SeqFacts DEF OnInterfacesAdded, Dispatch, TypeOK
    <3>2. Head(queue).p \in Paths /\ Head(queue).is \subseteq Ifaces
      BY <3>1 DEF Signal
    <3>3. todo' \subseteq Task
      BY <2>18, <3>2, TaskTypes DEF OnInterfacesAdded
    <3> QED
      BY <2>18, <3>1, <3>3 DEF OnInterfacesAdded, TypeOK
  <2>19. ASSUME ForwardInterfacesAdded PROVE TypeOK'
    BY <2>19 DEF ForwardInterfacesAdded, TypeOK
  <2>20. ASSUME OnInterfacesRemoved PROVE TypeOK'
    <3>1. Head(queue) \in Signal /\ Tail(queue) \in Seq(Signal)
      BY <2>20, SeqFacts DEF OnInterfacesRemoved, Dispatch, TypeOK
    <3>2. Head(queue).p \in Paths /\ Head(queue).is \subseteq Ifaces
      BY <3>1 DEF Signal
    <3> QED
      BY <2>20, <3>1, <3>2 DEF OnInterfacesRemoved, TypeOK, Service
  <2>21. CASE UNCHANGED vars
    BY <2>21 DEF vars, TypeOK
  <2> QED
    BY <2>1, <2>2, <2>3, <2>4, <2>5, <2>6, <2>7, <2>8, <2>9, <2>10, <2>11, <2>12, <2>13, <2>14,
       <2>15, <2>16, <2>17, <2>18, <2>19, <2>20, <2>21
    DEF Next, ServiceStep, ProxyStep, Call
<1> QED
  BY <1>1, <1>2, PTL DEF Spec
-----------------------------------------------------------------------------
(* The tables. *)

TablesInv == TablesAgree /\ StartsEmpty /\ TasksInPlace

LEMMA TablesSame ==
  ASSUME TablesAgree, UNCHANGED tables
  PROVE  TablesAgree'
  BY DEF TablesAgree, tables

LEMMA TablesProxy ==
  ASSUME TypeOK, TablesAgree, NEW p \in Paths, NEW is \in SUBSET Ifaces, ProxySingleObject(p, is)
  PROVE  TablesAgree' /\ proxied_objects \subseteq proxied_objects'
<1> DEFINE ok == IF p \in proxied_objects THEN {} ELSE {i \in is : <<p, i>> \notin exported}
<1>1. /\ exported' = exported \cup ({p} \X ok)
      /\ registered_objects' = registered_objects \cup ({p} \X ok)
      /\ registration_ids' = [registration_ids EXCEPT ![p] = @ \cup ok]
      /\ proxied_objects' = proxied_objects \cup (IF ok = {} THEN {} ELSE {p})
      /\ node_info_cache' = node_info_cache
  BY DEF ProxySingleObject
<1>2. ok \subseteq Ifaces
  OBVIOUS
<1> HIDE DEF ok
<1>3. registered_objects' = exported' /\ node_info_cache' \subseteq exported'
  BY <1>1 DEF TablesAgree
<1>4. ASSUME NEW q \in Paths
      PROVE  /\ registration_ids'[q] = {i \in Ifaces : <<q, i>> \in exported'}
             /\ q \in proxied_objects' <=> registration_ids'[q] # {}
  <2>1. CASE q = p
    <3>1. registration_ids'[q] = registration_ids[p] \cup ok
      BY <1>1, <2>1 DEF TypeOK, Service
    <3> QED
      BY <1>1, <1>2, <2>1, <3>1 DEF TablesAgree
  <2>2. CASE q # p
    <3>1. registration_ids'[q] = registration_ids[q]
      BY <1>1, <2>2 DEF TypeOK, Service
    <3> QED
      BY <1>1, <1>2, <2>2, <3>1 DEF TablesAgree
  <2> QED
    BY <2>1, <2>2
<1>5. proxied_objects' \subseteq Paths
  BY <1>1 DEF TypeOK
<1> QED
  BY <1>1, <1>3, <1>4, <1>5 DEF TablesAgree

LEMMA TablesRegister ==
  ASSUME TypeOK, TablesAgree, NEW k \in todo, k.p \in proxied_objects, RegisterSingleInterface(k)
  PROVE  TablesAgree'
<1>1. k.p \in Paths /\ k.i \in Ifaces
  BY TaskFields DEF RegisterSingleInterface
<1>2. registered_objects' = exported' /\ node_info_cache' \subseteq exported'
  BY DEF RegisterSingleInterface, TablesAgree
<1>3. ASSUME NEW q \in Paths
      PROVE  /\ registration_ids'[q] = {i \in Ifaces : <<q, i>> \in exported'}
             /\ q \in proxied_objects' <=> registration_ids'[q] # {}
  <2>1. registration_ids'[q] = IF q = k.p THEN registration_ids[q] \cup {k.i} ELSE registration_ids[q]
    BY <1>1 DEF RegisterSingleInterface, TypeOK, Service
  <2> QED
    BY <1>1, <2>1 DEF RegisterSingleInterface, TablesAgree
<1> QED
  BY <1>2, <1>3 DEF TablesAgree, RegisterSingleInterface, TypeOK

LEMMA TablesRemove ==
  ASSUME TypeOK, TablesAgree, OnInterfacesRemoved
  PROVE  TablesAgree'
<1> DEFINE p    == Head(queue).p
           gone == IF p \in proxied_objects THEN Head(queue).is \cap registration_ids[p] ELSE {}
<1>1. /\ exported' = exported \ ({p} \X gone)
      /\ registered_objects' = registered_objects \ ({p} \X gone)
      /\ node_info_cache' = node_info_cache \ ({p} \X gone)
      /\ registration_ids' = [registration_ids EXCEPT ![p] = @ \ gone]
      /\ proxied_objects' = IF registration_ids[p] \subseteq gone
                            THEN proxied_objects \ {p} ELSE proxied_objects
  BY DEF OnInterfacesRemoved
<1>2. p \in Paths
  <2>1. queue \in Seq(Signal) /\ queue # <<>>
    BY DEF OnInterfacesRemoved, Dispatch, TypeOK
  <2>2. Head(queue) \in Signal
    BY <2>1, SeqFacts
  <2> QED
    BY <2>2 DEF Signal
<1> HIDE DEF gone, p
<1>3. registered_objects' = exported' /\ node_info_cache' \subseteq exported'
  BY <1>1 DEF TablesAgree
<1>4. ASSUME NEW q \in Paths
      PROVE  /\ registration_ids'[q] = {i \in Ifaces : <<q, i>> \in exported'}
             /\ q \in proxied_objects' <=> registration_ids'[q] # {}
  <2>1. registration_ids'[q] = IF q = p THEN registration_ids[q] \ gone ELSE registration_ids[q]
    BY <1>1, <1>2 DEF TypeOK, Service
  <2> QED
    BY <1>1, <1>2, <2>1 DEF TablesAgree
<1> QED
  BY <1>1, <1>3, <1>4 DEF TablesAgree, TypeOK

LEMMA TablesCleanup ==
  ASSUME TablesAgree, CleanupProxyState
  PROVE  TablesAgree'
  BY DEF TablesAgree, CleanupProxyState

LEMMA AppendFacts ==
  ASSUME NEW S, NEW q \in Seq(S), NEW e \in S
  PROVE  /\ Len(q) \in Nat /\ Len(Append(q, e)) = Len(q) + 1
         /\ \A n \in 1..Len(q) : n \in 1..Len(Append(q, e)) /\ Append(q, e)[n] = q[n]
         /\ Len(q) + 1 \in 1..Len(Append(q, e)) /\ Append(q, e)[Len(q) + 1] = e
         /\ \A n \in 1..Len(Append(q, e)) : n \in 1..Len(q) \/ n = Len(q) + 1
  OBVIOUS

LEMMA TailFacts ==
  ASSUME NEW S, NEW q \in Seq(S), q # <<>>
  PROVE  /\ Len(q) \in Nat /\ 1 \in 1..Len(q) /\ Head(q) = q[1]
         /\ Len(Tail(q)) = Len(q) - 1
         /\ \A n \in 1..Len(Tail(q)) : n + 1 \in 1..Len(q) /\ Tail(q)[n] = q[n + 1]
         /\ \A n \in 1..Len(q) : n # 1 => n - 1 \in 1..Len(Tail(q)) /\ q[n] = Tail(q)[n - 1]
  OBVIOUS

(* Every task belongs to a handler, so the service's own steps keep TablesInv. *)
LEMMA TablesService ==
  ASSUME TypeOK, TablesInv, UNCHANGED <<phase, cur, todo, tables, missed>>,
         \/ UNCHANGED queue
         \/ Subscribed
         \/ queue' = Append(queue, Vanished)
  PROVE  TablesInv'
<1>1. TablesAgree'
  BY TablesSame DEF TablesInv
<1>2. StartsEmpty'
  <2> SUFFICES ASSUME phase \in {"fetching", "starting"}
               PROVE  \A n \in 1..Len(queue') : queue'[n].k = "vanished"
    BY DEF StartsEmpty, TablesInv, tables
  <2>1. \A n \in 1..Len(queue) : queue[n].k = "vanished"
    BY DEF StartsEmpty, TablesInv
  <2>2. CASE UNCHANGED queue
    BY <2>1, <2>2
  <2>3. CASE queue' = Append(queue, Vanished)
    <3>1. queue \in Seq(Signal) /\ Vanished \in Signal /\ Vanished.k = "vanished"
      BY SignalTypes DEF TypeOK, Vanished
    <3> QED
      BY <2>1, <2>3, <3>1, AppendFacts
  <2> QED
    BY <2>2, <2>3 DEF Subscribed
<1>3. TasksInPlace'
  BY DEF TasksInPlace, TablesInv, tables
<1> QED
  BY <1>1, <1>2, <1>3 DEF TablesInv

(* One blocking call of a handler. *)
LEMMA TablesCall ==
  ASSUME TypeOK, TablesInv, NEW k \in todo, UNCHANGED <<phase, cur>>, TablesAgree',
         proxied_objects \subseteq proxied_objects',
         \A j \in todo' \ todo : j.t # "iface"
  PROVE  TablesInv'
<1>1. phase \notin {"fetching", "starting"} /\ ~ (phase = "running" /\ cur = NoSignal)
  BY DEF TablesInv, StartsEmpty, TasksInPlace
<1>2. TasksInPlace'
  BY <1>1 DEF TablesInv, TasksInPlace
<1> QED
  BY <1>1, <1>2 DEF TablesInv, StartsEmpty

(* A signal taken from the queue by the idle main loop. *)
LEMMA TablesDispatch ==
  ASSUME TypeOK, TablesInv, Idle, UNCHANGED <<phase, cur, todo>>, TablesAgree'
  PROVE  TablesInv'
  BY DEF TablesInv, StartsEmpty, TasksInPlace, Idle

LEMMA TablesExit ==
  ASSUME TypeOK, TablesInv, CleanupProxyState, UNCHANGED <<cur, todo>>,
         phase \in {"fetching", "starting"} \/ (phase = "running" /\ cur = NoSignal)
  PROVE  TablesInv'
<1>1. todo = {}
  BY DEF TablesInv, StartsEmpty, TasksInPlace
<1>2. phase' = "exit"
  BY DEF CleanupProxyState
<1>3. TablesAgree'
  BY TablesCleanup DEF TablesInv
<1> QED
  BY <1>1, <1>2, <1>3 DEF TablesInv, StartsEmpty, TasksInPlace

LEMMA TablesStep == TypeOK /\ TablesInv /\ [Next]_vars => TablesInv'
<1> SUFFICES ASSUME TypeOK, TablesInv, [Next]_vars PROVE TablesInv'
  OBVIOUS
<1> USE DEF ghosts
<1>1. ASSUME ServiceStep \/ WatchStarts \/ UNCHANGED vars PROVE TablesInv'
  <2>1. UNCHANGED <<phase, cur, todo, tables, missed>>
    BY <1>1 DEF ServiceStep, ServiceAdds, ServiceRemoves, ServiceEmits, ServiceLeaves,
       ServiceReturns, WatchStarts, vars, loopVars
  <2>2. UNCHANGED queue \/ Subscribed \/ queue' = Append(queue, Vanished)
    BY <1>1 DEF ServiceStep, ServiceAdds, ServiceRemoves, ServiceEmits, ServiceLeaves,
       ServiceReturns, WatchStarts, vars, loopVars, Send
  <2> QED
    BY <2>1, <2>2, TablesService
<1>2. ASSUME FetchIntrospection PROVE TablesInv'
  <2>1. TablesAgree'
    BY <1>2, TablesSame DEF FetchIntrospection, TablesInv
  <2> QED
    BY <1>2, <2>1 DEF FetchIntrospection, TablesInv, StartsEmpty, TasksInPlace, tables
<1>3. ASSUME FetchFails \/ Terminate \/ OnServiceVanished PROVE TablesInv'
  <2>1. CleanupProxyState /\ UNCHANGED <<cur, todo>>
    BY <1>3 DEF FetchFails, Terminate, OnServiceVanished
  <2>2. phase \in {"fetching", "starting"} \/ (phase = "running" /\ cur = NoSignal)
    BY <1>3 DEF FetchFails, Terminate, OnServiceVanished, Idle, TablesInv, StartsEmpty
  <2> QED
    BY <2>1, <2>2, TablesExit
<1>4. ASSUME BusAcquired PROVE TablesInv'
  <2>1. TablesAgree'
    BY <1>4, TablesSame DEF BusAcquired, TablesInv
  <2> QED
    BY <1>4, <2>1 DEF BusAcquired, TablesInv, StartsEmpty, TasksInPlace
<1>5. ASSUME SetupDone PROVE TablesInv'
  <2>1. TablesAgree'
    BY <1>5, TablesSame DEF SetupDone, TablesInv
  <2> QED
    BY <1>5, <2>1 DEF SetupDone, TablesInv, StartsEmpty, TasksInPlace
<1>6. ASSUME NEW k \in todo, DiscoverTree(k) \/ ProxyManagedObject(k) PROVE TablesInv'
  <2>1. ProxySingleObject(k.p, service[k.p])
    BY <1>6 DEF DiscoverTree, ProxyManagedObject
  <2>2. TablesAgree' /\ proxied_objects \subseteq proxied_objects'
    BY <2>1, TablesProxy, TaskFields DEF TablesInv
  <2>3. UNCHANGED <<phase, cur>> /\ \A j \in todo' \ todo : j.t # "iface"
    BY <1>6 DEF DiscoverTree, ProxyManagedObject, TreeTasks
  <2> QED
    BY <2>2, <2>3, TablesCall
<1>7. ASSUME NEW k \in todo, GetManagedObjects(k) \/ NothingThere(k) \/ CallFails(k) PROVE TablesInv'
  <2>1. UNCHANGED <<phase, cur, tables>> /\ \A j \in todo' \ todo : j.t # "iface"
    BY <1>7 DEF GetManagedObjects, NothingThere, CallFails
  <2>2. TablesAgree' /\ proxied_objects \subseteq proxied_objects'
    BY <2>1, TablesSame DEF TablesInv, tables
  <2> QED
    BY <2>1, <2>2, TablesCall
<1>8. ASSUME NEW k \in todo, RegisterSingleInterface(k) PROVE TablesInv'
  <2>1. k.p \in proxied_objects
    BY <1>8 DEF RegisterSingleInterface, TablesInv, TasksInPlace
  <2>2. TablesAgree'
    BY <1>8, <2>1, TablesRegister DEF TablesInv
  <2>3. UNCHANGED <<phase, cur, proxied_objects>> /\ todo' \subseteq todo
    BY <1>8 DEF RegisterSingleInterface
  <2> QED
    BY <2>2, <2>3, TablesCall
<1>9. ASSUME ForwardSignal \/ IgnoreSignal PROVE TablesInv'
  <2>1. Idle /\ UNCHANGED <<phase, cur, todo, tables>>
    BY <1>9 DEF ForwardSignal, IgnoreSignal, Dispatch
  <2> QED
    BY <2>1, TablesSame, TablesDispatch DEF TablesInv
<1>10. ASSUME OnInterfacesAdded PROVE TablesInv'
  <2>1. UNCHANGED <<phase, tables>> /\ phase = "running" /\ queue # <<>> /\ cur' = Head(queue)
    BY <1>10 DEF OnInterfacesAdded, Dispatch, Idle
  <2>2. cur' # NoSignal
    BY <2>1, SeqFacts, ConstantsAssumption DEF TypeOK
  <2>3. \A k \in todo' : k.t = "iface" => k.p \in proxied_objects
    BY <1>10 DEF OnInterfacesAdded, TreeTasks
  <2>4. TablesAgree' /\ proxied_objects' = proxied_objects
    BY <2>1, TablesSame DEF TablesInv, tables
  <2> QED
    BY <2>1, <2>2, <2>3, <2>4 DEF TablesInv, StartsEmpty, TasksInPlace
<1>11. ASSUME ForwardInterfacesAdded PROVE TablesInv'
  <2>1. TablesAgree'
    BY <1>11, TablesSame DEF ForwardInterfacesAdded, TablesInv
  <2> QED
    BY <1>11, <2>1 DEF ForwardInterfacesAdded, TablesInv, StartsEmpty, TasksInPlace, tables
<1>12. ASSUME OnInterfacesRemoved PROVE TablesInv'
  <2>1. Idle /\ UNCHANGED <<phase, cur, todo>>
    BY <1>12 DEF OnInterfacesRemoved, Dispatch
  <2> QED
    BY <1>12, <2>1, TablesRemove, TablesDispatch DEF TablesInv
<1> QED
  BY <1>1, <1>2, <1>3, <1>4, <1>5, <1>6, <1>7, <1>8, <1>9, <1>10, <1>11, <1>12
  DEF Next, ProxyStep, Call

LEMMA TablesInvariant == Spec => []TablesInv
<1>1. Init => TablesInv
  BY DEF Init, TablesInv, TablesAgree, StartsEmpty, TasksInPlace
<1> QED
  BY <1>1, TypeCorrect, TablesStep, PTL DEF Spec

(* Discovery, additions, removals and the clean-up keep proxied_objects,        *)
(* registration_ids, registered_objects and GDBus's own table in agreement.     *)
THEOREM TablesCorrect == Spec => []TablesAgree
<1>1. TablesInv => TablesAgree
  BY DEF TablesInv
<1> QED
  BY <1>1, TablesInvariant, PTL
-----------------------------------------------------------------------------
(* The mirror converges.  What the queue says of an interface survives the    *)
(* arrival of a signal and the departure of one that does not mention it.     *)

LEMMA QueuedAppend ==
  ASSUME TypeOK, NEW s \in Signal, queue' = Append(queue, s), NEW kind, NEW p, NEW i
  PROVE  /\ Queued(kind, p, i) => Queued(kind, p, i)'
         /\ Mentions(s, kind, p, i) => Queued(kind, p, i)'
<1>1. queue \in Seq(Signal)
  BY DEF TypeOK
<1> QED
  BY <1>1, AppendFacts DEF Queued, Mentions

LEMMA QueuedTail ==
  ASSUME TypeOK, queue # <<>>, queue' = Tail(queue), NEW kind, NEW p, NEW i,
         Queued(kind, p, i), ~ Mentions(Head(queue), kind, p, i)
  PROVE  Queued(kind, p, i)'
<1>1. queue \in Seq(Signal)
  BY DEF TypeOK
<1> QED
  BY <1>1, TailFacts DEF Queued, Mentions

LEMMA LastWordAppend ==
  ASSUME TypeOK, LastWord, NEW s \in Signal, queue' = Append(queue, s),
         stale = "no", phase # "exit",
         \A p \in Paths, i \in Ifaces :
           /\ Mentions(s, "added", p, i) => i \in service'[p]
           /\ Mentions(s, "removed", p, i) => i \notin service'[p]
           /\ i \in service'[p] /\ i \notin service[p] => Mentions(s, "added", p, i)
           /\ i \notin service'[p] /\ i \in service[p] => Mentions(s, "removed", p, i)
  PROVE  LastWord'
<1>0. queue \in Seq(Signal) /\ Len(queue) \in Nat
  BY DEF TypeOK
<1>a. /\ Len(queue') = Len(queue) + 1 /\ queue'[Len(queue) + 1] = s
      /\ Len(queue) + 1 \in 1..Len(queue')
      /\ \A n \in 1..Len(queue) : n \in 1..Len(queue') /\ queue'[n] = queue[n]
      /\ \A n \in 1..Len(queue') : n \in 1..Len(queue) \/ n = Len(queue) + 1
  BY <1>0, AppendFacts
<1> SUFFICES ASSUME NEW n \in 1..Len(queue'), NEW p \in Paths, NEW i \in Ifaces
             PROVE  /\ Mentions(queue'[n], "added", p, i) /\ i \notin service'[p] =>
                         \E m \in 1..Len(queue') : m > n /\ Mentions(queue'[m], "removed", p, i)
                    /\ Mentions(queue'[n], "removed", p, i) /\ i \in service'[p] =>
                         \E m \in 1..Len(queue') : m > n /\ Mentions(queue'[m], "added", p, i)
  BY DEF LastWord, Mentions
<1>1. CASE n = Len(queue) + 1
  BY <1>a, <1>1
<1>2. CASE n \in 1..Len(queue)
  <2>1. queue'[n] = queue[n] /\ Len(queue) + 1 > n
    BY <1>0, <1>a, <1>2
  <2>2. /\ Mentions(queue[n], "added", p, i) /\ i \notin service[p] =>
             \E m \in 1..Len(queue) : m > n /\ Mentions(queue[m], "removed", p, i)
        /\ Mentions(queue[n], "removed", p, i) /\ i \in service[p] =>
             \E m \in 1..Len(queue) : m > n /\ Mentions(queue[m], "added", p, i)
    BY <1>2 DEF LastWord
  <2>3. ASSUME Mentions(queue[n], "added", p, i), i \notin service'[p]
        PROVE  \E m \in 1..Len(queue') : m > n /\ Mentions(queue'[m], "removed", p, i)
    <3>1. CASE i \in service[p]
      BY <1>a, <2>1, <2>3, <3>1
    <3>2. CASE i \notin service[p]
      BY <1>a, <2>2, <2>3, <3>2
    <3> QED
      BY <3>1, <3>2
  <2>4. ASSUME Mentions(queue[n], "removed", p, i), i \in service'[p]
        PROVE  \E m \in 1..Len(queue') : m > n /\ Mentions(queue'[m], "added", p, i)
    <3>1. CASE i \notin service[p]
      BY <1>a, <2>1, <2>4, <3>1
    <3>2. CASE i \in service[p]
      BY <1>a, <2>2, <2>4, <3>2
    <3> QED
      BY <3>1, <3>2
  <2> QED
    BY <2>1, <2>3, <2>4
<1> QED
  BY <1>a, <1>1, <1>2

LEMMA LastWordTail ==
  ASSUME TypeOK, LastWord, queue # <<>>, queue' = Tail(queue), UNCHANGED <<service, stale, phase>>
  PROVE  LastWord'
<1>0. queue \in Seq(Signal) /\ Len(queue) \in Nat
  BY DEF TypeOK
<1>1. /\ Len(queue') = Len(queue) - 1
      /\ \A n \in 1..Len(queue') : n + 1 \in 1..Len(queue) /\ queue'[n] = queue[n + 1]
      /\ \A n \in 1..Len(queue) : n # 1 => n - 1 \in 1..Len(queue') /\ queue[n] = queue'[n - 1]
  BY <1>0, TailFacts
<1> SUFFICES ASSUME stale' = "no", phase' # "exit", NEW n \in 1..Len(queue'), NEW p \in Paths, NEW i \in Ifaces
             PROVE  /\ Mentions(queue'[n], "added", p, i) /\ i \notin service'[p] =>
                         \E m \in 1..Len(queue') : m > n /\ Mentions(queue'[m], "removed", p, i)
                    /\ Mentions(queue'[n], "removed", p, i) /\ i \in service'[p] =>
                         \E m \in 1..Len(queue') : m > n /\ Mentions(queue'[m], "added", p, i)
  BY DEF LastWord, Mentions
<1>2. n + 1 \in 1..Len(queue) /\ queue'[n] = queue[n + 1]
  BY <1>1
<1>3. \A m \in 1..Len(queue) : m > n + 1 => m - 1 \in 1..Len(queue') /\ m - 1 > n /\ queue'[m - 1] = queue[m]
  BY <1>0, <1>1
<1>4. /\ Mentions(queue[n + 1], "added", p, i) /\ i \notin service[p] =>
           \E m \in 1..Len(queue) : m > n + 1 /\ Mentions(queue[m], "removed", p, i)
      /\ Mentions(queue[n + 1], "removed", p, i) /\ i \in service[p] =>
           \E m \in 1..Len(queue) : m > n + 1 /\ Mentions(queue[m], "added", p, i)
  BY <1>2 DEF LastWord
<1> QED
  BY <1>2, <1>3, <1>4

(* TypeOK and TablesInv hold before and after every step below. *)
ConvergeInv == OnceGoneStale /\ LastWord /\ GhostIsQueued /\ MissingIsPending

LEMMA ConvergeStale ==
  ASSUME stale' # "no"
  PROVE  ConvergeInv'
  BY DEF ConvergeInv, OnceGoneStale, LastWord, GhostIsQueued, MissingIsPending, Live

LEMMA ConvergeExit ==
  ASSUME ConvergeInv, phase' = "exit", UNCHANGED <<stale, up>>
  PROVE  ConvergeInv'
  BY DEF ConvergeInv, OnceGoneStale, LastWord, GhostIsQueued, MissingIsPending, Live

(* Before discovery the queue holds no announcement. *)
LEMMA ConvergeEarly ==
  ASSUME TablesInv', OnceGoneStale', phase' \in {"fetching", "starting"}
  PROVE  ConvergeInv'
<1>1. LastWord'
  BY DEF TablesInv, StartsEmpty, LastWord, Mentions
<1> QED
  BY <1>1 DEF ConvergeInv, GhostIsQueued, MissingIsPending, Live

LEMMA LastWordSame ==
  ASSUME LastWord, UNCHANGED <<queue, service, stale>>, phase # "exit" \/ UNCHANGED phase
  PROVE  LastWord'
  BY DEF LastWord, Mentions

LEMMA QueuedSame ==
  ASSUME UNCHANGED queue, NEW kind, NEW p, NEW i
  PROVE  Queued(kind, p, i)' <=> Queued(kind, p, i)
  BY DEF Queued, Mentions

(* What one blocking call changes. *)
LEMMA GhostCall ==
  ASSUME GhostIsQueued, UNCHANGED <<queue, service, stale, phase>>,
         \A p \in Paths : registration_ids'[p] \subseteq registration_ids[p] \cup service[p]
  PROVE  GhostIsQueued'
<1> SUFFICES ASSUME Live, NEW p \in Paths, NEW i \in registration_ids'[p] \ service'[p]
             PROVE  Queued("removed", p, i)'
  BY DEF GhostIsQueued, Live
<1> QED
  BY QueuedSame DEF GhostIsQueued

LEMMA MissingCall ==
  ASSUME MissingIsPending, UNCHANGED <<queue, service, stale, phase>>, NEW k \in todo,
         missed \subseteq missed', todo \ {k} \subseteq todo',
         \A p \in Paths : registration_ids[p] \subseteq registration_ids'[p],
         \A p \in Paths : p \in proxied_objects' \ proxied_objects => service[p] \subseteq registration_ids'[p],
         Live /\ k.t = "iface" /\ k.p \notin missed' => k.i \notin service[k.p] \ registration_ids'[k.p],
         \A p \in Paths \ missed' : \A i \in service[p] \ registration_ids'[p] :
           Live /\ p \notin proxied_objects' /\ Covers(k, p) => \E j \in todo' : Covers(j, p)
  PROVE  MissingIsPending'
<1> SUFFICES ASSUME Live, NEW p \in Paths \ missed', NEW i \in service[p] \ registration_ids'[p]
             PROVE  \/ Queued("added", p, i)'
                    \/ \E j \in todo' : j.t = "iface" /\ j.p = p /\ j.i = i
                    \/ p \notin proxied_objects' /\ \E j \in todo' : Covers(j, p)
  BY DEF MissingIsPending, Live, Covers
<1>1. \/ Queued("added", p, i)
      \/ \E j \in todo : j.t = "iface" /\ j.p = p /\ j.i = i
      \/ p \notin proxied_objects /\ \E j \in todo : Covers(j, p)
  BY DEF MissingIsPending
<1>2. CASE Queued("added", p, i)
  BY <1>2, QueuedSame
<1>3. CASE \E j \in todo : j.t = "iface" /\ j.p = p /\ j.i = i
  BY <1>3
<1>4. CASE p \notin proxied_objects /\ \E j \in todo : Covers(j, p)
  <2>1. p \notin proxied_objects'
    BY <1>4
  <2> QED
    BY <1>4, <2>1
<1> QED
  BY <1>1, <1>2, <1>3, <1>4

LEMMA ProxyRegisters ==
  ASSUME TypeOK, TablesAgree, NEW p \in Paths, ProxySingleObject(p, service[p])
  PROVE  /\ \A q \in Paths : /\ registration_ids[q] \subseteq registration_ids'[q]
                             /\ registration_ids'[q] \subseteq registration_ids[q] \cup service[q]
         /\ p \notin proxied_objects => service[p] \subseteq registration_ids'[p]
         /\ proxied_objects' \subseteq proxied_objects \cup {p}
<1> DEFINE ok == IF p \in proxied_objects THEN {} ELSE {i \in service[p] : <<p, i>> \notin exported}
<1>1. /\ registration_ids' = [registration_ids EXCEPT ![p] = @ \cup ok]
      /\ proxied_objects' = proxied_objects \cup (IF ok = {} THEN {} ELSE {p})
  BY DEF ProxySingleObject
<1>2. ok \subseteq service[p]
  OBVIOUS
<1>3. p \notin proxied_objects => ok = service[p]
  <2>1. service[p] \subseteq Ifaces
    BY DEF TypeOK, Service
  <2> QED
    BY <2>1 DEF TablesAgree
<1> HIDE DEF ok
<1>4. \A q \in Paths : registration_ids'[q] = IF q = p THEN registration_ids[q] \cup ok ELSE registration_ids[q]
  BY <1>1 DEF TypeOK, Service
<1> QED
  BY <1>1, <1>2, <1>3, <1>4

(* A call of discover_and_proxy_object_tree or of proxy_object_manager_objects *)
(* hands what it did not read itself to the calls it leads to.                 *)
LEMMA ConvergeCall ==
  ASSUME TypeOK, TablesInv, ConvergeInv, NEW k \in todo, Call(k)
  PROVE  ConvergeInv'
<1> USE DEF ghosts, serviceVars
<1>0. /\ UNCHANGED <<queue, service, stale, phase, up>>
      /\ missed \subseteq missed' /\ todo \ {k} \subseteq todo'
  BY DEF Call, DiscoverTree, GetManagedObjects, ProxyManagedObject, RegisterSingleInterface,
     NothingThere, CallFails
<1>1. OnceGoneStale' /\ LastWord'
  BY <1>0, LastWordSame DEF ConvergeInv, OnceGoneStale
<1>2. k.p \in Paths /\ TablesAgree /\ MissingIsPending /\ GhostIsQueued
  BY TaskFields DEF TablesInv, ConvergeInv
<1>3. Live => up
  BY DEF ConvergeInv, OnceGoneStale, Live
<1>4. \A p \in Paths : service[p] \subseteq Ifaces
  BY DEF TypeOK, Service
<1>5. ASSUME GetManagedObjects(k) PROVE GhostIsQueued' /\ MissingIsPending'
  <2>1. UNCHANGED <<registration_ids, proxied_objects>>
    BY <1>5 DEF GetManagedObjects, tables
  <2>2. \A p \in Paths : service[p] # {} => [t |-> "node", p |-> p, i |-> NoIface] \in todo'
    BY <1>5 DEF GetManagedObjects
  <2>3. \A p \in Paths : Covers([t |-> "node", p |-> p, i |-> NoIface], p)
    BY DEF Covers
  <2>4. k.t # "iface" /\ \A p \in Paths : service[p] # {} => \E j \in todo' : Covers(j, p)
    BY <1>5, <2>2, <2>3 DEF GetManagedObjects
  <2> QED
    BY <1>0, <1>2, <2>1, <2>4, GhostCall, MissingCall
<1>6. ASSUME NothingThere(k) PROVE GhostIsQueued' /\ MissingIsPending'
  <2>1. UNCHANGED <<registration_ids, proxied_objects>>
    BY <1>6 DEF NothingThere, tables
  <2>2. ASSUME Live, NEW p \in Paths, Covers(k, p), service[p] # {} PROVE FALSE
    <3>1. k.t \in {"root", "tree", "node"} /\ ~ Exists(k.p)
      BY <1>3, <1>6, <2>2 DEF NothingThere, Covers
    <3>2. p \in Subtree[k.p]
      BY <2>2, TreeAssumption DEF Covers
    <3> QED
      BY <1>3, <2>2, <3>1, <3>2 DEF Exists
  <2>3. k.t = "iface" => k.i \notin service[k.p] \ registration_ids[k.p]
    BY <1>2, <1>4, <1>6 DEF NothingThere, TablesAgree
  <2> QED
    BY <1>0, <1>2, <2>1, <2>2, <2>3, GhostCall, MissingCall
<1>7. ASSUME CallFails(k) PROVE GhostIsQueued' /\ MissingIsPending'
  <2>1. UNCHANGED <<registration_ids, proxied_objects>>
    BY <1>7 DEF CallFails, tables
  <2>2. \A p \in Paths \ missed' : ~ Covers(k, p)
    BY <1>7 DEF CallFails, Covers
  <2>3. k.t = "iface" => k.p \in missed'
    BY <1>7 DEF CallFails
  <2> QED
    BY <1>0, <1>2, <2>1, <2>2, <2>3, GhostCall, MissingCall
<1>8. ASSUME RegisterSingleInterface(k) PROVE GhostIsQueued' /\ MissingIsPending'
  <2>1. /\ k.t = "iface" /\ k.i \in service[k.p] /\ UNCHANGED proxied_objects
        /\ registration_ids' = [registration_ids EXCEPT ![k.p] = @ \cup {k.i}]
    BY <1>8 DEF RegisterSingleInterface
  <2>2. \A q \in Paths : registration_ids'[q] =
          IF q = k.p THEN registration_ids[q] \cup {k.i} ELSE registration_ids[q]
    BY <1>2, <2>1 DEF TypeOK, Service
  <2>3. \A q \in Paths : /\ registration_ids[q] \subseteq registration_ids'[q]
                         /\ registration_ids'[q] \subseteq registration_ids[q] \cup service[q]
    BY <2>1, <2>2
  <2>4. k.i \in registration_ids'[k.p] /\ \A p \in Paths : ~ Covers(k, p)
    BY <1>2, <2>1, <2>2 DEF Covers
  <2> QED
    BY <1>0, <1>2, <2>1, <2>3, <2>4, GhostCall, MissingCall
<1>9. ASSUME DiscoverTree(k) \/ ProxyManagedObject(k) PROVE GhostIsQueued' /\ MissingIsPending'
  <2>1. ProxySingleObject(k.p, service[k.p]) /\ k.t # "iface"
    BY <1>9 DEF DiscoverTree, ProxyManagedObject
  <2>2. /\ \A q \in Paths : /\ registration_ids[q] \subseteq registration_ids'[q]
                            /\ registration_ids'[q] \subseteq registration_ids[q] \cup service[q]
        /\ k.p \notin proxied_objects => service[k.p] \subseteq registration_ids'[k.p]
        /\ proxied_objects' \subseteq proxied_objects \cup {k.p}
    BY <1>2, <2>1, ProxyRegisters
  <2>3. ASSUME NEW p \in Paths, NEW i \in service[p] \ registration_ids'[p],
               p \notin proxied_objects', Covers(k, p)
        PROVE  \E j \in todo' : Covers(j, p)
    <3>1. p # k.p
      <4>1. proxied_objects \subseteq proxied_objects'
        BY <2>1 DEF ProxySingleObject
      <4> QED
        BY <2>2, <2>3, <4>1
    <3>2. DiscoverTree(k) /\ p \in Subtree[k.p]
      BY <1>9, <2>3, <3>1 DEF Covers, ProxyManagedObject
    <3>3. CASE k.t = "root" /\ OM \in service[k.p]
      <4> DEFINE j == [t |-> "managed", p |-> Root, i |-> NoIface]
      <4>1. j \in todo'
        BY <3>2, <3>3 DEF DiscoverTree
      <4>2. Covers(j, p)
        BY TreeAssumption DEF Covers
      <4> QED
        BY <4>1, <4>2
    <3>4. CASE ~ (k.t = "root" /\ OM \in service[k.p])
      <4>1. PICK c \in Children(k.p) : p \in Subtree[c]
        BY <1>2, <3>1, <3>2, TreeAssumption
      <4>2. c \in VisibleChildren(k.p)
        BY <2>3, <4>1 DEF VisibleChildren
      <4> DEFINE j == [t |-> "tree", p |-> c, i |-> NoIface]
      <4>3. j \in todo'
        BY <3>2, <3>4, <4>2 DEF DiscoverTree, TreeTasks
      <4>4. Covers(j, p)
        BY <4>1 DEF Covers
      <4> QED
        BY <4>3, <4>4
    <3> QED
      BY <3>3, <3>4
  <2> QED
    BY <1>0, <1>2, <2>1, <2>2, <2>3, GhostCall, MissingCall
<1> QED
  BY <1>1, <1>5, <1>6, <1>7, <1>8, <1>9 DEF ConvergeInv, Call

(* ServiceAdds and ServiceRemoves: the change of p and its signal s. *)
LEMMA ConvergeAnnounced ==
  ASSUME TypeOK, TablesInv', ConvergeInv, NEW s \in Signal, Send(s), phase # "exit",
         UNCHANGED <<phase, todo, tables, up, stale, missed>>,
         \A p \in Paths, i \in Ifaces :
           /\ Mentions(s, "added", p, i) => i \in service'[p]
           /\ Mentions(s, "removed", p, i) => i \notin service'[p]
           /\ i \in service'[p] /\ i \notin service[p] => Mentions(s, "added", p, i)
           /\ i \notin service'[p] /\ i \in service[p] => Mentions(s, "removed", p, i),
         service' \in Service
  PROVE  ConvergeInv'
<1>1. OnceGoneStale'
  BY DEF ConvergeInv, OnceGoneStale
<1>2. CASE phase \in {"fetching", "starting"}
  BY <1>1, <1>2, ConvergeEarly
<1>3. CASE stale # "no"
  BY <1>3, ConvergeStale
<1>4. CASE phase \notin {"fetching", "starting"} /\ stale = "no"
  <2>1. queue' = Append(queue, s) /\ Live
    BY <1>4 DEF Send, Subscribed, TypeOK, Live
  <2>2. LastWord'
    BY <1>4, <2>1, LastWordAppend DEF ConvergeInv
  <2>3. UNCHANGED <<registration_ids, proxied_objects>>
    BY DEF tables
  <2>4. \A p \in Paths : registration_ids[p] \subseteq Ifaces /\ service'[p] \subseteq Ifaces
    BY DEF TypeOK, Service
  <2>5. GhostIsQueued'
    <3> SUFFICES ASSUME NEW p \in Paths, NEW i \in registration_ids[p] \ service'[p]
                 PROVE  Queued("removed", p, i)'
      BY <2>3 DEF GhostIsQueued
    <3>1. CASE i \in service[p]
      BY <2>1, <2>4, <3>1, QueuedAppend
    <3>2. CASE i \notin service[p]
      <4>1. Queued("removed", p, i)
        BY <2>1, <3>2 DEF ConvergeInv, GhostIsQueued
      <4> QED
        BY <2>1, <4>1, QueuedAppend
    <3> QED
      BY <3>1, <3>2
  <2>6. MissingIsPending'
    <3> SUFFICES ASSUME NEW p \in Paths \ missed, NEW i \in service'[p] \ registration_ids[p]
                 PROVE  \/ Queued("added", p, i)'
                        \/ \E j \in todo : j.t = "iface" /\ j.p = p /\ j.i = i
                        \/ p \notin proxied_objects /\ \E j \in todo : Covers(j, p)
      BY <2>3 DEF MissingIsPending, Covers
    <3>1. CASE i \notin service[p]
      BY <2>1, <2>4, <3>1, QueuedAppend
    <3>2. CASE i \in service[p]
      <4>1. \/ Queued("added", p, i)
            \/ \E j \in todo : j.t = "iface" /\ j.p = p /\ j.i = i
            \/ p \notin proxied_objects /\ \E j \in todo : Covers(j, p)
        BY <2>1, <3>2 DEF ConvergeInv, MissingIsPending
      <4> QED
        BY <2>1, <4>1, QueuedAppend
    <3> QED
      BY <3>1, <3>2
  <2> QED
    BY <1>1, <2>2, <2>5, <2>6 DEF ConvergeInv
<1> QED
  BY <1>2, <1>3, <1>4

(* Nothing the invariant speaks of changes, except that discovery may end. *)
LEMMA ConvergeQuiet ==
  ASSUME TypeOK, ConvergeInv, UNCHANGED <<queue, service, stale, up, todo, tables, missed>>,
         UNCHANGED phase \/ (phase = "setup" /\ phase' = "running")
  PROVE  ConvergeInv'
<1>1. OnceGoneStale' /\ LastWord'
  BY LastWordSame DEF ConvergeInv, OnceGoneStale
<1>2. Live' => Live
  BY DEF Live
<1>3. UNCHANGED <<registration_ids, proxied_objects>>
  BY DEF tables
<1>4. GhostIsQueued'
  BY <1>2, <1>3, QueuedSame DEF ConvergeInv, GhostIsQueued
<1>5. MissingIsPending'
  BY <1>2, <1>3, QueuedSame DEF ConvergeInv, MissingIsPending, Covers
<1> QED
  BY <1>1, <1>4, <1>5 DEF ConvergeInv

LEMMA ConvergeService ==
  ASSUME TypeOK, TypeOK', TablesInv, TablesInv', ConvergeInv, ServiceStep \/ WatchStarts
  PROVE  ConvergeInv'
<1> USE DEF ghosts
<1>1. ASSUME NEW p \in Paths, NEW is \in SUBSET Ifaces, ServiceAdds(p, is) PROVE ConvergeInv'
  <2> DEFINE s == [k |-> "added", p |-> p, is |-> is]
  <2>1. /\ Send(s) /\ phase # "exit" /\ UNCHANGED <<phase, todo, tables, up, stale, missed>>
        /\ service' = [service EXCEPT ![p] = @ \cup is]
    BY <1>1 DEF ServiceAdds, Change
  <2>2. s \in Signal /\ service' \in Service
    BY SignalTypes DEF TypeOK
  <2>3. \A q \in Paths : service'[q] = IF q = p THEN service[q] \cup is ELSE service[q]
    BY <2>1 DEF TypeOK, Service
  <2>4. \A q \in Paths, i \in Ifaces :
           /\ Mentions(s, "added", q, i) => i \in service'[q]
           /\ Mentions(s, "removed", q, i) => i \notin service'[q]
           /\ i \in service'[q] /\ i \notin service[q] => Mentions(s, "added", q, i)
           /\ i \notin service'[q] /\ i \in service[q] => Mentions(s, "removed", q, i)
    BY <2>3 DEF Mentions
  <2> HIDE DEF s
  <2> QED
    BY <2>1, <2>2, <2>4, ConvergeAnnounced
<1>2. ASSUME NEW p \in Paths, NEW is \in SUBSET Ifaces, ServiceRemoves(p, is) PROVE ConvergeInv'
  <2> DEFINE s == [k |-> "removed", p |-> p, is |-> is]
  <2>1. /\ Send(s) /\ phase # "exit" /\ UNCHANGED <<phase, todo, tables, up, stale, missed>>
        /\ service' = [service EXCEPT ![p] = @ \ is]
    BY <1>2 DEF ServiceRemoves, Change
  <2>2. s \in Signal /\ service' \in Service
    BY SignalTypes DEF TypeOK
  <2>3. \A q \in Paths : service'[q] = IF q = p THEN service[q] \ is ELSE service[q]
    BY <2>1 DEF TypeOK, Service
  <2>4. \A q \in Paths, i \in Ifaces :
           /\ Mentions(s, "added", q, i) => i \in service'[q]
           /\ Mentions(s, "removed", q, i) => i \notin service'[q]
           /\ i \in service'[q] /\ i \notin service[q] => Mentions(s, "added", q, i)
           /\ i \notin service'[q] /\ i \in service[q] => Mentions(s, "removed", q, i)
    BY <2>3 DEF Mentions
  <2> HIDE DEF s
  <2> QED
    BY <2>1, <2>2, <2>4, ConvergeAnnounced
<1>3. ASSUME NEW p \in Paths, ServiceEmits(p) PROVE ConvergeInv'
  <2> DEFINE s == [k |-> "signal", p |-> p, is |-> {}]
  <2>1. Send(s) /\ phase # "exit" /\ UNCHANGED <<phase, todo, tables, up, stale, missed, service>>
    BY <1>3 DEF ServiceEmits, Change
  <2>2. s \in Signal /\ service' \in Service
    BY SignalTypes DEF TypeOK
  <2>3. \A q \in Paths, i \in Ifaces : ~ Mentions(s, "added", q, i) /\ ~ Mentions(s, "removed", q, i)
    BY DEF Mentions
  <2> HIDE DEF s
  <2> QED
    BY <2>1, <2>2, <2>3, ConvergeAnnounced
<1>4. ASSUME ServiceLeaves PROVE ConvergeInv'
  BY <1>4, ConvergeStale DEF ServiceLeaves
<1>5. ASSUME ServiceReturns PROVE ConvergeInv'
  BY <1>5, ConvergeStale DEF ServiceReturns, ConvergeInv, OnceGoneStale
<1>6. ASSUME WatchStarts PROVE ConvergeInv'
  <2>1. CASE up
    BY <1>6, <2>1, ConvergeQuiet DEF WatchStarts
  <2>2. CASE ~ up
    BY <1>6, <2>2, ConvergeStale DEF WatchStarts
  <2> QED
    BY <2>1, <2>2
<1> QED
  BY <1>1, <1>2, <1>3, <1>4, <1>5, <1>6 DEF ServiceStep

(* Signals taken from the queue: what the head announced is done, handed to  *)
(* a task, or taken back by a later signal.                                  *)
LEMMA ConvergeDispatch ==
  ASSUME TypeOK, TablesInv, ConvergeInv,
         ForwardSignal \/ IgnoreSignal \/ OnInterfacesAdded \/ OnInterfacesRemoved
  PROVE  ConvergeInv'
<1> USE DEF ghosts, serviceVars
<1>0. /\ Idle /\ queue # <<>> /\ queue' = Tail(queue)
      /\ UNCHANGED <<phase, service, stale, up, missed>>
  BY DEF ForwardSignal, IgnoreSignal, OnInterfacesAdded, OnInterfacesRemoved, Dispatch
<1>1. OnceGoneStale' /\ LastWord'
  BY <1>0, LastWordTail DEF ConvergeInv, OnceGoneStale
<1>2. todo = {}
  BY <1>0 DEF Idle, TablesInv, TasksInPlace
<1>3. Head(queue) \in Signal /\ Head(queue).p \in Paths /\ Head(queue).is \subseteq Ifaces
  <2>1. Head(queue) \in Signal
    BY <1>0, SeqFacts DEF TypeOK
  <2> QED
    BY <2>1 DEF Signal
<1>4. ASSUME Live, NEW p \in Paths, NEW i \in registration_ids[p] \ service[p]
      PROVE  Queued("removed", p, i)
  BY <1>4 DEF ConvergeInv, GhostIsQueued
<1>5. ASSUME Live, NEW p \in Paths \ missed, NEW i \in service[p] \ registration_ids[p]
      PROVE  Queued("added", p, i)
  BY <1>2, <1>5 DEF ConvergeInv, MissingIsPending
<1>6. ASSUME ForwardSignal \/ IgnoreSignal PROVE GhostIsQueued' /\ MissingIsPending'
  <2>1. UNCHANGED <<registration_ids, proxied_objects, todo>> /\ Head(queue).k = "signal"
    BY <1>6 DEF ForwardSignal, IgnoreSignal, Dispatch, tables
  <2>2. \A p, i : ~ Mentions(Head(queue), "removed", p, i) /\ ~ Mentions(Head(queue), "added", p, i)
    BY <2>1 DEF Mentions
  <2>3. GhostIsQueued'
    BY <1>0, <1>4, <2>1, <2>2, QueuedTail DEF GhostIsQueued, Live
  <2>4. MissingIsPending'
    BY <1>0, <1>5, <2>1, <2>2, QueuedTail DEF MissingIsPending, Live
  <2> QED
    BY <2>3, <2>4
<1>7. ASSUME OnInterfacesAdded PROVE GhostIsQueued' /\ MissingIsPending'
  <2>1. UNCHANGED <<registration_ids, proxied_objects>> /\ Head(queue).k = "added"
    BY <1>7 DEF OnInterfacesAdded, Dispatch, tables
  <2>2. \A p, i : ~ Mentions(Head(queue), "removed", p, i)
    BY <2>1 DEF Mentions
  <2>3. GhostIsQueued'
    BY <1>0, <1>4, <2>1, <2>2, QueuedTail DEF GhostIsQueued, Live
  <2>4. ASSUME Live, NEW p \in Paths \ missed, NEW i \in service[p] \ registration_ids[p]
        PROVE  \/ Queued("added", p, i)'
               \/ \E j \in todo' : j.t = "iface" /\ j.p = p /\ j.i = i
               \/ p \notin proxied_objects /\ \E j \in todo' : Covers(j, p)
    <3>1. CASE ~ Mentions(Head(queue), "added", p, i)
      BY <1>0, <1>5, <2>4, <3>1, QueuedTail
    <3>2. CASE Mentions(Head(queue), "added", p, i)
      <4>1. Head(queue).p = p /\ i \in Head(queue).is
        BY <3>2 DEF Mentions
      <4>2. CASE p \notin proxied_objects
        <5> DEFINE j == [t |-> "tree", p |-> p, i |-> NoIface]
        <5>1. j \in todo'
          BY <1>7, <4>1, <4>2 DEF OnInterfacesAdded, TreeTasks
        <5>2. Covers(j, p)
          BY TreeAssumption DEF Covers
        <5> QED
          BY <4>2, <5>1, <5>2
      <4>3. CASE p \in proxied_objects
        <5> DEFINE j == [t |-> "iface", p |-> p, i |-> i]
        <5>1. j \in todo'
          BY <1>7, <2>4, <4>1, <4>3 DEF OnInterfacesAdded
        <5> QED
          BY <5>1
      <4> QED
        BY <4>2, <4>3
    <3> QED
      BY <3>1, <3>2
  <2>5. MissingIsPending'
    <3> SUFFICES ASSUME Live, NEW p \in Paths \ missed, NEW i \in service[p] \ registration_ids[p]
                 PROVE  \/ Queued("added", p, i)'
                        \/ \E j \in todo' : j.t = "iface" /\ j.p = p /\ j.i = i
                        \/ p \notin proxied_objects /\ \E j \in todo' : Covers(j, p)
      BY <1>0, <2>1 DEF MissingIsPending, Live, Covers
    <3> QED
      BY <2>4
  <2> QED
    BY <2>3, <2>5
<1>8. ASSUME OnInterfacesRemoved PROVE GhostIsQueued' /\ MissingIsPending'
  <2> DEFINE r    == Head(queue).p
             gone == IF r \in proxied_objects THEN Head(queue).is \cap registration_ids[r] ELSE {}
  <2>1. /\ Head(queue).k = "removed" /\ UNCHANGED todo
        /\ registration_ids' = [registration_ids EXCEPT ![r] = @ \ gone]
    BY <1>8 DEF OnInterfacesRemoved, Dispatch
  <2>2. gone = Head(queue).is \cap registration_ids[r]
    BY <1>3 DEF TablesInv, TablesAgree
  <2> HIDE DEF gone
  <2>3. \A q \in Paths : registration_ids'[q] = IF q = r THEN registration_ids[q] \ gone ELSE registration_ids[q]
    BY <1>3, <2>1 DEF TypeOK, Service
  <2>4. GhostIsQueued'
    <3> SUFFICES ASSUME Live, NEW p \in Paths, NEW i \in registration_ids'[p] \ service[p]
                 PROVE  Queued("removed", p, i)'
      BY <1>0 DEF GhostIsQueued, Live
    <3>1. i \in registration_ids[p] /\ ~ Mentions(Head(queue), "removed", p, i)
      BY <2>2, <2>3 DEF Mentions
    <3> QED
      BY <1>0, <1>4, <3>1, QueuedTail
  <2>5. MissingIsPending'
    <3> SUFFICES ASSUME Live, NEW p \in Paths \ missed, NEW i \in service[p] \ registration_ids'[p]
                 PROVE  Queued("added", p, i)'
      BY <1>0 DEF MissingIsPending, Live
    <3>1. ~ Mentions(Head(queue), "added", p, i)
      BY <2>1 DEF Mentions
    <3>2. CASE i \notin registration_ids[p]
      BY <1>0, <1>5, <3>1, <3>2, QueuedTail
    <3>3. CASE i \in registration_ids[p]
      <4>1. p = r /\ i \in Head(queue).is /\ i \in Ifaces
        BY <1>3, <2>2, <2>3, <3>3
      <4>2. queue \in Seq(Signal)
        BY DEF TypeOK
      <4>3. 1 \in 1..Len(queue) /\ Mentions(queue[1], "removed", p, i)
        BY <1>0, <2>1, <4>1, <4>2, TailFacts DEF Mentions
      <4>4. Queued("added", p, i)
        BY <4>1, <4>3 DEF ConvergeInv, LastWord, Live, Queued
      <4> QED
        BY <1>0, <3>1, <4>4, QueuedTail
    <3> QED
      BY <3>2, <3>3
  <2> QED
    BY <2>4, <2>5
<1> QED
  BY <1>1, <1>6, <1>7, <1>8 DEF ConvergeInv

LEMMA ConvergeStep ==
  ASSUME TypeOK, TypeOK', TablesInv, TablesInv', ConvergeInv, [Next]_vars
  PROVE  ConvergeInv'
<1> USE DEF ghosts, serviceVars
<1>1. ASSUME FetchIntrospection PROVE ConvergeInv'
  BY <1>1, ConvergeEarly DEF FetchIntrospection, ConvergeInv, OnceGoneStale
<1>2. ASSUME FetchFails \/ Terminate \/ OnServiceVanished PROVE ConvergeInv'
  BY <1>2, ConvergeExit DEF FetchFails, Terminate, OnServiceVanished, CleanupProxyState
<1>3. ASSUME BusAcquired PROVE ConvergeInv'
  <2> DEFINE k == [t |-> "root", p |-> Root, i |-> NoIface]
  <2>1. /\ todo' = {k} /\ phase = "starting" /\ stale' = (IF stale = "blind" /\ up THEN "no" ELSE stale)
        /\ UNCHANGED <<queue, service, up, registration_ids, proxied_objects>>
    BY <1>3 DEF BusAcquired, tables
  <2>2. exported = {} /\ \A n \in 1..Len(queue) : queue[n].k = "vanished"
    BY <2>1 DEF TablesInv, StartsEmpty
  <2>3. OnceGoneStale'
    BY <2>1 DEF ConvergeInv, OnceGoneStale
  <2>4. LastWord'
    BY <2>1, <2>2 DEF LastWord, Mentions
  <2>5. \A p \in Paths : registration_ids'[p] = {} /\ p \notin proxied_objects'
    BY <2>1, <2>2 DEF TablesInv, TablesAgree
  <2>6. GhostIsQueued'
    BY <2>5 DEF GhostIsQueued
  <2>7. \A p \in Paths : Covers(k, p)
    BY TreeAssumption DEF Covers
  <2>8. MissingIsPending'
    <3>1. \A p \in Paths : \E j \in todo' : Covers(j, p)
      BY <2>1, <2>7
    <3> QED
      BY <2>5, <3>1 DEF MissingIsPending, Covers
  <2> QED
    BY <2>3, <2>4, <2>6, <2>8 DEF ConvergeInv
<1>4. ASSUME SetupDone \/ ForwardInterfacesAdded \/ UNCHANGED vars PROVE ConvergeInv'
  BY <1>4, ConvergeQuiet DEF SetupDone, ForwardInterfacesAdded, vars, loopVars
<1> QED
  BY <1>1, <1>2, <1>3, <1>4, ConvergeCall, ConvergeService, ConvergeDispatch DEF Next, ProxyStep

LEMMA ConvergeInvariant == Spec => []ConvergeInv
<1>1. Init => ConvergeInv
  BY DEF Init, ConvergeInv, OnceGoneStale, LastWord, GhostIsQueued, MissingIsPending, Live, Mentions
<1> QED
  BY <1>1, TypeCorrect, TablesInvariant, ConvergeStep, PTL DEF Spec

(* The mirror converges: when the main loop is idle and the queue empty, what *)
(* the proxy offers is what the service offers, less what a failed call hid,  *)
(* for every tree, every interleaving of discovery with the service's changes *)
(* and every number of them.                                                  *)
THEOREM MirrorCorrect == Spec => []MirrorConverges
<1>1. TablesInv /\ ConvergeInv => MirrorConverges
  <2> SUFFICES ASSUME TablesInv, ConvergeInv, Settled, stale = "no", NEW p \in Paths
               PROVE  /\ registration_ids[p] \subseteq service[p]
                      /\ p \notin missed => service[p] \subseteq registration_ids[p]
    BY DEF MirrorConverges
  <2>1. Live /\ todo = {} /\ Len(queue) = 0
    BY DEF Settled, Live, TablesInv, TasksInPlace
  <2>2. \A kind, i : ~ Queued(kind, p, i)
    BY <2>1 DEF Queued
  <2> QED
    BY <2>1, <2>2 DEF ConvergeInv, GhostIsQueued, MissingIsPending
<1> QED
  BY <1>1, TablesInvariant, ConvergeInvariant, PTL
-----------------------------------------------------------------------------
(* Signals and the tables.  Behind position n of the queue the interface i of *)
(* p, served as S says, is there and not announced again, or it is removed.   *)
After(q, n, kind, p, i) == \E m \in 1..Len(q) : n < m /\ Mentions(q[m], kind, p, i)
Held(q, S, n, p, i) == (i \in S /\ ~ After(q, n, "added", p, i)) \/ After(q, n, "removed", p, i)

(* What is announced, in the queue or by the handler, is there or is going;   *)
(* so is an interface of every object that has sent another signal.           *)
AddedWord  == \A n \in 1..Len(queue), p \in Paths, i \in Ifaces :
                Mentions(queue[n], "added", p, i) => Held(queue, service[p], n, p, i)
SignalWord == \A n \in 1..Len(queue) : queue[n].k = "signal" =>
                \E i \in Ifaces : Held(queue, service[queue[n].p], n, queue[n].p, i)
CurWord    == cur # NoSignal => \A i \in cur.is : Held(queue, service[cur.p], 0, cur.p, i)

WordInv == /\ stale = "no" => AddedWord /\ SignalWord /\ CurWord
           /\ cur # NoSignal => phase = "running"

LEMMA HeldAppend ==
  ASSUME NEW q \in Seq(Signal), NEW s \in Signal, NEW S, NEW T, NEW n, NEW p, NEW i, n \in 0..Len(q),
         Held(q, S, n, p, i),
         \/ Mentions(s, "removed", p, i)
         \/ Mentions(s, "added", p, i) /\ i \notin S
         \/ ~ Mentions(s, "added", p, i) /\ (i \in S => i \in T)
  PROVE  Held(Append(q, s), T, n, p, i)
<1> DEFINE r == Append(q, s)
<1>1. /\ Len(q) \in Nat /\ Len(r) = Len(q) + 1 /\ r[Len(q) + 1] = s /\ Len(q) + 1 \in 1..Len(r)
      /\ \A m \in 1..Len(q) : m \in 1..Len(r) /\ r[m] = q[m]
      /\ \A m \in 1..Len(r) : m \in 1..Len(q) \/ m = Len(q) + 1
  BY AppendFacts
<1>2. n < Len(q) + 1
  BY <1>1
<1> HIDE DEF r
<1>3. After(q, n, "removed", p, i) \/ Mentions(s, "removed", p, i) => After(r, n, "removed", p, i)
  BY <1>1, <1>2 DEF After
<1>4. ~ After(q, n, "added", p, i) /\ ~ Mentions(s, "added", p, i) => ~ After(r, n, "added", p, i)
  BY <1>1 DEF After
<1> QED
  BY <1>3, <1>4 DEF Held, r

LEMMA HeldNew ==
  ASSUME NEW q \in Seq(Signal), NEW s \in Signal, NEW T, NEW p, NEW i \in T
  PROVE  Held(Append(q, s), T, Len(q) + 1, p, i)
<1>1. \A m \in 1..Len(Append(q, s)) : ~ (Len(q) + 1 < m)
  BY AppendFacts
<1> QED
  BY <1>1 DEF Held, After

LEMMA HeldTail ==
  ASSUME NEW q \in Seq(Signal), q # <<>>, NEW S, NEW n \in 1..Len(q), NEW p, NEW i, Held(q, S, n, p, i)
  PROVE  Held(Tail(q), S, n - 1, p, i)
<1>1. /\ Len(q) \in Nat /\ \A m \in 1..Len(Tail(q)) : m + 1 \in 1..Len(q) /\ Tail(q)[m] = q[m + 1]
      /\ \A m \in 1..Len(q) : m # 1 => m - 1 \in 1..Len(Tail(q)) /\ q[m] = Tail(q)[m - 1]
  BY TailFacts
<1>2. ASSUME NEW kind PROVE After(q, n, kind, p, i) <=> After(Tail(q), n - 1, kind, p, i)
  <2>1. ASSUME NEW m \in 1..Len(q), n < m, Mentions(q[m], kind, p, i)
        PROVE  After(Tail(q), n - 1, kind, p, i)
    <3>1. m # 1 /\ m - 1 \in 1..Len(Tail(q)) /\ n - 1 < m - 1 /\ q[m] = Tail(q)[m - 1]
      BY <1>1, <2>1
    <3> QED
      BY <2>1, <3>1 DEF After
  <2>2. ASSUME NEW m \in 1..Len(Tail(q)), n - 1 < m, Mentions(Tail(q)[m], kind, p, i)
        PROVE  After(q, n, kind, p, i)
    <3>1. m + 1 \in 1..Len(q) /\ n < m + 1 /\ Tail(q)[m] = q[m + 1]
      BY <1>1, <2>2
    <3> QED
      BY <2>2, <3>1 DEF After
  <2> QED
    BY <2>1, <2>2 DEF After
<1> QED
  BY <1>2 DEF Held

LEMMA SignalFields ==
  ASSUME TypeOK
  PROVE  /\ \A n \in 1..Len(queue) : queue[n].p \in Paths /\ queue[n].is \subseteq Ifaces
         /\ cur # NoSignal => cur.p \in Paths /\ cur.is \subseteq Ifaces
<1>1. \A s \in Signal : s.p \in Paths /\ s.is \subseteq Ifaces
  BY DEF Signal
<1>2. \A n \in 1..Len(queue) : queue[n] \in Signal
  BY DEF TypeOK
<1> QED
  BY <1>1, <1>2 DEF TypeOK

Words == AddedWord /\ SignalWord /\ CurWord

LEMMA WordsAppend ==
  ASSUME TypeOK, Words, NEW s \in Signal, queue' = Append(queue, s), cur' = cur,
         \A p \in Paths, i \in Ifaces :
           /\ \/ Mentions(s, "removed", p, i)
              \/ Mentions(s, "added", p, i) /\ i \notin service[p]
              \/ ~ Mentions(s, "added", p, i) /\ (i \in service[p] => i \in service'[p])
           /\ Mentions(s, "added", p, i) => i \in service'[p],
         s.k = "signal" => \E i \in Ifaces : i \in service'[s.p]
  PROVE  Words'
<1>1. /\ queue \in Seq(Signal) /\ Len(queue) \in Nat /\ queue'[Len(queue) + 1] = s
      /\ \A m \in 1..Len(queue) : queue'[m] = queue[m] /\ m \in 0..Len(queue)
      /\ \A m \in 1..Len(queue') : m \in 1..Len(queue) \/ m = Len(queue) + 1
  <2>1. queue \in Seq(Signal)
    BY DEF TypeOK
  <2> QED
    BY <2>1, AppendFacts
<1>2. ASSUME NEW n \in 0..Len(queue), NEW p \in Paths, NEW i \in Ifaces, Held(queue, service[p], n, p, i)
      PROVE  Held(queue', service'[p], n, p, i)
  BY <1>1, <1>2, HeldAppend
<1>3. AddedWord'
  <2> SUFFICES ASSUME NEW n \in 1..Len(queue'), NEW p \in Paths, NEW i \in Ifaces, Mentions(queue'[n], "added", p, i)
               PROVE  Held(queue', service'[p], n, p, i)
    BY DEF AddedWord
  <2>1. CASE n \in 1..Len(queue)
    BY <1>1, <1>2, <2>1 DEF Words, AddedWord
  <2>2. CASE n = Len(queue) + 1
    BY <1>1, <2>2, HeldNew
  <2> QED
    BY <1>1, <2>1, <2>2
<1>4. SignalWord'
  <2> SUFFICES ASSUME NEW n \in 1..Len(queue'), queue'[n].k = "signal"
               PROVE  \E i \in Ifaces : Held(queue', service'[queue'[n].p], n, queue'[n].p, i)
    BY DEF SignalWord
  <2>1. CASE n \in 1..Len(queue)
    <3>1. queue'[n] = queue[n] /\ n \in 0..Len(queue) /\ queue[n].p \in Paths
      BY <1>1, <2>1, SignalFields
    <3>2. PICK i \in Ifaces : Held(queue, service[queue[n].p], n, queue[n].p, i)
      BY <2>1, <3>1 DEF Words, SignalWord
    <3> QED
      BY <1>2, <3>1, <3>2
  <2>2. CASE n = Len(queue) + 1
    BY <1>1, <2>2, HeldNew
  <2> QED
    BY <1>1, <2>1, <2>2
<1>5. CurWord'
  <2> SUFFICES ASSUME cur # NoSignal, NEW i \in cur.is PROVE Held(queue', service'[cur.p], 0, cur.p, i)
    BY DEF CurWord
  <2>1. cur.p \in Paths /\ i \in Ifaces /\ 0 \in 0..Len(queue)
    BY <1>1, SignalFields
  <2> QED
    BY <1>2, <2>1 DEF Words, CurWord
<1> QED
  BY <1>3, <1>4, <1>5 DEF Words

LEMMA WordsTail ==
  ASSUME TypeOK, Words, queue # <<>>, queue' = Tail(queue), service' = service,
         cur = NoSignal, cur' = NoSignal \/ (cur' = Head(queue) /\ Head(queue).k = "added")
  PROVE  Words'
<1>1. /\ queue \in Seq(Signal) /\ 1 \in 1..Len(queue) /\ Head(queue) = queue[1]
      /\ \A m \in 1..Len(queue') : m + 1 \in 1..Len(queue) /\ queue'[m] = queue[m + 1] /\ (m + 1) - 1 = m
  <2>1. queue \in Seq(Signal)
    BY DEF TypeOK
  <2> QED
    BY <2>1, TailFacts
<1>2. ASSUME NEW n \in 1..Len(queue), NEW p, NEW i, Held(queue, service[p], n, p, i)
      PROVE  Held(queue', service'[p], n - 1, p, i)
  BY <1>1, <1>2, HeldTail
<1>3. AddedWord'
  <2> SUFFICES ASSUME NEW n \in 1..Len(queue'), NEW p \in Paths, NEW i \in Ifaces, Mentions(queue'[n], "added", p, i)
               PROVE  Held(queue', service'[p], n, p, i)
    BY DEF AddedWord
  <2>1. Held(queue, service[p], n + 1, p, i)
    BY <1>1 DEF Words, AddedWord
  <2> QED
    BY <1>1, <1>2, <2>1
<1>4. SignalWord'
  <2> SUFFICES ASSUME NEW n \in 1..Len(queue'), queue'[n].k = "signal"
               PROVE  \E i \in Ifaces : Held(queue', service'[queue'[n].p], n, queue'[n].p, i)
    BY DEF SignalWord
  <2>1. PICK i \in Ifaces : Held(queue, service[queue[n + 1].p], n + 1, queue[n + 1].p, i)
    BY <1>1 DEF Words, SignalWord
  <2> QED
    BY <1>1, <1>2, <2>1
<1>5. CurWord'
  <2> SUFFICES ASSUME cur' = Head(queue), Head(queue).k = "added", NEW i \in cur'.is
               PROVE  Held(queue', service'[cur'.p], 0, cur'.p, i)
    BY DEF CurWord
  <2>1. cur'.p \in Paths /\ i \in Ifaces /\ Mentions(queue[1], "added", cur'.p, i)
    BY <1>1, SignalFields DEF Mentions
  <2>2. Held(queue, service[cur'.p], 1, cur'.p, i)
    BY <1>1, <2>1 DEF Words, AddedWord
  <2>3. Held(queue', service'[cur'.p], 1 - 1, cur'.p, i)
    BY <1>1, <1>2, <2>2
  <2> QED
    BY <2>3
<1> QED
  BY <1>3, <1>4, <1>5 DEF Words

LEMMA WordsSame ==
  ASSUME Words, UNCHANGED <<queue, service>>, cur' \in {cur, NoSignal}
  PROVE  Words'
<1>1. AddedWord' /\ SignalWord'
  BY DEF Words, AddedWord, SignalWord
<1>2. CurWord'
  BY DEF Words, CurWord
<1> QED
  BY <1>1, <1>2 DEF Words

LEMMA WordsEmpty ==
  ASSUME cur' = NoSignal, \A n \in 1..Len(queue') : queue'[n].k = "vanished"
  PROVE  Words'
  BY DEF Words, AddedWord, SignalWord, CurWord, Mentions

(* Before the discovery the queue has nothing to say. *)
LEMMA WordsEarly ==
  ASSUME TablesInv', phase' \in {"fetching", "starting"}
  PROVE  Words'
  BY WordsEmpty DEF TablesInv, StartsEmpty

LEMMA WordsService ==
  ASSUME TypeOK, TypeOK', TablesInv, TablesInv', ConvergeInv, WordInv, ServiceStep, stale' = "no"
  PROVE  Words'
<1>1. phase' = phase /\ cur' = cur
  BY DEF ServiceStep, ServiceAdds, ServiceRemoves, ServiceEmits, ServiceLeaves, ServiceReturns, loopVars
<1>2. SUFFICES ASSUME phase \notin {"fetching", "starting"} PROVE Words'
  BY <1>1, WordsEarly
<1>3. ASSUME NEW p \in Paths, NEW is \in SUBSET Ifaces, ServiceAdds(p, is) PROVE Words'
  <2> DEFINE s == [k |-> "added", p |-> p, is |-> is]
  <2>1. /\ Words /\ queue' = Append(queue, s) /\ is \cap service[p] = {}
        /\ service' = [service EXCEPT ![p] = @ \cup is]
    BY <1>2, <1>3 DEF ServiceAdds, Change, Send, Subscribed, WordInv, Words, TypeOK
  <2>2. s \in Signal /\ s.k # "signal"
    BY SignalTypes
  <2>3. \A q \in Paths : service'[q] = IF q = p THEN service[q] \cup is ELSE service[q]
    BY <2>1 DEF TypeOK, Service
  <2>4. \A q \in Paths, i \in Ifaces :
           /\ \/ Mentions(s, "removed", q, i)
              \/ Mentions(s, "added", q, i) /\ i \notin service[q]
              \/ ~ Mentions(s, "added", q, i) /\ (i \in service[q] => i \in service'[q])
           /\ Mentions(s, "added", q, i) => i \in service'[q]
    <3>1. \A i \in is : i \notin service[p]
      BY <2>1
    <3>2. \A q, i : Mentions(s, "added", q, i) <=> q = p /\ i \in is
      BY DEF Mentions
    <3> HIDE DEF s
    <3> QED
      BY <2>3, <3>1, <3>2
  <2> HIDE DEF s
  <2> QED
    BY <1>1, <2>1, <2>2, <2>4, WordsAppend
<1>4. ASSUME NEW p \in Paths, NEW is \in SUBSET Ifaces, ServiceRemoves(p, is) PROVE Words'
  <2> DEFINE s == [k |-> "removed", p |-> p, is |-> is]
  <2>1. /\ Words /\ queue' = Append(queue, s)
        /\ service' = [service EXCEPT ![p] = @ \ is]
    BY <1>2, <1>4 DEF ServiceRemoves, Change, Send, Subscribed, WordInv, Words, TypeOK
  <2>2. s \in Signal /\ s.k # "signal"
    BY SignalTypes
  <2>3. \A q \in Paths : service'[q] = IF q = p THEN service[q] \ is ELSE service[q]
    BY <2>1 DEF TypeOK, Service
  <2>4. \A q \in Paths, i \in Ifaces :
           /\ \/ Mentions(s, "removed", q, i)
              \/ Mentions(s, "added", q, i) /\ i \notin service[q]
              \/ ~ Mentions(s, "added", q, i) /\ (i \in service[q] => i \in service'[q])
           /\ Mentions(s, "added", q, i) => i \in service'[q]
    BY <2>3 DEF Mentions
  <2> HIDE DEF s
  <2> QED
    BY <1>1, <2>1, <2>2, <2>4, WordsAppend
<1>5. ASSUME NEW p \in Paths, ServiceEmits(p) PROVE Words'
  <2> DEFINE s == [k |-> "signal", p |-> p, is |-> {}]
  <2>1. Words /\ queue' = Append(queue, s) /\ service' = service /\ service[p] # {}
    BY <1>2, <1>5 DEF ServiceEmits, Change, Send, Subscribed, WordInv, Words, TypeOK
  <2>2. s \in Signal /\ s.p = p /\ \A q, i : ~ Mentions(s, "added", q, i)
    BY SignalTypes DEF Mentions
  <2>3. \E i \in Ifaces : i \in service'[s.p]
    BY <2>1, <2>2 DEF TypeOK, Service
  <2> HIDE DEF s
  <2> QED
    BY <1>1, <2>1, <2>2, <2>3, WordsAppend
<1>6. CASE ServiceLeaves
  BY <1>6 DEF ServiceLeaves
<1>7. CASE ServiceReturns
  BY <1>7 DEF ServiceReturns, ConvergeInv, OnceGoneStale
<1> QED
  BY <1>3, <1>4, <1>5, <1>6, <1>7 DEF ServiceStep

LEMMA WordsStep ==
  ASSUME TypeOK, TypeOK', TablesInv, TablesInv', ConvergeInv, WordInv, [Next]_vars
  PROVE  WordInv'
<1> USE DEF tables, serviceVars
<1>1. cur' # NoSignal => phase' = "running"
  <2>1. CASE ServiceStep \/ WatchStarts \/ UNCHANGED vars
    BY <2>1 DEF ServiceStep, ServiceAdds, ServiceRemoves, ServiceEmits, ServiceLeaves, ServiceReturns, WatchStarts,
       vars, loopVars, WordInv
  <2>2. CASE FetchIntrospection \/ FetchFails \/ BusAcquired \/ SetupDone \/ Terminate \/ OnServiceVanished
    BY <2>2 DEF FetchIntrospection, FetchFails, BusAcquired, SetupDone, Terminate, OnServiceVanished, Idle, WordInv,
       CleanupProxyState
  <2>3. CASE \E k \in todo : Call(k)
    BY <2>3 DEF Call, DiscoverTree, GetManagedObjects, ProxyManagedObject, RegisterSingleInterface, NothingThere,
       CallFails, WordInv
  <2>4. CASE \/ ForwardSignal \/ IgnoreSignal \/ OnInterfacesAdded \/ ForwardInterfacesAdded
             \/ OnInterfacesRemoved
    BY <2>4 DEF ForwardSignal, IgnoreSignal, OnInterfacesAdded, ForwardInterfacesAdded, OnInterfacesRemoved,
       Dispatch, Idle, WordInv
  <2> QED
    BY <2>1, <2>2, <2>3, <2>4 DEF Next, ProxyStep
<1> SUFFICES ASSUME stale' = "no" PROVE Words'
  BY <1>1 DEF WordInv, Words
<1>2. CASE ServiceStep
  BY <1>2, WordsService
<1>3. CASE WatchStarts
  <2>1. UNCHANGED <<queue, service, cur, stale>>
    BY <1>3 DEF WatchStarts
  <2> QED
    BY <2>1, WordsSame DEF WordInv, Words
<1>4. CASE FetchFails \/ Terminate \/ OnServiceVanished
  <2>1. queue' = <<>> /\ cur' = cur /\ phase' = "exit"
    BY <1>4 DEF FetchFails, Terminate, OnServiceVanished, CleanupProxyState
  <2>2. cur' = NoSignal
    BY <1>1, <2>1
  <2>3. \A n \in 1..Len(queue') : queue'[n].k = "vanished"
    BY <2>1
  <2> QED
    BY <2>2, <2>3, WordsEmpty
<1>5. CASE BusAcquired \/ FetchIntrospection
  <2>1. phase \in {"fetching", "starting"} /\ UNCHANGED <<queue, cur>>
    BY <1>5 DEF BusAcquired, FetchIntrospection
  <2> QED
    BY <2>1, WordsEmpty DEF TablesInv, StartsEmpty
<1>6. CASE SetupDone \/ ForwardInterfacesAdded \/ UNCHANGED vars
  <2>1. UNCHANGED <<queue, service, stale>> /\ cur' \in {cur, NoSignal}
    BY <1>6 DEF SetupDone, ForwardInterfacesAdded, vars, loopVars
  <2> QED
    BY <2>1, WordsSame DEF WordInv, Words
<1>7. CASE \E k \in todo : Call(k)
  <2>1. UNCHANGED <<queue, service, stale, cur>>
    BY <1>7 DEF Call, DiscoverTree, GetManagedObjects, ProxyManagedObject, RegisterSingleInterface, NothingThere,
       CallFails
  <2> QED
    BY <2>1, WordsSame DEF WordInv, Words
<1>8. CASE ForwardSignal \/ IgnoreSignal \/ OnInterfacesAdded \/ OnInterfacesRemoved
  <2>1. /\ queue # <<>> /\ queue' = Tail(queue) /\ UNCHANGED <<service, stale>> /\ cur = NoSignal
        /\ cur' = NoSignal \/ (cur' = Head(queue) /\ Head(queue).k = "added")
    BY <1>8 DEF ForwardSignal, IgnoreSignal, OnInterfacesAdded, OnInterfacesRemoved, Dispatch, Idle
  <2> QED
    BY <2>1, WordsTail DEF WordInv, Words
<1> QED
  BY <1>2, <1>3, <1>4, <1>5, <1>6, <1>7, <1>8 DEF Next, ProxyStep

LEMMA WordsInvariant == Spec => [](TypeOK /\ TablesInv /\ ConvergeInv /\ WordInv)
<1>1. Init => WordInv
  BY DEF Init, WordInv, AddedWord, SignalWord, CurWord
<1> QED
  BY <1>1, WordsStep, TypeCorrect, TablesInvariant, ConvergeInvariant, PTL DEF Spec

(* An interface that is held behind n is mirrored, removed or hidden by a     *)
(* failed call once the handler's tasks are done.                             *)
LEMMA HeldIsMirrored ==
  ASSUME TypeOK, TablesInv, ConvergeInv, stale = "no", phase = "running", todo = {},
         NEW p \in Paths, NEW i \in Ifaces, NEW n \in {0, 1}, Held(queue, service[p], n, p, i),
         n = 1 => queue # <<>> /\ Head(queue).k # "added"
  PROVE  <<p, i>> \in exported \/ Queued("removed", p, i) \/ p \in missed
<1>1. After(queue, n, "removed", p, i) => Queued("removed", p, i)
  BY DEF After, Queued
<1>2. Queued("added", p, i) => After(queue, n, "added", p, i)
  <2> SUFFICES ASSUME NEW m \in 1..Len(queue), Mentions(queue[m], "added", p, i)
               PROVE  n < m
    BY DEF After, Queued
  <2>1. n = 1 => m # 1
    <3>1. queue \in Seq(Signal)
      BY DEF TypeOK
    <3> QED
      BY <3>1, TailFacts DEF Mentions
  <2> QED
    BY <2>1
<1>3. i \in service[p] /\ i \notin registration_ids[p] /\ p \notin missed => Queued("added", p, i)
  BY DEF ConvergeInv, MissingIsPending, Live
<1>4. i \in registration_ids[p] => <<p, i>> \in exported
  BY DEF TablesInv, TablesAgree
<1> QED
  BY <1>1, <1>2, <1>3, <1>4 DEF Held

(* InterfacesAdded reaches the target bus only when each of its interfaces    *)
(* can be called there, is being removed again or could not be read: for      *)
(* every tree, every number of changes of the service and every interleaving  *)
(* of them with the blocking calls of on_interfaces_added.                    *)
THEOREM AnnouncementsCorrect == Spec => AnnouncedIsExported
<1>1. ASSUME TypeOK, TablesInv, ConvergeInv, WordInv, [Next]_vars
      PROVE  [cur # NoSignal /\ cur' = NoSignal /\ stale = "no" =>
                \A i \in cur.is : \/ <<cur.p, i>> \in exported
                                  \/ Queued("removed", cur.p, i) \/ cur.p \in missed]_vars
  <2> SUFFICES ASSUME cur # NoSignal, cur' = NoSignal, stale = "no", NEW i \in cur.is
               PROVE  <<cur.p, i>> \in exported \/ Queued("removed", cur.p, i) \/ cur.p \in missed
    OBVIOUS
  <2>1. phase = "running"
    BY <1>1 DEF WordInv
  <2>2. todo = {}
    <3>1. CASE ServiceStep \/ WatchStarts \/ UNCHANGED vars
      BY <3>1 DEF ServiceStep, ServiceAdds, ServiceRemoves, ServiceEmits, ServiceLeaves, ServiceReturns, WatchStarts,
         vars, loopVars
    <3>2. CASE FetchIntrospection \/ FetchFails \/ BusAcquired \/ SetupDone \/ Terminate \/ OnServiceVanished
      BY <2>1, <3>2 DEF FetchIntrospection, FetchFails, BusAcquired, SetupDone, Terminate, OnServiceVanished, Idle
    <3>3. CASE \E k \in todo : Call(k)
      BY <3>3 DEF Call, DiscoverTree, GetManagedObjects, ProxyManagedObject, RegisterSingleInterface, NothingThere,
         CallFails
    <3>4. CASE ForwardSignal \/ IgnoreSignal \/ OnInterfacesAdded \/ OnInterfacesRemoved
      BY <3>4 DEF ForwardSignal, IgnoreSignal, OnInterfacesAdded, OnInterfacesRemoved, Dispatch, Idle
    <3>5. CASE ForwardInterfacesAdded
      BY <3>5 DEF ForwardInterfacesAdded
    <3> QED
      BY <1>1, <3>1, <3>2, <3>3, <3>4, <3>5 DEF Next, ProxyStep
  <2>3. cur.p \in Paths /\ i \in Ifaces /\ Held(queue, service[cur.p], 0, cur.p, i)
    BY <1>1, SignalFields DEF WordInv, CurWord
  <2> QED
    BY <1>1, <2>1, <2>2, <2>3, HeldIsMirrored
<1> QED
  BY <1>1, WordsInvariant, PTL DEF Spec, AnnouncedIsExported

(* on_signal_received_catchall drops the signal of an object only when that   *)
(* object is on its way out or could not be read, however far the queue lags. *)
THEOREM DropsCorrect == Spec => DroppedIsGone
<1>1. ASSUME TypeOK, TablesInv, ConvergeInv, WordInv
      PROVE  [Dispatch("signal") /\ Head(queue).p \notin proxied_objects \cup Prefixed
              /\ queue' = Tail(queue) /\ phase' # "exit" /\ stale = "no" =>
                \/ Head(queue).p \in missed
                \/ \E i \in Ifaces : Queued("removed", Head(queue).p, i)]_vars
  <2> SUFFICES ASSUME Dispatch("signal"), Head(queue).p \notin proxied_objects, stale = "no"
               PROVE  Head(queue).p \in missed \/ \E i \in Ifaces : Queued("removed", Head(queue).p, i)
    OBVIOUS
  <2>1. phase = "running" /\ todo = {} /\ queue # <<>> /\ Head(queue).k = "signal"
    BY <1>1 DEF Dispatch, Idle, TablesInv, TasksInPlace
  <2>2. 1 \in 1..Len(queue) /\ Head(queue) = queue[1]
    BY <1>1, <2>1, TailFacts DEF TypeOK
  <2>3. Head(queue).p \in Paths
    BY <1>1, <2>2, SignalFields
  <2>4. PICK i \in Ifaces : Held(queue, service[Head(queue).p], 1, Head(queue).p, i)
    BY <1>1, <2>1, <2>2 DEF WordInv, SignalWord
  <2>5. <<Head(queue).p, i>> \notin exported
    BY <1>1, <2>3 DEF TablesInv, TablesAgree
  <2> QED
    BY <1>1, <2>1, <2>3, <2>4, <2>5, HeldIsMirrored
<1> QED
  BY <1>1, WordsInvariant, PTL DEF DroppedIsGone
=============================================================================
