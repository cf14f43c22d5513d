------------------------------ MODULE SniProxy ------------------------------
(***************************************************************************)
(* The StatusNotifierItem (tray icon) proxy of dbus-proxy: the items of    *)
(* applications on the source bus appear, on the target bus, to the panel. *)
(* With renamer_mode the proxy is the watcher of an application VM and     *)
(* gives applications without a well-known name a name of its own making.  *)
(* Elsewhere such a renamer may be the watcher: it is this program too,    *)
(* and what it does is in the actions whose name begins with Other.        *)
(*                                                                         *)
(* One main loop.  A handler is a plan of steps: items to discover (todo)  *)
(* and to remove (dels), and blocking calls to an application (cur); what  *)
(* the source bus delivers meanwhile waits in queue.                       *)
(*                                                                         *)
(* Object paths, menus, icons and properties are data here: a menu call    *)
(* only takes time.  SniForward has the calls and signals of the items.    *)
(***************************************************************************)
EXTENDS Integers, Sequences, FiniteSets

CONSTANTS
  Apps,          \* unique names of applications on the source bus
  Names,         \* well-known names org.kde.StatusNotifierItem-PID-N
  Home,          \* Home[n]: the application with that PID
  Proxies,       \* names another renamer generates, and their connections
  Sync,          \* applications that block in RegisterStatusNotifierItem
  NoApp, NoCall, \* no application; no blocking call
  Modes,         \* the values of renamer_mode to look at
  Filters,       \* whether a filter may hold back NameOwnerChanged
  MaxChanges,    \* bound: steps of the applications
  MaxFailures,   \* bound: failed connections and refused registrations
  MaxEchoes      \* bound: own signals taken for the other watcher's

Keys == Apps \cup Names \cup Proxies

ASSUME ConstantsAssumption ==
  /\ Apps \cap Names = {} /\ (Apps \cup Names) \cap Proxies = {}
  /\ Home \in [Names -> Apps]
  /\ Sync \subseteq Apps /\ Modes \subseteq BOOLEAN /\ Filters \subseteq BOOLEAN
  /\ NoApp \notin Keys /\ MaxChanges \in Nat /\ MaxFailures \in Nat /\ MaxEchoes \in Nat

(* The register call, NameOwnerChanged of well-known and of unique names, our *)
(* luck with the watcher's name, and signals of the other watcher.            *)
Msg == [t : {"register"}, k : Keys, from : Apps]
         \cup [t : {"appeared", "vanished"}, k : Names, from : {NoApp}]
         \cup [t : {"gone"}, k : Apps \cup Proxies, from : {NoApp}]
         \cup [t : {"acquired", "lost"}, k : {NoApp}, from : {NoApp}]
         \cup [t : {"registered", "unregistered"}, k : Keys, from : {NoApp}]
Call     == [k : Keys, stage : {"prefetch", "acquired"}]
Advert   == [k : Keys, n : Nat] \* n = 0: the name k; otherwise proxy_PID_n

ASSUME NoCallAssumption == NoCall \notin Call

VARIABLES
  renamer,    \* renamer_mode_
  filtered,   \* the filter between the buses may hold back NameOwnerChanged
  queue,      \* messages of the source bus, not yet dispatched
  plan,       \* parts of the running handler still to come
  todo,       \* discover_and_proxy_item calls it has to make
  dels,       \* remove_item calls it has to make
  cur,        \* the blocking call it is in
  reply,      \* whom it will answer
  passive,    \* subscribed to the other watcher's signals
  st,         \* of sni_items_: absent, new, owning its name, ready, or
              \* waiting for a name it lost or stuck without an object
  uname,      \* source_unique_name
  gen,        \* gen[k]: number of the generated target_bus_name, 0 if none
  counter,    \* proxy_counter_
  registered, \* registered_items_
  panelCalls, \* RegisterStatusNotifierItem calls to the panel under way
  panel,      \* items the panel shows
  missed,     \* items a failed call hid
  failures,   \* so far, for MaxFailures
  alive,      \* applications connected to the source bus
  owned,      \* well-known names that have an owner
  pending,    \* applications whose register call has no answer
  watcher,    \* who owns org.kde.StatusNotifierWatcher: "ours", "theirs"
  oqueue,     \* the other watcher's queue
  others,     \* ... its registered_items_
  serves,     \* ... serves[p]: the application it made the name p for
  open,       \* ... those of its items' connections that are open
  echoes,     \* signals of ours that came back, for MaxEchoes
  changes     \* so far, for MaxChanges

handler == <<plan, todo, dels, cur, reply>>
items   == <<st, uname, gen, counter, registered, panelCalls, panel, missed, failures>>
other   == <<oqueue, others, serves, open>>
outside == <<alive, owned, watcher, other, changes>>
bus     == <<queue, echoes>>
vars    == <<renamer, filtered, bus, handler, passive, items, outside, pending>>

Src(k)   == IF k \in Names THEN Home[k] ELSE k
Tracked  == {k \in Keys : st[k] # "none"}
NameOf(a) == {n \in owned : Home[n] = a}
AdvertOf(k) == [k |-> k, n |-> IF renamer THEN gen[k] ELSE 0]

M(t, k, a) == [t |-> t, k |-> k, from |-> a]

(* SniProxy::SniProxy: watcher object, NameOwnerChanged, then the name. *)
Init ==
  /\ renamer \in Modes
  /\ watcher \in (IF renamer THEN {"ours"} ELSE {"ours", "theirs"})
  /\ filtered \in (IF renamer THEN {FALSE} ELSE Filters)
  /\ queue = <<M(IF watcher = "ours" THEN "acquired" ELSE "lost", NoApp, NoApp)>>
  /\ plan = <<>> /\ todo = {} /\ dels = {} /\ cur = NoCall /\ reply = NoApp
  /\ passive = FALSE
  /\ st = [k \in Keys |-> "none"] /\ uname = [k \in Keys |-> NoApp]
  /\ gen = [k \in Keys |-> 0] /\ counter = 0
  /\ registered = <<>> /\ panelCalls = {} /\ panel = {} /\ missed = {} /\ failures = 0
  /\ alive = Apps /\ owned \in SUBSET Names /\ pending = {}
  /\ others \in (IF watcher = "ours" THEN {{}} ELSE SUBSET owned)
  /\ oqueue = <<>> /\ serves = [p \in Proxies |-> NoApp] /\ open = {}
  /\ echoes = 0 /\ changes = 0
-----------------------------------------------------------------------------
(* Applications and the bus daemon. *)

Changes == changes < MaxChanges /\ changes' = changes + 1

(* The bus daemon reports what comes and goes to whoever listens.  A filter   *)
(* between it and us knows no well-known names of items, and some unique ones. *)
Report(m) ==
  /\ \/ ~ (filtered /\ m.k \in Names) /\ queue' = Append(queue, m)
     \/ filtered /\ queue' = queue
  /\ oqueue' = IF watcher = "theirs" THEN Append(oqueue, m) ELSE oqueue

(* RegisterStatusNotifierItem with a path, the unique name or any name. *)
AppRegisters(a, k) ==
  /\ Changes /\ a \in alive \ pending
  /\ k \in Names \cup {a}
  /\ IF watcher = "ours" THEN queue' = Append(queue, M("register", k, a)) /\ UNCHANGED oqueue
     ELSE oqueue' = Append(oqueue, M("register", k, a)) /\ UNCHANGED queue
  /\ pending' = pending \cup {a}
  /\ UNCHANGED <<renamer, filtered, echoes, handler, passive, items, alive, owned, watcher,
                 others, serves, open>>

AppOwns(n) ==
  /\ Changes /\ n \notin owned /\ Home[n] \in alive
  /\ owned' = owned \cup {n} /\ Report(M("appeared", n, NoApp))
  /\ UNCHANGED <<renamer, filtered, echoes, handler, passive, items, alive, watcher,
                 others, serves, open, pending>>

AppReleases(n) ==
  /\ Changes /\ n \in owned
  /\ owned' = owned \ {n} /\ Report(M("vanished", n, NoApp))
  /\ UNCHANGED <<renamer, filtered, echoes, handler, passive, items, alive, watcher,
                 others, serves, open, pending>>

(* The daemon reports the well-known names first, then the unique one. *)
AppExits(a) ==
  /\ Changes /\ a \in alive /\ NameOf(a) = {}
  /\ alive' = alive \ {a} /\ pending' = pending \ {a} /\ Report(M("gone", a, NoApp))
  /\ UNCHANGED <<renamer, filtered, echoes, handler, passive, items, owned, watcher,
                 others, serves, open>>
-----------------------------------------------------------------------------
(* Another watcher: this program as the renamer on the source bus. *)

(* It starts, and replaces us as the owner of the watcher's name. *)
OtherTakes ==
  /\ Changes /\ ~ renamer /\ watcher = "ours" /\ open = {}
  /\ watcher' = "theirs"
  /\ queue' = Append(queue, M("lost", NoApp, NoApp))
  /\ UNCHANGED <<renamer, filtered, echoes, handler, passive, items, alive, owned, other, pending>>

(* It exits.  Its connection is closed first, then those of its items. *)
OtherLeaves ==
  /\ Changes /\ watcher = "theirs"
  /\ watcher' = "ours" /\ others' = {} /\ oqueue' = <<>>
  /\ queue' = Append(queue, M("acquired", NoApp, NoApp))
  /\ pending' = pending \ {oqueue[i].from : i \in 1..Len(oqueue)}
  /\ UNCHANGED <<renamer, filtered, echoes, handler, passive, items, alive, owned, serves, open>>

OtherCloses(p) ==
  /\ watcher = "ours" /\ p \in open
  /\ open' = open \ {p} /\ Report(M("gone", p, NoApp))
  /\ UNCHANGED <<renamer, filtered, echoes, handler, passive, items, alive, owned, watcher,
                 others, serves, changes, pending>>

OtherEmits(t, k) == queue' = IF passive THEN Append(queue, M(t, k, NoApp)) ELSE queue

OtherDispatch(t) ==
  /\ watcher = "theirs" /\ oqueue # <<>> /\ Head(oqueue).t = t /\ oqueue' = Tail(oqueue)
  /\ UNCHANGED <<renamer, filtered, echoes, handler, passive, items, alive, owned, watcher, changes>>

(* discover_and_proxy_item of a well-known name: the renamer only lists it. *)
OtherLists(n) ==
  /\ others' = others \cup {n}
  /\ IF n \in others THEN UNCHANGED queue ELSE OtherEmits("registered", n)
  /\ UNCHANGED <<serves, open>>

(* ... of a unique name: it gets a connection, with a name on the same bus. *)
OtherServes(a) ==
  /\ \E p \in Proxies : serves[p] = NoApp /\ serves' = [serves EXCEPT ![p] = a] /\ open' = open \cup {p}
  /\ UNCHANGED <<queue, others>>

OtherAppeared ==
  /\ OtherDispatch("appeared") /\ OtherLists(Head(oqueue).k) /\ UNCHANGED pending

(* A caller may name itself or a name it owns.  Connections may fail. *)
OtherRegister ==
  /\ OtherDispatch("register")
  /\ LET k == Head(oqueue).k
         a == Head(oqueue).from
     IN  /\ \/ \E n \in NameOf(a) : k \in {a, n} /\ OtherLists(n)
            \/ NameOf(a) = {} /\ k = a /\ (\A p \in open : serves[p] # a) /\ OtherServes(a)
            \/ (k \in NameOf(a) \cup {a} => NameOf(a) = {}) /\ UNCHANGED <<queue, others, serves, open>>
         /\ pending' = pending \ {a}

(* on_item_name_acquired: the generated name is listed and announced. *)
OtherAdvertises(p) ==
  /\ watcher = "theirs" /\ p \in open \ others
  /\ others' = others \cup {p} /\ OtherEmits("registered", p)
  /\ UNCHANGED <<renamer, filtered, echoes, handler, passive, items, alive, owned, watcher,
                 oqueue, serves, open, changes, pending>>

(* remove_item of a well-known name. *)
OtherVanished ==
  /\ OtherDispatch("vanished")
  /\ LET n == Head(oqueue).k
     IN  IF n \in others THEN OtherEmits("unregistered", n) ELSE UNCHANGED queue
  /\ others' = others \ {Head(oqueue).k} /\ UNCHANGED <<serves, open, pending>>

(* ... of a unique one: the connection is closed, the generated name stays in *)
(* the list and the unique name is announced.                                 *)
OtherGone ==
  /\ OtherDispatch("gone")
  /\ LET a == Head(oqueue).k
         P == {p \in open : serves[p] = a}
     IN  IF P = {} THEN UNCHANGED <<queue, open>>
         ELSE \E p \in P :
                /\ open' = open \ {p}
                /\ LET told == IF passive THEN <<M("unregistered", a, NoApp)>> ELSE <<>>
                       lost == <<M("gone", p, NoApp)>>
                   IN  queue' = queue \o lost \o told \/ (filtered /\ queue' = queue \o told)
  /\ UNCHANGED <<others, serves, pending>>
-----------------------------------------------------------------------------
(* What fails on the target bus hides the item. *)
Misses(k) == failures < MaxFailures /\ failures' = failures + 1 /\ missed' = missed \cup {k}

(* The panel answers our registration of k, or there is no panel. *)
PanelAnswers(k) ==
  /\ k \in panelCalls
  /\ panelCalls' = panelCalls \ {k}
  /\ \/ panel' = panel \cup {k} /\ UNCHANGED <<missed, failures>>
     \/ Misses(k) /\ UNCHANGED panel
  /\ UNCHANGED <<renamer, filtered, bus, handler, passive, st, uname, gen, counter, registered, outside, pending>>
-----------------------------------------------------------------------------
(* The main loop. *)

Free == cur = NoCall /\ dels = {} /\ todo = {}
Idle == Free /\ plan = <<>> /\ reply = NoApp

Dispatch(t) == /\ Idle /\ queue # <<>> /\ Head(queue).t = t
               /\ queue' = Tail(queue)

(* Our own ItemRegistered and ItemUnregistered come back to us if we own the  *)
(* watcher's name and are still subscribed to its signals.  They can go on    *)
(* for ever, each causing the next: MaxEchoes of them are followed.           *)
Emit(t, k) ==
  IF passive /\ watcher = "ours" /\ echoes < MaxEchoes
  THEN queue' = Append(queue, M(t, k, NoApp)) /\ echoes' = echoes + 1
  ELSE UNCHANGED bus

(* Mutant: a name the caller does not own is ignored. *)
HandleRegister_NoDenial ==
  /\ Dispatch("register")
  /\ LET k == Head(queue).k
         a == Head(queue).from
     IN  IF k = a \/ k \in NameOf(a)
         THEN todo' = {k} /\ reply' = a
         ELSE UNCHANGED <<todo, reply>>
  /\ UNCHANGED <<renamer, filtered, echoes, plan, dels, cur, passive, items, outside, pending>>

(* on_watcher_method_call: an application names itself or a name it owns. *)
HandleRegister ==
  /\ Dispatch("register")
  /\ LET k == Head(queue).k
         a == Head(queue).from
     IN  IF k = a \/ k \in NameOf(a)
         THEN todo' = {k} /\ reply' = a /\ UNCHANGED pending
         ELSE pending' = pending \ {a} /\ UNCHANGED <<todo, reply>>
  /\ UNCHANGED <<renamer, filtered, echoes, plan, dels, cur, passive, items, outside>>

SendReply ==
  /\ reply # NoApp /\ Free /\ plan = <<>>
  /\ pending' = pending \ {reply} /\ reply' = NoApp
  /\ UNCHANGED <<renamer, filtered, bus, plan, todo, dels, cur, passive, items, outside>>

(* on_name_owner_changed *)
HandleAppeared ==
  /\ Dispatch("appeared")
  /\ todo' = {Head(queue).k}
  /\ UNCHANGED <<renamer, filtered, echoes, plan, dels, cur, reply, passive, items, outside, pending>>

HandleVanished ==
  /\ Dispatch("vanished")
  /\ dels' = {Head(queue).k}
  /\ UNCHANGED <<renamer, filtered, echoes, plan, todo, cur, reply, passive, items, outside, pending>>

(* Mutant: only items whose recorded owner it was. *)
HandleGone_ByOwner ==
  /\ Dispatch("gone")
  /\ dels' = {k \in Tracked : uname[k] = Head(queue).k}
  /\ UNCHANGED <<renamer, filtered, echoes, plan, todo, cur, reply, passive, items, outside, pending>>

HandleGone ==
  /\ Dispatch("gone")
  /\ dels' = {k \in Tracked : uname[k] = Head(queue).k} \cup ({Head(queue).k} \cap Apps \cap Tracked)
  /\ UNCHANGED <<renamer, filtered, echoes, plan, todo, cur, reply, passive, items, outside, pending>>

(* on_watcher_name_acquired: initial_scan, unless we are the renamer. *)
HandleAcquired ==
  /\ Dispatch("acquired")
  /\ plan' = IF renamer THEN <<>> ELSE <<"scan">>
  /\ UNCHANGED <<renamer, filtered, echoes, todo, dels, cur, reply, passive, items, outside, pending>>

SubscribeToPassiveWatcherSignals == passive' = TRUE

(* Mutant: the items under unique names stay. *)
HandleLost_KeepsItems ==
  /\ Dispatch("lost")
  /\ SubscribeToPassiveWatcherSignals
  /\ plan' = <<"scan", "boot">>
  /\ UNCHANGED <<renamer, filtered, echoes, todo, dels, cur, reply, items, outside, pending>>

(* on_watcher_name_lost: items without a well-known name go. *)
HandleLost ==
  /\ Dispatch("lost")
  /\ dels' = Tracked \cap Apps
  /\ SubscribeToPassiveWatcherSignals
  /\ plan' = <<"scan", "boot">>
  /\ UNCHANGED <<renamer, filtered, echoes, todo, cur, reply, items, outside, pending>>

(* Mutant: nothing is scanned. *)
InitialScan_Skipped ==
  /\ Free /\ plan # <<>> /\ Head(plan) = "scan"
  /\ plan' = Tail(plan)
  /\ UNCHANGED <<renamer, filtered, bus, todo, dels, cur, reply, passive, items, outside, pending>>

(* initial_scan: ListNames. *)
InitialScan ==
  /\ Free /\ plan # <<>> /\ Head(plan) = "scan"
  /\ plan' = Tail(plan) /\ todo' = owned
  /\ UNCHANGED <<renamer, filtered, bus, dels, cur, reply, passive, items, outside, pending>>

(* RegisteredStatusNotifierItems of the other watcher. *)
Bootstrap ==
  /\ Free /\ plan # <<>> /\ Head(plan) = "boot"
  /\ plan' = Tail(plan) /\ todo' = others
  /\ UNCHANGED <<renamer, filtered, bus, dels, cur, reply, passive, items, outside, pending>>

(* on_passive_item_registered, on_passive_item_unregistered *)
HandleItemRegistered ==
  /\ Dispatch("registered")
  /\ todo' = {Head(queue).k}
  /\ UNCHANGED <<renamer, filtered, echoes, plan, dels, cur, reply, passive, items, outside, pending>>

HandleItemUnregistered ==
  /\ Dispatch("unregistered")
  /\ dels' = {Head(queue).k}
  /\ UNCHANGED <<renamer, filtered, echoes, plan, todo, cur, reply, passive, items, outside, pending>>

-----------------------------------------------------------------------------
(* discover_and_proxy_item *)

(* resolve_unique_to_wellknown: one of the names an application owns. *)
Resolve(k) == IF k \in Apps /\ NameOf(k) # {} THEN NameOf(k) ELSE {k}

(* Mutant: the name is taken for its owner. *)
OwnerOf_Name(k) == k

(* GetNameOwner *)
OwnerOf(k) == IF k \in owned THEN Home[k] ELSE IF k \in open THEN k ELSE NoApp

AlreadyTracked(k) ==
  /\ k \in todo /\ cur = NoCall /\ dels = {}
  /\ \E j \in Resolve(k) : st[j] # "none"
  /\ todo' = todo \ {k}
  /\ UNCHANGED <<renamer, filtered, bus, plan, dels, cur, reply, passive, items, outside, pending>>

NewItem(k) ==
  /\ todo # {} /\ cur = NoCall /\ dels = {}
  /\ \E t \in todo : k \in Resolve(t) /\ todo' = todo \ {t}
  /\ st[k] = "none"

(* The renamer only advertises an application that has a well-known name. *)
DiscoverDirect(k) ==
  /\ NewItem(k) /\ renamer /\ k \in Names
  /\ st' = [st EXCEPT ![k] = "ready"] /\ uname' = [uname EXCEPT ![k] = OwnerOf(k)]
  /\ registered' = Append(registered, [k |-> k, n |-> 0])
  /\ Emit("registered", k)
  /\ UNCHANGED <<renamer, filtered, plan, dels, cur, reply, passive, gen, counter,
                 panelCalls, panel, missed, failures, outside, pending>>

(* Any other item gets a connection of its own; then, unless we are the      *)
(* renamer, its menu is asked for, and its name is requested.                *)
DiscoverItem(k) ==
  /\ NewItem(k) /\ (renamer => k \in Apps)
  /\ counter' = IF k \in Apps THEN counter + 1 ELSE counter
  /\ gen' = [gen EXCEPT ![k] = IF k \in Apps THEN counter + 1 ELSE 0]
  /\ uname' = [uname EXCEPT ![k] = OwnerOf(k)]
  /\ st' = [st EXCEPT ![k] = IF renamer THEN "owning" ELSE "new"]
  /\ cur' = IF renamer THEN NoCall ELSE [k |-> k, stage |-> "prefetch"]
  /\ UNCHANGED <<renamer, filtered, bus, plan, dels, reply, passive, registered,
                 panelCalls, panel, missed, failures, outside, pending>>

(* No connection to the target bus, or for the renamer no owner id: the item *)
(* is dropped again.                                                         *)
DiscoverFails(k) ==
  /\ NewItem(k) /\ (renamer => k \in Apps) /\ Misses(k)
  /\ counter' = IF k \in Apps THEN counter + 1 ELSE counter
  /\ UNCHANGED <<renamer, filtered, bus, plan, dels, cur, reply, passive, st, uname, gen,
                 registered, panelCalls, panel, outside, pending>>

(* The application answers, refuses or is waited for in vain. *)
MenuPrefetched ==
  /\ cur # NoCall /\ cur.stage = "prefetch"
  /\ st' = [st EXCEPT ![cur.k] = "owning"]
  /\ cur' = NoCall
  /\ UNCHANGED <<renamer, filtered, bus, plan, todo, dels, reply, passive, uname, gen, counter,
                 registered, panelCalls, panel, missed, failures, outside, pending>>

(* Its name cannot be asked for: owner id 0. *)
OwnNameFails ==
  /\ cur # NoCall /\ cur.stage = "prefetch" /\ Misses(cur.k)
  /\ st' = [st EXCEPT ![cur.k] = "none"] /\ uname' = [uname EXCEPT ![cur.k] = NoApp]
  /\ gen' = [gen EXCEPT ![cur.k] = 0]
  /\ cur' = NoCall
  /\ UNCHANGED <<renamer, filtered, bus, plan, todo, dels, reply, passive, counter, registered,
                 panelCalls, panel, outside, pending>>

Asking(k) == Idle /\ st[k] \in {"owning", "waiting"}

(* on_item_name_lost says so and leaves it there: the name is another's, for  *)
(* now, or the item's connection has been closed.                             *)
ItemNameLost(k) ==
  /\ Idle /\ st[k] \in {"owning", "ready"} /\ (renamer => k \in Apps) /\ Misses(k)
  /\ st' = [st EXCEPT ![k] = IF @ = "owning" THEN "waiting" ELSE @]
  /\ panelCalls' = panelCalls \ {k} /\ panel' = panel \ {k}
  /\ UNCHANGED <<renamer, filtered, bus, handler, passive, uname, gen, counter, registered, outside, pending>>

(* on_item_name_acquired: the object cannot be registered, ... *)
ItemNotExported(k) ==
  /\ Asking(k) /\ Misses(k)
  /\ st' = [st EXCEPT ![k] = "stuck"]
  /\ UNCHANGED <<renamer, filtered, bus, handler, passive, uname, gen, counter, registered,
                 panelCalls, panel, outside, pending>>

(* ... or it can; the call to the application comes next ... *)
ItemNameAcquired(k) ==
  /\ Asking(k)
  /\ cur' = [k |-> k, stage |-> "acquired"]
  /\ UNCHANGED <<renamer, filtered, bus, plan, todo, dels, reply, passive, items, outside, pending>>

(* ... and from there: ready, advertised, registered with the panel. *)
ItemReady ==
  /\ cur # NoCall /\ cur.stage = "acquired"
  /\ st' = [st EXCEPT ![cur.k] = "ready"]
  /\ registered' = Append(registered, AdvertOf(cur.k))
  /\ Emit("registered", cur.k)
  /\ panelCalls' = IF renamer THEN panelCalls ELSE panelCalls \cup {cur.k}
  /\ cur' = NoCall
  /\ UNCHANGED <<renamer, filtered, plan, todo, dels, reply, passive, uname, gen, counter,
                 panel, missed, failures, outside, pending>>

(* remove_item.  The panel notices that the item's connection is closed.  The *)
(* entry of registered_items_ is looked for under the name of the source bus. *)
FirstAt(k) == {i \in 1..Len(registered) : /\ registered[i] = [k |-> k, n |-> 0]
                                          /\ \A j \in 1..(i - 1) : registered[j] # registered[i]}

Without(i) == SubSeq(registered, 1, i - 1) \o SubSeq(registered, i + 1, Len(registered))

Discard(k) ==
  /\ st' = [st EXCEPT ![k] = "none"] /\ uname' = [uname EXCEPT ![k] = NoApp]
  /\ gen' = [gen EXCEPT ![k] = 0]
  /\ panelCalls' = panelCalls \ {k} /\ panel' = panel \ {k}
  /\ Emit("unregistered", k)

(* Mutant: the entry stays in registered_items_. *)
RemoveItem_KeepsEntry(k) ==
  /\ k \in dels /\ cur = NoCall
  /\ dels' = dels \ {k}
  /\ IF st[k] = "none" THEN UNCHANGED <<bus, items>>
     ELSE Discard(k) /\ UNCHANGED <<counter, registered, missed, failures>>
  /\ UNCHANGED <<renamer, filtered, plan, todo, cur, reply, passive, outside, pending>>

RemoveItem(k) ==
  /\ k \in dels /\ cur = NoCall
  /\ dels' = dels \ {k}
  /\ IF st[k] = "none" THEN UNCHANGED <<bus, items>>
     ELSE /\ Discard(k)
          /\ registered' = IF FirstAt(k) = {} THEN registered
                           ELSE Without(CHOOSE i \in FirstAt(k) : TRUE)
          /\ UNCHANGED <<counter, missed, failures>>
  /\ UNCHANGED <<renamer, filtered, plan, todo, cur, reply, passive, outside, pending>>
-----------------------------------------------------------------------------
AppStep ==
  \/ \E a \in Apps : \/ \E k \in Keys : AppRegisters(a, k)
                     \/ AppExits(a)
  \/ \E n \in Names : AppOwns(n) \/ AppReleases(n)

OtherHandles == OtherAppeared \/ OtherRegister \/ OtherVanished \/ OtherGone
OtherStep    == \/ OtherTakes \/ OtherLeaves \/ OtherHandles
                \/ \E p \in Proxies : OtherCloses(p) \/ OtherAdvertises(p)

LoopStep ==
  \/ HandleRegister \/ SendReply \/ HandleAppeared \/ HandleVanished \/ HandleGone
  \/ HandleAcquired \/ HandleLost \/ InitialScan \/ Bootstrap
  \/ HandleItemRegistered \/ HandleItemUnregistered
  \/ MenuPrefetched \/ OwnNameFails \/ ItemReady
  \/ \E k \in Keys : \/ AlreadyTracked(k) \/ DiscoverDirect(k)
                     \/ DiscoverItem(k) \/ DiscoverFails(k) \/ RemoveItem(k)

TargetBus == \E k \in Keys : ItemNameAcquired(k) \/ ItemNameLost(k) \/ ItemNotExported(k)
Panel     == \E k \in Keys : PanelAnswers(k)

Next == AppStep \/ OtherStep \/ LoopStep \/ TargetBus \/ Panel

Spec == Init /\ [][Next]_vars

(* Blocking calls return or time out and the main loop goes on.  The target   *)
(* bus says of each name whether we have it, and the panel answers.           *)
(* Applications may do nothing, and the other watcher need not come or go,    *)
(* but while it runs its main loop goes on like ours.                         *)
Asked     == \E k \in Keys : /\ st[k] = "owning"
                             /\ ItemNameAcquired(k) \/ ItemNameLost(k) \/ ItemNotExported(k)
FairSpec  == /\ Spec /\ WF_vars(LoopStep) /\ WF_vars(Asked) /\ WF_vars(Panel)
             /\ WF_vars(OtherHandles)
-----------------------------------------------------------------------------
(* Type invariant. *)
TypeOK ==
  /\ renamer \in BOOLEAN /\ filtered \in BOOLEAN /\ passive \in BOOLEAN
  /\ queue \in Seq(Msg) /\ plan \in {<<>>, <<"scan">>, <<"scan", "boot">>, <<"boot">>}
  /\ todo \subseteq Keys /\ dels \subseteq Keys
  /\ cur \in Call \cup {NoCall} /\ reply \in Apps \cup {NoApp}
  /\ st \in [Keys -> {"none", "new", "owning", "waiting", "stuck", "ready"}]
  /\ uname \in [Keys -> Apps \cup Proxies \cup {NoApp}] /\ gen \in [Keys -> Nat] /\ counter \in Nat
  /\ registered \in Seq(Advert)
  /\ panelCalls \subseteq Keys /\ panel \subseteq Keys /\ missed \subseteq Keys
  /\ failures \in Nat /\ changes \in Nat
  /\ alive \subseteq Apps /\ owned \subseteq Names /\ pending \subseteq Apps
  /\ watcher \in {"ours", "theirs"} /\ others \subseteq Names \cup Proxies
  /\ oqueue \in Seq(Msg) /\ serves \in [Proxies -> Apps \cup {NoApp}] /\ open \subseteq Proxies
  /\ echoes \in Nat

Ready == {k \in Keys : st[k] = "ready"}

(* RegisteredStatusNotifierItems is what the proxy proxies: every ready item  *)
(* once, under the name it was announced with, and nothing else.  The         *)
(* renamer's list keeps the generated names of items it removed.              *)
ListMatchesItems ==
  ~ renamer =>
  /\ \A i, j \in 1..Len(registered) : registered[i] = registered[j] => i = j
  /\ {registered[i] : i \in 1..Len(registered)} = {AdvertOf(k) : k \in Ready}

Live(k) == k \in alive \cup owned \cup open

Quiet == /\ Idle /\ queue = <<>> /\ panelCalls = {} /\ \A k \in Keys : st[k] # "owning"
         /\ IF watcher = "theirs" THEN oqueue = <<>> ELSE open = {}

(* The subscriptions to another watcher's signals stay when its name is ours  *)
(* again: our own ItemRegistered and ItemUnregistered then look like its.     *)
NoEcho == echoes = 0

(* Once nothing is left to do the tray is right, whatever the order of scan,  *)
(* registrations, NameOwnerChanged and the other watcher's list and signals.  *)
(* If NameOwnerChanged gets through, no item is left of what is gone, save    *)
(* one another watcher told us of that had gone by then (uname is NoApp).     *)
NoneLeftOver ==
  ~ filtered => \A k \in Tracked : Live(k) \/ (passive /\ k \notin Apps /\ uname[k] = NoApp)

(* If it gets through or another watcher tells us, no application with a      *)
(* well-known name is forgotten, nor one that watcher serves ...              *)
NoneForgotten ==
  ~ filtered \/ watcher = "theirs" =>
    /\ owned \subseteq Ready \cup missed
    /\ watcher = "theirs" => others \cap open \subseteq Ready \cup missed

(* ... and the panel shows what is ready, unless a call failed. *)
PanelShows == Ready \ missed \subseteq panel /\ panel \subseteq Ready

ItemsConverge == Quiet /\ NoEcho => NoneLeftOver /\ (renamer \/ (NoneForgotten /\ PanelShows))

(* While another watcher is in charge no item goes by a unique name, which    *)
(* the filter between the buses would not let through.                        *)
NoUniqueWhilePassive ==
  /\ passive /\ watcher = "theirs" /\ dels = {}
  /\ \A i \in 1..Len(queue) : queue[i].t # "lost"
  => Tracked \cap Apps = {}

(* Every registration is answered, although the application that waits for   *)
(* the answer may be the one the proxy waits for.                            *)
RegisterAnswered == \A a \in Apps : a \in pending ~> a \notin pending

(* An application that keeps its well-known name gets its icon, whoever is   *)
(* the watcher.                                                              *)
LiveNameShown ==
  \A n \in Names :
    n \in owned ~> n \notin owned \/ st[n] = "ready" \/ n \in missed \/ renamer \/ ~ NoEcho
                  \/ (filtered /\ watcher = "ours")
-----------------------------------------------------------------------------
(* A comment of proxy.cpp the code departs from. *)

(* "This avoids deadlock: apps that call RegisterStatusNotifierItem           *)
(* synchronously block until our reply is sent": the proxy never waits for an *)
(* application that waits for it.                                             *)
NoMutualWait == cur # NoCall => ~ (Src(cur.k) \in Sync /\ Src(cur.k) = reply)
=============================================================================
