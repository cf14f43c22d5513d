# Verification of ghafpkgs

TLA+ models of the programs in this repository that keep state across
concurrent events, the TLC runs that check them on small instances, and TLAPS
proofs of their main invariants for every value of the constants. Paths below
are relative to `src/packages/`.

## 1. Inventory

The repository packages independent programs for the virtual machines of the
Ghaf platform. They interact through D-Bus, vsock, QMP and sockets, not through
shared state, so each is a component with an environment of its own.

| Component | State it keeps | Operations | What is hard | What makes it correct |
|---|---|---|---|---|
| **dbus-proxy, agent registry** (`cpp/dbus-proxy/dbus-proxy/callback-handling.cpp`, `callback-rules.cpp`, `handlers.cpp`) | `agents_registry`, objects exported on the source bus, name-owner subscriptions, calls awaiting a reply | Register\*, Unregister\*, other calls, replies, callbacks of the service, NameOwnerChanged | two bus connections, clients that disappear, a handler that blocks in a synchronous call, timeouts | registry and exported objects agree; the service keeps no agent the proxy forgot; every call is answered once |
| **dbus-proxy, object mirror** (`proxy_core.cpp`, `handlers.cpp`, `dbus-proxy.cpp`) | `proxied_objects`, `registered_objects`, `node_info_cache`, the registration ids of each object, the name on the target bus | discovery, InterfacesAdded, InterfacesRemoved, forwarding of signals, loss of the service, clean-up | discovery reads the tree with many blocking calls while it changes; signals wait meanwhile; failed calls; restarts | tables agree; the mirror ends up equal to the service; announcements are not early; the process exits when the service does |
| **dbus-proxy, StatusNotifierItem proxy** (`sni/proxy.cpp`, `sni/proxy.h`) | `sni_items_`, `registered_items_`, a connection per item, cached pixmaps and menu paths, the subscriptions to another watcher | scan, RegisterStatusNotifierItem, NameOwnerChanged, change of the watcher, calls, properties and signals of items | applications reported by four sources in any order, blocking calls inside handlers, clicks sent late, the watcher's name changing hands | the tray shows the live items; every call is answered; clicks arrive once and in order; icons are fresh |
| **vsockproxy** (`cpp/vsockproxy/vsockproxy.c`) | pairs of `struct client`, a buffer per direction, epoll interest, the queue of closed connections | accept, connect completion, input, output, hang-up, deferred free | stale events of a batch, partial sends, a non-blocking connect in progress, descriptor reuse | no freed struct is used; epoll is asked for what the buffers need; streams are intact; data does not stall |
| **ghaf-mem-manager** (`rust/ghaf-mem-manager`) | balloon targets, QMP connection | poll, adjust, QMP commands and events, reconnection | integer arithmetic at the limits, reply/event interleaving, VM shutdown | targets stay in bounds; replies go to the request they answer |
| **ghaf-nw-packet-forwarder** (`rust/ghaf-nw-packet-forwarder`) | rate-limiter buckets, Chromecast pinholes, interface table | packet in either direction, clean-up tick, configuration events | clean-up against traffic, expiry at a boundary, shared maps | a limit holds in any window; a pinhole is not closed while in use |
| **ghaf-audio-control** (`cpp/ghaf-audio-control`) | device maps, a Meta device (group of streams) per VM, the PulseAudio context, at most 50 subscribers | context and subscription callbacks, info callbacks, D-Bus methods | answers older than the events that follow them, streams that start while a group's volume changes, the default asked for separately from the devices | backend and subscribers converge to the server; groups hold exactly the live streams, at their VM's volume |
| **swtpm-proxy-shim** (`go/swtpm-proxy-shim`) | control channel, back-end connections, copy goroutines | handshake, dial with retries, close | two goroutines per connection, close from either end | both ends are closed in the end; a retry does not leak |
| **ghaf-usb-passthrough-applet, ghaf-usb-applet, ghaf-kill-switch-app, gps-websock** | a device list or switch states, a connection | requests, event streams, asynchronous results | results out of order, reconnection | the view follows the last answer |
| vinotify, ldap-query, qubes-ctap, QEMU patches and devices, art, packaging | none of their own, or third-party | | | not modelled, see section 8 |

`PROJECT.json` lists every component with its sources and, under `hazards`, the
places of the code that are hard to test with the properties that cover them.

## 2. Plan

Done, in this order:

1. `AgentRegistry`, `MCAgentRegistry`, `AgentRegistry_proofs`.
2. `VsockProxy`, `MCVsockProxy`, `VsockProxy_proofs`.
3. `ObjectMirror`, `MCObjectMirror`, `ObjectMirror_proofs`.
4. `Relay`, the abstract specification `VsockProxy` refines.
5. `SniProxy` (which items there are) and `SniForward` (their calls and
   signals), with an MC module and a proof module each.
6. `AudioControl`, `MCAudioControl`, `AudioControl_proofs`.

Next:

7. `MemManager`: the balloon policy as operators on bounded integers, checked
   against a reference definition, and the QMP task (request, reply, event,
   reconnection) as a state machine that refines an abstract request/response
   service.
8. `RateLimiter` and `Pinholes` of the packet forwarder; an abstract "at most
   N in any window" specification that the limiter is compared with.
9. `SwtpmShim`: the goroutines of a connection and their ends.
10. The USB applets' clients and the kill switch, if time allows.
11. `DBusProxy`, composing `AgentRegistry` and `ObjectMirror`: an agent of a
    client and a mirrored manager object that goes away with the service.

Every invariant and action property the runs check, and the refinement, has a
theorem (section 5). The next ones come with the next modules: the bounds of
the balloon policy, the QMP task's refinement, the limiter's window.

## 3. Modules and code

### AgentRegistry

One proxy between the clients of the target bus and one service of the source
bus. `registry`, `exported` and `nextId` are `agents_registry` and what GDBus
hands out; `inbox`, `toServer` and `fromServer` are the FIFO connections a
message bus gives; `evicting` and `sync` are the program counter of
`on_name_owner_changed`, the only handler that blocks.

| Action | Code |
|---|---|
| `HandleRegister` (`RegisterAgain`, `RegisterNew`, `RegisterRaw`) | `handle_agent_register_call`: the owner registered the path already, a new entry, no rule |
| `HandleUnregister` (`UnregisterFound`, `UnregisterUnknown`) | `handle_agent_unregister_call` |
| `HandleOther`, `HandleReply`, `CallTimeout` | `handle_method_call_generic`, `method_call_reply_callback`, GDBus timeout |
| `HandleNameOwnerChanged`, `EvictCall`, `EvictRemove`, `EvictEnd` | `on_name_owner_changed` and its loop |
| `HandleAgentCall` | a callback of the service: `handle_method_call_generic`, `get_agent_name`. It only leaves the queue, since forwarding it or refusing it changes no state of the proxy |
| `Shutdown` | end of the main loop |

The clients, the bus and the service are external: clients call, disconnect
and release names at any time; the service accepts or refuses, answers late or
never and calls agents back.

### ObjectMirror

`phase` is the life of the process, `todo` the blocking calls the running
handler has still to make, `queue` what the bus delivered meanwhile. The four
tables have the names they have in the code; `exported` is GDBus's own.

| Action | Code |
|---|---|
| `FetchIntrospection`, `FetchFails` | `fetch_introspection_data`, its error path in `main` |
| `BusAcquired`, `SetupDone` | `on_bus_acquired_for_owner`, `setup_proxy_interfaces` |
| `DiscoverTree`, `GetManagedObjects`, `ProxyManagedObject` | `discover_and_proxy_object_tree`, `proxy_object_manager_objects`, `proxy_single_object` |
| `RegisterSingleInterface`, `NothingThere`, `CallFails` | `register_single_interface`; absent objects; failed calls |
| `OnInterfacesAdded`, `ForwardInterfacesAdded` | `on_interfaces_added` and the forwarding at its end |
| `OnInterfacesRemoved`, `ForwardSignal`, `IgnoreSignal` | `on_interfaces_removed`, `on_signal_received_catchall` |
| `WatchStarts`, `OnServiceVanished`, `Terminate`, `CleanupProxyState` | `g_bus_watch_name`, `on_service_vanished`, `signal_handler`, `cleanup_proxy_state` |

Abstractions. The standard interfaces, which every object has, are left out,
so an object without interfaces is one the proxy skips. The tree is a
constant; which of its nodes exist depends on the service. The nodes of a walk
are visited in any order (the code goes depth first in the order of the XML).
The service announces its changes below the root with ObjectManager signals,
as the code relies on. The watch becomes effective before or after discovery,
because GLib asks for the owner asynchronously. Malformed signals, which the
handlers ignore, are left out, and so is the forwarding of the InterfacesRemoved
signal itself by the catch-all, which changes no state.

### VsockProxy

A pair is two `struct client`s; `state` says whether the memory is free and
how far the connection got. `batch` holds the events `epoll_pwait` returned
and not yet taken, `cur` the one being handled with the flags still to be
looked at, so that a peer acts between two flags of one event. Data are
numbered units: unit *k* of a stream is *k*, which makes loss, repetition and
reordering visible.

| Action | Code |
|---|---|
| `EpollWait`, `TakeEvent`, `EventDone` | `epoll_pwait`, the loop over the events with its skip of closed connections |
| `Accept` (`AcceptConnected`, `AcceptInProgress`, `AcceptAborted`), `AcceptDenied`, `AcceptFails` | the branch for the listening socket: `connect` done, in progress, refused; CID not allowed; `accept` fails |
| `InEof`, `InData`, `InSendFails` | the EPOLLIN branch |
| `OutConnected`, `OutConnectFails`, `OutData`, `OutSendFails` | the EPOLLOUT branch, `start_receive` included |
| `Hup`, `CloseConnections`, `SwitchMod` | the EPOLLRDHUP/HUP/ERR branch, the closing of a pair, `switch_mod` |
| `FlushClosedConnections` | the frees at the end of a batch |

The two early `continue`s, for input with data still in the buffer and for a
`send` that would block, are in `EventDone`; no reachable state takes them,
since epoll is not asked for such an event and reports it only when it is true.
Statistics and options are left out. The process is
assumed not to be killed by SIGPIPE (listed as a hazard).

### Relay

What vsockproxy promises, without epoll, events, memory or partial sends: per
direction of an open pair a channel that holds at most `Cap` units. `Move`
carries units in and out, `Close` ends a pair and loses what is on the way,
`Begin` starts one with empty channels. `VsockProxy` instantiates it as `R`: a
pair is open from `accept` to `close_connections`, `taken` is `read`, and what
is read and not delivered is on the way.

### SniProxy

Which items the tray has. A handler is a plan of steps (`plan`, `todo`,
`dels`, `cur`), because `discover_and_proxy_item` blocks in calls to the
application while messages of the source bus wait in `queue`. An item is named
by the well-known name or the unique name it was found under; `st` is how far
its connection to the target bus got.

| Action | Code (`sni/proxy.cpp`) |
|---|---|
| `HandleRegister`, `SendReply` | RegisterStatusNotifierItem with its discovery and its reply |
| `HandleAppeared`, `HandleVanished`, `HandleGone` | NameOwnerChanged of a well-known and of a unique name |
| `HandleAcquired`, `HandleLost`, `InitialScan`, `Bootstrap` | the watcher's name acquired and lost, the scan of the bus, the other watcher's list |
| `HandleItemRegistered`, `HandleItemUnregistered` | the other watcher's signals |
| `AlreadyTracked`, `DiscoverDirect`, `DiscoverItem`, `DiscoverFails` | `discover_and_proxy_item` and its returns |
| `MenuPrefetched`, `OwnNameFails` | the blocking Get of Menu, then the request for the item's name, which may fail at once |
| `ItemNameAcquired`, `ItemReady`, `ItemNotExported` | `on_item_name_acquired` to the registration with the panel, or to the object that cannot be registered |
| `ItemNameLost` | `on_item_name_lost`: the name is refused or lost, the item stays in `sni_items_` |
| `RemoveItem` | `remove_item` |
| `OtherTakes`, `OtherLeaves`, `OtherAppeared`, `OtherRegister`, `OtherAdvertises`, `OtherVanished`, `OtherGone` | the same program as the renamer on the source bus: `own_watcher_name`, `discover_and_proxy_item`, `on_item_name_acquired`, `remove_item` in renamer mode |

The other watcher is this program. It lists well-known names (`others`), gives
an application without one a connection of its own with a generated name
(`serves`, `open`), and when that application goes it closes the connection,
keeps the generated name in its list and announces the unique name, as lines
1971-1984 do. What its own main loop has still to handle is in `oqueue`. A
connection it generates is named like its owner in `Proxies`.

The bus daemon reports owners to both (`Report`). With `filtered` a filter
stands between it and the proxy, as the comment at lines 878-882 describes: it
passes no NameOwnerChanged of well-known names, and of unique ones only some.

Applications, the bus, the filter and the panel are external. An application
may own any number of the names with its PID. Object paths, icons and
properties are data; every application has a menu and the call that asks for
it only takes time. A call to the target bus that fails hides an item
(`missed`); how many do is bounded by `MaxFailures`. Signals of our own that
come back after the name was theirs and is ours again are counted (`echoes`).

### SniForward

What happens between the panel and the items once they exist. The main loop
blocks in one call at most (`cur`); asynchronous calls are `inflight` and then
in `replies`; `wire[i]` is the order in which application *i* gets what was
sent to it. `icon` is the application's, `cache` the proxy's, `shown` the
panel's.

| Action | Code (`sni/proxy.cpp`) |
|---|---|
| `ItemNameAcquired`, `ItemUp` | subscription to the signals, first Get, cached menu path and pixmap |
| `HandleClick`, `ForwardClick` | Activate and its like: answered at once, sent after 50 ms |
| `HandleCall`, `MethodReply`, `CallTimesOut` | other calls, asynchronous, with a timeout |
| `GetCached`, `HandleProperty`, `PropertyReply`, `SyncTimesOut` | properties from the cache or by a blocking call |
| `ForwardSignal`, `IconRefreshed`, `IgnoreSignal` | `on_signal_received`, the refresh of the pixmap before NewIcon goes on |
| `RemoveItem` | `remove_item`: the connection closes and the panel's calls fail |

### AudioControl

Backend, groups and D-Bus service in one module, since they run in one main
loop and call each other. `requests` and `messages` are the two directions of
the connection to PulseAudio, which is external: it answers in order and sends
events to who subscribed.

| Action | Code (`cpp/ghaf-audio-control/src`) |
|---|---|
| `ContextReady`, `ContextFails` | `contextStateCallback` |
| `ServerInfoCallback`, `OnServerEvent`, `OnDeviceEvent` | `serverInfoCallback`, `subscribeCallback` |
| `AddDevice`, `UpdateDevice`, `DeleteDevice` | `OnPulseDeviceInfo`, `DeletePulseDevice`, the signals of `SignalMap` with everything connected to them: `MetaDeviceManager`, `App::sendDeviceUpdateToDbus` |
| `SetDeviceVolume`, `SetMetaVolume`, `MakeDeviceDefault` | the methods of the service, `GeneralDevice`, `Sink`, `Source`, `MetaDevice` |
| `Subscribe`, `Unsubscribe` | the subscription method and its bounded list of clients |

Volume stands for volume and mute, which take the same way. The server has
volumes of PulseAudio (65536 is 100 %); what the program keeps are percents,
rounded and cut off at 100 (`PercentOf`, from `FromPulseAudioVolume` and
`Volume`), and what it sets is converted back without the fraction
(`PulseOf`). The lists of all kinds are one request. Indices are never reused,
as in PulseAudio. Cards, and the Meta devices in what subscribers are told, are
left out.

## 4. Runs

| Run | Shows |
|---|---|
| `agent_safety` | three register/unregister calls of two clients on two paths, with disconnects, a released name, refusals, timeouts and blocking evictions: `RegistryMatchesExports`, `NoOrphanAtServer`, `AnsweredExactlyOnce` |
| `agent_liveness` | calls of every kind, with and without a rule, and callbacks: `CallsAnswered`, `DisconnectedEvicted` |
| `agent_unregister_named` (violation) | a client that has registered two paths unregisters the second, and the first goes |
| `mirror` | services with and without an ObjectManager, three changes, restarts, a failed call: `TablesAgree`, `MirrorConverges`, `AnnouncedIsExported`, `DroppedIsGone`, `StartupEnds`, `VanishedExits` |
| `vsock_batch` | two pairs and two connections, of which the second may reuse the first's pair: `NoUseAfterFree`, `ClosedQueueSound`, and `DataMoves` although a `break` for one pair drops the events of the other |
| `vsock_stream` | longer streams on one pair, used twice: `InterestMatchesBuffers`, `StreamIntact`, and `RelaysStreams`: the loop refines `Relay` |
| `sni_items` | an application that may own a well-known name, in both modes, with another renamer that comes, serves and goes, with and without the filter, a failure: `ListMatchesItems`, `ItemsConverge`, `NoUniqueWhilePassive`, `RegisterAnswered`, `LiveNameShown` |
| `sni_mutual_wait` (violation) | the proxy asks for the menu of an application that waits for the proxy's answer |
| `sni_forward` | two calls of any kind on an item that changes its icon, may exit and need not answer: `AnsweredOnce`, `ClicksInOrder`, `IconFresh`, `CallsAnswered`, `ClickDelivered` |
| `sni_signal` (violation) | a signal goes to an item of another application with the same path |
| `audio_devices` | sinks, streams of a VM and a recording stream that come, go and change while answers are under way, two clients of which one is served: `DevicesConverge`, `ViewsMatch`, `GroupsHoldStreams`, `StreamsFollowVm` |
| `audio_source_outputs` (violation) | a recording stream appears and a subscriber is not told, although the first snapshot has such streams and the README promises updates about the devices |

Each violation quotes in `PROJECT.json`, under `findings`, the comment or the
line of a README that the code departs from.

### Other behaviour worth knowing

Met while modelling; the models contain it, and no run is devoted to it.

* Agents: a client that left before its Register was dispatched leaves an
  entry for ever (the comment at `callback-handling.cpp:359` expects none). An
  Unregister of a manager without a rule is answered and not forwarded. After
  a refused registration a callback may reach another client of the same path.
* Mirror: a service that restarts before the watch is effective leaves objects
  of its old instance.
* vsockproxy: a guest that shuts down its sending side loses what is buffered
  for it, since EPOLLRDHUP closes the pair. While `accept` has no descriptor
  left, the listener stays ready and the `break` after the failed call drops
  the events behind it, so that open pairs may starve (`Exhausted` in
  `DataMoves`).
* Tray: the subscriptions to another watcher are never dropped, so that our
  own signals come back once the name is ours again and bring items of gone
  applications back (`NoEcho` excludes these histories from `ItemsConverge` and
  `LiveNameShown`). The renamer's `registered_items_` keeps generated names of
  applications that are gone; a proxy that reads the list later makes items of
  them, which have no owner, so that no NameOwnerChanged ever removes them
  (`uname` is `NoApp` in `NoneLeftOver`). It announces the end of such an
  application under its unique name, which nobody knows the item by, so that
  behind the filter the item stays. A renamer does not scan the bus, so that a
  well-known name older than it is not in its list, and behind the filter the
  end of that name is noticed by nobody. An item whose name
  was refused or lost on the target bus, or whose object could not be
  registered, is not tried again while its application lives (`missed`). A
  panel that restarts is not told of the items. Outside the renamer the signals
  of an item at a path of its own are dropped.
* Audio: a default changed between the first server info and the subscription
  is not seen until the next change (`unseen` in `DevicesConverge`).
  `setDefault` does nothing if the cached flag, possibly stale, is set. Nothing
  reconnects after a failure. The subscriber that makes room for a new one is
  not told, and clients that disconnect stay in the list. `ViewsMatch` is about
  sinks, sources and sink inputs; source outputs are the subject of
  `audio_source_outputs`. Meta devices are the other way round: subscribers are
  told of their changes, but the first snapshot, which `README.md:27` of the
  program calls "all the devices it has", has none. A first stream above 100 %
  gives its group 100 and keeps playing as loud as it was: `StreamsFollowVm`
  compares percents as the code reads them.

### Bounds

* `AgentRegistry`: two clients and two paths are enough for a path taken by
  another client, two agents of one client and two clients of one path; three
  calls for register–register–unregister. Unregister ignores its path
  argument, hence one path in those requests. A released well-known name gives
  a NameOwnerChanged signal for a client that is still there. Callbacks
  (`MaxCallbacks`) change no table and are left out of the safety run.
* `ObjectMirror`: root, node and a leaf below it give a recursion, a node
  that only leads to another and, with an ObjectManager, the other way of
  discovery. Two interfaces besides ObjectManager give partial removal. Three
  changes give add–remove–add during one walk; one failed call hides a
  subtree. `Prefixed` is empty, which makes the catch-all's other condition
  decisive.
* `VsockProxy`: a batch of two events is the smallest in which one event
  closes what another points to, or a `break` for one pair drops the event of
  the other; `vsock_batch` therefore has two pairs and two connections, which
  are on two pairs or on one after the other. In it one end sends
  (`MaxTalkers`) and one closes (`MaxClosers`), chosen freely; both ends of a
  pair do in `vsock_stream`. `SockRoom = 1` below `BufSize = 2` makes partial
  sends.
* `SniProxy`: an application that may own a well-known name and give it up has
  both ways of being named and the resolution from one to the other; three
  steps of the applications and of the other renamer give
  appear–vanish–appear during one handler and a change of watcher with an
  exit. One failure hides an item. `MaxEchoes = 2`, since echoes feed on
  themselves. The invariants also hold, with more time than a run has, with two
  applications, with two names of one application, and with four changes; the
  theorems are for any number of each.
* `SniForward`: two calls are the least that can be reordered; of two icons
  the theme has one. One change of the icon meets every stage of a fetch.
  Items touch each other in the routing of signals alone, hence two items in
  `sni_signal` and one elsewhere.
* `AudioControl`: two sinks give a change of the default, two streams of one
  VM a later one that takes the volume of the first. `MaxChanges = 2` counts
  changes at the server and calls together (the initial state is any state of
  the server, so no changes are spent on reaching it). Of the two volumes one
  is rounded to 50 % and one is 150 %. `MaxClients = 1` makes the second
  subscriber evict the first.

Deadlock is not checked: bounded behaviours end, and a proxy may terminate.

### Fairness

* `AgentRegistry!FairSpec`: a GMainContext dispatches every ready source of
  equal priority in each iteration, so neither connection starves the other,
  and GDBus's timeouts fire. Nothing is assumed of clients or the service.
* `ObjectMirror!FairSpec`: the main loop runs, blocking calls return or time
  out, and GLib completes `g_bus_watch_name`. The service may hang.
* `VsockProxy!FairSpec`: the process is scheduled. Nothing is assumed of the
  peers. `DataMoves` is checked while a pair is free for a connection that
  waits: with none left, `accept` fails, the listener stays ready and `break`
  drops the events behind it, so that progress would depend on the order in
  which the kernel reports ready descriptors.
* `SniProxy!FairSpec`: the main loop runs and blocking calls return or time
  out (`LoopStep`), the target bus says of each name asked for whether we have
  it or not (`Asked`), the panel answers or its call fails (`Panel`), and the
  other renamer, while it runs, handles its messages (`OtherHandles`).
  Applications may do nothing, the other renamer need not come or go, a name
  that was lost need not come back, and an application may be blocked by the
  call it makes.
* `SniForward!FairSpec`: the main loop runs and GDBus keeps its timeouts. No
  application need answer.
* `AudioControl` states safety only: that the server answers is not this
  program's doing, and `Settled` says what holds when it has.

## 5. Proofs

All theorems are checked by TLAPS for every value of the constants that
satisfies the named assumptions (`ConstantsAssumption` of each module,
`TreeAssumption` of `ObjectMirror`); TLC evaluates these on every run. Besides
types they ask for little: finitely many pairs in `VsockProxy` and finitely
many devices in `AudioControl` (both are counted or listed), an
application for every name in `SniProxy`, volumes whose hundredfold fits into
32 bits in `AudioControl` (`WidthAssumption`).

| Theorem | States |
|---|---|
| `AgentRegistry_proofs!TypeCorrect` | `Spec => []TypeOK` |
| `AgentRegistry_proofs!RegistryMatches` | `Spec => []RegistryMatchesExports` |
| `AgentRegistry_proofs!NoOrphan` | with `UseObjectPathOnUnregister`, `Spec => []NoOrphanAtServer` |
| `AgentRegistry_proofs!AnsweredOnce` | `Spec => []AnsweredExactlyOnce` |
| `ObjectMirror_proofs!TypeCorrect` | `Spec => []TypeOK` |
| `ObjectMirror_proofs!TablesCorrect` | `Spec => []TablesAgree` |
| `ObjectMirror_proofs!MirrorCorrect` | `Spec => []MirrorConverges` |
| `ObjectMirror_proofs!AnnouncementsCorrect` | `Spec => AnnouncedIsExported`, an action property |
| `ObjectMirror_proofs!DropsCorrect` | `Spec => DroppedIsGone`, an action property |
| `VsockProxy_proofs!TypeCorrect` | `Spec => []TypeOK` |
| `VsockProxy_proofs!InterestCorrect` | `Spec => []InterestMatchesBuffers` |
| `VsockProxy_proofs!MemorySafe` | `Spec => []NoUseAfterFree` |
| `VsockProxy_proofs!QueueCorrect` | `Spec => []ClosedQueueSound` |
| `VsockProxy_proofs!StreamCorrect` | `Spec => []StreamIntact` |
| `VsockProxy_proofs!RelayCorrect` | `Spec => RelaysStreams`: the event loop implements `Relay` |
| `SniProxy_proofs!TypeCorrect` | `Spec => []TypeOK` |
| `SniProxy_proofs!ListIsExact` | `Spec => []ListMatchesItems` |
| `SniProxy_proofs!NoUniqueName` | `Spec => []NoUniqueWhilePassive` |
| `SniProxy_proofs!TrayConverges` | `Spec => []ItemsConverge` |
| `SniForward_proofs!TypeCorrect` | `Spec => []TypeOK` |
| `SniForward_proofs!CallAnsweredOnce` | `Spec => []AnsweredOnce` |
| `SniForward_proofs!ClicksSentInOrder` | `Spec => []ClicksInOrder` |
| `SniForward_proofs!IconStaysFresh` | `Spec => []IconFresh` |
| `AudioControl_proofs!TypeCorrect` | `Spec => []TypeOK` |
| `AudioControl_proofs!ViewsCorrect` | `Spec => []ViewsMatch` |
| `AudioControl_proofs!GroupsCorrect` | `Spec => []GroupsHoldStreams` |
| `AudioControl_proofs!DevicesCorrect` | `Spec => []DevicesConverge` |
| `AudioControl_proofs!StreamsCorrect` | `Spec => []StreamsFollowVm` |

**Registry.** `RegistryMatchesExports` is inductive together with
`EntriesNumbered`: without it a new entry could take the id of an old one.
`NoOrphanAtServer` needs the state of the eviction loop (`CleanupInv`): while
the loop is inside its blocking call, the entry it is about to remove is
already covered by a queued Unregister (`EvictedIsUndone`), and only one such
call is live (`OneBlockingCall`), so its reply cannot belong to another entry.
OBEX's rule sends no path with Unregister; there the service may keep an
agent, which is why the theorem assumes `UseObjectPathOnUnregister`.
`AnsweredExactlyOnce` is inductive with `TypeOK`; the work is in how the number
of a client's messages in a queue changes when one is appended, taken from the
front, taken from the middle by a timeout, or replaced (the `Count` lemmas, from
the library's facts on cardinality).

**Mirror.** `TablesAgree` needs `StartsEmpty` and `TasksInPlace`: an iface task
belongs to an object that is still proxied, because removals are only
dispatched when no task is left. `MirrorConverges` speaks only of a settled
proxy and is far from inductive. `GhostIsQueued` says that whatever is offered
and gone has its removal in the queue; `MissingIsPending` that whatever is
there and not offered has an announcement in the queue, a task for that
interface, or an unproxied object under a task that will read it. The two would
not survive InterfacesRemoved without `LastWord`: if the removed interface is
back, a later InterfacesAdded in the queue says so. That the walk covers a
subtree by its children uses `TreeAssumption`. The two action properties rest
on `WordInv`: behind every announcement and every other signal in the queue,
and behind the announcement a handler is working on, either the interface is
there and not announced again, or its removal follows. With `MissingIsPending`
this leaves no way for the object to be unknown and not on its way out.

**vsockproxy.** `LoopInv` ties the memory of a pair to what epoll knows
(`PairShape`), to the queue of frees (`OnlyClosedQueued`) and to the events of
the batch (`EventsLive`): an event points to a registered socket or to a pair
that is closed and not yet freed. `StreamInv` extends `StreamIntact` to pairs
that are still connecting, since bytes may be read from the tx end before the
pair opens. `QueueInv` counts: two places of the queue are reserved for every
event of the batch not yet handled, and the queue is empty between batches, so
that a batch of `MaxEvents` cannot overflow it; a pair is queued as its state
becomes closed, hence once. The refinement (`RelayCorrect`) maps each action to one of
`Relay`: accept to `Begin`, `InData` and `OutData` to `Move`, or to `Close`
when data that came in cannot be passed on, every `close_connections` to
`Close`, the rest to no step. It uses `LoopInv` (a handled socket belongs to an
open pair), `StreamInv` (what was delivered is a prefix of what was read) and
`ReadBound` (what was read was sent, and at most `BufSize` of it is buffered).

**Tray, items.** `ItemInv` says what the program counter implies for the item
being discovered (`CurItem`), that the list names each ready item once
(`ListOnce`), and that the panel has been or is being told of it, or the call
failed (`PanelInv`); `ListMatchesItems` follows. `UniqueGoes`: with another
watcher in charge, either no unique name is in use outside the plan of
removals, or the loss is in the queue, and behind every message that could
bring a unique name too.

`ItemsConverge` speaks of a proxy with nothing left to do. On the way there two
invariants about the order of messages hold. `DeadGo`: whatever is tracked or
about to be without a live owner has its removal in the queue, behind
everything that could bring it back, unless it had no owner when we were told
of it. `LiveStay`: a well-known name, or a generated name of the other renamer
whose connection is open, is tracked, about to be, announced in the queue
behind everything that takes it away, or the other renamer has still to handle
its appearance. They rest on four others: the owner recorded for an item is its
own or none (`OwnerKnown`); before the subscription to the other watcher there
are no signals of it and no generated names (`Unheard`); nothing live has its
end in the queue and nothing passes the filter that should not (`Unspoken`);
and a name without an owner that the other renamer lists has its disappearance
in `oqueue` (`OtherList`). All are about any number of applications, names and
generated names and both settings of the filter.

**Tray, calls.** `Owned`: a call not yet answered is in one place only, an
inbox, in flight, or the blocking call, and an answered one in none. `Ordered`:
the ids of the clicks sent are below those waiting for their 50 ms, and these
below the inbox's. `Fresh`: an icon that is being fetched, cached or shown is
the application's, or a NewIcon or a read by the panel is still due; the three
must be taken together, since each takes its value from the one before.

**Audio.** `TypeOK` is inductive because `Requests` and `Messages` say what
each kind of message carries. `ViewsMatch` and `GroupsHoldStreams` are then
inductive as they stand: every change of a device goes to every subscriber in
the same step, and a subscriber begins with a snapshot. That the server's list
is a sequence at all uses the finiteness of `Devs`. `DevicesConverge` needs
`DevInv`: what the first messages of a connection are (`Starting`), that no
index returns (`NoReturn`), and that every difference between backend and
server, be it a volume, a removal, the default or a mark, has a request, an
answer or an event under way that will repair it (`UnderWay`). `StreamsFollowVm`
needs `StreamInv`: the last volume asked for a stream is its VM's, or none is
asked for and the server has it, in percents as the code reads it (what is set
comes back as the same percentage, `PercentOf(PulseOf(p)) = p`); for a stream
the backend does not know yet nothing is asked and no answer under way is out
of date, so that it joins its group with the volume it really has.

## 6. Only model-checked

Liveness (`CallsAnswered` of two modules, `DisconnectedEvicted`, `StartupEnds`,
`VanishedExits`, `DataMoves`, `RegisterAnswered`, `LiveNameShown`,
`ClickDelivered`) is checked by TLC alone: proofs from fairness need ENABLED,
which the prover does not handle. The violations are counterexamples and need
no proof.

## 7. Mutants

Every property of a passing run has a mutant in `PROJECT.json`: a definition
named `X_...` in the module, next to the definition `X` it replaces, that
contains a bug one could write in that code (a reply forgotten, subscriptions
after discovery, a free before the end of the batch). With the mutant in place
TLC finds the property violated.

## 8. Not modelled

* The components listed as planned in section 2.
* Of the tray: hosts (`host_registered_`), the rewriting of menu layouts and
  icon bytes, shutdown. Of the audio control: cards and ports, updates about
  the Meta devices themselves, the window and tray methods.
* Option parsing, logging and statistics; GTK widgets (no state of their own).
* vinotify and ldap-query (one event or request at a time, pure I/O),
  qubes-ctap (two patches), the QEMU patches and NVIDIA devices (their
  behaviour is defined by sources outside the repository), art and Nix
  expressions.
* Packet rewriting and checksums of the packet forwarder: byte-level data.
