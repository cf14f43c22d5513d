---------------------------- MODULE AudioControl ----------------------------
(***************************************************************************)
(* ghaf-audio-control: the PulseAudio backend, the groups of streams per   *)
(* application VM and the D-Bus service that tells its subscribers what    *)
(* there is.                                                               *)
(*                                                                         *)
(* All of it runs in one main loop.  Requests to the server and its        *)
(* replies and events are two ordered channels; every callback handles one *)
(* message.  A device is never reused: PulseAudio counts indices up.  Its  *)
(* volume stands for volume and mute, which take the same way; mute is not *)
(* converted.                                                              *)
(***************************************************************************)
EXTENDS Integers, Sequences, FiniteSets, SequencesExt

CONSTANTS
  Devs,        \* sinks, sources, sink inputs and source outputs
  KindOf,      \* KindOf[d]: "sink", "source", "input" or "output"
  Vms,         \* application VMs
  VmOf,        \* VmOf[d]: the VM of a sink input
  Volumes,     \* volumes of the server (pa_volume_t) other programs set
  Levels,      \* percentages clients set
  Clients,     \* D-Bus clients
  None,        \* no device, no volume
  MaxClients,  \* bound of the code: subscribers (50)
  MaxChanges   \* bound: changes at the server and calls of clients

Inputs      == {d \in Devs : KindOf[d] = "input"}
Defaultable == {d \in Devs : KindOf[d] \in {"sink", "source"}}
Kinds       == {"sink", "source"}

Percents   == 0..100
VolumeNorm == 65536  \* PA_VOLUME_NORM: 100 %

(* FromPulseAudioVolume rounds to percents, Volume cuts them off at 100;      *)
(* ToPulseAudioVolume drops the fraction.                                     *)
PercentOf(v) == LET p == (v * 100 + VolumeNorm \div 2) \div VolumeNorm
                IN  IF p > 100 THEN 100 ELSE p
PulseOf(p)   == (VolumeNorm * p) \div 100

Entry == [v : Percents, def : BOOLEAN]

ASSUME ConstantsAssumption ==
  /\ IsFiniteSet(Devs)
  /\ KindOf \in [Devs -> {"sink", "source", "input", "output"}]
  /\ VmOf \in [Devs -> Vms]
  /\ Volumes \subseteq Nat /\ Levels \subseteq Percents
  /\ None \notin Devs /\ None \notin Nat /\ None \notin Entry
  /\ MaxClients \in Nat \ {0} /\ MaxChanges \in Nat

(* A hundred times a volume fits into its 32 bits: FromPulseAudioVolume       *)
(* multiplies first.  PulseAudio's mixers stop at 153 %.                      *)
ASSUME WidthAssumption == \A v \in Volumes : v <= 42949672

VARIABLES
  context,   \* new, ready, failed
  requests,  \* to the server
  messages,  \* from the server
  dev,       \* m_sinks, m_sources, m_sinkInputs, m_sourceOutputs
  dflt,      \* m_defaultSinkName, m_defaultSourceName
  metaVol,   \* MetaDevice::m_volume, per VM
  metaDevs,  \* MetaDevice::m_devices, per VM
  metaOf,    \* m_internalDeviceIndexToMeta: sink inputs a group was found for
  clients,   \* SubscribeToDeviceUpdatedSignalMethod::Clients
  view,      \* view[c]: what client c was told since it subscribed
  server,    \* the server: its devices' volumes (None: no such device)
  sdflt,     \* ... its defaults
  listening, \* ... and whether it has our subscription
  unseen,    \* a default changed between our question and our subscription
  touched,   \* sink inputs whose volume was set other than by their VM's
  gone,      \* devices that are no more
  changes    \* so far, for MaxChanges

backend == <<dev, dflt, metaVol, metaDevs, metaOf>>
service == <<clients, view>>
pulse   == <<server, sdflt, listening, unseen, gone>>
vars    == <<context, requests, messages, backend, service, pulse, touched, changes>>

Subscribers == {clients[i] : i \in 1..Len(clients)}
Known       == {d \in Devs : dev[d] # None}
Up          == {d \in Devs : server[d] # None}

Nothing == [d \in Devs |-> None]

(* AudioControlBackend::start, with whatever the server has by then. *)
Init ==
  /\ context = "new" /\ requests = <<>> /\ messages = <<>>
  /\ dev = Nothing /\ dflt = [k \in Kinds |-> None]
  /\ metaVol = [m \in Vms |-> None] /\ metaDevs = [m \in Vms |-> {}] /\ metaOf = {}
  /\ clients = <<>> /\ view = [c \in Clients |-> Nothing]
  /\ server \in [Devs -> Volumes \cup {None}]
  /\ sdflt \in [Kinds -> Devs \cup {None}]
  /\ \A k \in Kinds : LET some == {d \in Up : KindOf[d] = k}
                       IN  IF some = {} THEN sdflt[k] = None ELSE sdflt[k] \in some
  /\ listening = FALSE /\ unseen = FALSE /\ touched = {} /\ gone = {} /\ changes = 0
-----------------------------------------------------------------------------
(* The PulseAudio server. *)

Change == context # "failed" /\ changes < MaxChanges /\ changes' = changes + 1

M(t, d, x) == [t |-> t, d |-> d, x |-> x]

(* Events go to who subscribed. *)
Notify(events) == messages' = IF listening THEN messages \o events ELSE messages

ServerEvent == IF sdflt' = sdflt THEN <<>> ELSE <<M("serverEvent", None, None)>>
SeenDefault == unseen' = (unseen \/ (~ listening /\ sdflt' # sdflt))

Plug(d, v) ==
  /\ Change /\ d \notin Up \cup gone
  /\ server' = [server EXCEPT ![d] = v]
  /\ sdflt' = IF d \in Defaultable /\ sdflt[KindOf[d]] = None
              THEN [sdflt EXCEPT ![KindOf[d]] = d] ELSE sdflt
  /\ Notify(<<M("event", d, None)>> \o ServerEvent) /\ SeenDefault
  /\ UNCHANGED <<context, requests, backend, service, listening, touched, gone>>

Unplug(d) ==
  /\ Change /\ d \in Up
  /\ server' = [server EXCEPT ![d] = None] /\ gone' = gone \cup {d}
  /\ IF d \in Defaultable /\ sdflt[KindOf[d]] = d
     THEN \E e \in {e \in Up \ {d} : KindOf[e] = KindOf[d]} \cup {None} :
            /\ e = None => {f \in Up \ {d} : KindOf[f] = KindOf[d]} = {}
            /\ sdflt' = [sdflt EXCEPT ![KindOf[d]] = e]
     ELSE UNCHANGED sdflt
  /\ Notify(<<M("remove", d, None)>> \o ServerEvent) /\ SeenDefault
  /\ UNCHANGED <<context, requests, backend, service, listening, touched>>

(* Another mixer, or the application itself. *)
OtherSetsVolume(d, v) ==
  /\ Change /\ d \in Up /\ v # server[d]
  /\ server' = [server EXCEPT ![d] = v] /\ touched' = touched \cup {d}
  /\ Notify(<<M("event", d, None)>>)
  /\ UNCHANGED <<context, requests, backend, service, sdflt, listening, unseen, gone>>

Infos(S) == LET order == SetToSeq(S)
            IN  [n \in DOMAIN order |-> M("info", order[n], server[order[n]])]

(* It handles requests in order.  The lists of all kinds are one request here. *)
Serve(t) ==
  /\ requests # <<>> /\ Head(requests).t = t /\ requests' = Tail(requests)
  /\ UNCHANGED <<context, backend, service, touched, gone, changes>>

ServeServerInfo ==
  /\ Serve("serverInfo")
  /\ messages' = Append(messages, M("serverInfo", None, sdflt))
  /\ unseen' = FALSE /\ UNCHANGED <<server, sdflt, listening>>

ServeSubscribe ==
  /\ Serve("subscribe")
  /\ listening' = TRUE /\ UNCHANGED <<messages, server, sdflt, unseen>>

ServeList ==
  /\ Serve("list")
  /\ messages' = messages \o Infos(Up) /\ UNCHANGED <<server, sdflt, listening, unseen>>

ServeInfo ==
  /\ Serve("info")
  /\ messages' = messages \o Infos({Head(requests).d} \cap Up)
  /\ UNCHANGED <<server, sdflt, listening, unseen>>

ServeVolume ==
  /\ Serve("setVolume")
  /\ LET d == Head(requests).d
         v == Head(requests).x
     IN  IF d \in Up /\ server[d] # v
         THEN server' = [server EXCEPT ![d] = v] /\ Notify(<<M("event", d, None)>>)
         ELSE UNCHANGED <<server, messages>>
  /\ UNCHANGED <<sdflt, listening, unseen>>

ServeDefault ==
  /\ Serve("setDefault")
  /\ LET d == Head(requests).d
     IN  sdflt' = IF d \in Up THEN [sdflt EXCEPT ![KindOf[d]] = d] ELSE sdflt
  /\ Notify(ServerEvent) /\ UNCHANGED <<server, listening, unseen>>
-----------------------------------------------------------------------------
(* AudioControlBackend: one callback per message. *)

(* contextStateCallback. The callback of subscriptions is set before they are *)
(* asked for.                                                                 *)
ContextReady ==
  /\ context = "new" /\ context' = "ready"
  /\ requests' = <<M("serverInfo", None, None), M("subscribe", None, None)>>
  /\ UNCHANGED <<messages, backend, service, pulse, touched, changes>>

(* The error is shown; nothing connects again. *)
ContextFails ==
  /\ Change /\ context = "ready" /\ context' = "failed"
  /\ requests' = <<>> /\ messages' = <<>>
  /\ UNCHANGED <<backend, service, pulse, touched>>

Receive(t) == messages # <<>> /\ Head(messages).t = t /\ messages' = Tail(messages)

(* onDevice is connected to all maps but m_sourceOutputs. *)
Connected(d) == KindOf[d] # "output"

(* App::sendDeviceUpdateToDbus *)
Tell(d, entry) ==
  view' = [c \in Clients |-> IF c \in Subscribers /\ Connected(d)
                             THEN [view[c] EXCEPT ![d] = entry] ELSE view[c]]

OnServerInfo(info) == dflt' = info

(* Mutant: the lists are not asked for again. *)
ServerInfoCallback_NoLists ==
  /\ Receive("serverInfo")
  /\ OnServerInfo(Head(messages).x)
  /\ requests' = IF \A k \in Kinds : dflt[k] = None THEN Append(requests, M("list", None, None)) ELSE requests
  /\ UNCHANGED <<context, dev, metaVol, metaDevs, metaOf, service, pulse, touched, changes>>

ServerInfoCallback ==
  /\ Receive("serverInfo")
  /\ OnServerInfo(Head(messages).x)
  /\ requests' = Append(requests, M("list", None, None))
  /\ UNCHANGED <<context, dev, metaVol, metaDevs, metaOf, service, pulse, touched, changes>>

(* subscribeCallback *)
OnServerEvent ==
  /\ Receive("serverEvent")
  /\ requests' = Append(requests, M("serverInfo", None, None))
  /\ UNCHANGED <<context, backend, service, pulse, touched, changes>>

OnDeviceEvent ==
  /\ Receive("event")
  /\ requests' = Append(requests, M("info", Head(messages).d, None))
  /\ UNCHANGED <<context, backend, service, pulse, touched, changes>>

IsDefault(d) == d \in Defaultable /\ dflt[KindOf[d]] = d

(* The device after update(info) and updateDefault. *)
Updated(info) == [v |-> PercentOf(info.x), def |-> IsDefault(info.d)]

(* OnPulseDeviceInfo: a device we have. *)
UpdateDevice ==
  /\ Receive("info") /\ Head(messages).d \in Known
  /\ LET d == Head(messages).d
         e == Updated(Head(messages))
     IN  dev' = [dev EXCEPT ![d] = e] /\ Tell(d, e)
  /\ UNCHANGED <<context, requests, dflt, metaVol, metaDevs, metaOf, clients, pulse, touched, changes>>

SetVolume(d, p) == M("setVolume", d, PulseOf(p))

(* Mutant: a later stream keeps its own volume. *)
AddToMeta_KeepsVolume(m, d, p) ==
  /\ metaDevs' = [metaDevs EXCEPT ![m] = @ \cup {d}]
  /\ metaVol' = IF metaVol[m] = None THEN [metaVol EXCEPT ![m] = p] ELSE metaVol
  /\ UNCHANGED requests

(* MetaDevice::addDevice: a stream gets the volume of its group; the first    *)
(* one gives it, in percents, and keeps its own.                              *)
AddToMeta(m, d, p) ==
  /\ metaDevs' = [metaDevs EXCEPT ![m] = @ \cup {d}]
  /\ metaVol' = IF metaVol[m] = None THEN [metaVol EXCEPT ![m] = p] ELSE metaVol
  /\ requests' = IF metaVol[m] = None THEN requests ELSE Append(requests, SetVolume(d, metaVol[m]))

(* MetaDeviceManager::sendDeviceInfoUpdate *)
JoinGroup(d, p) == AddToMeta(VmOf[d], d, p) /\ metaOf' = metaOf \cup {d}

(* OnPulseDeviceInfo: a new device. *)
AddDevice ==
  /\ Receive("info") /\ Head(messages).d \notin Known
  /\ LET d == Head(messages).d
         e == Updated(Head(messages))
     IN  /\ dev' = [dev EXCEPT ![d] = e] /\ Tell(d, e)
         /\ IF d \in Inputs THEN JoinGroup(d, e.v) ELSE UNCHANGED <<requests, metaVol, metaDevs, metaOf>>
  /\ UNCHANGED <<context, dflt, clients, pulse, touched, changes>>

(* Mutant: the group is not told. *)
LeaveGroup_Stays(d) == UNCHANGED metaDevs

(* markDeleted, MetaDevice::deleteDevice *)
LeaveGroup(d) == metaDevs' = [metaDevs EXCEPT ![VmOf[d]] = @ \ {d}]

(* DeletePulseDevice, SignalMap::remove *)
DeleteDevice ==
  /\ Receive("remove")
  /\ LET d == Head(messages).d
     IN  IF d \in Known
         THEN LeaveGroup(d) /\ dev' = [dev EXCEPT ![d] = None] /\ Tell(d, None)
         ELSE UNCHANGED <<dev, view, metaDevs>>
  /\ UNCHANGED <<context, requests, dflt, metaVol, metaOf, clients, pulse, touched, changes>>
-----------------------------------------------------------------------------
(* The D-Bus service. *)

Call == changes < MaxChanges /\ changes' = changes + 1

Request(r) == requests' = IF context = "ready" THEN requests \o r ELSE requests

(* AudioControlBackend::setDeviceVolume.  SignalMap::update reports the       *)
(* device as it still is; the new volume follows with the server's event.     *)
SetDeviceVolume(d, p) ==
  /\ Call /\ d \in Known
  /\ Request(<<SetVolume(d, p)>>) /\ Tell(d, dev[d])
  /\ touched' = touched \cup {d}
  /\ UNCHANGED <<context, messages, backend, clients, pulse>>

VolumeFor(S, p) == LET order == SetToSeq(S)
                   IN  [n \in DOMAIN order |-> SetVolume(order[n], p)]

(* MetaDeviceManager::setDeviceVolume *)
SetMetaVolume(m, p) ==
  /\ Call /\ metaVol[m] # None
  /\ metaVol' = [metaVol EXCEPT ![m] = p]
  /\ Request(VolumeFor(metaDevs[m], p))
  /\ UNCHANGED <<context, messages, dev, dflt, metaDevs, metaOf, service, pulse, touched>>

(* Sink::setDefault *)
SetDefault(d) == IF dev[d].def THEN UNCHANGED requests ELSE Request(<<M("setDefault", d, None)>>)

MakeDeviceDefault(d) ==
  /\ Call /\ d \in Known \cap Defaultable
  /\ SetDefault(d) /\ Tell(d, dev[d])
  /\ UNCHANGED <<context, messages, backend, clients, pulse, touched>>

(* Mutant: nobody makes room. *)
Admitted_NoEviction(c) == IF c \in Subscribers THEN clients ELSE Append(clients, c)

(* Clients::add: the oldest subscriber makes room. *)
Admitted(c) ==
  IF c \in Subscribers THEN clients
  ELSE Append(IF Len(clients) = MaxClients THEN Tail(clients) ELSE clients, c)

(* Mutant: the subscriber gets only what changes. *)
GetAllDevices_None == Nothing

(* getAllDevices, sent to the new subscriber. *)
GetAllDevices == dev

Subscribe(c) ==
  /\ Call /\ clients' = Admitted(c)
  /\ view' = [view EXCEPT ![c] = GetAllDevices]
  /\ UNCHANGED <<context, requests, messages, backend, pulse, touched>>

Unsubscribe(c) ==
  /\ Call /\ \E i \in 1..Len(clients) : clients[i] = c /\ clients' = RemoveAt(clients, i)
  /\ UNCHANGED <<context, requests, messages, backend, view, pulse, touched>>
-----------------------------------------------------------------------------
PulseStep ==
  \/ ServeServerInfo \/ ServeSubscribe \/ ServeList \/ ServeInfo \/ ServeVolume \/ ServeDefault
  \/ ContextFails
  \/ \E d \in Devs : Unplug(d) \/ \E v \in Volumes : Plug(d, v) \/ OtherSetsVolume(d, v)

BackendStep ==
  \/ ContextReady \/ ServerInfoCallback \/ OnServerEvent \/ OnDeviceEvent
  \/ UpdateDevice \/ AddDevice \/ DeleteDevice

ServiceStep ==
  \/ \E d \in Devs : MakeDeviceDefault(d) \/ \E p \in Levels : SetDeviceVolume(d, p)
  \/ \E m \in Vms, p \in Levels : SetMetaVolume(m, p)
  \/ \E c \in Clients : Subscribe(c) \/ Unsubscribe(c)

Next == PulseStep \/ BackendStep \/ ServiceStep

Spec == Init /\ [][Next]_vars
-----------------------------------------------------------------------------
Requests == [t : {"serverInfo", "subscribe", "list"}, d : {None}, x : {None}]
            \cup [t : {"info"}, d : Devs, x : {None}]
            \cup [t : {"setDefault"}, d : Defaultable, x : {None}]
            \cup [t : {"setVolume"}, d : Devs, x : Nat]
Messages == [t : {"event", "remove"}, d : Devs, x : {None}]
            \cup [t : {"info"}, d : Devs, x : Nat]
            \cup [t : {"serverEvent"}, d : {None}, x : {None}]
            \cup [t : {"serverInfo"}, d : {None}, x : [Kinds -> Devs \cup {None}]]

(* Type invariant. *)
TypeOK ==
  /\ context \in {"new", "ready", "failed"}
  /\ requests \in Seq(Requests) /\ messages \in Seq(Messages)
  /\ dev \in [Devs -> Entry \cup {None}] /\ dflt \in [Kinds -> Devs \cup {None}]
  /\ metaVol \in [Vms -> Percents \cup {None}] /\ metaDevs \in [Vms -> SUBSET Inputs]
  /\ metaOf \subseteq Inputs
  /\ clients \in Seq(Clients) /\ Len(clients) <= MaxClients
  /\ view \in [Clients -> [Devs -> Entry \cup {None}]]
  /\ server \in [Devs -> Nat \cup {None}] /\ sdflt \in [Kinds -> Devs \cup {None}]
  /\ listening \in BOOLEAN /\ unseen \in BOOLEAN
  /\ touched \subseteq Devs /\ gone \subseteq Devs /\ changes \in Nat

Settled == context = "ready" /\ requests = <<>> /\ messages = <<>>

(* When the server and the backend have nothing more to say to each other the *)
(* backend has the server's devices, with their volumes in percents, and      *)
(* marks its defaults, whatever came and went while answers were under way.   *)
DevicesConverge ==
  Settled =>
    /\ Known = Up
    /\ \A d \in Known : dev[d].v = PercentOf(server[d])
    /\ unseen \/ \A d \in Known : dev[d].def = (d \in Defaultable /\ sdflt[KindOf[d]] = d)

(* What a subscriber has been told of the sinks, sources and sink inputs is   *)
(* what the backend has: it is told of each change, and of no other, however  *)
(* subscriptions, evictions and callbacks interleave.                         *)
ViewsMatch ==
  \A c \in Subscribers : \A d \in Devs : Connected(d) => view[c][d] = dev[d]

(* A VM's group holds its streams: no deleted stream is ever asked to change  *)
(* its volume, and every stream's events find the group.                      *)
GroupsHoldStreams ==
  /\ \A m \in Vms : metaDevs[m] = {d \in Inputs \cap Known : VmOf[d] = m}
  /\ Inputs \cap Known \subseteq metaOf

(* Streams play at the volume of their VM, as this program reads it, those    *)
(* too that began while it was being changed, unless someone set a stream's   *)
(* own.  A first stream above 100 % reads 100 %, gives that to its group and  *)
(* goes on above.                                                             *)
StreamsFollowVm ==
  Settled => \A d \in Inputs \cap Up : d \in touched \/ PercentOf(server[d]) = metaVol[VmOf[d]]
-----------------------------------------------------------------------------
(* A promise of the program's README the code departs from.                   *)

(* "The service sends to the client all the devices it has" and "updates      *)
(* about the devices": of source outputs too, which are in the snapshot and   *)
(* whose signal nobody is connected to.                                       *)
SubscribersHearAll == \A c \in Subscribers : \A d \in Devs : view[c][d] = dev[d]
=============================================================================
