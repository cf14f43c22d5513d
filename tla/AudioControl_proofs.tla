------------------------- MODULE AudioControl_proofs -------------------------
(***************************************************************************)
(* Proofs about AudioControl: types, what subscribers were told, the       *)
(* groups of streams, and where devices and volumes settle.                *)
(***************************************************************************)
EXTENDS AudioControl, FiniteSetTheorems, TLAPS

(* Appending keeps a sequence one of its elements. *)
LEMMA SeqFacts ==
  ASSUME NEW S, NEW s \in Seq(S)
  PROVE  /\ Len(s) \in Nat
         /\ \A e \in S : Append(s, e) \in Seq(S) /\ Len(Append(s, e)) = Len(s) + 1
         /\ \A t \in Seq(S) : s \o t \in Seq(S)
         /\ s # <<>> => /\ Head(s) \in S /\ Tail(s) \in Seq(S)
                        /\ Len(s) > 0 /\ Len(Tail(s)) = Len(s) - 1
  OBVIOUS

LEMMA OneElement ==
  ASSUME NEW S, NEW e \in S
  PROVE  <<e>> \in Seq(S)
  OBVIOUS

LEMMA TwoElements ==
  ASSUME NEW S, NEW e \in S, NEW f \in S
  PROVE  <<e, f>> \in Seq(S)
  OBVIOUS

LEMMA ConcatFacts ==
  ASSUME NEW S, NEW a \in Seq(S), NEW b \in Seq(S)
  PROVE  /\ a \o b \in Seq(S) /\ Len(a) \in Nat /\ Len(b) \in Nat /\ Len(a \o b) = Len(a) + Len(b)
         /\ \A j \in 1..Len(a \o b) : (a \o b)[j] = IF j <= Len(a) THEN a[j] ELSE b[j - Len(a)]
  OBVIOUS

LEMMA Updating ==
  ASSUME NEW S, NEW T, NEW f \in [S -> T], NEW x, NEW v \in T
  PROVE  [f EXCEPT ![x] = v] \in [S -> T]
  OBVIOUS

(* A finite set listed as a sequence. *)
LEMMA SetToSeqType ==
  ASSUME NEW S, IsFiniteSet(S)
  PROVE  /\ Cardinality(S) \in Nat
         /\ SetToSeq(S) \in [1..Cardinality(S) -> S]
<1>1. Cardinality(S) \in Nat /\ ExistsBijection(1..Cardinality(S), S)
  BY FS_CardinalityType
<1>2. PICK f : f \in Bijection(1..Cardinality(S), S)
  BY <1>1, Zenon DEF ExistsBijection
<1>3. f \in [1..Cardinality(S) -> S] /\ IsInjective(f)
  <2>1. f \in Injection(1..Cardinality(S), S)
    BY <1>2, Zenon DEF Bijection
  <2> QED BY <2>1, SMT DEF Injection, IsInjective
<1> QED BY <1>1, <1>3, Zenon DEF SetToSeq

LEMMA ListType ==
  ASSUME NEW S, NEW f, NEW n \in Nat, f \in [1..n -> S]
  PROVE  f \in Seq(S)
  OBVIOUS

LEMMA FiniteDevs ==
  ASSUME NEW S, S \subseteq Devs
  PROVE  IsFiniteSet(S)
  BY ConstantsAssumption, FS_Subset

(* A percentage survives the way to the server and back. *)
LEMMA Conversions ==
  /\ \A v \in Nat : PercentOf(v) \in Percents
  /\ \A p \in Percents : PulseOf(p) \in Nat /\ PercentOf(PulseOf(p)) = p
<1>1. ASSUME NEW v \in Nat PROVE PercentOf(v) \in Percents
  BY SMT DEF PercentOf, Percents, VolumeNorm
<1>2. ASSUME NEW p \in Percents PROVE PulseOf(p) \in Nat /\ PercentOf(PulseOf(p)) = p
  <2> DEFINE q == (65536 * p) \div 100
  <2>1. p \in Int /\ 0 <= p /\ p <= 100
    BY DEF Percents
  <2>2. q \in Int /\ 0 <= q /\ 100 * q <= 65536 * p /\ 65536 * p < 100 * q + 100
    BY <2>1, SMT
  <2>3. PulseOf(p) = q
    BY SMT DEF PulseOf, VolumeNorm
  <2> HIDE DEF q
  <2>4. (q * 100 + 32768) \div 65536 = p
    BY <2>1, <2>2, SMT
  <2>5. PercentOf(q) = p
    BY <2>1, <2>2, <2>4, SMT DEF PercentOf, VolumeNorm
  <2>6. q \in Nat
    BY <2>2, SMT
  <2> QED BY <2>3, <2>5, <2>6, Zenon
<1> QED BY <1>1, <1>2, Zenon

LEMMA VolumeTypes ==
  /\ Volumes \subseteq Nat /\ Levels \subseteq Percents
  /\ None \notin Nat /\ None \notin Percents
  BY ConstantsAssumption DEF Percents

(* What a callback may rely on. *)
LEMMA MakeMessage ==
  /\ \A d \in Devs : M("event", d, None) \in Messages /\ M("remove", d, None) \in Messages
  /\ \A d \in Devs, v \in Nat : M("info", d, v) \in Messages
  /\ M("serverEvent", None, None) \in Messages
  /\ \A f \in [Kinds -> Devs \cup {None}] : M("serverInfo", None, f) \in Messages
<1>1. \A d \in Devs : M("event", d, None) \in Messages /\ M("remove", d, None) \in Messages
  BY Zenon DEF M, Messages
<1>2. \A d \in Devs, v \in Nat : M("info", d, v) \in Messages
  BY Zenon DEF M, Messages
<1>3. M("serverEvent", None, None) \in Messages
  BY Zenon DEF M, Messages
<1>4. \A f \in [Kinds -> Devs \cup {None}] : M("serverInfo", None, f) \in Messages
  BY Zenon DEF M, Messages
<1> QED BY <1>1, <1>2, <1>3, <1>4

LEMMA ReadMessage ==
  ASSUME NEW m \in Messages
  PROVE  /\ m.t = "info" => m.d \in Devs /\ m.x \in Nat
         /\ m.t \in {"event", "remove"} => m.d \in Devs
         /\ m.t = "serverInfo" => m.x \in [Kinds -> Devs \cup {None}]
  BY Zenon DEF Messages

LEMMA MakeRequest ==
  /\ M("serverInfo", None, None) \in Requests /\ M("subscribe", None, None) \in Requests
  /\ M("list", None, None) \in Requests
  /\ \A d \in Devs : M("info", d, None) \in Requests
  /\ \A d \in Defaultable : M("setDefault", d, None) \in Requests
  /\ \A d \in Devs, v \in Percents : SetVolume(d, v) \in Requests
<1>1. \A v \in Percents : PulseOf(v) \in Nat
  BY Conversions
<1> QED BY <1>1, SMT DEF M, Requests, SetVolume

LEMMA ReadRequest ==
  ASSUME NEW r \in Requests
  PROVE  /\ r.t \in {"serverInfo", "subscribe", "list", "info", "setVolume", "setDefault"}
         /\ r.t = "setVolume" => r.d \in Devs /\ r.x \in Nat
         /\ r.t = "info" => r.d \in Devs
         /\ r.t = "setDefault" => r.d \in Defaultable
<1>1. CASE r \in [t : {"serverInfo", "subscribe", "list"}, d : {None}, x : {None}]
  BY <1>1
<1>2. CASE r \in [t : {"info"}, d : Devs, x : {None}]
  BY <1>2
<1>3. CASE r \in [t : {"setDefault"}, d : Defaultable, x : {None}]
  BY <1>3
<1>4. CASE r \in [t : {"setVolume"}, d : Devs, x : Nat]
  BY <1>4
<1> QED BY <1>1, <1>2, <1>3, <1>4, Zenon DEF Requests

LEMMA InfosType ==
  ASSUME TypeOK, NEW S, S \subseteq Up
  PROVE  Infos(S) \in Seq(Messages)
<1> DEFINE order == SetToSeq(S)
<1>1. IsFiniteSet(S)
  BY FiniteDevs, Zenon DEF Up
<1>2. Cardinality(S) \in Nat /\ order \in [1..Cardinality(S) -> S]
  BY <1>1, SetToSeqType, Zenon
<1>3. \A d \in S : M("info", d, server[d]) \in Messages
  <2>1. \A d \in S : d \in Devs /\ server[d] \in Nat
    BY Zenon DEF TypeOK, Up
  <2> QED BY <2>1, MakeMessage, Zenon
<1> HIDE DEF order
<1>4. [n \in DOMAIN order |-> M("info", order[n], server[order[n]])] \in [1..Cardinality(S) -> Messages]
  BY <1>2, <1>3, SMT
<1>5. Infos(S) = [n \in DOMAIN order |-> M("info", order[n], server[order[n]])]
  BY Zenon DEF Infos, order
<1> QED BY <1>2, <1>4, <1>5, ListType

LEMMA VolumeForType ==
  ASSUME NEW S, S \subseteq Devs, NEW v \in Percents
  PROVE  VolumeFor(S, v) \in Seq(Requests)
<1> DEFINE order == SetToSeq(S)
<1>1. IsFiniteSet(S)
  BY FiniteDevs, Zenon
<1>2. Cardinality(S) \in Nat /\ order \in [1..Cardinality(S) -> S]
  BY <1>1, SetToSeqType, Zenon
<1>3. \A d \in S : SetVolume(d, v) \in Requests
  BY MakeRequest, Zenon
<1> HIDE DEF order
<1>4. [n \in DOMAIN order |-> SetVolume(order[n], v)] \in [1..Cardinality(S) -> Requests]
  BY <1>2, <1>3, SMT
<1>5. VolumeFor(S, v) = [n \in DOMAIN order |-> SetVolume(order[n], v)]
  BY Zenon DEF VolumeFor, order
<1> QED BY <1>2, <1>4, <1>5, ListType

-----------------------------------------------------------------------------
LEMMA InitType == Init => TypeOK
<1> SUFFICES ASSUME Init PROVE TypeOK
  OBVIOUS
<1>1. MaxClients \in Nat /\ clients \in Seq(Clients) /\ Len(clients) <= MaxClients
  BY ConstantsAssumption, SMT DEF Init
<1>2. requests \in Seq(Requests) /\ messages \in Seq(Messages)
  BY SMT DEF Init
<1>3. Nothing \in [Devs -> Entry \cup {None}]
  BY SMT DEF Nothing
<1>4. /\ dev \in [Devs -> Entry \cup {None}] /\ view \in [Clients -> [Devs -> Entry \cup {None}]]
      /\ dflt \in [Kinds -> Devs \cup {None}]
      /\ metaVol \in [Vms -> Percents \cup {None}] /\ metaDevs \in [Vms -> SUBSET Inputs]
  BY <1>3, SMT DEF Init
<1>5. server \in [Devs -> Nat \cup {None}]
  <2>1. server \in [Devs -> Volumes \cup {None}]
    BY Zenon DEF Init
  <2>2. Volumes \subseteq Nat
    BY VolumeTypes
  <2>3. \A V, W, f : V \subseteq W /\ f \in [Devs -> V] => f \in [Devs -> W]
    BY Zenon
  <2>4. Volumes \cup {None} \subseteq Nat \cup {None}
    BY <2>2, Zenon
  <2> QED BY <2>1, <2>3, <2>4, Zenon
<1> QED BY <1>1, <1>2, <1>4, <1>5, Zenon DEF Init, TypeOK

(* The parts of the type invariant, one for each of vars' groups. *)
LinkType    == requests \in Seq(Requests) /\ messages \in Seq(Messages)
BackendType == /\ dev \in [Devs -> Entry \cup {None}] /\ dflt \in [Kinds -> Devs \cup {None}]
               /\ metaVol \in [Vms -> Percents \cup {None}] /\ metaDevs \in [Vms -> SUBSET Inputs]
               /\ metaOf \subseteq Inputs
ServiceType == /\ clients \in Seq(Clients) /\ Len(clients) <= MaxClients
               /\ view \in [Clients -> [Devs -> Entry \cup {None}]]
PulseType   == /\ server \in [Devs -> Nat \cup {None}] /\ sdflt \in [Kinds -> Devs \cup {None}]
               /\ listening \in BOOLEAN /\ unseen \in BOOLEAN /\ gone \subseteq Devs
RestType    == /\ context \in {"new", "ready", "failed"}
               /\ touched \subseteq Devs /\ changes \in Nat

LEMMA TypeParts ==
  TypeOK <=> LinkType /\ BackendType /\ ServiceType /\ PulseType /\ RestType
  BY Zenon DEF TypeOK, LinkType, BackendType, ServiceType, PulseType, RestType

LEMMA TypePartsNext ==
  TypeOK' <=> LinkType' /\ BackendType' /\ ServiceType' /\ PulseType' /\ RestType'
  BY Zenon DEF TypeOK, LinkType, BackendType, ServiceType, PulseType, RestType

LEMMA BackendSame == BackendType /\ UNCHANGED backend => BackendType'
  BY Zenon DEF BackendType, backend
LEMMA ServiceSame == ServiceType /\ UNCHANGED service => ServiceType'
  BY Zenon DEF ServiceType, service
LEMMA PulseSame == PulseType /\ UNCHANGED pulse => PulseType'
  BY Zenon DEF PulseType, pulse

LEMMA ChangeType ==
  ASSUME RestType, Change \/ Call, context' \in {"new", "ready", "failed"}, touched' \subseteq Devs
  PROVE  RestType'
  BY SMT DEF RestType, Change, Call

LEMMA NotifyType ==
  ASSUME LinkType, NEW e \in Seq(Messages), Notify(e)
  PROVE  messages' \in Seq(Messages)
  BY SeqFacts, Zenon DEF LinkType, Notify

LEMMA RequestType ==
  ASSUME LinkType, NEW r \in Seq(Requests), Request(r)
  PROVE  requests' \in Seq(Requests)
  BY SeqFacts, Zenon DEF LinkType, Request

LEMMA ReceiveType ==
  ASSUME LinkType, NEW t, Receive(t)
  PROVE  messages' \in Seq(Messages) /\ Head(messages) \in Messages /\ Head(messages).t = t
  BY SeqFacts, Zenon DEF LinkType, Receive

LEMMA TellType ==
  ASSUME ServiceType, NEW d \in Devs, NEW e \in Entry \cup {None}, Tell(d, e)
  PROVE  view' \in [Clients -> [Devs -> Entry \cup {None}]]
<1>1. \A c \in Clients : /\ view[c] \in [Devs -> Entry \cup {None}]
                         /\ [view[c] EXCEPT ![d] = e] \in [Devs -> Entry \cup {None}]
  BY SMT DEF ServiceType
<1> QED BY <1>1, SMT DEF Tell

(* The server's steps. *)
LEMMA ServerEventType == ServerEvent \in Seq(Messages)
<1>1. <<M("serverEvent", None, None)>> \in Seq(Messages)
  BY MakeMessage, OneElement
<1>2. <<>> \in Seq(Messages)
  OBVIOUS
<1> QED BY <1>1, <1>2, Zenon DEF ServerEvent

LEMMA PlugType ==
  ASSUME TypeOK, NEW d \in Devs, NEW v \in Volumes, Plug(d, v)
  PROVE  TypeOK'
<1>1. LinkType /\ BackendType /\ ServiceType /\ PulseType /\ RestType
  BY TypeParts
<1>2. <<M("event", d, None)>> \o ServerEvent \in Seq(Messages)
  BY MakeMessage, OneElement, ServerEventType, SeqFacts
<1>3. LinkType'
  BY <1>1, <1>2, NotifyType, Zenon DEF Plug, LinkType
<1>4. PulseType'
  <2>1. sdflt' \in [Kinds -> Devs \cup {None}]
    <3>1. sdflt' \in {[sdflt EXCEPT ![KindOf[d]] = d], sdflt}
      BY Zenon DEF Plug
    <3>2. sdflt \in [Kinds -> Devs \cup {None}] /\ d \in Devs \cup {None}
      BY <1>1, Zenon DEF PulseType
    <3> QED BY <3>1, <3>2, Updating
  <2>2. server' \in [Devs -> Nat \cup {None}] /\ gone' \subseteq Devs
    BY <1>1, VolumeTypes, SMT DEF Plug, PulseType
  <2>3. listening' \in BOOLEAN /\ unseen' \in BOOLEAN
    BY <1>1, Zenon DEF Plug, PulseType, SeenDefault
  <2> QED BY <2>1, <2>2, <2>3, Zenon DEF PulseType
<1>5. BackendType' /\ ServiceType'
  BY <1>1, BackendSame, ServiceSame, Zenon DEF Plug
<1>6. RestType'
  BY <1>1, ChangeType, Zenon DEF Plug, RestType
<1> QED BY <1>3, <1>4, <1>5, <1>6, TypePartsNext

LEMMA UnplugType ==
  ASSUME TypeOK, NEW d \in Devs, Unplug(d)
  PROVE  TypeOK'
<1>1. LinkType /\ BackendType /\ ServiceType /\ PulseType /\ RestType
  BY TypeParts
<1>2. <<M("remove", d, None)>> \o ServerEvent \in Seq(Messages)
  BY MakeMessage, OneElement, ServerEventType, SeqFacts
<1>3. LinkType'
  BY <1>1, <1>2, NotifyType, Zenon DEF Unplug, LinkType
<1>4. PulseType'
  <2>1. sdflt' \in [Kinds -> Devs \cup {None}]
    BY <1>1, SMT DEF Unplug, PulseType, Up
  <2>2. server' \in [Devs -> Nat \cup {None}] /\ gone' \subseteq Devs
    BY <1>1, SMT DEF Unplug, PulseType
  <2>3. listening' \in BOOLEAN /\ unseen' \in BOOLEAN
    BY <1>1, Zenon DEF Unplug, PulseType, SeenDefault
  <2> QED BY <2>1, <2>2, <2>3, Zenon DEF PulseType
<1>5. BackendType' /\ ServiceType'
  BY <1>1, BackendSame, ServiceSame, Zenon DEF Unplug
<1>6. RestType'
  BY <1>1, ChangeType, Zenon DEF Unplug, RestType
<1> QED BY <1>3, <1>4, <1>5, <1>6, TypePartsNext

LEMMA OtherSetsVolumeType ==
  ASSUME TypeOK, NEW d \in Devs, NEW v \in Volumes, OtherSetsVolume(d, v)
  PROVE  TypeOK'
<1>1. LinkType /\ BackendType /\ ServiceType /\ PulseType /\ RestType
  BY TypeParts
<1>2. <<M("event", d, None)>> \in Seq(Messages)
  BY MakeMessage, OneElement
<1>3. LinkType'
  BY <1>1, <1>2, NotifyType, Zenon DEF OtherSetsVolume, LinkType
<1>4. PulseType'
  BY <1>1, VolumeTypes, SMT DEF OtherSetsVolume, PulseType
<1>5. BackendType' /\ ServiceType'
  BY <1>1, BackendSame, ServiceSame, Zenon DEF OtherSetsVolume
<1>6. RestType'
  BY <1>1, ChangeType, Zenon DEF OtherSetsVolume, RestType
<1> QED BY <1>3, <1>4, <1>5, <1>6, TypePartsNext

(* A request served leaves the rest of the program alone. *)
LEMMA ServeType ==
  ASSUME TypeOK, NEW t, Serve(t)
  PROVE  /\ LinkType /\ PulseType
         /\ Head(requests) \in Requests /\ Head(requests).t = t
         /\ requests' \in Seq(Requests) /\ gone' \subseteq Devs
         /\ messages' \in Seq(Messages) /\ PulseType' => TypeOK'
<1>1. LinkType /\ BackendType /\ ServiceType /\ PulseType /\ RestType
  BY TypeParts
<1>2. Head(requests) \in Requests /\ requests' \in Seq(Requests)
  BY <1>1, SeqFacts, Zenon DEF Serve, LinkType
<1>3. BackendType' /\ ServiceType' /\ RestType'
  BY <1>1, BackendSame, ServiceSame, Zenon DEF Serve, RestType
<1>4. gone' \subseteq Devs
  BY <1>1, Zenon DEF Serve, PulseType
<1>5. messages' \in Seq(Messages) /\ PulseType' => TypeOK'
  BY <1>2, <1>3, TypePartsNext, Zenon DEF LinkType
<1> QED BY <1>1, <1>2, <1>4, <1>5, Zenon DEF Serve

LEMMA ServeServerInfoType ==
  ASSUME TypeOK, ServeServerInfo
  PROVE  TypeOK'
<1>1. Serve("serverInfo")
  BY Zenon DEF ServeServerInfo
<1>2. M("serverInfo", None, sdflt) \in Messages
  BY <1>1, ServeType, MakeMessage, Zenon DEF PulseType
<1>3. messages' \in Seq(Messages)
  BY <1>1, <1>2, ServeType, SeqFacts, Zenon DEF ServeServerInfo, LinkType
<1>4. PulseType'
  BY <1>1, ServeType, Zenon DEF ServeServerInfo, PulseType
<1> QED BY <1>1, <1>3, <1>4, ServeType

LEMMA ServeSubscribeType ==
  ASSUME TypeOK, ServeSubscribe
  PROVE  TypeOK'
<1>1. Serve("subscribe")
  BY Zenon DEF ServeSubscribe
<1>2. messages' \in Seq(Messages) /\ PulseType'
  BY <1>1, ServeType, Zenon DEF ServeSubscribe, PulseType, LinkType
<1> QED BY <1>1, <1>2, ServeType

LEMMA ServeListType ==
  ASSUME TypeOK, ServeList
  PROVE  TypeOK'
<1>1. Serve("list")
  BY Zenon DEF ServeList
<1>2. Infos(Up) \in Seq(Messages)
  BY InfosType
<1>3. messages' \in Seq(Messages)
  BY <1>1, <1>2, ServeType, SeqFacts, Zenon DEF ServeList, LinkType
<1>4. PulseType'
  BY <1>1, ServeType, Zenon DEF ServeList, PulseType
<1> QED BY <1>1, <1>3, <1>4, ServeType

LEMMA ServeInfoType ==
  ASSUME TypeOK, ServeInfo
  PROVE  TypeOK'
<1>1. Serve("info")
  BY Zenon DEF ServeInfo
<1>2. Infos({Head(requests).d} \cap Up) \in Seq(Messages)
  BY InfosType
<1>3. messages' \in Seq(Messages)
  BY <1>1, <1>2, ServeType, SeqFacts, Zenon DEF ServeInfo, LinkType
<1>4. PulseType'
  BY <1>1, ServeType, Zenon DEF ServeInfo, PulseType
<1> QED BY <1>1, <1>3, <1>4, ServeType

LEMMA ServeVolumeType ==
  ASSUME TypeOK, ServeVolume
  PROVE  TypeOK'
<1> DEFINE d == Head(requests).d
           v == Head(requests).x
<1>1. Serve("setVolume")
  BY Zenon DEF ServeVolume
<1>2. d \in Devs /\ v \in Nat
  BY <1>1, ServeType, ReadRequest
<1>3. <<M("event", d, None)>> \in Seq(Messages)
  BY <1>2, MakeMessage, OneElement
<1>4. messages' \in Seq(Messages)
  BY <1>1, <1>3, ServeType, NotifyType, Zenon DEF ServeVolume, LinkType
<1>5. server' \in [Devs -> Nat \cup {None}]
  <2>1. server' \in {[server EXCEPT ![d] = v], server}
    BY Zenon DEF ServeVolume
  <2>2. server \in [Devs -> Nat \cup {None}] /\ v \in Nat \cup {None}
    BY <1>1, <1>2, ServeType, Zenon DEF PulseType
  <2> HIDE DEF d, v
  <2> QED BY <2>1, <2>2, Updating
<1>6. PulseType'
  BY <1>1, <1>5, ServeType, Zenon DEF ServeVolume, PulseType
<1> QED BY <1>1, <1>4, <1>6, ServeType

LEMMA ServeDefaultType ==
  ASSUME TypeOK, ServeDefault
  PROVE  TypeOK'
<1>1. Serve("setDefault")
  BY Zenon DEF ServeDefault
<1>2. messages' \in Seq(Messages)
  BY <1>1, ServeType, ServerEventType, NotifyType, Zenon DEF ServeDefault
<1>3. sdflt' \in [Kinds -> Devs \cup {None}]
  <2> DEFINE d == Head(requests).d
  <2>1. sdflt' \in {[sdflt EXCEPT ![KindOf[d]] = d], sdflt}
    BY Zenon DEF ServeDefault
  <2>2. sdflt \in [Kinds -> Devs \cup {None}] /\ d \in Devs \cup {None}
    BY <1>1, ServeType, ReadRequest, Zenon DEF PulseType, Defaultable
  <2> HIDE DEF d
  <2> QED BY <2>1, <2>2, Updating
<1>4. PulseType'
  BY <1>1, <1>3, ServeType, Zenon DEF ServeDefault, PulseType
<1> QED BY <1>1, <1>2, <1>4, ServeType

(* The backend's callbacks. *)
LEMMA ContextType ==
  ASSUME TypeOK, ContextReady \/ ContextFails
  PROVE  TypeOK'
<1>1. LinkType /\ BackendType /\ ServiceType /\ PulseType /\ RestType
  BY TypeParts
<1>2. BackendType' /\ ServiceType' /\ PulseType'
  BY <1>1, BackendSame, ServiceSame, PulseSame, Zenon DEF ContextReady, ContextFails
<1>3. CASE ContextReady
  <2>1. RestType'
    BY <1>1, <1>3, Zenon DEF ContextReady, RestType
  <2>2. <<M("serverInfo", None, None), M("subscribe", None, None)>> \in Seq(Requests)
    BY MakeRequest, TwoElements
  <2>3. LinkType'
    BY <1>1, <1>3, <2>2, Zenon DEF ContextReady, LinkType
  <2> QED BY <1>2, <2>1, <2>3, TypePartsNext
<1>4. CASE ContextFails
  <2>1. RestType'
    BY <1>1, <1>4, ChangeType, Zenon DEF ContextFails, RestType
  <2>2. <<>> \in Seq(Requests) /\ <<>> \in Seq(Messages)
    OBVIOUS
  <2>3. LinkType'
    BY <1>4, <2>2, Zenon DEF ContextFails, LinkType
  <2> QED BY <1>2, <2>1, <2>3, TypePartsNext
<1> QED BY <1>3, <1>4

LEMMA EventType ==
  ASSUME TypeOK, ServerInfoCallback \/ OnServerEvent \/ OnDeviceEvent
  PROVE  TypeOK'
<1>1. LinkType /\ BackendType /\ ServiceType /\ PulseType /\ RestType
  BY TypeParts
<1>2. ServiceType' /\ PulseType' /\ RestType'
  BY <1>1, ServiceSame, PulseSame, Zenon
  DEF ServerInfoCallback, OnServerEvent, OnDeviceEvent, RestType
<1>3. CASE ServerInfoCallback
  <2>1. Receive("serverInfo")
    BY <1>3, Zenon DEF ServerInfoCallback
  <2>2. Head(messages).x \in [Kinds -> Devs \cup {None}] /\ messages' \in Seq(Messages)
    BY <1>1, <2>1, ReceiveType, ReadMessage
  <2>3. BackendType'
    BY <1>1, <1>3, <2>2, Zenon DEF ServerInfoCallback, OnServerInfo, BackendType
  <2>4. LinkType'
    BY <1>1, <1>3, <2>2, MakeRequest, SeqFacts, Zenon DEF ServerInfoCallback, LinkType
  <2> QED BY <1>2, <2>3, <2>4, TypePartsNext
<1>4. CASE OnServerEvent
  <2>1. messages' \in Seq(Messages)
    BY <1>1, <1>4, ReceiveType, Zenon DEF OnServerEvent
  <2>2. LinkType'
    BY <1>1, <1>4, <2>1, MakeRequest, SeqFacts, Zenon DEF OnServerEvent, LinkType
  <2>3. BackendType'
    BY <1>1, <1>4, BackendSame, Zenon DEF OnServerEvent
  <2> QED BY <1>2, <2>2, <2>3, TypePartsNext
<1>5. CASE OnDeviceEvent
  <2>1. Receive("event")
    BY <1>5, Zenon DEF OnDeviceEvent
  <2>2. Head(messages).d \in Devs /\ messages' \in Seq(Messages)
    BY <1>1, <2>1, ReceiveType, ReadMessage
  <2>3. LinkType'
    BY <1>1, <1>5, <2>2, MakeRequest, SeqFacts, Zenon DEF OnDeviceEvent, LinkType
  <2>4. BackendType'
    BY <1>1, <1>5, BackendSame, Zenon DEF OnDeviceEvent
  <2> QED BY <1>2, <2>3, <2>4, TypePartsNext
<1> QED BY <1>3, <1>4, <1>5

(* The device an info is about, and what becomes of it. *)
LEMMA InfoReceived ==
  ASSUME TypeOK, Receive("info")
  PROVE  /\ Head(messages).d \in Devs /\ Head(messages).x \in Nat
         /\ Updated(Head(messages)) \in Entry
         /\ messages' \in Seq(Messages)
<1>1. Head(messages).d \in Devs /\ Head(messages).x \in Nat /\ messages' \in Seq(Messages)
  BY TypeParts, ReceiveType, ReadMessage
<1>2. IsDefault(Head(messages).d) \in BOOLEAN
  BY Zenon DEF IsDefault
<1>3. Updated(Head(messages)) \in Entry
  <2>1. PercentOf(Head(messages).x) \in Percents
    BY <1>1, Conversions
  <2> QED BY <1>2, <2>1, Zenon DEF Updated, Entry
<1> QED BY <1>1, <1>3

LEMMA UpdateDeviceType ==
  ASSUME TypeOK, UpdateDevice
  PROVE  TypeOK'
<1> DEFINE d == Head(messages).d
           e == Updated(Head(messages))
<1>1. LinkType /\ BackendType /\ ServiceType /\ PulseType /\ RestType
  BY TypeParts
<1>2. d \in Devs /\ e \in Entry \cup {None} /\ messages' \in Seq(Messages)
  BY InfoReceived, Zenon DEF UpdateDevice
<1>3. dev' = [dev EXCEPT ![d] = e] /\ Tell(d, e) /\ UNCHANGED <<requests, dflt, metaVol, metaDevs, metaOf, clients>>
  BY Zenon DEF UpdateDevice
<1>4. PulseType' /\ RestType'
  BY <1>1, PulseSame, Zenon DEF UpdateDevice, RestType
<1> HIDE DEF d, e
<1>5. BackendType'
  BY <1>1, <1>2, <1>3, Updating, Zenon DEF BackendType
<1>6. ServiceType'
  BY <1>1, <1>2, <1>3, TellType, Zenon DEF ServiceType
<1> QED BY <1>1, <1>2, <1>3, <1>4, <1>5, <1>6, TypePartsNext, Zenon DEF LinkType

LEMMA JoinGroupType ==
  ASSUME BackendType, LinkType, NEW d \in Inputs, NEW v \in Percents, JoinGroup(d, v)
  PROVE  /\ metaVol' \in [Vms -> Percents \cup {None}] /\ metaDevs' \in [Vms -> SUBSET Inputs]
         /\ metaOf' \subseteq Inputs /\ requests' \in Seq(Requests)
<1> DEFINE m == VmOf[d]
<1>1. d \in Devs /\ m \in Vms
  BY ConstantsAssumption DEF Inputs
<1>2. AddToMeta(m, d, v) /\ metaOf' = metaOf \cup {d}
  BY Zenon DEF JoinGroup
<1> HIDE DEF m
<1>3. metaDevs' \in [Vms -> SUBSET Inputs]
  BY <1>1, <1>2, SMT DEF AddToMeta, BackendType
<1>4. metaVol' \in [Vms -> Percents \cup {None}]
  <2>1. metaVol' \in {[metaVol EXCEPT ![m] = v], metaVol}
    BY <1>2, Zenon DEF AddToMeta
  <2> QED BY <2>1, Updating DEF BackendType
<1>5. requests' \in Seq(Requests)
  <2>1. metaVol[m] # None => metaVol[m] \in Percents
    BY <1>1 DEF BackendType
  <2>2. metaVol[m] # None => SetVolume(d, metaVol[m]) \in Requests
    BY <1>1, <2>1, MakeRequest, Zenon
  <2> QED BY <1>2, <2>2, SeqFacts, Zenon DEF AddToMeta, LinkType
<1> QED BY <1>2, <1>3, <1>4, <1>5 DEF BackendType

LEMMA AddDeviceType ==
  ASSUME TypeOK, AddDevice
  PROVE  TypeOK'
<1> DEFINE d == Head(messages).d
           e == Updated(Head(messages))
<1>1. LinkType /\ BackendType /\ ServiceType /\ PulseType /\ RestType
  BY TypeParts
<1>2. d \in Devs /\ e \in Entry /\ e.v \in Percents /\ messages' \in Seq(Messages)
  BY InfoReceived, Zenon DEF AddDevice, Entry
<1>3. /\ dev' = [dev EXCEPT ![d] = e] /\ Tell(d, e) /\ UNCHANGED <<dflt, clients>>
      /\ \/ d \in Inputs /\ JoinGroup(d, e.v)
         \/ UNCHANGED <<requests, metaVol, metaDevs, metaOf>>
  BY Zenon DEF AddDevice
<1>4. PulseType' /\ RestType'
  BY <1>1, PulseSame, Zenon DEF AddDevice, RestType
<1> HIDE DEF d, e
<1>5. /\ metaVol' \in [Vms -> Percents \cup {None}] /\ metaDevs' \in [Vms -> SUBSET Inputs]
      /\ metaOf' \subseteq Inputs /\ requests' \in Seq(Requests)
  BY <1>1, <1>2, <1>3, JoinGroupType, Zenon DEF BackendType, LinkType
<1>6. dev' \in [Devs -> Entry \cup {None}]
  BY <1>1, <1>2, <1>3, Updating DEF BackendType
<1>7. BackendType'
  BY <1>1, <1>3, <1>5, <1>6, Zenon DEF BackendType
<1>8. ServiceType'
  BY <1>1, <1>2, <1>3, TellType, Zenon DEF ServiceType
<1> QED BY <1>2, <1>4, <1>5, <1>7, <1>8, TypePartsNext, Zenon DEF LinkType

LEMMA DeleteDeviceType ==
  ASSUME TypeOK, DeleteDevice
  PROVE  TypeOK'
<1> DEFINE d == Head(messages).d
<1>1. LinkType /\ BackendType /\ ServiceType /\ PulseType /\ RestType
  BY TypeParts
<1>2. Receive("remove")
  BY Zenon DEF DeleteDevice
<1>3. d \in Devs /\ messages' \in Seq(Messages)
  BY <1>1, <1>2, ReceiveType, ReadMessage
<1>4. /\ \/ LeaveGroup(d) /\ dev' = [dev EXCEPT ![d] = None] /\ Tell(d, None)
         \/ UNCHANGED <<dev, view, metaDevs>>
      /\ UNCHANGED <<requests, dflt, metaVol, metaOf, clients>>
  BY Zenon DEF DeleteDevice
<1>5. PulseType' /\ RestType'
  BY <1>1, PulseSame, Zenon DEF DeleteDevice, RestType
<1> HIDE DEF d
<1>6. metaDevs' \in [Vms -> SUBSET Inputs]
  BY <1>1, <1>4, SMT DEF LeaveGroup, BackendType
<1>7. dev' \in [Devs -> Entry \cup {None}]
  BY <1>1, <1>4, Updating DEF BackendType
<1>8. BackendType'
  BY <1>1, <1>4, <1>6, <1>7, Zenon DEF BackendType
<1>9. ServiceType'
  BY <1>1, <1>3, <1>4, TellType, Zenon DEF ServiceType
<1> QED BY <1>1, <1>3, <1>4, <1>5, <1>8, <1>9, TypePartsNext, Zenon DEF LinkType

(* The D-Bus service. *)
LEMMA SetDeviceVolumeType ==
  ASSUME TypeOK, NEW d \in Devs, NEW v \in Levels, SetDeviceVolume(d, v)
  PROVE  TypeOK'
<1>1. LinkType /\ BackendType /\ ServiceType /\ PulseType /\ RestType
  BY TypeParts
<1>2. <<SetVolume(d, v)>> \in Seq(Requests)
  <2>1. v \in Percents
    BY VolumeTypes
  <2>2. SetVolume(d, v) \in Requests
    BY <2>1, MakeRequest, Zenon
  <2> QED BY <2>2, OneElement
<1>3. LinkType'
  BY <1>1, <1>2, RequestType, Zenon DEF SetDeviceVolume, LinkType
<1>4. dev[d] \in Entry \cup {None}
  BY <1>1 DEF BackendType
<1>5. ServiceType'
  BY <1>1, <1>4, TellType, Zenon DEF SetDeviceVolume, ServiceType
<1>6. BackendType' /\ PulseType'
  BY <1>1, BackendSame, PulseSame, Zenon DEF SetDeviceVolume
<1>7. RestType'
  BY <1>1, ChangeType, Zenon DEF SetDeviceVolume, RestType
<1> QED BY <1>3, <1>5, <1>6, <1>7, TypePartsNext

LEMMA SetMetaVolumeType ==
  ASSUME TypeOK, NEW m \in Vms, NEW v \in Levels, SetMetaVolume(m, v)
  PROVE  TypeOK'
<1>1. LinkType /\ BackendType /\ ServiceType /\ PulseType /\ RestType
  BY TypeParts
<1>2. metaDevs[m] \subseteq Devs
  BY <1>1 DEF BackendType, Inputs
<1>0. v \in Percents
  BY VolumeTypes
<1>3. VolumeFor(metaDevs[m], v) \in Seq(Requests)
  BY <1>0, <1>2, VolumeForType
<1>4. LinkType'
  BY <1>1, <1>3, RequestType, Zenon DEF SetMetaVolume, LinkType
<1>5. metaVol' \in [Vms -> Percents \cup {None}]
  BY <1>0, <1>1, Updating DEF SetMetaVolume, BackendType
<1>6. BackendType'
  BY <1>1, <1>5, Zenon DEF SetMetaVolume, BackendType
<1>7. ServiceType' /\ PulseType'
  BY <1>1, ServiceSame, PulseSame, Zenon DEF SetMetaVolume
<1>8. RestType'
  BY <1>1, ChangeType, Zenon DEF SetMetaVolume, RestType
<1> QED BY <1>4, <1>6, <1>7, <1>8, TypePartsNext

LEMMA MakeDeviceDefaultType ==
  ASSUME TypeOK, NEW d \in Devs, MakeDeviceDefault(d)
  PROVE  TypeOK'
<1>1. LinkType /\ BackendType /\ ServiceType /\ PulseType /\ RestType
  BY TypeParts
<1>2. <<M("setDefault", d, None)>> \in Seq(Requests)
  BY MakeRequest, OneElement DEF MakeDeviceDefault
<1>3. requests' \in Seq(Requests)
  BY <1>1, <1>2, RequestType, Zenon DEF MakeDeviceDefault, SetDefault, LinkType
<1>4. LinkType'
  BY <1>1, <1>3, Zenon DEF MakeDeviceDefault, LinkType
<1>5. dev[d] \in Entry \cup {None}
  BY <1>1 DEF BackendType
<1>6. ServiceType'
  BY <1>1, <1>5, TellType, Zenon DEF MakeDeviceDefault, ServiceType
<1>7. BackendType' /\ PulseType'
  BY <1>1, BackendSame, PulseSame, Zenon DEF MakeDeviceDefault
<1>8. RestType'
  BY <1>1, ChangeType, Zenon DEF MakeDeviceDefault, RestType
<1> QED BY <1>4, <1>6, <1>7, <1>8, TypePartsNext

(* The list of subscribers stays within its bound, and only the caller can    *)
(* be new in it.                                                              *)
LEMMA AdmittedFacts ==
  ASSUME ServiceType, NEW c \in Clients
  PROVE  /\ Admitted(c) \in Seq(Clients) /\ Len(Admitted(c)) <= MaxClients
         /\ \A i \in 1..Len(Admitted(c)) : Admitted(c)[i] \in Subscribers \cup {c}
<1>1. clients \in Seq(Clients) /\ Len(clients) \in Nat /\ Len(clients) <= MaxClients
      /\ MaxClients \in Nat \ {0}
  BY ConstantsAssumption DEF ServiceType
<1>2. \A i \in 1..Len(clients) : clients[i] \in Subscribers
  BY DEF Subscribers
<1>3. CASE c \in Subscribers
  <2>1. Admitted(c) = clients
    BY <1>3 DEF Admitted
  <2> QED BY <1>1, <1>2, <2>1
<1>4. CASE c \notin Subscribers /\ Len(clients) = MaxClients
  <2> DEFINE t == Tail(clients)
  <2>1. Admitted(c) = Append(t, c)
    BY <1>4 DEF Admitted
  <2>2. t \in Seq(Clients) /\ Len(t) = Len(clients) - 1 /\ \A i \in 1..Len(t) : t[i] = clients[i + 1]
    BY <1>1, <1>4
  <2> HIDE DEF t
  <2>3. /\ Append(t, c) \in Seq(Clients) /\ Len(Append(t, c)) = Len(clients)
        /\ \A i \in 1..Len(Append(t, c)) : Append(t, c)[i] = IF i <= Len(t) THEN t[i] ELSE c
    BY <1>1, <2>2
  <2> QED BY <1>1, <1>2, <2>1, <2>2, <2>3
<1>5. CASE c \notin Subscribers /\ Len(clients) # MaxClients
  <2>1. Admitted(c) = Append(clients, c)
    BY <1>5 DEF Admitted
  <2>2. /\ Append(clients, c) \in Seq(Clients) /\ Len(Append(clients, c)) = Len(clients) + 1
        /\ \A i \in 1..Len(Append(clients, c)) : Append(clients, c)[i] = IF i <= Len(clients) THEN clients[i] ELSE c
    BY <1>1
  <2> QED BY <1>1, <1>2, <1>5, <2>1, <2>2
<1> QED BY <1>3, <1>4, <1>5

LEMMA RemovedFacts ==
  ASSUME ServiceType, NEW i \in 1..Len(clients)
  PROVE  /\ RemoveAt(clients, i) \in Seq(Clients) /\ Len(RemoveAt(clients, i)) <= MaxClients
         /\ \A j \in 1..Len(RemoveAt(clients, i)) : RemoveAt(clients, i)[j] \in Subscribers
<1> DEFINE a == SubSeq(clients, 1, i - 1)
           b == SubSeq(clients, i + 1, Len(clients))
<1>1. clients \in Seq(Clients) /\ Len(clients) \in Nat /\ Len(clients) <= MaxClients
      /\ MaxClients \in Nat
  BY ConstantsAssumption DEF ServiceType
<1>2. \A j \in 1..Len(clients) : clients[j] \in Subscribers
  BY DEF Subscribers
<1>3. a \in Seq(Clients) /\ Len(a) = i - 1 /\ \A j \in 1..Len(a) : a[j] = clients[j]
  BY <1>1
<1>4. b \in Seq(Clients) /\ Len(b) = Len(clients) - i /\ \A j \in 1..Len(b) : b[j] = clients[i + j]
  BY <1>1
<1>5. RemoveAt(clients, i) = a \o b
  BY DEF RemoveAt
<1> HIDE DEF a, b
<1>6. /\ a \o b \in Seq(Clients) /\ Len(a \o b) = Len(a) + Len(b)
      /\ \A j \in 1..Len(a \o b) : (a \o b)[j] = IF j <= Len(a) THEN a[j] ELSE b[j - Len(a)]
  BY <1>3, <1>4, ConcatFacts
<1>7. \A j \in 1..Len(a \o b) : (a \o b)[j] \in Subscribers
  <2> SUFFICES ASSUME NEW j \in 1..Len(a \o b) PROVE (a \o b)[j] \in Subscribers
    OBVIOUS
  <2>1. CASE j <= Len(a)
    <3>1. (a \o b)[j] = a[j] /\ j \in 1..Len(a) /\ j \in 1..Len(clients)
      BY <1>1, <1>3, <1>6, <2>1
    <3> QED BY <1>2, <1>3, <3>1
  <2>2. CASE j > Len(a)
    <3>1. j - Len(a) \in 1..Len(b) /\ i + (j - Len(a)) \in 1..Len(clients)
      BY <1>1, <1>3, <1>4, <1>6, <2>2
    <3>2. (a \o b)[j] = b[j - Len(a)]
      BY <1>3, <1>6, <2>2
    <3> QED BY <1>2, <1>4, <3>1, <3>2
  <2> QED BY <1>3, <2>1, <2>2
<1> QED BY <1>1, <1>3, <1>4, <1>5, <1>6, <1>7

LEMMA SubscribeType ==
  ASSUME TypeOK, NEW c \in Clients, Subscribe(c)
  PROVE  TypeOK'
<1>1. LinkType /\ BackendType /\ ServiceType /\ PulseType /\ RestType
  BY TypeParts
<1>2. clients' \in Seq(Clients) /\ Len(clients') <= MaxClients
  BY <1>1, AdmittedFacts, Zenon DEF Subscribe
<1>3. view' \in [Clients -> [Devs -> Entry \cup {None}]]
  BY <1>1, Updating DEF Subscribe, GetAllDevices, BackendType, ServiceType
<1>4. LinkType' /\ BackendType' /\ PulseType'
  BY <1>1, BackendSame, PulseSame, Zenon DEF Subscribe, LinkType
<1>5. RestType'
  BY <1>1, ChangeType, Zenon DEF Subscribe, RestType
<1> QED BY <1>2, <1>3, <1>4, <1>5, TypePartsNext, Zenon DEF ServiceType

LEMMA UnsubscribeType ==
  ASSUME TypeOK, NEW c \in Clients, Unsubscribe(c)
  PROVE  TypeOK'
<1>1. LinkType /\ BackendType /\ ServiceType /\ PulseType /\ RestType
  BY TypeParts
<1>2. clients' \in Seq(Clients) /\ Len(clients') <= MaxClients
  BY <1>1, RemovedFacts, Zenon DEF Unsubscribe
<1>3. ServiceType'
  BY <1>1, <1>2, Zenon DEF Unsubscribe, ServiceType
<1>4. LinkType' /\ BackendType' /\ PulseType'
  BY <1>1, BackendSame, PulseSame, Zenon DEF Unsubscribe, LinkType
<1>5. RestType'
  BY <1>1, ChangeType, Zenon DEF Unsubscribe, RestType
<1> QED BY <1>3, <1>4, <1>5, TypePartsNext

(* Types are correct: no callback stores an answer that is not of the kind    *)
(* it asked for, and the list of subscribers never exceeds its bound.         *)
THEOREM TypeCorrect == Spec => []TypeOK
<1>1. TypeOK /\ [Next]_vars => TypeOK'
  <2> SUFFICES ASSUME TypeOK, [Next]_vars PROVE TypeOK'
    OBVIOUS
  <2>1. CASE PulseStep
    BY <2>1, ServeServerInfoType, ServeSubscribeType, ServeListType, ServeInfoType, ServeVolumeType,
       ServeDefaultType, ContextType, UnplugType, PlugType, OtherSetsVolumeType, Zenon DEF PulseStep
  <2>2. CASE BackendStep
    BY <2>2, ContextType, EventType, UpdateDeviceType, AddDeviceType, DeleteDeviceType, Zenon DEF BackendStep
  <2>3. CASE ServiceStep
    BY <2>3, MakeDeviceDefaultType, SetDeviceVolumeType, SetMetaVolumeType, SubscribeType,
       UnsubscribeType, Zenon DEF ServiceStep
  <2>4. CASE UNCHANGED vars
    BY <2>4, Zenon DEF vars, backend, service, pulse, TypeOK
  <2> QED BY <2>1, <2>2, <2>3, <2>4 DEF Next
<1> QED BY <1>1, InitType, PTL DEF Spec
-----------------------------------------------------------------------------
LEMMA SubscribersType == TypeOK => Subscribers \subseteq Clients
  BY DEF TypeOK, Subscribers

LEMMA ViewsSame == ViewsMatch /\ UNCHANGED <<dev, clients, view>> => ViewsMatch'
  BY Zenon DEF ViewsMatch, Subscribers, Connected

(* What becomes of a device is told to every subscriber. *)
LEMMA ViewsTold ==
  ASSUME TypeOK, ViewsMatch, NEW d \in Devs, NEW e, Tell(d, e),
         dev' = [dev EXCEPT ![d] = e], UNCHANGED clients
  PROVE  ViewsMatch'
<1> SUFFICES ASSUME NEW c \in Subscribers, NEW x \in Devs, Connected(x)
             PROVE  view'[c][x] = dev'[x]
  <2>1. Subscribers' = Subscribers
    BY Zenon DEF Subscribers
  <2> QED BY <2>1, Zenon DEF ViewsMatch, Connected
<1>1. view[c][x] = dev[x] /\ c \in Clients
  BY SubscribersType, Zenon DEF ViewsMatch
<1>2. view'[c] = IF Connected(d) THEN [view[c] EXCEPT ![d] = e] ELSE view[c]
  BY <1>1 DEF Tell
<1>3. view[c] \in [Devs -> Entry \cup {None}] /\ dev \in [Devs -> Entry \cup {None}]
  BY <1>1 DEF TypeOK
<1>4. CASE x = d
  <2>1. view'[c] = [view[c] EXCEPT ![d] = e]
    BY <1>2, <1>4
  <2> QED BY <1>3, <1>4, <2>1
<1>5. CASE x # d
  <2>1. dev'[x] = dev[x]
    BY <1>3, <1>5
  <2>2. view'[c][x] = view[c][x]
    BY <1>2, <1>3, <1>5
  <2> QED BY <1>1, <2>1, <2>2
<1> QED BY <1>4, <1>5

LEMMA ViewsStep == TypeOK /\ ViewsMatch /\ [Next]_vars => ViewsMatch'
<1> SUFFICES ASSUME TypeOK, ViewsMatch, [Next]_vars PROVE ViewsMatch'
  OBVIOUS
<1>0. dev \in [Devs -> Entry \cup {None}] /\ view \in [Clients -> [Devs -> Entry \cup {None}]]
  BY Zenon DEF TypeOK
<1>1. CASE PulseStep
  <2>1. UNCHANGED <<dev, clients, view>>
    BY <1>1, Zenon DEF PulseStep, ServeServerInfo, ServeSubscribe, ServeList, ServeInfo, ServeVolume,
       ServeDefault, Serve, ContextFails, Unplug, Plug, OtherSetsVolume, backend, service
  <2> QED BY <2>1, ViewsSame
<1>2. CASE ContextReady \/ ServerInfoCallback \/ OnServerEvent \/ OnDeviceEvent
  <2>1. UNCHANGED <<dev, clients, view>>
    BY <1>2, Zenon DEF ContextReady, ServerInfoCallback, OnServerEvent, OnDeviceEvent, backend, service
  <2> QED BY <2>1, ViewsSame
<1>3. CASE UpdateDevice \/ AddDevice
  <2> DEFINE d == Head(messages).d
             e == Updated(Head(messages))
  <2>1. d \in Devs
    BY <1>3, InfoReceived, Zenon DEF UpdateDevice, AddDevice
  <2>2. dev' = [dev EXCEPT ![d] = e] /\ Tell(d, e) /\ UNCHANGED clients
    BY <1>3, Zenon DEF UpdateDevice, AddDevice
  <2> QED BY <2>1, <2>2, ViewsTold, Zenon
<1>4. CASE DeleteDevice
  <2> DEFINE d == Head(messages).d
  <2>1. d \in Devs
    BY <1>4, TypeParts, ReceiveType, ReadMessage DEF DeleteDevice
  <2>2. \/ dev' = [dev EXCEPT ![d] = None] /\ Tell(d, None) /\ UNCHANGED clients
        \/ UNCHANGED <<dev, clients, view>>
    BY <1>4, Zenon DEF DeleteDevice
  <2> QED BY <2>1, <2>2, ViewsTold, ViewsSame, Zenon
<1>5. CASE \E d \in Devs : MakeDeviceDefault(d) \/ \E v \in Levels : SetDeviceVolume(d, v)
  <2>1. PICK d \in Devs : Tell(d, dev[d]) /\ UNCHANGED <<dev, clients>>
    BY <1>5, Zenon DEF MakeDeviceDefault, SetDeviceVolume, backend
  <2>2. dev' = [dev EXCEPT ![d] = dev[d]]
    BY <1>0, <2>1
  <2> QED BY <2>1, <2>2, ViewsTold, Zenon
<1>6. CASE \E m \in Vms, v \in Levels : SetMetaVolume(m, v)
  <2>1. UNCHANGED <<dev, clients, view>>
    BY <1>6, Zenon DEF SetMetaVolume, service
  <2> QED BY <2>1, ViewsSame
<1>7. CASE \E c \in Clients : Subscribe(c)
  <2>1. PICK c \in Clients : Subscribe(c)
    BY <1>7
  <2>2. clients' = Admitted(c) /\ view' = [view EXCEPT ![c] = dev] /\ dev' = dev
    BY <2>1, Zenon DEF Subscribe, GetAllDevices, backend
  <2>3. Subscribers' \subseteq Subscribers \cup {c}
    BY <2>2, TypeParts, AdmittedFacts DEF Subscribers
  <2>4. \A x \in Subscribers' : view'[x] = IF x = c THEN dev ELSE view[x]
    BY <1>0, <2>2, <2>3, SubscribersType
  <2> QED BY <2>2, <2>3, <2>4 DEF ViewsMatch, Connected
<1>8. CASE \E c \in Clients : Unsubscribe(c)
  <2>1. PICK c \in Clients : Unsubscribe(c)
    BY <1>8
  <2>2. PICK i \in 1..Len(clients) : clients' = RemoveAt(clients, i)
    BY <2>1, Zenon DEF Unsubscribe
  <2>3. view' = view /\ dev' = dev
    BY <2>1, Zenon DEF Unsubscribe, backend
  <2>4. Subscribers' \subseteq Subscribers
    BY <2>2, TypeParts, RemovedFacts DEF Subscribers
  <2> QED BY <2>3, <2>4 DEF ViewsMatch, Connected
<1>9. CASE UNCHANGED vars
  <2>1. UNCHANGED <<dev, clients, view>>
    BY <1>9, Zenon DEF vars, backend, service
  <2> QED BY <2>1, ViewsSame
<1> QED BY <1>1, <1>2, <1>3, <1>4, <1>5, <1>6, <1>7, <1>8, <1>9, Zenon DEF Next, BackendStep, ServiceStep

(* Every subscriber knows every sink, source and sink input as the backend    *)
(* has it, however subscriptions, evictions and callbacks interleave.         *)
THEOREM ViewsCorrect == Spec => []ViewsMatch
<1>1. Init => ViewsMatch
  BY DEF Init, ViewsMatch, Subscribers
<1> QED BY <1>1, ViewsStep, TypeCorrect, PTL DEF Spec
-----------------------------------------------------------------------------
LEMMA GroupsSame == GroupsHoldStreams /\ UNCHANGED <<dev, metaDevs, metaOf>> => GroupsHoldStreams'
<1>1. UNCHANGED dev => Known' = Known
  BY Zenon DEF Known
<1> QED BY <1>1, Zenon DEF GroupsHoldStreams

LEMMA NoneIsNoEntry == None \notin Entry
  BY ConstantsAssumption

LEMMA GroupsStep == TypeOK /\ GroupsHoldStreams /\ [Next]_vars => GroupsHoldStreams'
<1> SUFFICES ASSUME TypeOK, GroupsHoldStreams, [Next]_vars PROVE GroupsHoldStreams'
  OBVIOUS
<1>0. dev \in [Devs -> Entry \cup {None}] /\ metaDevs \in [Vms -> SUBSET Inputs] /\ metaOf \subseteq Inputs
  BY Zenon DEF TypeOK
<1>1. CASE PulseStep \/ ServiceStep \/ UNCHANGED vars
  <2>1. UNCHANGED <<dev, metaDevs, metaOf>>
    BY <1>1, Zenon DEF PulseStep, ServeServerInfo, ServeSubscribe, ServeList, ServeInfo, ServeVolume,
       ServeDefault, Serve, ContextFails, Unplug, Plug, OtherSetsVolume, ServiceStep, MakeDeviceDefault,
       SetDeviceVolume, SetMetaVolume, Subscribe, Unsubscribe, vars, backend
  <2> QED BY <2>1, GroupsSame
<1>2. CASE ContextReady \/ ServerInfoCallback \/ OnServerEvent \/ OnDeviceEvent
  <2>1. UNCHANGED <<dev, metaDevs, metaOf>>
    BY <1>2, Zenon DEF ContextReady, ServerInfoCallback, OnServerEvent, OnDeviceEvent, backend
  <2> QED BY <2>1, GroupsSame
<1>3. CASE UpdateDevice
  <2> DEFINE d == Head(messages).d
             e == Updated(Head(messages))
  <2>1. d \in Devs /\ e \in Entry /\ d \in Known
    BY <1>3, InfoReceived, Zenon DEF UpdateDevice
  <2>2. dev' = [dev EXCEPT ![d] = e] /\ UNCHANGED <<metaDevs, metaOf>>
    BY <1>3, Zenon DEF UpdateDevice
  <2>3. e # None
    BY InfoReceived, <1>3, NoneIsNoEntry, Zenon DEF UpdateDevice
  <2> HIDE DEF d, e
  <2>4. Known' = Known
    BY <1>0, <2>1, <2>2, <2>3 DEF Known
  <2> QED BY <2>2, <2>4, Zenon DEF GroupsHoldStreams
<1>4. CASE AddDevice
  <2> DEFINE d == Head(messages).d
             e == Updated(Head(messages))
             m == VmOf[d]
  <2>1. d \in Devs /\ e \in Entry /\ d \notin Known
    BY <1>4, InfoReceived, Zenon DEF AddDevice
  <2>2. /\ dev' = [dev EXCEPT ![d] = e]
        /\ \/ d \in Inputs /\ JoinGroup(d, e.v)
           \/ d \notin Inputs /\ UNCHANGED <<metaDevs, metaOf>>
    BY <1>4, Zenon DEF AddDevice
  <2>3. e # None
    BY <2>1, NoneIsNoEntry, Zenon
  <2>4. m \in Vms
    BY <2>1, ConstantsAssumption
  <2> HIDE DEF e
  <2>5. Known' = Known \cup {d}
    BY <1>0, <2>1, <2>2, <2>3 DEF Known
  <2>6. CASE d \in Inputs /\ JoinGroup(d, e.v)
    <3>1. metaDevs' = [metaDevs EXCEPT ![m] = @ \cup {d}] /\ metaOf' = metaOf \cup {d}
      BY <2>6, Zenon DEF JoinGroup, AddToMeta
    <3> HIDE DEF d
    <3> QED BY <1>0, <2>4, <2>5, <2>6, <3>1 DEF GroupsHoldStreams
  <2>7. CASE d \notin Inputs /\ UNCHANGED <<metaDevs, metaOf>>
    <3> HIDE DEF d
    <3> QED BY <2>5, <2>7 DEF GroupsHoldStreams
  <2> QED BY <2>2, <2>6, <2>7
<1>5. CASE DeleteDevice
  <2> DEFINE d == Head(messages).d
             m == VmOf[d]
  <2>1. d \in Devs
    BY <1>5, TypeParts, ReceiveType, ReadMessage DEF DeleteDevice
  <2>2. m \in Vms
    BY <2>1, ConstantsAssumption
  <2>3. CASE d \in Known
    <3>1. metaDevs' = [metaDevs EXCEPT ![m] = @ \ {d}] /\ dev' = [dev EXCEPT ![d] = None] /\ metaOf' = metaOf
      BY <1>5, <2>3, Zenon DEF DeleteDevice, LeaveGroup
    <3> HIDE DEF d
    <3>2. Known' = Known \ {d}
      BY <1>0, <2>1, <3>1 DEF Known
    <3> QED BY <1>0, <2>2, <3>1, <3>2 DEF GroupsHoldStreams
  <2>4. CASE d \notin Known
    <3>1. UNCHANGED <<dev, metaDevs, metaOf>>
      BY <1>5, <2>4, Zenon DEF DeleteDevice
    <3> QED BY <3>1, GroupsSame
  <2> QED BY <2>3, <2>4
<1> QED BY <1>1, <1>2, <1>3, <1>4, <1>5, Zenon DEF Next, BackendStep

(* A VM's group is exactly its live streams: setting its volume reaches every *)
(* one of them and none that was deleted.                                     *)
THEOREM GroupsCorrect == Spec => []GroupsHoldStreams
<1>1. Init => GroupsHoldStreams
  BY DEF Init, GroupsHoldStreams, Known, Nothing
<1> QED BY <1>1, GroupsStep, TypeCorrect, PTL DEF Spec
-----------------------------------------------------------------------------
(* What is still under way.  A member of S is in the queue q; w is, and after *)
(* it nothing of S.                                                           *)
Holds(q, S)     == \E i \in 1..Len(q) : q[i] \in S
LastIs(q, S, w) == \E i \in 1..Len(q) : q[i] = w /\ \A j \in (i + 1)..Len(q) : q[j] \notin S

Msgs(t, d) == {m \in Messages : m.t = t /\ m.d = d}
Reqs(t, d) == {r \in Requests : r.t = t /\ r.d = d}

Sent(t, d)  == Holds(messages, Msgs(t, d))
Asked(t, d) == Holds(requests, Reqs(t, d))

(* Until the server has the subscription the backend knows nothing, and has   *)
(* at least one list still to come.                                           *)
Starting ==
  /\ context # "ready" => requests = <<>> /\ messages = <<>>
  /\ context = "new" => ~ listening
  /\ ~ listening => Known = {} /\ \A m \in Vms : metaVol[m] = None
  /\ ~ listening /\ context = "ready" =>
       \/ /\ requests = <<M("serverInfo", None, None), M("subscribe", None, None)>>
          /\ messages = <<>>
       \/ /\ requests = <<M("subscribe", None, None)>>
          /\ \E f \in [Kinds -> Devs \cup {None}] : messages = <<M("serverInfo", None, f)>>
       \/ /\ requests = <<M("subscribe", None, None), M("list", None, None)>>
          /\ messages = <<>>

(* A device that was removed does not come back. *)
NoReturn ==
  /\ \A d \in Up : d \notin gone
  /\ \A d \in Devs : Sent("remove", d) => d \in gone

(* The lists will be asked for, or have been. *)
Relist == Asked("serverInfo", None) \/ Asked("list", None) \/ Sent("serverInfo", None) \/ Sent("serverEvent", None)

(* A device's volume is asked for, on its way, or known. *)
VolumeComes ==
  \A d \in Up :
    \/ Relist \/ Asked("info", d) \/ Sent("event", d)
    \/ LastIs(messages, Msgs("info", d), M("info", d, server[d]))
    \/ ~ Sent("info", d) /\ d \in Known /\ dev[d].v = PercentOf(server[d])

(* A device that is gone is forgotten, or its removal is the last to arrive.  *)
RemovalComes ==
  \A d \in Devs \ Up :
    \/ d \notin Known /\ ~ Sent("info", d)
    \/ LastIs(messages, Msgs("info", d), M("remove", d, None))

(* The names of the defaults are asked for, on their way, or known. *)
DefaultComes ==
  \/ unseen \/ Asked("serverInfo", None) \/ Sent("serverEvent", None)
  \/ LastIs(messages, Msgs("serverInfo", None), M("serverInfo", None, sdflt))
  \/ ~ Sent("serverInfo", None) /\ dflt = sdflt

(* So are the marks that follow from them. *)
MarksCome ==
  \A d \in Up : Relist \/ Sent("info", d) \/ (d \in Known => dev[d].def = IsDefault(d))

UnderWay == VolumeComes /\ RemovalComes /\ DefaultComes /\ MarksCome
DevInv   == Starting /\ NoReturn /\ (context = "ready" => UnderWay)

(* The last volume a stream is given is its VM's; one that is not known yet   *)
(* has the volume it will be added with.                                      *)
StreamSet(d) ==
  /\ metaVol[VmOf[d]] # None
  /\ \/ LastIs(requests, Reqs("setVolume", d), SetVolume(d, metaVol[VmOf[d]]))
     \/ ~ Asked("setVolume", d) /\ PercentOf(server[d]) = metaVol[VmOf[d]]

Stale(d) == Holds(messages, Msgs("info", d) \ {M("info", d, server[d])})

StreamOK(d) ==
  /\ d \in (Inputs \cap Up) \ touched =>
       IF d \in Known THEN StreamSet(d) ELSE ~ Asked("setVolume", d) /\ ~ Stale(d)
  /\ Asked("setVolume", d) => d \in Up \cup gone

StreamInv == context = "ready" => \A d \in Devs : StreamOK(d)

(* The queues as they grow and shrink. *)
LEMMA HoldsNone ==
  ASSUME NEW S
  PROVE  ~ Holds(<<>>, S)
  BY DEF Holds

LEMMA HoldsOne ==
  ASSUME NEW S, NEW w
  PROVE  /\ Holds(<<w>>, S) <=> w \in S
         /\ LastIs(<<w>>, S, w)
  BY DEF Holds, LastIs

LEMMA Grows ==
  ASSUME NEW T, NEW a \in Seq(T), NEW b \in Seq(T)
  PROVE  /\ \A S : Holds(a \o b, S) <=> Holds(a, S) \/ Holds(b, S)
         /\ \A S, w : LastIs(b, S, w) => LastIs(a \o b, S, w)
         /\ \A S, w : LastIs(a, S, w) /\ ~ Holds(b, S) => LastIs(a \o b, S, w)
<1> DEFINE c == a \o b
<1>1. /\ Len(a) \in Nat /\ Len(b) \in Nat /\ Len(c) = Len(a) + Len(b)
      /\ \A j \in 1..Len(a) : c[j] = a[j]
      /\ \A j \in 1..Len(b) : c[Len(a) + j] = b[j]
  OBVIOUS
<1>2. \A j \in 1..Len(c) : j \in 1..Len(a) \/ (j - Len(a) \in 1..Len(b) /\ j = Len(a) + (j - Len(a)))
  BY <1>1
<1> HIDE DEF c
<1>3. ASSUME NEW S PROVE Holds(c, S) <=> Holds(a, S) \/ Holds(b, S)
  <2>1. ASSUME Holds(c, S) PROVE Holds(a, S) \/ Holds(b, S)
    <3>1. PICK j \in 1..Len(c) : c[j] \in S
      BY <2>1 DEF Holds
    <3> QED BY <1>1, <1>2, <3>1 DEF Holds
  <2>2. ASSUME Holds(a, S) PROVE Holds(c, S)
    BY <1>1, <2>2 DEF Holds
  <2>3. ASSUME Holds(b, S) PROVE Holds(c, S)
    <3>1. PICK j \in 1..Len(b) : b[j] \in S
      BY <2>3 DEF Holds
    <3>2. Len(a) + j \in 1..Len(c) /\ c[Len(a) + j] \in S
      BY <1>1, <3>1
    <3> QED BY <3>2 DEF Holds
  <2> QED BY <2>1, <2>2, <2>3
<1>4. ASSUME NEW S, NEW w, LastIs(b, S, w) PROVE LastIs(c, S, w)
  <2>1. PICK i \in 1..Len(b) : b[i] = w /\ \A j \in (i + 1)..Len(b) : b[j] \notin S
    BY <1>4 DEF LastIs
  <2>2. Len(a) + i \in 1..Len(c) /\ c[Len(a) + i] = w
    BY <1>1, <2>1
  <2>3. ASSUME NEW j \in (Len(a) + i + 1)..Len(c) PROVE c[j] \notin S
    <3>1. j - Len(a) \in (i + 1)..Len(b) /\ j - Len(a) \in 1..Len(b) /\ j = Len(a) + (j - Len(a))
      BY <1>1, <2>1
    <3>2. c[j] = b[j - Len(a)]
      BY <1>1, <3>1
    <3> QED BY <2>1, <3>1, <3>2
  <2> QED BY <2>2, <2>3 DEF LastIs
<1>5. ASSUME NEW S, NEW w, LastIs(a, S, w), ~ Holds(b, S) PROVE LastIs(c, S, w)
  <2>1. PICK i \in 1..Len(a) : a[i] = w /\ \A j \in (i + 1)..Len(a) : a[j] \notin S
    BY <1>5 DEF LastIs
  <2>2. i \in 1..Len(c) /\ c[i] = w
    BY <1>1, <2>1
  <2>3. ASSUME NEW j \in (i + 1)..Len(c) PROVE c[j] \notin S
    <3>1. j \in 1..Len(c)
      BY <1>1
    <3>2. CASE j \in 1..Len(a)
      BY <1>1, <2>1, <3>2
    <3>3. CASE j - Len(a) \in 1..Len(b) /\ j = Len(a) + (j - Len(a))
      BY <1>1, <1>5, <3>3 DEF Holds
    <3> QED BY <1>2, <3>1, <3>2, <3>3
  <2> QED BY <2>2, <2>3 DEF LastIs
<1> QED BY <1>3, <1>4, <1>5 DEF c

LEMMA Shrinks ==
  ASSUME NEW T, NEW q \in Seq(T), q # <<>>
  PROVE  /\ \A S : Holds(q, S) <=> Head(q) \in S \/ Holds(Tail(q), S)
         /\ \A S, w : LastIs(q, S, w) => LastIs(Tail(q), S, w) \/ (Head(q) = w /\ ~ Holds(Tail(q), S))
<1> DEFINE r == Tail(q)
<1>1. /\ Len(q) \in Nat \ {0} /\ Len(r) = Len(q) - 1 /\ Head(q) = q[1]
      /\ \A j \in 1..Len(r) : r[j] = q[j + 1]
  OBVIOUS
<1> HIDE DEF r
<1>2. \A j \in 1..Len(q) : j = 1 \/ (j - 1 \in 1..Len(r) /\ r[j - 1] = q[j])
  BY <1>1
<1>3. \A j \in 1..Len(r) : j + 1 \in 1..Len(q)
  BY <1>1
<1>4. ASSUME NEW S PROVE Holds(q, S) <=> Head(q) \in S \/ Holds(r, S)
  <2>1. ASSUME Holds(q, S) PROVE Head(q) \in S \/ Holds(r, S)
    <3>1. PICK j \in 1..Len(q) : q[j] \in S
      BY <2>1 DEF Holds
    <3> QED BY <1>1, <1>2, <3>1 DEF Holds
  <2>2. ASSUME Holds(r, S) PROVE Holds(q, S)
    <3>1. PICK j \in 1..Len(r) : r[j] \in S
      BY <2>2 DEF Holds
    <3> QED BY <1>1, <1>3, <3>1 DEF Holds
  <2>3. ASSUME Head(q) \in S PROVE Holds(q, S)
    <3>1. 1 \in 1..Len(q)
      BY <1>1
    <3> QED BY <1>1, <2>3, <3>1 DEF Holds
  <2> QED BY <2>1, <2>2, <2>3
<1>5. ASSUME NEW S, NEW w, LastIs(q, S, w)
      PROVE  LastIs(r, S, w) \/ (Head(q) = w /\ ~ Holds(r, S))
  <2>1. PICK i \in 1..Len(q) : q[i] = w /\ \A j \in (i + 1)..Len(q) : q[j] \notin S
    BY <1>5 DEF LastIs
  <2>2. CASE i = 1
    <3>1. \A j \in 1..Len(r) : j + 1 \in (i + 1)..Len(q)
      BY <1>1, <2>2
    <3> QED BY <1>1, <2>1, <2>2, <3>1 DEF Holds
  <2>3. CASE i # 1
    <3>1. i - 1 \in 1..Len(r) /\ r[i - 1] = w
      BY <1>1, <1>2, <2>1, <2>3
    <3>2. \A j \in (i - 1 + 1)..Len(r) : j \in 1..Len(r) /\ j + 1 \in (i + 1)..Len(q)
      BY <1>1, <2>3
    <3>3. \A j \in (i - 1 + 1)..Len(r) : r[j] \notin S
      BY <1>1, <2>1, <3>2
    <3> QED BY <3>1, <3>3 DEF LastIs
  <2> QED BY <2>2, <2>3
<1> QED BY <1>4, <1>5 DEF r

LEMMA LastHolds ==
  ASSUME NEW q, NEW S, NEW w
  PROVE  LastIs(q, S, w) /\ w \in S => Holds(q, S)
  BY DEF LastIs, Holds

LEMMA AppendIsConcat ==
  ASSUME NEW T, NEW q \in Seq(T), NEW e \in T
  PROVE  Append(q, e) = q \o <<e>> /\ <<e>> \in Seq(T)
  OBVIOUS

LEMMA GrowsByOne ==
  ASSUME NEW T, NEW q \in Seq(T), NEW e \in T
  PROVE  /\ \A S : Holds(Append(q, e), S) <=> Holds(q, S) \/ e \in S
         /\ \A S, w : LastIs(q, S, w) /\ e \notin S => LastIs(Append(q, e), S, w)
         /\ \A S : LastIs(Append(q, e), S, e)
<1> DEFINE b == <<e>>
<1>1. Append(q, e) = q \o b /\ b \in Seq(T)
  BY AppendIsConcat
<1>2. \A S : (Holds(b, S) <=> e \in S) /\ LastIs(b, S, e)
  BY HoldsOne
<1> HIDE DEF b
<1>3. /\ \A S : Holds(q \o b, S) <=> Holds(q, S) \/ Holds(b, S)
      /\ \A S, w : LastIs(b, S, w) => LastIs(q \o b, S, w)
      /\ \A S, w : LastIs(q, S, w) /\ ~ Holds(b, S) => LastIs(q \o b, S, w)
  BY <1>1, Grows, Zenon
<1> QED BY <1>1, <1>2, <1>3, Zenon

LEMMA Fields ==
  ASSUME NEW t, NEW d, NEW x
  PROVE  M(t, d, x).t = t /\ M(t, d, x).d = d /\ M(t, d, x).x = x
  BY DEF M

LEMMA SetFields ==
  ASSUME NEW d, NEW v
  PROVE  SetVolume(d, v).t = "setVolume" /\ SetVolume(d, v).d = d /\ SetVolume(d, v).x = PulseOf(v)
  BY DEF SetVolume, M

(* Which member of which set a message or a request is. *)
LEMMA InMsgs ==
  ASSUME NEW m \in Messages, NEW t, NEW d
  PROVE  m \in Msgs(t, d) <=> m.t = t /\ m.d = d
  BY DEF Msgs

LEMMA InReqs ==
  ASSUME NEW r \in Requests, NEW t, NEW d
  PROVE  r \in Reqs(t, d) <=> r.t = t /\ r.d = d
  BY DEF Reqs

LEMMA ServerFields ==
  /\ \A m \in Messages : /\ m.t \in {"event", "remove", "info", "serverEvent", "serverInfo"}
                         /\ m.t \in {"serverEvent", "serverInfo"} => m.d = None
                         /\ m = M(m.t, m.d, m.x)
                         /\ m.t \in {"event", "remove", "serverEvent"} => m.x = None
  /\ \A r \in Requests : /\ r.t \in {"serverInfo", "list", "subscribe"} => r.d = None
                         /\ r = M(r.t, r.d, r.x)
<1>1. \A m \in Messages : /\ m.t \in {"event", "remove", "info", "serverEvent", "serverInfo"}
                          /\ m.t \in {"serverEvent", "serverInfo"} => m.d = None
                          /\ m.t \in {"event", "remove", "serverEvent"} => m.x = None
  BY DEF Messages
<1>0. \A A, B, C : \A m \in [t : A, d : B, x : C] : m = M(m.t, m.d, m.x)
  BY DEF M
<1>2. \A m \in Messages : m = M(m.t, m.d, m.x)
  BY <1>0, Zenon DEF Messages
<1>3. \A r \in Requests : r.t \in {"serverInfo", "list", "subscribe"} => r.d = None
  BY DEF Requests
<1>4. \A r \in Requests : r = M(r.t, r.d, r.x)
  BY <1>0, Zenon DEF Requests
<1> QED BY <1>1, <1>2, <1>3, <1>4

LEMMA SetToSeqOnto ==
  ASSUME NEW S, IsFiniteSet(S)
  PROVE  /\ \A i, j \in 1..Cardinality(S) : SetToSeq(S)[i] = SetToSeq(S)[j] => i = j
         /\ \A x \in S : \E i \in 1..Cardinality(S) : SetToSeq(S)[i] = x
<1> DEFINE n == Cardinality(S)
           f == SetToSeq(S)
<1>1. n \in Nat /\ ExistsBijection(1..n, S)
  BY FS_CardinalityType
<1>2. PICK g : g \in Bijection(1..n, S)
  BY <1>1, Zenon DEF ExistsBijection
<1>3. g \in [1..n -> S] /\ IsInjective(g)
  <2>1. g \in Injection(1..n, S)
    BY <1>2, Zenon DEF Bijection
  <2> QED BY <2>1, SMT DEF Injection, IsInjective
<1>4. f \in [1..n -> S] /\ IsInjective(f)
  BY <1>3, Zenon DEF SetToSeq
<1> HIDE DEF f
<1>5. f \in Injection(1..n, S)
  BY <1>4, Zenon DEF Injection
<1>6. IsFiniteSet(1..n) /\ Cardinality(1..n) = n
  BY <1>1, FS_Interval
<1>7. f \in Surjection(1..n, S)
  <2> HIDE DEF n
  <2>1. Cardinality(1..n) = Cardinality(S)
    BY <1>6 DEF n
  <2> QED BY <1>5, <2>1, FS_Injection
<1>8. \A x \in S : \E i \in 1..n : f[i] = x
  BY <1>7, Zenon DEF Surjection
<1>9. \A i, j \in 1..n : f[i] = f[j] => i = j
  BY <1>4 DEF IsInjective
<1> QED BY <1>8, <1>9 DEF f

(* A list of one entry for each member of S. *)
LEMMA OneForEach ==
  ASSUME NEW S, IsFiniteSet(S), NEW T, NEW w, NEW q,
         w \in [S -> T], q = [n \in DOMAIN SetToSeq(S) |-> w[SetToSeq(S)[n]]]
  PROVE  /\ q \in Seq(T)
         /\ \A A : Holds(q, A) <=> \E x \in S : w[x] \in A
         /\ \A x \in S : \A A : (\A y \in S : w[y] \in A => y = x) => LastIs(q, A, w[x])
<1> DEFINE n == Cardinality(S)
           f == SetToSeq(S)
<1>1. n \in Nat /\ f \in [1..n -> S]
  BY SetToSeqType, Zenon
<1>2. /\ \A i, j \in 1..n : f[i] = f[j] => i = j
      /\ \A x \in S : \E i \in 1..n : f[i] = x
  BY SetToSeqOnto, Zenon
<1> HIDE DEF n, f
<1>3. q = [i \in 1..n |-> w[f[i]]]
  BY <1>1 DEF f
<1>4. q \in Seq(T) /\ Len(q) = n
  BY <1>1, <1>3
<1>5. \A i \in 1..n : q[i] = w[f[i]] /\ f[i] \in S
  BY <1>1, <1>3
<1>6. \A A : Holds(q, A) <=> \E x \in S : w[x] \in A
  <2> TAKE A
  <2>1. Holds(q, A) <=> \E i \in 1..n : q[i] \in A
    BY <1>4 DEF Holds
  <2>2. \A i \in 1..n : q[i] \in A => \E x \in S : w[x] \in A
    BY <1>5
  <2>3. \A x \in S : \E i \in 1..n : q[i] = w[x]
    BY <1>2, <1>5
  <2> QED BY <2>1, <2>2, <2>3
<1>7. ASSUME NEW x \in S, NEW A, \A y \in S : w[y] \in A => y = x
      PROVE  LastIs(q, A, w[x])
  <2>1. PICK i \in 1..n : f[i] = x
    BY <1>2
  <2>2. \A j \in (i + 1)..n : j \in 1..n /\ j # i
    BY <1>1, <2>1
  <2>3. \A j \in (i + 1)..n : q[j] \notin A
    BY <1>2, <1>5, <1>7, <2>1, <2>2
  <2>4. q[i] = w[x] /\ Len(q) = n
    BY <1>4, <1>5, <2>1
  <2> QED BY <2>1, <2>3, <2>4 DEF LastIs
<1> QED BY <1>4, <1>6, <1>7

LEMMA InfosFacts ==
  ASSUME TypeOK, NEW S, S \subseteq Up
  PROVE  /\ \A t, e : Holds(Infos(S), Msgs(t, e)) <=> t = "info" /\ e \in S
         /\ \A e \in S : LastIs(Infos(S), Msgs("info", e), M("info", e, server[e]))
         /\ \A e : ~ Holds(Infos(S), Msgs("info", e) \ {M("info", e, server[e])})
<1> DEFINE w == [d \in S |-> M("info", d, server[d])]
<1>1. IsFiniteSet(S)
  BY FiniteDevs, Zenon DEF Up
<1>2. \A d \in S : M("info", d, server[d]) \in Messages
  <2>1. \A d \in S : d \in Devs /\ server[d] \in Nat
    BY Zenon DEF TypeOK, Up
  <2> QED BY <2>1, MakeMessage, Zenon
<1>3. \A d \in S : \A t, e : M("info", d, server[d]) \in Msgs(t, e) <=> t = "info" /\ e = d
  BY <1>2, InMsgs, Fields
<1>4. w \in [S -> Messages] /\ \A d \in S : w[d] = M("info", d, server[d])
  BY <1>2
<1>5. Infos(S) = [n \in DOMAIN SetToSeq(S) |-> w[SetToSeq(S)[n]]]
  <2>1. DOMAIN SetToSeq(S) = 1..Cardinality(S) /\ \A n \in DOMAIN SetToSeq(S) : SetToSeq(S)[n] \in S
    BY <1>1, SetToSeqType
  <2> QED BY <1>4, <2>1 DEF Infos
<1> HIDE DEF w
<1>6. /\ \A A : Holds(Infos(S), A) <=> \E x \in S : w[x] \in A
      /\ \A x \in S : \A A : (\A y \in S : w[y] \in A => y = x) => LastIs(Infos(S), A, w[x])
  BY <1>1, <1>4, <1>5, OneForEach
<1>7. \A t, e : Holds(Infos(S), Msgs(t, e)) <=> t = "info" /\ e \in S
  BY <1>3, <1>4, <1>6
<1>8. \A e \in S : LastIs(Infos(S), Msgs("info", e), M("info", e, server[e]))
  BY <1>3, <1>4, <1>6
<1>9. \A e : ~ Holds(Infos(S), Msgs("info", e) \ {M("info", e, server[e])})
  BY <1>3, <1>4, <1>6
<1> QED BY <1>7, <1>8, <1>9

LEMMA VolumeForFacts ==
  ASSUME NEW S, S \subseteq Devs, NEW v \in Percents
  PROVE  /\ \A t, e : Holds(VolumeFor(S, v), Reqs(t, e)) <=> t = "setVolume" /\ e \in S
         /\ \A e \in S : LastIs(VolumeFor(S, v), Reqs("setVolume", e), SetVolume(e, v))
<1> DEFINE w == [d \in S |-> SetVolume(d, v)]
<1>1. IsFiniteSet(S)
  BY FiniteDevs, Zenon
<1>2. \A d \in S : SetVolume(d, v) \in Requests
  BY MakeRequest, Zenon
<1>3. \A d \in S : \A t, e : SetVolume(d, v) \in Reqs(t, e) <=> t = "setVolume" /\ e = d
  <2> TAKE d \in S
  <2> TAKE t, e
  <2>1. SetVolume(d, v) \in Requests
    BY <1>2
  <2>2. SetVolume(d, v).t = "setVolume" /\ SetVolume(d, v).d = d
    BY SetFields
  <2> QED BY <2>1, <2>2, InReqs
<1>4. w \in [S -> Requests] /\ \A d \in S : w[d] = SetVolume(d, v)
  BY <1>2
<1>5. VolumeFor(S, v) = [n \in DOMAIN SetToSeq(S) |-> w[SetToSeq(S)[n]]]
  <2>1. DOMAIN SetToSeq(S) = 1..Cardinality(S) /\ \A n \in DOMAIN SetToSeq(S) : SetToSeq(S)[n] \in S
    BY <1>1, SetToSeqType
  <2> QED BY <1>4, <2>1 DEF VolumeFor
<1> HIDE DEF w
<1>6. /\ \A A : Holds(VolumeFor(S, v), A) <=> \E x \in S : w[x] \in A
      /\ \A x \in S : \A A : (\A y \in S : w[y] \in A => y = x) => LastIs(VolumeFor(S, v), A, w[x])
  BY <1>1, <1>4, <1>5, OneForEach
<1>7. \A t, e : Holds(VolumeFor(S, v), Reqs(t, e)) <=> t = "setVolume" /\ e \in S
  <2> TAKE t, e
  <2>1. Holds(VolumeFor(S, v), Reqs(t, e)) <=> \E x \in S : w[x] \in Reqs(t, e)
    BY <1>6
  <2> QED BY <1>3, <1>4, <2>1
<1>8. \A e \in S : LastIs(VolumeFor(S, v), Reqs("setVolume", e), SetVolume(e, v))
  <2> TAKE e \in S
  <2>1. \A y \in S : w[y] \in Reqs("setVolume", e) => y = e
    BY <1>3, <1>4
  <2>2. LastIs(VolumeFor(S, v), Reqs("setVolume", e), w[e])
    BY <1>6, <2>1
  <2> QED BY <1>4, <2>2
<1> QED BY <1>7, <1>8

(* The start: the subscription is in force before the first list is made. *)
LEMMA StartingOn ==
  ASSUME context' \in {"ready", "failed"}, listening' = TRUE,
         context' = "failed" => requests' = <<>> /\ messages' = <<>>
  PROVE  Starting'
  BY DEF Starting

LEMMA StartingSame ==
  ASSUME Starting, UNCHANGED <<context, requests, messages, dev, metaVol, listening>>
  PROVE  Starting'
<1>1. Known' = Known
  BY Zenon DEF Known
<1> QED BY <1>1 DEF Starting

LEMMA StartingHeads ==
  ASSUME TypeOK, Starting
  PROVE  /\ requests # <<>> \/ messages # <<>> => context = "ready"
         /\ ~ listening /\ requests # <<>> => Head(requests).t \in {"serverInfo", "subscribe"}
         /\ ~ listening /\ messages # <<>> => Head(messages).t = "serverInfo"
<1>1. requests # <<>> \/ messages # <<>> => context = "ready"
  BY DEF Starting
<1>2. \A x, y : Head(<<x>>) = x /\ Head(<<x, y>>) = x
  OBVIOUS
<1>3. ASSUME ~ listening, requests # <<>> PROVE Head(requests).t \in {"serverInfo", "subscribe"}
  <2>1. Head(requests) \in {M("serverInfo", None, None), M("subscribe", None, None)}
    BY <1>1, <1>2, <1>3 DEF Starting
  <2> QED BY <2>1, Fields
<1>4. ASSUME ~ listening, messages # <<>> PROVE Head(messages).t = "serverInfo"
  <2>1. \E f : messages = <<M("serverInfo", None, f)>>
    BY <1>1, <1>4 DEF Starting
  <2> QED BY <1>2, <2>1, Fields
<1> QED BY <1>1, <1>3, <1>4

LEMMA StartingServe ==
  ASSUME TypeOK, Starting,
         ServeServerInfo \/ ServeSubscribe \/ ServeList \/ ServeInfo \/ ServeVolume \/ ServeDefault
  PROVE  Starting'
<1>1. requests # <<>> /\ UNCHANGED <<context, dev, metaVol>>
  BY Zenon DEF ServeServerInfo, ServeSubscribe, ServeList, ServeInfo, ServeVolume, ServeDefault, Serve, backend
<1>2. context = "ready" /\ context' = "ready"
  BY <1>1, StartingHeads
<1>3. listening' = listening \/ listening' = TRUE
  BY Zenon DEF ServeServerInfo, ServeSubscribe, ServeList, ServeInfo, ServeVolume, ServeDefault
<1>4. CASE listening' = TRUE
  BY <1>2, <1>4, StartingOn
<1>5. CASE listening' # TRUE
  <2>1. ~ listening /\ ~ listening'
    BY <1>3, <1>5 DEF TypeOK
  <2>2. Head(requests).t \in {"serverInfo", "subscribe"}
    BY <1>1, <2>1, StartingHeads
  <2>3. ServeServerInfo
    BY <1>5, <2>2 DEF ServeSubscribe, ServeList, ServeInfo, ServeVolume, ServeDefault, Serve
  <2>4. /\ Head(requests).t = "serverInfo" /\ requests' = Tail(requests)
        /\ messages' = Append(messages, M("serverInfo", None, sdflt))
    BY <2>3, Zenon DEF ServeServerInfo, Serve
  <2>5. \A x, y : /\ Head(<<x>>) = x /\ Head(<<x, y>>) = x /\ Tail(<<x, y>>) = <<y>>
                  /\ Append(<<>>, x) = <<x>>
    OBVIOUS
  <2>6. M("subscribe", None, None).t = "subscribe"
    BY Fields
  <2>7. requests = <<M("serverInfo", None, None), M("subscribe", None, None)>> /\ messages = <<>>
    <3>1. ~ (Head(requests) = M("subscribe", None, None))
      BY <2>4, <2>6
    <3> QED BY <1>2, <2>1, <2>5, <3>1, Zenon DEF Starting
  <2>8. /\ requests' = <<M("subscribe", None, None)>>
        /\ messages' = <<M("serverInfo", None, sdflt)>>
    BY <2>4, <2>5, <2>7, Zenon
  <2>9. sdflt \in [Kinds -> Devs \cup {None}]
    BY Zenon DEF TypeOK
  <2>10. Known' = Known
    BY <1>1, Zenon DEF Known
  <2> QED BY <1>1, <1>2, <2>1, <2>8, <2>9, <2>10 DEF Starting
<1> QED BY <1>4, <1>5

LEMMA StartingCallback ==
  ASSUME TypeOK, Starting,
         ServerInfoCallback \/ OnServerEvent \/ OnDeviceEvent \/ UpdateDevice \/ AddDevice \/ DeleteDevice
  PROVE  Starting'
<1>1. messages # <<>> /\ UNCHANGED <<context, listening>>
  BY Zenon DEF ServerInfoCallback, OnServerEvent, OnDeviceEvent, UpdateDevice, AddDevice, DeleteDevice,
     Receive, pulse
<1>2. context = "ready" /\ context' = "ready"
  BY <1>1, StartingHeads
<1>3. CASE listening
  BY <1>1, <1>2, <1>3, StartingOn DEF TypeOK
<1>4. CASE ~ listening
  <2>1. Head(messages).t = "serverInfo"
    BY <1>1, <1>4, StartingHeads
  <2>2. ServerInfoCallback
    BY <2>1 DEF OnServerEvent, OnDeviceEvent, UpdateDevice, AddDevice, DeleteDevice, Receive
  <2>3. /\ messages' = Tail(messages) /\ requests' = Append(requests, M("list", None, None))
        /\ UNCHANGED <<dev, metaVol>>
    BY <2>2, Zenon DEF ServerInfoCallback, Receive
  <2>4. \A x, y : Tail(<<x>>) = <<>> /\ Append(<<x>>, y) = <<x, y>>
    <3> TAKE x, y
    <3>1. Tail(<<x>>) \in Seq({x}) /\ Len(Tail(<<x>>)) = 0
      OBVIOUS
    <3>2. \A s \in Seq({x}) : Len(s) = 0 => s = <<>>
      OBVIOUS
    <3>3. Append(<<x>>, y) = <<x, y>>
      <4> DEFINE a == Append(<<x>>, y)
                 b == <<x, y>>
      <4>1. a \in Seq({x, y}) /\ Len(a) = 2 /\ a[1] = x /\ a[2] = y
        OBVIOUS
      <4>2. b \in Seq({x, y}) /\ Len(b) = 2 /\ b[1] = x /\ b[2] = y
        OBVIOUS
      <4> HIDE DEF a, b
      <4>3. a = [i \in 1..2 |-> a[i]] /\ b = [i \in 1..2 |-> b[i]]
        BY <4>1, <4>2
      <4>4. \A i \in 1..2 : a[i] = b[i]
        BY <4>1, <4>2
      <4>5. a = b
        BY <4>3, <4>4
      <4> QED BY <4>5 DEF a, b
    <3> QED BY <3>1, <3>2, <3>3
  <2>5. requests = <<M("subscribe", None, None)>> /\ \E f : messages = <<M("serverInfo", None, f)>>
    BY <1>1, <1>2, <1>4, Zenon DEF Starting
  <2>6. requests' = <<M("subscribe", None, None), M("list", None, None)>> /\ messages' = <<>>
    BY <2>3, <2>4, <2>5
  <2>7. Known' = Known
    BY <2>3, Zenon DEF Known
  <2> QED BY <1>1, <1>2, <1>4, <2>3, <2>6, <2>7 DEF Starting
<1> QED BY <1>3, <1>4

LEMMA StartingStep == TypeOK /\ Starting /\ [Next]_vars => Starting'
<1> SUFFICES ASSUME TypeOK, Starting, [Next]_vars PROVE Starting'
  OBVIOUS
<1>0. context \in {"new", "ready", "failed"} /\ listening \in BOOLEAN
  BY Zenon DEF TypeOK
<1>1. CASE ServeServerInfo \/ ServeSubscribe \/ ServeList \/ ServeInfo \/ ServeVolume \/ ServeDefault
  BY <1>1, StartingServe
<1>2. CASE ServerInfoCallback \/ OnServerEvent \/ OnDeviceEvent \/ UpdateDevice \/ AddDevice \/ DeleteDevice
  BY <1>2, StartingCallback
<1>3. CASE \E d \in Devs : Unplug(d) \/ \E v \in Volumes : Plug(d, v) \/ OtherSetsVolume(d, v)
  <2>1. /\ context # "failed" /\ UNCHANGED <<context, requests, dev, metaVol, listening>>
        /\ ~ listening => messages' = messages
    BY <1>3, Zenon DEF Unplug, Plug, OtherSetsVolume, Change, Notify, backend
  <2>2. CASE listening
    BY <1>0, <2>1, <2>2, StartingOn DEF Starting
  <2>3. CASE ~ listening
    BY <2>1, <2>3, StartingSame
  <2> QED BY <2>2, <2>3
<1>4. CASE ContextReady
  <2>1. /\ context = "new" /\ context' = "ready" /\ UNCHANGED <<messages, dev, metaVol, listening>>
        /\ requests' = <<M("serverInfo", None, None), M("subscribe", None, None)>>
    BY <1>4, Zenon DEF ContextReady, backend, pulse
  <2>2. Known' = Known
    BY <2>1, Zenon DEF Known
  <2> QED BY <2>1, <2>2 DEF Starting
<1>5. CASE ContextFails
  <2>1. context' = "failed" /\ UNCHANGED <<dev, metaVol, listening>> /\ requests' = <<>> /\ messages' = <<>>
    BY <1>5, Zenon DEF ContextFails, backend, pulse
  <2>2. Known' = Known
    BY <2>1, Zenon DEF Known
  <2> QED BY <2>1, <2>2 DEF Starting
<1>6. CASE \/ \E d \in Devs : MakeDeviceDefault(d) \/ \E v \in Levels : SetDeviceVolume(d, v)
           \/ \E m \in Vms, v \in Levels : SetMetaVolume(m, v)
  <2>1. Known # {} \/ \E m \in Vms : metaVol[m] # None
    BY <1>6, Zenon DEF MakeDeviceDefault, SetDeviceVolume, SetMetaVolume
  <2>2. UNCHANGED <<context, messages, listening>> /\ (context # "ready" => requests' = requests)
    BY <1>6, Zenon DEF MakeDeviceDefault, SetDeviceVolume, SetMetaVolume, SetDefault, Request, pulse
  <2>3. listening
    BY <2>1 DEF Starting
  <2> QED BY <1>0, <2>2, <2>3, StartingOn DEF Starting
<1>7. CASE (\E c \in Clients : Subscribe(c) \/ Unsubscribe(c)) \/ UNCHANGED vars
  <2>1. UNCHANGED <<context, requests, messages, dev, metaVol, listening>>
    BY <1>7, Zenon DEF Subscribe, Unsubscribe, vars, backend, pulse
  <2> QED BY <2>1, StartingSame
<1> QED BY <1>1, <1>2, <1>3, <1>4, <1>5, <1>6, <1>7, Zenon DEF Next, PulseStep, BackendStep, ServiceStep

LEMMA StartingRelist ==
  ASSUME TypeOK, Starting, context = "ready", ~ listening
  PROVE  Relist /\ Known = {} /\ \A d : ~ Sent("info", d)
<1>1. Known = {}
  BY DEF Starting
<1>2. /\ M("serverInfo", None, None) \in Reqs("serverInfo", None)
      /\ M("list", None, None) \in Reqs("list", None)
  BY MakeRequest, InReqs, Fields
<1>3. \A f \in [Kinds -> Devs \cup {None}] :
        /\ M("serverInfo", None, f) \in Msgs("serverInfo", None)
        /\ \A d : M("serverInfo", None, f) \notin Msgs("info", d)
  BY MakeMessage, InMsgs, Fields
<1>4. CASE /\ requests = <<M("serverInfo", None, None), M("subscribe", None, None)>>
           /\ messages = <<>>
  <2>1. Asked("serverInfo", None)
    BY <1>2, <1>4 DEF Asked, Holds
  <2> QED BY <1>1, <1>4, <2>1, HoldsNone DEF Relist, Sent
<1>5. CASE /\ requests = <<M("subscribe", None, None)>>
           /\ \E f \in [Kinds -> Devs \cup {None}] : messages = <<M("serverInfo", None, f)>>
  <2>1. PICK f \in [Kinds -> Devs \cup {None}] : messages = <<M("serverInfo", None, f)>>
    BY <1>5
  <2>2. \A S : Holds(messages, S) <=> M("serverInfo", None, f) \in S
    BY <2>1, HoldsOne
  <2> QED BY <1>1, <1>3, <2>2, Zenon DEF Relist, Sent
<1>6. CASE /\ requests = <<M("subscribe", None, None), M("list", None, None)>>
           /\ messages = <<>>
  <2>1. Asked("list", None)
    BY <1>2, <1>6 DEF Asked, Holds
  <2> QED BY <1>1, <1>6, <2>1, HoldsNone DEF Relist, Sent
<1> QED BY <1>4, <1>5, <1>6, Zenon DEF Starting

(* What a step of the server changes: device d, perhaps a default, and the    *)
(* events b that it reports to a subscriber.                                  *)
ServerChanges(d, b) ==
  /\ messages' = IF listening THEN messages \o b ELSE messages
  /\ UNCHANGED <<dev, dflt, listening>>
  /\ \A t \in {"serverInfo", "list", "info"} : \A e : Asked(t, e)' <=> Asked(t, e)
  /\ \A e \in Devs \ {d} : server'[e] = server[e]
  /\ \A t, e : Holds(b, Msgs(t, e)) => (t \in {"event", "remove"} /\ e = d) \/ t = "serverEvent"
  /\ Holds(b, Msgs("remove", d)) => d \in gone'
  /\ \/ server'[d] = server[d] /\ gone' = gone
     \/ server'[d] # None /\ d \notin gone /\ gone' = gone /\ Holds(b, Msgs("event", d))
     \/ /\ server'[d] = None /\ gone' = gone \cup {d}
        /\ LastIs(b, Msgs("info", d), M("remove", d, None))
  /\ sdflt' = sdflt \/ ~ listening \/ Holds(b, Msgs("serverEvent", None))
  /\ unseen => unseen'
  /\ ~ listening /\ sdflt' # sdflt => unseen'

LEMMA ChangesNoReturn ==
  ASSUME TypeOK, NoReturn, NEW d \in Devs, NEW b \in Seq(Messages), ServerChanges(d, b)
  PROVE  NoReturn'
<1>1. \A S : Holds(messages', S) => Holds(messages, S) \/ Holds(b, S)
  BY Grows DEF ServerChanges, TypeOK
<1>2. \A e \in Devs : Sent("remove", e)' => Sent("remove", e) \/ Holds(b, Msgs("remove", e))
  BY <1>1 DEF Sent
<1>3. \A e \in Devs : Holds(b, Msgs("remove", e)) => e \in gone'
  BY DEF ServerChanges
<1>4. gone \subseteq gone'
  BY DEF ServerChanges
<1>5. \A e \in Up' : e \notin gone'
  <2> SUFFICES ASSUME NEW e \in Devs, server'[e] # None PROVE e \notin gone'
    BY DEF Up
  <2>1. CASE e = d
    BY <2>1 DEF ServerChanges, NoReturn, Up
  <2>2. CASE e # d
    <3>1. server[e] # None /\ e \notin gone
      BY <2>2 DEF ServerChanges, NoReturn, Up
    <3> QED BY <2>2, <3>1 DEF ServerChanges
  <2> QED BY <2>1, <2>2
<1>6. \A e \in Devs : Sent("remove", e)' => e \in gone'
  BY <1>2, <1>3, <1>4 DEF NoReturn
<1> QED BY <1>5, <1>6 DEF NoReturn

LEMMA ChangesUnderWay ==
  ASSUME TypeOK, DevInv, context = "ready", NEW d \in Devs, NEW b \in Seq(Messages), ServerChanges(d, b)
  PROVE  UnderWay'
<1>0. Starting /\ NoReturn /\ VolumeComes /\ RemovalComes /\ DefaultComes /\ MarksCome
  BY DEF DevInv, UnderWay
<1>1. /\ \A S : Holds(messages, S) => Holds(messages', S)
      /\ \A S : Holds(messages', S) => Holds(messages, S) \/ Holds(b, S)
      /\ \A S, w : LastIs(messages, S, w) /\ ~ Holds(b, S) => LastIs(messages', S, w)
      /\ listening => \A S : Holds(b, S) => Holds(messages', S)
      /\ listening => \A S, w : LastIs(b, S, w) => LastIs(messages', S, w)
  <2>1. CASE listening
    BY <2>1, Grows DEF ServerChanges, TypeOK
  <2>2. CASE ~ listening
    BY <2>2 DEF ServerChanges
  <2> QED BY <2>1, <2>2
<1>2. Known' = Known /\ \A e : IsDefault(e)' = IsDefault(e)
  BY DEF ServerChanges, Known, IsDefault
<1>3. /\ \A t \in {"serverInfo", "list", "info"} : \A e : Asked(t, e)' <=> Asked(t, e)
      /\ \A t, e : Sent(t, e) => Sent(t, e)'
      /\ \A e : Sent("info", e)' => Sent("info", e)
      /\ \A e : Sent("serverInfo", e)' => Sent("serverInfo", e)
      /\ \A e : ~ Holds(b, Msgs("info", e)) /\ ~ Holds(b, Msgs("serverInfo", e))
  <2>1. \A e : ~ Holds(b, Msgs("info", e)) /\ ~ Holds(b, Msgs("serverInfo", e))
    BY DEF ServerChanges
  <2>2. \A t \in {"serverInfo", "list", "info"} : \A e : Asked(t, e)' <=> Asked(t, e)
    BY Zenon DEF ServerChanges
  <2> QED BY <1>1, <2>1, <2>2 DEF Sent
<1>4. Relist => Relist'
  BY <1>3 DEF Relist
<1>5. ~ listening => Relist /\ Known = {} /\ \A e : ~ Sent("info", e)
  BY <1>0, StartingRelist
<1>6. \A e \in Devs : (e \in Up <=> server[e] # None) /\ (e \in Up' <=> server'[e] # None)
  BY DEF Up
<1>7. VolumeComes'
  <2> SUFFICES ASSUME NEW e \in Up', ~ Relist'
               PROVE  \/ Asked("info", e)' \/ Sent("event", e)'
                      \/ LastIs(messages', Msgs("info", e), M("info", e, server'[e]))
                      \/ ~ Sent("info", e)' /\ e \in Known' /\ dev'[e].v = PercentOf(server'[e])
    BY DEF VolumeComes
  <2>1. listening /\ ~ Relist /\ e \in Devs
    BY <1>4, <1>5 DEF Up
  <2>2. CASE server'[e] = server[e]
    <3>1. e \in Up
      BY <1>6, <2>1, <2>2
    <3>2. \/ Asked("info", e) \/ Sent("event", e)
          \/ LastIs(messages, Msgs("info", e), M("info", e, server[e]))
          \/ ~ Sent("info", e) /\ e \in Known /\ dev[e].v = PercentOf(server[e])
      BY <1>0, <2>1, <3>1 DEF VolumeComes
    <3>3. dev' = dev
      BY DEF ServerChanges
    <3> QED BY <1>1, <1>2, <1>3, <2>2, <3>2, <3>3
  <2>3. CASE server'[e] # server[e]
    <3>1. e = d
      BY <2>1, <2>3 DEF ServerChanges
    <3>2. Holds(b, Msgs("event", d))
      BY <1>6, <2>1, <2>3, <3>1 DEF ServerChanges
    <3> QED BY <1>1, <2>1, <3>1, <3>2 DEF Sent
  <2> QED BY <2>2, <2>3
<1>8. RemovalComes'
  <2> SUFFICES ASSUME NEW e \in Devs \ Up'
               PROVE  \/ e \notin Known' /\ ~ Sent("info", e)'
                      \/ LastIs(messages', Msgs("info", e), M("remove", e, None))
    BY DEF RemovalComes
  <2>1. CASE ~ listening
    BY <1>2, <1>3, <1>5, <2>1
  <2>2. CASE listening /\ server[e] = None
    <3>1. \/ e \notin Known /\ ~ Sent("info", e)
          \/ LastIs(messages, Msgs("info", e), M("remove", e, None))
      BY <1>0, <1>6, <2>2 DEF RemovalComes
    <3> QED BY <1>1, <1>2, <1>3, <3>1
  <2>3. CASE listening /\ server[e] # None
    <3>1. e = d /\ server'[e] = None
      BY <1>6, <2>3 DEF ServerChanges
    <3>2. LastIs(b, Msgs("info", d), M("remove", d, None))
      BY <2>3, <3>1 DEF ServerChanges
    <3> QED BY <1>1, <2>3, <3>1, <3>2
  <2> QED BY <2>1, <2>2, <2>3
<1>9. DefaultComes'
  <2>1. CASE sdflt' # sdflt /\ ~ listening
    BY <2>1 DEF ServerChanges, DefaultComes
  <2>2. CASE sdflt' # sdflt /\ listening
    <3>1. Holds(b, Msgs("serverEvent", None))
      BY <2>2 DEF ServerChanges
    <3>2. Sent("serverEvent", None)'
      BY <1>1, <2>2, <3>1 DEF Sent
    <3> QED BY <3>2 DEF DefaultComes
  <2>3. CASE sdflt' = sdflt
    <3>1. dflt' = dflt /\ (unseen => unseen')
      BY DEF ServerChanges
    <3> QED BY <1>0, <1>1, <1>3, <2>3, <3>1 DEF DefaultComes
  <2> QED BY <2>1, <2>2, <2>3
<1>10. MarksCome'
  <2> SUFFICES ASSUME NEW e \in Up', ~ Relist'
               PROVE  Sent("info", e)' \/ (e \in Known' => dev'[e].def = IsDefault(e)')
    BY DEF MarksCome
  <2>1. listening /\ ~ Relist /\ e \in Devs /\ dev' = dev
    BY <1>4, <1>5 DEF Up, ServerChanges
  <2>2. CASE e \in Up
    BY <1>0, <1>2, <1>3, <2>1, <2>2 DEF MarksCome
  <2>3. CASE e \notin Up
    <3>1. e = d /\ d \notin gone
      BY <1>6, <2>1, <2>3 DEF ServerChanges
    <3>2. ~ Sent("remove", e)
      BY <1>0, <2>1, <3>1 DEF NoReturn
    <3>3. M("remove", e, None) \in Msgs("remove", e)
      BY <2>1, MakeMessage, InMsgs, Fields
    <3>4. ~ LastIs(messages, Msgs("info", e), M("remove", e, None))
      BY <3>2, <3>3 DEF LastIs, Sent, Holds
    <3>5. e \notin Known
      BY <1>0, <2>1, <2>3, <3>4 DEF RemovalComes
    <3> QED BY <1>2, <3>5
  <2> QED BY <2>2, <2>3
<1> QED BY <1>7, <1>8, <1>9, <1>10 DEF UnderWay

LEMMA ServerEventFacts ==
  /\ ServerEvent \in Seq(Messages)
  /\ \A t, e : Holds(ServerEvent, Msgs(t, e)) <=> sdflt' # sdflt /\ t = "serverEvent" /\ e = None
<1>1. \A t, e : M("serverEvent", None, None) \in Msgs(t, e) <=> t = "serverEvent" /\ e = None
  BY MakeMessage, InMsgs, Fields
<1>2. CASE sdflt' = sdflt
  <2>1. ServerEvent = <<>>
    BY <1>2, Zenon DEF ServerEvent
  <2> QED BY <1>2, <2>1, HoldsNone, ServerEventType
<1>3. CASE sdflt' # sdflt
  <2>1. ServerEvent = <<M("serverEvent", None, None)>>
    BY <1>3, Zenon DEF ServerEvent
  <2>2. \A S : Holds(ServerEvent, S) <=> M("serverEvent", None, None) \in S
    BY <2>1, HoldsOne
  <2> QED BY <1>1, <1>3, <2>2, ServerEventType
<1> QED BY <1>2, <1>3

(* The events of a change of device d and perhaps of a default. *)
LEMMA ReportFacts ==
  ASSUME NEW t \in {"event", "remove"}, NEW d \in Devs, NEW b, b = <<M(t, d, None)>> \o ServerEvent
  PROVE  /\ b \in Seq(Messages)
         /\ \A u, e : Holds(b, Msgs(u, e)) <=>
              (u = t /\ e = d) \/ (sdflt' # sdflt /\ u = "serverEvent" /\ e = None)
         /\ LastIs(b, Msgs("info", d), M(t, d, None))
<1>1. M(t, d, None) \in Messages
  BY MakeMessage
<1>2. \A u, e : M(t, d, None) \in Msgs(u, e) <=> u = t /\ e = d
  BY <1>1, InMsgs, Fields
<1>3. <<M(t, d, None)>> \in Seq(Messages)
  BY <1>1, OneElement
<1>4. /\ \A S : Holds(b, S) <=> M(t, d, None) \in S \/ Holds(ServerEvent, S)
      /\ \A S : ~ Holds(ServerEvent, S) => LastIs(b, S, M(t, d, None))
  <2> DEFINE a == <<M(t, d, None)>>
             s == ServerEvent
  <2>1. a \in Seq(Messages) /\ s \in Seq(Messages) /\ b = a \o s
    BY <1>3, ServerEventFacts, Zenon
  <2>2. \A S : (Holds(a, S) <=> M(t, d, None) \in S) /\ LastIs(a, S, M(t, d, None))
    BY HoldsOne
  <2> HIDE DEF a, s
  <2>3. /\ \A S : Holds(b, S) <=> M(t, d, None) \in S \/ Holds(s, S)
        /\ \A S : ~ Holds(s, S) => LastIs(b, S, M(t, d, None))
    <3>1. /\ \A S : Holds(a \o s, S) <=> Holds(a, S) \/ Holds(s, S)
          /\ \A S, w : LastIs(a, S, w) /\ ~ Holds(s, S) => LastIs(a \o s, S, w)
      BY <2>1, Grows, Zenon
    <3> QED BY <2>1, <2>2, <3>1, Zenon
  <2> QED BY <2>3 DEF s
<1>5. b \in Seq(Messages)
  BY <1>3, ServerEventFacts, SeqFacts
<1> QED BY <1>2, <1>4, <1>5, ServerEventFacts

LEMMA EventFacts ==
  ASSUME NEW d \in Devs
  PROVE  /\ <<M("event", d, None)>> \in Seq(Messages)
         /\ \A u, e : Holds(<<M("event", d, None)>>, Msgs(u, e)) <=> u = "event" /\ e = d
<1>1. M("event", d, None) \in Messages
  BY MakeMessage
<1>2. \A u, e : M("event", d, None) \in Msgs(u, e) <=> u = "event" /\ e = d
  BY <1>1, InMsgs, Fields
<1> QED BY <1>1, <1>2, HoldsOne, OneElement

LEMMA SameRequests ==
  ASSUME UNCHANGED requests
  PROVE  \A t, e : Asked(t, e)' <=> Asked(t, e)
  BY Zenon DEF Asked

LEMMA PlugChanges ==
  ASSUME TypeOK, NEW d \in Devs, NEW v \in Volumes, Plug(d, v)
  PROVE  \E b \in Seq(Messages) : ServerChanges(d, b)
<1> DEFINE b == <<M("event", d, None)>> \o ServerEvent
<1>1. /\ server' = [server EXCEPT ![d] = v] /\ gone' = gone /\ d \notin gone
      /\ UNCHANGED <<requests, dev, dflt, listening>>
      /\ messages' = IF listening THEN messages \o b ELSE messages
      /\ unseen => unseen'
      /\ ~ listening /\ sdflt' # sdflt => unseen'
  BY Zenon DEF Plug, Notify, SeenDefault, backend
<1>2. /\ b \in Seq(Messages)
      /\ \A u, e : Holds(b, Msgs(u, e)) <=>
           (u = "event" /\ e = d) \/ (sdflt' # sdflt /\ u = "serverEvent" /\ e = None)
  <2>1. "event" \in {"event", "remove"}
    OBVIOUS
  <2>2. /\ b \in Seq(Messages)
        /\ \A u, e : Holds(b, Msgs(u, e)) <=>
             (u = "event" /\ e = d) \/ (sdflt' # sdflt /\ u = "serverEvent" /\ e = None)
        /\ LastIs(b, Msgs("info", d), M("event", d, None))
    BY <2>1, ReportFacts, Zenon
  <2> QED BY <2>2, Zenon
<1>3. server'[d] # None /\ \A e \in Devs \ {d} : server'[e] = server[e]
  BY <1>1, ConstantsAssumption DEF TypeOK
<1>4. \A t, e : Asked(t, e)' <=> Asked(t, e)
  BY <1>1, SameRequests
<1> HIDE DEF b
<1>5. ServerChanges(d, b)
  BY <1>1, <1>2, <1>3, <1>4 DEF ServerChanges
<1> QED BY <1>2, <1>5

LEMMA UnplugChanges ==
  ASSUME TypeOK, NEW d \in Devs, Unplug(d)
  PROVE  \E b \in Seq(Messages) : ServerChanges(d, b)
<1> DEFINE b == <<M("remove", d, None)>> \o ServerEvent
<1>1. /\ server' = [server EXCEPT ![d] = None] /\ gone' = gone \cup {d}
      /\ UNCHANGED <<requests, dev, dflt, listening>>
      /\ messages' = IF listening THEN messages \o b ELSE messages
      /\ unseen => unseen'
      /\ ~ listening /\ sdflt' # sdflt => unseen'
  BY Zenon DEF Unplug, Notify, SeenDefault, backend
<1>2. /\ b \in Seq(Messages)
      /\ \A u, e : Holds(b, Msgs(u, e)) <=>
           (u = "remove" /\ e = d) \/ (sdflt' # sdflt /\ u = "serverEvent" /\ e = None)
      /\ LastIs(b, Msgs("info", d), M("remove", d, None))
  <2>1. "remove" \in {"event", "remove"}
    OBVIOUS
  <2> QED BY <2>1, ReportFacts, Zenon
<1>3. server'[d] = None /\ \A e \in Devs \ {d} : server'[e] = server[e]
  BY <1>1 DEF TypeOK
<1>4. \A t, e : Asked(t, e)' <=> Asked(t, e)
  BY <1>1, SameRequests
<1> HIDE DEF b
<1>5. ServerChanges(d, b)
  BY <1>1, <1>2, <1>3, <1>4 DEF ServerChanges
<1> QED BY <1>2, <1>5

LEMMA OtherSetsChanges ==
  ASSUME TypeOK, NoReturn, NEW d \in Devs, NEW v \in Volumes, OtherSetsVolume(d, v)
  PROVE  \E b \in Seq(Messages) : ServerChanges(d, b)
<1> DEFINE b == <<M("event", d, None)>>
<1>1. /\ server' = [server EXCEPT ![d] = v] /\ gone' = gone /\ d \in Up
      /\ UNCHANGED <<requests, dev, dflt, listening, sdflt, unseen>>
      /\ messages' = IF listening THEN messages \o b ELSE messages
  BY Zenon DEF OtherSetsVolume, Notify, backend
<1>2. b \in Seq(Messages) /\ \A u, e : Holds(b, Msgs(u, e)) <=> u = "event" /\ e = d
  BY EventFacts, Zenon
<1>3. server'[d] # None /\ d \notin gone /\ \A e \in Devs \ {d} : server'[e] = server[e]
  BY <1>1, ConstantsAssumption DEF TypeOK, NoReturn
<1>4. \A t, e : Asked(t, e)' <=> Asked(t, e)
  BY <1>1, SameRequests
<1> HIDE DEF b
<1>5. ServerChanges(d, b)
  BY <1>1, <1>2, <1>3, <1>4 DEF ServerChanges
<1> QED BY <1>2, <1>5

(* A request served is no longer asked for; the others still are. *)
LEMMA ServeFacts ==
  ASSUME TypeOK, NEW t, Serve(t)
  PROVE  /\ requests # <<>> /\ Head(requests) \in Requests /\ Head(requests).t = t
         /\ \A u, e : Asked(u, e) <=> Asked(u, e)' \/ (u = t /\ e = Head(requests).d)
         /\ UNCHANGED <<context, dev, dflt, metaVol, gone, touched>>
<1>1. /\ requests # <<>> /\ Head(requests).t = t /\ requests' = Tail(requests)
      /\ UNCHANGED <<context, dev, dflt, metaVol, gone, touched>>
  BY Zenon DEF Serve, backend
<1>2. requests \in Seq(Requests)
  BY Zenon DEF TypeOK
<1>3. Head(requests) \in Requests
  BY <1>1, <1>2, SeqFacts, Zenon
<1>4. \A S : Holds(requests, S) <=> Head(requests) \in S \/ Holds(requests', S)
  BY <1>1, <1>2, Shrinks
<1>5. \A u, e : Head(requests) \in Reqs(u, e) <=> u = t /\ e = Head(requests).d
  BY <1>1, <1>3, InReqs
<1>6. \A u, e : Asked(u, e) <=> Asked(u, e)' \/ (u = t /\ e = Head(requests).d)
  BY <1>4, <1>5 DEF Asked
<1> QED BY <1>1, <1>3, <1>6

LEMMA ServeVolumeChanges ==
  ASSUME TypeOK, NoReturn, ServeVolume
  PROVE  \E d \in Devs : \E b \in Seq(Messages) : ServerChanges(d, b)
<1> DEFINE d == Head(requests).d
           v == Head(requests).x
           b == IF d \in Up /\ server[d] # v THEN <<M("event", d, None)>> ELSE <<>>
<1>1. Serve("setVolume") /\ UNCHANGED <<sdflt, listening, unseen>>
  BY Zenon DEF ServeVolume
<1>2. /\ Head(requests) \in Requests /\ Head(requests).t = "setVolume"
      /\ \A u, e : Asked(u, e) <=> Asked(u, e)' \/ (u = "setVolume" /\ e = d)
      /\ UNCHANGED <<dev, dflt, gone>>
  BY <1>1, ServeFacts
<1>3. d \in Devs /\ v \in Nat
  BY <1>2, ReadRequest
<1>4. \A u \in {"serverInfo", "list", "info"} : \A e : Asked(u, e)' <=> Asked(u, e)
  BY <1>2
<1>5. CASE d \in Up /\ server[d] # v
  <2>1. /\ server' = [server EXCEPT ![d] = v]
        /\ messages' = IF listening THEN messages \o b ELSE messages
    BY <1>5, Zenon DEF ServeVolume, Notify
  <2>2. b \in Seq(Messages) /\ \A u, e : Holds(b, Msgs(u, e)) <=> u = "event" /\ e = d
    BY <1>3, <1>5, EventFacts, Zenon
  <2> HIDE DEF b, v, d
  <2>3. server'[d] # None /\ d \notin gone /\ \A e \in Devs \ {d} : server'[e] = server[e]
    BY <1>3, <1>5, <2>1, ConstantsAssumption DEF TypeOK, NoReturn
  <2>4. ServerChanges(d, b)
    BY <1>1, <1>2, <1>4, <2>1, <2>2, <2>3 DEF ServerChanges
  <2> QED BY <1>3, <2>2, <2>4
<1>6. CASE ~ (d \in Up /\ server[d] # v)
  <2>1. UNCHANGED <<server, messages>> /\ b = <<>>
    BY <1>6, Zenon DEF ServeVolume
  <2> HIDE DEF b, v, d
  <2>2. b \in Seq(Messages) /\ messages \o b = messages
    BY <2>1 DEF TypeOK
  <2>3. \A S : ~ Holds(b, S)
    BY <2>1, HoldsNone
  <2>4. ServerChanges(d, b)
    BY <1>1, <1>2, <1>4, <2>1, <2>2, <2>3 DEF ServerChanges
  <2> QED BY <1>3, <2>2, <2>4
<1> QED BY <1>5, <1>6

LEMMA ServeDefaultChanges ==
  ASSUME TypeOK, Starting, NoReturn, ServeDefault
  PROVE  \E d \in Devs : \E b \in Seq(Messages) : ServerChanges(d, b)
<1> DEFINE d == Head(requests).d
           b == ServerEvent
<1>1. /\ Serve("setDefault") /\ UNCHANGED <<server, listening, unseen>>
      /\ messages' = IF listening THEN messages \o b ELSE messages
  BY Zenon DEF ServeDefault, Notify
<1>2. /\ requests # <<>> /\ Head(requests) \in Requests /\ Head(requests).t = "setDefault"
      /\ \A u, e : Asked(u, e) <=> Asked(u, e)' \/ (u = "setDefault" /\ e = d)
      /\ UNCHANGED <<dev, dflt, gone>>
  BY <1>1, ServeFacts
<1>3. d \in Devs /\ listening
  BY <1>2, ReadRequest, StartingHeads DEF Defaultable
<1>4. \A u \in {"serverInfo", "list", "info"} : \A e : Asked(u, e)' <=> Asked(u, e)
  BY <1>2
<1>5. /\ b \in Seq(Messages)
      /\ \A u, e : Holds(b, Msgs(u, e)) <=> sdflt' # sdflt /\ u = "serverEvent" /\ e = None
  BY ServerEventFacts, Zenon
<1> HIDE DEF b, d
<1>6. ServerChanges(d, b)
  BY <1>1, <1>2, <1>3, <1>4, <1>5 DEF ServerChanges
<1> QED BY <1>3, <1>5, <1>6

LEMMA ReceiveFacts ==
  ASSUME TypeOK, NEW t, Receive(t)
  PROVE  /\ messages # <<>> /\ Head(messages) \in Messages /\ Head(messages).t = t
         /\ \A u, e : Sent(u, e) <=> Sent(u, e)' \/ (u = t /\ e = Head(messages).d)
         /\ \A S, w : LastIs(messages, S, w) =>
              LastIs(messages', S, w) \/ (Head(messages) = w /\ ~ Holds(messages', S))
<1>1. messages # <<>> /\ Head(messages).t = t /\ messages' = Tail(messages)
  BY Zenon DEF Receive
<1>2. messages \in Seq(Messages)
  BY Zenon DEF TypeOK
<1>3. Head(messages) \in Messages
  BY <1>1, <1>2, SeqFacts, Zenon
<1>4. /\ \A S : Holds(messages, S) <=> Head(messages) \in S \/ Holds(messages', S)
      /\ \A S, w : LastIs(messages, S, w) =>
           LastIs(messages', S, w) \/ (Head(messages) = w /\ ~ Holds(messages', S))
  BY <1>1, <1>2, Shrinks, Zenon
<1>5. \A u, e : Head(messages) \in Msgs(u, e) <=> u = t /\ e = Head(messages).d
  BY <1>1, <1>3, InMsgs
<1>6. \A u, e : Sent(u, e) <=> Sent(u, e)' \/ (u = t /\ e = Head(messages).d)
  BY <1>4, <1>5 DEF Sent
<1> QED BY <1>1, <1>3, <1>4, <1>6

LEMMA AskFacts ==
  ASSUME TypeOK, NEW r \in Requests, requests' = Append(requests, r)
  PROVE  \A u, e : Asked(u, e)' <=> Asked(u, e) \/ (u = r.t /\ e = r.d)
<1>1. requests \in Seq(Requests)
  BY Zenon DEF TypeOK
<1>3. \A S : Holds(requests', S) <=> Holds(requests, S) \/ r \in S
  BY <1>1, GrowsByOne, Zenon
<1>4. \A u, e : r \in Reqs(u, e) <=> u = r.t /\ e = r.d
  BY InReqs
<1> QED BY <1>3, <1>4 DEF Asked

(* The steps that leave the server and what the backend knows alone. *)
Steady == UNCHANGED <<server, sdflt, unseen, gone, dev, dflt>>

LEMMA SteadyFacts ==
  ASSUME Steady
  PROVE  Up' = Up /\ Known' = Known /\ \A e : IsDefault(e)' = IsDefault(e)
  BY Zenon DEF Steady, Up, Known, IsDefault

LEMMA ServeServerInfoUnderWay ==
  ASSUME TypeOK, NoReturn, UnderWay, ServeServerInfo
  PROVE  NoReturn' /\ UnderWay'
<1> DEFINE m == M("serverInfo", None, sdflt)
<1>1. /\ Serve("serverInfo") /\ messages' = Append(messages, m)
      /\ UNCHANGED <<server, sdflt>>
  BY Zenon DEF ServeServerInfo
<1>2. UNCHANGED <<dev, dflt, gone>>
  BY <1>1, ServeFacts
<1>3. m \in Messages /\ messages \in Seq(Messages)
  BY MakeMessage, Zenon DEF TypeOK
<1>4. \A u, e : m \in Msgs(u, e) <=> u = "serverInfo" /\ e = None
  BY <1>3, InMsgs, Fields
<1> HIDE DEF m
<1>6. /\ \A S : Holds(messages', S) <=> Holds(messages, S) \/ m \in S
      /\ \A S, w : LastIs(messages, S, w) /\ m \notin S => LastIs(messages', S, w)
      /\ \A S : LastIs(messages', S, m)
  BY <1>1, <1>3, GrowsByOne, Zenon
<1>7. \A u, e : Sent(u, e)' <=> Sent(u, e) \/ (u = "serverInfo" /\ e = None)
  BY <1>4, <1>6 DEF Sent
<1>8. Up' = Up /\ Known' = Known
  BY <1>1, <1>2, Zenon DEF Up, Known
<1>9. Relist'
  BY <1>7 DEF Relist
<1>10. VolumeComes' /\ MarksCome'
  BY <1>9 DEF VolumeComes, MarksCome
<1>11. RemovalComes'
  BY <1>4, <1>6, <1>7, <1>8 DEF RemovalComes, UnderWay
<1>12. DefaultComes'
  <2>1. LastIs(messages', Msgs("serverInfo", None), M("serverInfo", None, sdflt'))
    BY <1>1, <1>6 DEF m
  <2> QED BY <2>1 DEF DefaultComes
<1>13. NoReturn'
  BY <1>2, <1>7, <1>8 DEF NoReturn
<1> QED BY <1>10, <1>11, <1>12, <1>13 DEF UnderWay

LEMMA ServeSubscribeUnderWay ==
  ASSUME TypeOK, NoReturn, UnderWay, ServeSubscribe
  PROVE  NoReturn' /\ UnderWay'
<1>1. Serve("subscribe") /\ UNCHANGED <<messages, server, sdflt, unseen>>
  BY Zenon DEF ServeSubscribe
<1>2. UNCHANGED <<dev, dflt, gone>> /\ \A u, e : u # "subscribe" => (Asked(u, e)' <=> Asked(u, e))
  BY <1>1, ServeFacts
<1>3. \A u, e : Sent(u, e)' <=> Sent(u, e)
  BY <1>1, Zenon DEF Sent
<1>4. Up' = Up /\ Known' = Known /\ \A e : IsDefault(e)' = IsDefault(e)
  BY <1>1, <1>2, SteadyFacts DEF Steady
<1>5. \A e : /\ Asked("info", e)' <=> Asked("info", e)
             /\ Asked("serverInfo", e)' <=> Asked("serverInfo", e)
             /\ Asked("list", e)' <=> Asked("list", e)
  BY <1>2
<1>6. Relist' <=> Relist
  BY <1>3, <1>5 DEF Relist
<1>7. VolumeComes'
  BY <1>1, <1>2, <1>3, <1>4, <1>5, <1>6 DEF VolumeComes, UnderWay
<1>8. RemovalComes' /\ DefaultComes'
  BY <1>1, <1>2, <1>3, <1>4, <1>5 DEF RemovalComes, DefaultComes, UnderWay
<1>9. MarksCome'
  BY <1>2, <1>3, <1>4, <1>6 DEF MarksCome, UnderWay
<1>10. NoReturn'
  BY <1>2, <1>3, <1>4 DEF NoReturn
<1> QED BY <1>7, <1>8, <1>9, <1>10 DEF UnderWay

(* Answers about the devices in S: all there are, or the one asked for. *)
LEMMA ServeDevicesUnderWay ==
  ASSUME TypeOK, NoReturn, UnderWay, ServeList \/ ServeInfo
  PROVE  NoReturn' /\ UnderWay'
<1> DEFINE S == IF Head(requests).t = "list" THEN Up ELSE {Head(requests).d} \cap Up
<1>1. /\ Serve("list") \/ Serve("info")
      /\ UNCHANGED <<server, sdflt, unseen>>
  BY Zenon DEF ServeList, ServeInfo
<1>2. /\ UNCHANGED <<dev, dflt, gone>> /\ Head(requests) \in Requests
      /\ Head(requests).t \in {"list", "info"}
      /\ \A u, e : Asked(u, e) <=> Asked(u, e)' \/ (u = Head(requests).t /\ e = Head(requests).d)
  BY <1>1, ServeFacts
<1>3. messages' = messages \o Infos(S) /\ S \subseteq Up
  <2>1. CASE ServeList
    BY <2>1, Zenon DEF ServeList, Serve
  <2>2. CASE ServeInfo
    <3>1. Head(requests).t # "list"
      BY <2>2 DEF ServeInfo, Serve
    <3> QED BY <2>2, <3>1, Zenon DEF ServeInfo
  <2> QED BY <2>1, <2>2
<1>4. \A e \in Up : e \in S \/ (Head(requests).t = "info" /\ Head(requests).d # e)
  BY <1>2
<1> HIDE DEF S
<1>5. messages \in Seq(Messages) /\ Infos(S) \in Seq(Messages)
  BY <1>3, InfosType, Zenon DEF TypeOK
<1>6. /\ \A t, e : Holds(Infos(S), Msgs(t, e)) <=> t = "info" /\ e \in S
      /\ \A e \in S : LastIs(Infos(S), Msgs("info", e), M("info", e, server[e]))
  BY <1>3, InfosFacts
<1>7. /\ \A A : Holds(messages', A) <=> Holds(messages, A) \/ Holds(Infos(S), A)
      /\ \A A, w : LastIs(Infos(S), A, w) => LastIs(messages', A, w)
      /\ \A A, w : LastIs(messages, A, w) /\ ~ Holds(Infos(S), A) => LastIs(messages', A, w)
  BY <1>3, <1>5, Grows, Zenon
<1>8. \A t, e : Sent(t, e)' <=> Sent(t, e) \/ (t = "info" /\ e \in S)
  BY <1>6, <1>7 DEF Sent
<1>9. Up' = Up /\ Known' = Known /\ \A e : IsDefault(e)' = IsDefault(e)
  BY <1>1, <1>2, SteadyFacts DEF Steady
<1>10. \A e : Asked("serverInfo", e) <=> Asked("serverInfo", e)'
  BY <1>2
<1>11. Head(requests).t = "info" => (Relist => Relist')
  BY <1>2, <1>8 DEF Relist
<1>12. VolumeComes'
  <2> SUFFICES ASSUME NEW e \in Up
               PROVE  \/ Relist' \/ Asked("info", e)' \/ Sent("event", e)'
                      \/ LastIs(messages', Msgs("info", e), M("info", e, server[e]))
                      \/ ~ Sent("info", e)' /\ e \in Known' /\ dev'[e].v = PercentOf(server[e])
    BY <1>1, <1>9 DEF VolumeComes
  <2>1. CASE e \in S
    BY <1>6, <1>7, <2>1
  <2>2. CASE e \notin S
    <3>1. Head(requests).t = "info" /\ Head(requests).d # e
      BY <1>4, <2>2
    <3>2. Asked("info", e) => Asked("info", e)'
      BY <1>2, <3>1
    <3>3. \/ Relist \/ Asked("info", e) \/ Sent("event", e)
          \/ LastIs(messages, Msgs("info", e), M("info", e, server[e]))
          \/ ~ Sent("info", e) /\ e \in Known /\ dev[e].v = PercentOf(server[e])
      BY DEF VolumeComes, UnderWay
    <3>4. ~ Holds(Infos(S), Msgs("info", e))
      BY <1>6, <2>2
    <3> QED BY <1>2, <1>7, <1>8, <1>9, <1>11, <2>2, <3>1, <3>2, <3>3, <3>4
  <2> QED BY <2>1, <2>2
<1>13. RemovalComes'
  <2>1. \A e \in Devs \ Up : ~ Holds(Infos(S), Msgs("info", e)) /\ e \notin S
    BY <1>3, <1>6
  <2> QED BY <1>7, <1>8, <1>9, <2>1 DEF RemovalComes, UnderWay
<1>14. DefaultComes'
  <2>1. ~ Holds(Infos(S), Msgs("serverInfo", None))
    BY <1>6
  <2>2. UNCHANGED <<unseen, sdflt, dflt>>
    BY <1>1, <1>2
  <2> QED BY <1>7, <1>8, <1>10, <2>1, <2>2 DEF DefaultComes, UnderWay
<1>15. MarksCome'
  <2> SUFFICES ASSUME NEW e \in Up
               PROVE  Relist' \/ Sent("info", e)' \/ (e \in Known' => dev'[e].def = IsDefault(e)')
    BY <1>9 DEF MarksCome
  <2> QED BY <1>2, <1>4, <1>8, <1>9, <1>11 DEF MarksCome, UnderWay
<1>16. NoReturn'
  BY <1>2, <1>8, <1>9 DEF NoReturn
<1> QED BY <1>12, <1>13, <1>14, <1>15, <1>16 DEF UnderWay

LEMMA ServerInfoUnderWay ==
  ASSUME TypeOK, NoReturn, UnderWay, ServerInfoCallback
  PROVE  NoReturn' /\ UnderWay'
<1>1. /\ Receive("serverInfo") /\ dflt' = Head(messages).x
      /\ requests' = Append(requests, M("list", None, None))
      /\ UNCHANGED <<dev, server, sdflt, unseen, gone>>
  BY Zenon DEF ServerInfoCallback, OnServerInfo, pulse
<1>2. M("list", None, None) \in Requests /\ M("list", None, None).t = "list" /\ M("list", None, None).d = None
  BY MakeRequest, Fields
<1>3. \A u, e : Asked(u, e)' <=> Asked(u, e) \/ (u = "list" /\ e = None)
  BY <1>1, <1>2, AskFacts
<1>4. /\ Head(messages) \in Messages /\ Head(messages).t = "serverInfo"
      /\ \A u, e : Sent(u, e) <=> Sent(u, e)' \/ (u = "serverInfo" /\ e = Head(messages).d)
      /\ \A S, w : LastIs(messages, S, w) =>
           LastIs(messages', S, w) \/ (Head(messages) = w /\ ~ Holds(messages', S))
  BY <1>1, ReceiveFacts
<1>5. Head(messages).d = None
  BY <1>4, ServerFields
<1>6. Up' = Up /\ Known' = Known
  BY <1>1, Zenon DEF Up, Known
<1>7. Relist'
  BY <1>3 DEF Relist
<1>8. VolumeComes' /\ MarksCome'
  BY <1>7 DEF VolumeComes, MarksCome
<1>9. RemovalComes'
  <2>1. \A e : Head(messages) # M("remove", e, None)
    BY <1>4, Fields
  <2> QED BY <1>4, <1>6, <2>1 DEF RemovalComes, UnderWay
<1>10. DefaultComes'
  <2>1. Sent("serverInfo", None)
    BY <1>4, <1>5
  <2>2. \/ unseen \/ Asked("serverInfo", None) \/ Sent("serverEvent", None)
        \/ LastIs(messages, Msgs("serverInfo", None), M("serverInfo", None, sdflt))
    BY <2>1 DEF DefaultComes, UnderWay
  <2>3. Head(messages) = M("serverInfo", None, sdflt) => dflt' = sdflt
    BY <1>1, Fields
  <2>4. ~ Holds(messages', Msgs("serverInfo", None)) => ~ Sent("serverInfo", None)'
    BY DEF Sent
  <2> QED BY <1>1, <1>3, <1>4, <2>2, <2>3, <2>4 DEF DefaultComes
<1>11. NoReturn'
  BY <1>1, <1>4, <1>6 DEF NoReturn
<1> QED BY <1>8, <1>9, <1>10, <1>11 DEF UnderWay

LEMMA ServerEventUnderWay ==
  ASSUME TypeOK, NoReturn, UnderWay, OnServerEvent
  PROVE  NoReturn' /\ UnderWay'
<1>1. /\ Receive("serverEvent") /\ requests' = Append(requests, M("serverInfo", None, None))
      /\ UNCHANGED <<dev, dflt, server, sdflt, unseen, gone>>
  BY Zenon DEF OnServerEvent, pulse, backend
<1>2. M("serverInfo", None, None) \in Requests /\ M("serverInfo", None, None).t = "serverInfo"
      /\ M("serverInfo", None, None).d = None
  BY MakeRequest, Fields
<1>3. Asked("serverInfo", None)'
  BY <1>1, <1>2, AskFacts
<1>4. /\ Head(messages).t = "serverEvent"
      /\ \A u, e : Sent(u, e) <=> Sent(u, e)' \/ (u = "serverEvent" /\ e = Head(messages).d)
      /\ \A S, w : LastIs(messages, S, w) =>
           LastIs(messages', S, w) \/ (Head(messages) = w /\ ~ Holds(messages', S))
  BY <1>1, ReceiveFacts
<1>5. Up' = Up /\ Known' = Known
  BY <1>1, Zenon DEF Up, Known
<1>6. Relist'
  BY <1>3 DEF Relist
<1>7. VolumeComes' /\ MarksCome' /\ DefaultComes'
  BY <1>3, <1>6 DEF VolumeComes, MarksCome, DefaultComes
<1>8. RemovalComes'
  <2>1. \A e : Head(messages) # M("remove", e, None)
    BY <1>4, Fields
  <2> QED BY <1>4, <1>5, <2>1 DEF RemovalComes, UnderWay
<1>9. NoReturn'
  BY <1>1, <1>4, <1>5 DEF NoReturn
<1> QED BY <1>7, <1>8, <1>9 DEF UnderWay

LEMMA DeviceEventUnderWay ==
  ASSUME TypeOK, NoReturn, UnderWay, OnDeviceEvent
  PROVE  NoReturn' /\ UnderWay'
<1> DEFINE d == Head(messages).d
<1>1. /\ Receive("event") /\ requests' = Append(requests, M("info", d, None))
      /\ UNCHANGED <<dev, dflt, server, sdflt, unseen, gone>>
  BY Zenon DEF OnDeviceEvent, pulse, backend
<1>2. /\ Head(messages) \in Messages /\ Head(messages).t = "event"
      /\ \A u, e : Sent(u, e) <=> Sent(u, e)' \/ (u = "event" /\ e = d)
      /\ \A S, w : LastIs(messages, S, w) =>
           LastIs(messages', S, w) \/ (Head(messages) = w /\ ~ Holds(messages', S))
  BY <1>1, ReceiveFacts
<1>3. d \in Devs
  BY <1>2, ReadMessage
<1>4. \A e, x : Head(messages) # M("remove", e, x) /\ Head(messages) # M("info", e, x)
                /\ Head(messages) # M("serverInfo", e, x)
  BY <1>2, Fields
<1> HIDE DEF d
<1>5. M("info", d, None) \in Requests /\ M("info", d, None).t = "info" /\ M("info", d, None).d = d
  BY <1>3, MakeRequest, Fields
<1>6. \A u, e : Asked(u, e)' <=> Asked(u, e) \/ (u = "info" /\ e = d)
  BY <1>1, <1>5, AskFacts
<1>7. Up' = Up /\ Known' = Known /\ \A e : IsDefault(e)' = IsDefault(e)
  BY <1>1, SteadyFacts DEF Steady
<1>8. Relist => Relist'
  BY <1>2, <1>6 DEF Relist
<1>9. VolumeComes'
  <2> SUFFICES ASSUME NEW e \in Up
               PROVE  \/ Relist' \/ Asked("info", e)' \/ Sent("event", e)'
                      \/ LastIs(messages', Msgs("info", e), M("info", e, server[e]))
                      \/ ~ Sent("info", e)' /\ e \in Known' /\ dev'[e].v = PercentOf(server[e])
    BY <1>1, <1>7 DEF VolumeComes
  <2>1. \/ Relist \/ Asked("info", e) \/ Sent("event", e)
        \/ LastIs(messages, Msgs("info", e), M("info", e, server[e]))
        \/ ~ Sent("info", e) /\ e \in Known /\ dev[e].v = PercentOf(server[e])
    BY DEF VolumeComes, UnderWay
  <2> QED BY <1>1, <1>2, <1>4, <1>6, <1>7, <1>8, <2>1
<1>10. RemovalComes'
  BY <1>2, <1>4, <1>7 DEF RemovalComes, UnderWay
<1>11. DefaultComes'
  BY <1>1, <1>2, <1>4, <1>6 DEF DefaultComes, UnderWay
<1>12. MarksCome'
  BY <1>1, <1>2, <1>7, <1>8 DEF MarksCome, UnderWay
<1>13. NoReturn'
  BY <1>1, <1>2, <1>7 DEF NoReturn
<1> QED BY <1>9, <1>10, <1>11, <1>12, <1>13 DEF UnderWay

(* The backend takes an answer; a stream that joins a group may ask for a     *)
(* volume.                                                                    *)
LEMMA InfoEffect ==
  ASSUME TypeOK, UpdateDevice \/ AddDevice
  PROVE  /\ Receive("info") /\ Head(messages).d \in Devs
         /\ dev' = [dev EXCEPT ![Head(messages).d] = Updated(Head(messages))]
         /\ UNCHANGED <<dflt, server, sdflt, unseen, gone, listening, context, touched>>
         /\ \A u, e : u # "setVolume" => (Asked(u, e)' <=> Asked(u, e))
<1> DEFINE d == Head(messages).d
           e == Updated(Head(messages))
<1>1. /\ Receive("info") /\ dev' = [dev EXCEPT ![d] = e]
      /\ UNCHANGED <<dflt, server, sdflt, unseen, gone, listening, context, touched>>
  BY Zenon DEF UpdateDevice, AddDevice, pulse
<1>2. d \in Devs
  BY <1>1, InfoReceived
<1>3. \/ UNCHANGED requests
      \/ d \in Inputs /\ metaVol[VmOf[d]] # None
         /\ requests' = Append(requests, SetVolume(d, metaVol[VmOf[d]]))
  BY Zenon DEF UpdateDevice, AddDevice, JoinGroup, AddToMeta
<1>4. \A u, x : u # "setVolume" => (Asked(u, x)' <=> Asked(u, x))
  <2>1. CASE UNCHANGED requests
    BY <2>1, SameRequests
  <2>2. CASE /\ metaVol[VmOf[d]] # None
             /\ requests' = Append(requests, SetVolume(d, metaVol[VmOf[d]]))
    <3>1. metaVol[VmOf[d]] \in Percents
      BY <1>2, <2>2, ConstantsAssumption DEF TypeOK
    <3> DEFINE r == SetVolume(d, metaVol[VmOf[d]])
    <3>2. r \in Requests /\ r.t = "setVolume"
      BY <1>2, <3>1, MakeRequest, SetFields
    <3> HIDE DEF r, d
    <3>3. requests' = Append(requests, r)
      BY <2>2 DEF r
    <3> QED BY <3>2, <3>3, AskFacts
  <2> QED BY <1>3, <2>1, <2>2
<1> QED BY <1>1, <1>2, <1>4, Zenon

LEMMA InfoUnderWay ==
  ASSUME TypeOK, NoReturn, UnderWay, UpdateDevice \/ AddDevice
  PROVE  NoReturn' /\ UnderWay'
<1> DEFINE m == Head(messages)
           d == m.d
<1>1. /\ Receive("info") /\ d \in Devs /\ dev' = [dev EXCEPT ![d] = Updated(m)]
      /\ UNCHANGED <<dflt, server, sdflt, unseen, gone>>
      /\ \A u, e : u # "setVolume" => (Asked(u, e)' <=> Asked(u, e))
  BY InfoEffect, Zenon
<1>2. /\ m \in Messages /\ m.t = "info"
      /\ \A u, e : Sent(u, e) <=> Sent(u, e)' \/ (u = "info" /\ e = d)
      /\ \A S, w : LastIs(messages, S, w) =>
           LastIs(messages', S, w) \/ (m = w /\ ~ Holds(messages', S))
  BY <1>1, ReceiveFacts
<1>3. \A e, x : /\ m # M("remove", e, x) /\ m # M("serverInfo", e, x)
                /\ m = M("info", e, x) => e = d /\ x = m.x
  BY <1>2, Fields
<1>4. Updated(m) \in Entry /\ Updated(m) # None
  BY <1>1, InfoReceived, NoneIsNoEntry
<1>5. Updated(m).v = PercentOf(m.x) /\ Updated(m).def = IsDefault(d)
  BY DEF Updated
<1> HIDE DEF m, d
<1>6. /\ dev'[d] = Updated(m) /\ \A e \in Devs : e # d => dev'[e] = dev[e]
      /\ \A e \in Devs : e \in Known' <=> e \in Known \/ e = d
  BY <1>1, <1>4 DEF TypeOK, Known
<1>7. Up' = Up /\ (\A e : IsDefault(e)' <=> IsDefault(e)) /\ Up \subseteq Devs
  BY <1>1, Zenon DEF Up, IsDefault
<1>8. \A e : /\ Asked("info", e)' <=> Asked("info", e)
             /\ Asked("serverInfo", e)' <=> Asked("serverInfo", e)
             /\ Asked("list", e)' <=> Asked("list", e)
  BY <1>1
<1>9. Relist' <=> Relist
  BY <1>2, <1>8 DEF Relist
<1>10. VolumeComes'
  <2> SUFFICES ASSUME NEW e \in Up, ~ Relist
               PROVE  \/ Asked("info", e)' \/ Sent("event", e)'
                      \/ LastIs(messages', Msgs("info", e), M("info", e, server[e]))
                      \/ ~ Sent("info", e)' /\ e \in Known' /\ dev'[e].v = PercentOf(server[e])
    BY <1>1, <1>7, <1>9 DEF VolumeComes
  <2>0. e \in Devs
    BY <1>7
  <2>1. \/ Asked("info", e) \/ Sent("event", e)
        \/ LastIs(messages, Msgs("info", e), M("info", e, server[e]))
        \/ ~ Sent("info", e) /\ e \in Known /\ dev[e].v = PercentOf(server[e])
    BY DEF VolumeComes, UnderWay
  <2>2. CASE Asked("info", e) \/ Sent("event", e)
    BY <1>2, <1>8, <2>2
  <2>3. CASE LastIs(messages, Msgs("info", e), M("info", e, server[e]))
    <3>1. CASE LastIs(messages', Msgs("info", e), M("info", e, server[e]))
      BY <3>1
    <3>2. CASE m = M("info", e, server[e]) /\ ~ Holds(messages', Msgs("info", e))
      <4>1. e = d /\ server[e] = m.x
        BY <1>3, <3>2
      <4>2. ~ Sent("info", e)'
        BY <3>2 DEF Sent
      <4>3. e \in Known' /\ dev'[e].v = PercentOf(server[e])
        BY <1>5, <1>6, <2>0, <4>1
      <4> QED BY <4>2, <4>3
    <3> QED BY <1>2, <2>3, <3>1, <3>2
  <2>4. CASE ~ Sent("info", e) /\ e \in Known /\ dev[e].v = PercentOf(server[e])
    <3>1. e # d
      BY <1>2, <2>4
    <3> QED BY <1>2, <1>6, <2>0, <2>4, <3>1
  <2> QED BY <2>1, <2>2, <2>3, <2>4
<1>11. RemovalComes'
  <2> SUFFICES ASSUME NEW e \in Devs \ Up
               PROVE  \/ e \notin Known' /\ ~ Sent("info", e)'
                      \/ LastIs(messages', Msgs("info", e), M("remove", e, None))
    BY <1>7 DEF RemovalComes
  <2>1. \/ e \notin Known /\ ~ Sent("info", e)
        \/ LastIs(messages, Msgs("info", e), M("remove", e, None))
    BY DEF RemovalComes, UnderWay
  <2> QED BY <1>2, <1>3, <1>6, <2>1
<1>12. DefaultComes'
  BY <1>1, <1>2, <1>3, <1>8 DEF DefaultComes, UnderWay
<1>13. MarksCome'
  <2> SUFFICES ASSUME NEW e \in Up, ~ Relist
               PROVE  Sent("info", e)' \/ (e \in Known' => dev'[e].def = IsDefault(e)')
    BY <1>7, <1>9 DEF MarksCome
  <2>0. e \in Devs
    BY <1>7
  <2>1. CASE e = d
    <3>1. IsDefault(e)' = IsDefault(e)
      BY <1>1, Zenon DEF IsDefault
    <3> QED BY <1>5, <1>6, <2>1, <3>1
  <2>2. CASE e # d
    <3>1. IsDefault(e)' = IsDefault(e)
      BY <1>1, Zenon DEF IsDefault
    <3>2. Sent("info", e) \/ (e \in Known => dev[e].def = IsDefault(e))
      BY DEF MarksCome, UnderWay
    <3> QED BY <1>2, <1>6, <2>0, <2>2, <3>1, <3>2
  <2> QED BY <2>1, <2>2
<1>14. NoReturn'
  BY <1>1, <1>2, <1>7 DEF NoReturn
<1> QED BY <1>10, <1>11, <1>12, <1>13, <1>14 DEF UnderWay

LEMMA DeleteEffect ==
  ASSUME TypeOK, DeleteDevice
  PROVE  /\ Receive("remove") /\ Head(messages).d \in Devs
         /\ dev'[Head(messages).d] = None
         /\ \A e \in Devs : e # Head(messages).d => dev'[e] = dev[e]
         /\ UNCHANGED <<requests, dflt, metaVol, server, sdflt, unseen, gone, listening, context, touched>>
<1> DEFINE d == Head(messages).d
<1>1. /\ Receive("remove") /\ (dev' = [dev EXCEPT ![d] = None] \/ (d \notin Known /\ dev' = dev))
      /\ UNCHANGED <<requests, dflt, metaVol, server, sdflt, unseen, gone, listening, context, touched>>
  BY Zenon DEF DeleteDevice, pulse
<1>2. d \in Devs
  BY <1>1, TypeParts, ReceiveType, ReadMessage
<1> HIDE DEF d
<1>3. dev'[d] = None /\ \A e \in Devs : e # d => dev'[e] = dev[e]
  BY <1>1, <1>2 DEF TypeOK, Known
<1> QED BY <1>1, <1>2, <1>3 DEF d

LEMMA DeleteUnderWay ==
  ASSUME TypeOK, NoReturn, UnderWay, DeleteDevice
  PROVE  NoReturn' /\ UnderWay'
<1> DEFINE m == Head(messages)
           d == m.d
<1>1. /\ Receive("remove") /\ d \in Devs
      /\ dev'[d] = None /\ \A e \in Devs : e # d => dev'[e] = dev[e]
      /\ UNCHANGED <<requests, dflt, server, sdflt, unseen, gone>>
  BY DeleteEffect, Zenon
<1>2. /\ m \in Messages /\ m.t = "remove"
      /\ \A u, e : Sent(u, e) <=> Sent(u, e)' \/ (u = "remove" /\ e = d)
      /\ \A S, w : LastIs(messages, S, w) =>
           LastIs(messages', S, w) \/ (m = w /\ ~ Holds(messages', S))
  BY <1>1, ReceiveFacts
<1>3. \A e, x : /\ m # M("info", e, x) /\ m # M("serverInfo", e, x)
                /\ m = M("remove", e, x) => e = d
  BY <1>2, Fields
<1> HIDE DEF m, d
<1>4. d \in gone /\ d \notin Up
  BY <1>1, <1>2 DEF NoReturn
<1>5. Up' = Up /\ (\A e : IsDefault(e)' = IsDefault(e)) /\ Up \subseteq Devs
  BY <1>1, Zenon DEF Up, IsDefault
<1>6. \A e \in Devs : e \in Known' <=> e \in Known /\ e # d
  BY <1>1 DEF Known
<1>7. \A u, e : Asked(u, e)' <=> Asked(u, e)
  BY <1>1, SameRequests
<1>8. Relist' <=> Relist
  BY <1>2, <1>7 DEF Relist
<1>9. \A e \in Up : e \in Devs /\ e # d /\ dev'[e] = dev[e]
  BY <1>1, <1>4, <1>5
<1>10. VolumeComes'
  <2> SUFFICES ASSUME NEW e \in Up, ~ Relist
               PROVE  \/ Asked("info", e)' \/ Sent("event", e)'
                      \/ LastIs(messages', Msgs("info", e), M("info", e, server[e]))
                      \/ ~ Sent("info", e)' /\ e \in Known' /\ dev'[e].v = PercentOf(server[e])
    BY <1>1, <1>5, <1>8 DEF VolumeComes
  <2>1. \/ Asked("info", e) \/ Sent("event", e)
        \/ LastIs(messages, Msgs("info", e), M("info", e, server[e]))
        \/ ~ Sent("info", e) /\ e \in Known /\ dev[e].v = PercentOf(server[e])
    BY DEF VolumeComes, UnderWay
  <2> QED BY <1>2, <1>3, <1>6, <1>7, <1>9, <2>1
<1>11. RemovalComes'
  <2> SUFFICES ASSUME NEW e \in Devs \ Up
               PROVE  \/ e \notin Known' /\ ~ Sent("info", e)'
                      \/ LastIs(messages', Msgs("info", e), M("remove", e, None))
    BY <1>5 DEF RemovalComes
  <2>1. CASE e \notin Known /\ ~ Sent("info", e)
    BY <1>2, <1>6, <2>1
  <2>2. CASE LastIs(messages, Msgs("info", e), M("remove", e, None))
    <3>1. CASE m = M("remove", e, None) /\ ~ Holds(messages', Msgs("info", e))
      BY <1>3, <1>6, <3>1 DEF Sent
    <3> QED BY <1>2, <2>2, <3>1
  <2> QED BY <2>1, <2>2 DEF RemovalComes, UnderWay
<1>12. DefaultComes'
  BY <1>1, <1>2, <1>3, <1>7 DEF DefaultComes, UnderWay
<1>13. MarksCome'
  <2> SUFFICES ASSUME NEW e \in Up, ~ Relist
               PROVE  Sent("info", e)' \/ (e \in Known' => dev'[e].def = IsDefault(e)')
    BY <1>5, <1>8 DEF MarksCome
  <2>1. Sent("info", e) \/ (e \in Known => dev[e].def = IsDefault(e))
    BY DEF MarksCome, UnderWay
  <2> QED BY <1>2, <1>5, <1>6, <1>9, <2>1
<1>14. NoReturn'
  BY <1>1, <1>2, <1>5 DEF NoReturn
<1> QED BY <1>10, <1>11, <1>12, <1>13, <1>14 DEF UnderWay

LEMMA ReadyUnderWay ==
  ASSUME TypeOK, Starting, NoReturn, ContextReady
  PROVE  NoReturn' /\ UnderWay'
<1>1. /\ context = "new" /\ UNCHANGED <<messages, dev, dflt, server, sdflt, unseen, gone>>
      /\ requests' = <<M("serverInfo", None, None), M("subscribe", None, None)>>
  BY Zenon DEF ContextReady, backend, pulse
<1>2. messages' = <<>> /\ Known = {}
  BY <1>1 DEF Starting
<1>3. M("serverInfo", None, None) \in Reqs("serverInfo", None)
  BY MakeRequest, InReqs, Fields
<1>4. Asked("serverInfo", None)'
  BY <1>1, <1>3 DEF Asked, Holds
<1>5. Relist'
  BY <1>4 DEF Relist
<1>6. Up' = Up /\ Known' = {} /\ \A u, e : ~ Sent(u, e)'
  BY <1>1, <1>2, HoldsNone DEF Up, Known, Sent
<1>7. VolumeComes' /\ MarksCome' /\ DefaultComes' /\ RemovalComes'
  BY <1>4, <1>5, <1>6 DEF VolumeComes, MarksCome, DefaultComes, RemovalComes
<1>8. NoReturn'
  BY <1>1, <1>6 DEF NoReturn
<1> QED BY <1>7, <1>8 DEF UnderWay

(* Requests of the clients come after what is under way. *)
LEMMA RequestsUnderWay ==
  ASSUME NoReturn, UnderWay, Steady, UNCHANGED messages,
         \A u \in {"serverInfo", "list", "info"} : \A e : Asked(u, e)' <=> Asked(u, e)
  PROVE  NoReturn' /\ UnderWay'
<1>1. Up' = Up /\ Known' = Known /\ \A e : IsDefault(e)' = IsDefault(e)
  BY SteadyFacts
<1>2. \A u, e : Sent(u, e)' <=> Sent(u, e)
  BY Zenon DEF Sent
<1>3. \A e : /\ Asked("info", e)' <=> Asked("info", e)
             /\ Asked("serverInfo", e)' <=> Asked("serverInfo", e)
             /\ Asked("list", e)' <=> Asked("list", e)
  OBVIOUS
<1>4. Relist' <=> Relist
  BY <1>2, <1>3 DEF Relist
<1>5. VolumeComes'
  BY <1>1, <1>2, <1>3, <1>4 DEF Steady, VolumeComes, UnderWay
<1>6. RemovalComes' /\ DefaultComes'
  BY <1>1, <1>2, <1>3 DEF Steady, RemovalComes, DefaultComes, UnderWay
<1>7. MarksCome'
  BY <1>1, <1>2, <1>4 DEF Steady, MarksCome, UnderWay
<1>8. NoReturn'
  BY <1>1, <1>2 DEF Steady, NoReturn
<1> QED BY <1>5, <1>6, <1>7, <1>8 DEF UnderWay

LEMMA RequestFacts ==
  ASSUME TypeOK, NEW r \in Seq(Requests), Request(r),
         \A u \in {"serverInfo", "list", "info"} : \A e : ~ Holds(r, Reqs(u, e))
  PROVE  \A u \in {"serverInfo", "list", "info"} : \A e : Asked(u, e)' <=> Asked(u, e)
<1>1. requests \in Seq(Requests)
  BY Zenon DEF TypeOK
<1>2. CASE context = "ready"
  <2>1. requests' = requests \o r
    BY <1>2, Zenon DEF Request
  <2>2. \A S : Holds(requests', S) <=> Holds(requests, S) \/ Holds(r, S)
    BY <1>1, <2>1, Grows, Zenon
  <2> QED BY <2>2 DEF Asked
<1>3. CASE context # "ready"
  <2>1. UNCHANGED requests
    BY <1>3, Zenon DEF Request
  <2> QED BY <2>1, SameRequests
<1> QED BY <1>2, <1>3

LEMMA ServiceUnderWay ==
  ASSUME TypeOK, ServiceStep
  PROVE  /\ Steady /\ UNCHANGED <<messages, context>>
         /\ \A u \in {"serverInfo", "list", "info"} : \A e : Asked(u, e)' <=> Asked(u, e)
<1>1. Steady /\ UNCHANGED <<messages, context>>
  BY Zenon DEF ServiceStep, MakeDeviceDefault, SetDeviceVolume, SetMetaVolume, Subscribe, Unsubscribe,
     Steady, pulse, backend
<1>2. ASSUME NEW d \in Devs, MakeDeviceDefault(d)
      PROVE  \A u \in {"serverInfo", "list", "info"} : \A e : Asked(u, e)' <=> Asked(u, e)
  <2> DEFINE m == M("setDefault", d, None)
             r == <<m>>
  <2>1. UNCHANGED requests \/ Request(r)
    BY <1>2, Zenon DEF MakeDeviceDefault, SetDefault
  <2>2. m \in Requests
    BY <1>2, MakeRequest DEF MakeDeviceDefault
  <2>3. \A u, e : m \in Reqs(u, e) => u = "setDefault"
    BY <2>2, InReqs, Fields
  <2> HIDE DEF m
  <2>4. r \in Seq(Requests) /\ \A S : Holds(r, S) <=> m \in S
    BY <2>2, OneElement, HoldsOne
  <2> HIDE DEF r
  <2>5. \A u \in {"serverInfo", "list", "info"} : \A e : ~ Holds(r, Reqs(u, e))
    BY <2>3, <2>4
  <2> QED BY <2>1, <2>4, <2>5, RequestFacts, SameRequests
<1>3. ASSUME NEW d \in Devs, NEW v \in Levels, SetDeviceVolume(d, v)
      PROVE  \A u \in {"serverInfo", "list", "info"} : \A e : Asked(u, e)' <=> Asked(u, e)
  <2> DEFINE m == SetVolume(d, v)
             r == <<m>>
  <2>1. Request(r)
    BY <1>3, Zenon DEF SetDeviceVolume
  <2>2. m \in Requests
    <3>1. v \in Percents
      BY VolumeTypes
    <3> QED BY <3>1, MakeRequest, Zenon
  <2>3. \A u, e : m \in Reqs(u, e) => u = "setVolume"
    BY <2>2, InReqs, SetFields
  <2> HIDE DEF m
  <2>4. r \in Seq(Requests) /\ \A S : Holds(r, S) <=> m \in S
    BY <2>2, OneElement, HoldsOne
  <2> HIDE DEF r
  <2>5. \A u \in {"serverInfo", "list", "info"} : \A e : ~ Holds(r, Reqs(u, e))
    BY <2>3, <2>4
  <2> QED BY <2>1, <2>4, <2>5, RequestFacts
<1>4. ASSUME NEW m \in Vms, NEW v \in Levels, SetMetaVolume(m, v)
      PROVE  \A u \in {"serverInfo", "list", "info"} : \A e : Asked(u, e)' <=> Asked(u, e)
  <2> DEFINE S == metaDevs[m]
             r == VolumeFor(S, v)
  <2>1. Request(r)
    BY <1>4, Zenon DEF SetMetaVolume
  <2>2. S \subseteq Devs
    BY DEF TypeOK, Inputs
  <2> HIDE DEF S
  <2>0. v \in Percents
    BY VolumeTypes
  <2>3. r \in Seq(Requests)
    BY <2>0, <2>2, VolumeForType
  <2>4. \A t, e : Holds(VolumeFor(S, v), Reqs(t, e)) <=> t = "setVolume" /\ e \in S
    BY <2>0, <2>2, VolumeForFacts, Zenon
  <2> HIDE DEF r
  <2>5. \A u \in {"serverInfo", "list", "info"} : \A e : ~ Holds(r, Reqs(u, e))
    BY <2>4 DEF r
  <2> QED BY <2>1, <2>3, <2>5, RequestFacts
<1>5. ASSUME NEW c \in Clients, Subscribe(c) \/ Unsubscribe(c)
      PROVE  \A u \in {"serverInfo", "list", "info"} : \A e : Asked(u, e)' <=> Asked(u, e)
  <2>1. UNCHANGED requests
    BY <1>5, Zenon DEF Subscribe, Unsubscribe
  <2> QED BY <2>1, SameRequests
<1> QED BY <1>1, <1>2, <1>3, <1>4, <1>5, Zenon DEF ServiceStep

LEMMA NoReturnSame ==
  ASSUME NoReturn, UNCHANGED <<server, gone>>, messages' = messages \/ messages' = <<>>
  PROVE  NoReturn'
<1>1. Up' = Up
  BY Zenon DEF Up
<1>2. \A e : Sent("remove", e)' => Sent("remove", e)
  BY HoldsNone DEF Sent
<1> QED BY <1>1, <1>2 DEF NoReturn

LEMMA DevStep == TypeOK /\ DevInv /\ [Next]_vars => DevInv'
<1> SUFFICES ASSUME TypeOK, DevInv, [Next]_vars PROVE DevInv'
  OBVIOUS
<1>0. Starting /\ NoReturn /\ (context = "ready" => UnderWay) /\ Starting'
  BY StartingStep DEF DevInv
<1> SUFFICES NoReturn' /\ (context' = "ready" => UnderWay')
  BY <1>0 DEF DevInv
<1>1. ASSUME NEW d \in Devs, NEW b \in Seq(Messages), ServerChanges(d, b), UNCHANGED context
      PROVE  NoReturn' /\ (context' = "ready" => UnderWay')
  BY <1>0, <1>1, ChangesNoReturn, ChangesUnderWay
<1>2. CASE \E d \in Devs : Unplug(d) \/ \E v \in Volumes : Plug(d, v) \/ OtherSetsVolume(d, v)
  <2>1. UNCHANGED context
    BY <1>2, Zenon DEF Unplug, Plug, OtherSetsVolume
  <2>2. \E d \in Devs : \E b \in Seq(Messages) : ServerChanges(d, b)
    BY <1>0, <1>2, PlugChanges, UnplugChanges, OtherSetsChanges, Zenon
  <2> QED BY <1>1, <2>1, <2>2
<1>3. CASE ServeVolume \/ ServeDefault
  <2>1. UNCHANGED context
    BY <1>3, Zenon DEF ServeVolume, ServeDefault, Serve
  <2>2. \E d \in Devs : \E b \in Seq(Messages) : ServerChanges(d, b)
    BY <1>0, <1>3, ServeVolumeChanges, ServeDefaultChanges, Zenon
  <2> QED BY <1>1, <2>1, <2>2
<1>4. CASE ServeServerInfo \/ ServeSubscribe \/ ServeList \/ ServeInfo
  <2>1. requests # <<>>
    BY <1>4, Zenon DEF ServeServerInfo, ServeSubscribe, ServeList, ServeInfo, Serve
  <2>2. UnderWay
    BY <1>0, <2>1, StartingHeads
  <2> QED BY <1>0, <1>4, <2>2, ServeServerInfoUnderWay, ServeSubscribeUnderWay, ServeDevicesUnderWay
<1>5. CASE ServerInfoCallback \/ OnServerEvent \/ OnDeviceEvent \/ UpdateDevice \/ AddDevice \/ DeleteDevice
  <2>1. messages # <<>>
    BY <1>5, Zenon DEF ServerInfoCallback, OnServerEvent, OnDeviceEvent, UpdateDevice, AddDevice,
       DeleteDevice, Receive
  <2>2. UnderWay
    BY <1>0, <2>1, StartingHeads
  <2> QED BY <1>0, <1>5, <2>2, ServerInfoUnderWay, ServerEventUnderWay, DeviceEventUnderWay,
             InfoUnderWay, DeleteUnderWay
<1>6. CASE ContextReady
  BY <1>0, <1>6, ReadyUnderWay
<1>7. CASE ContextFails
  <2>1. context' = "failed" /\ messages' = <<>> /\ UNCHANGED <<server, gone>>
    BY <1>7, Zenon DEF ContextFails, pulse
  <2> QED BY <1>0, <2>1, NoReturnSame
<1>8. CASE ServiceStep
  <2>1. /\ Steady /\ UNCHANGED <<messages, context>>
        /\ \A u \in {"serverInfo", "list", "info"} : \A e : Asked(u, e)' <=> Asked(u, e)
    BY <1>8, ServiceUnderWay
  <2>2. NoReturn'
    BY <1>0, <2>1, NoReturnSame DEF Steady
  <2>3. context = "ready" => UnderWay'
    BY <1>0, <2>1, RequestsUnderWay
  <2> QED BY <2>1, <2>2, <2>3
<1>9. CASE UNCHANGED vars
  <2>1. Steady /\ UNCHANGED <<messages, context, requests>>
    BY <1>9, Zenon DEF vars, pulse, backend, Steady
  <2>2. NoReturn'
    BY <1>0, <2>1, NoReturnSame DEF Steady
  <2>3. \A u, e : Asked(u, e)' <=> Asked(u, e)
    BY <2>1, SameRequests
  <2>4. context = "ready" => UnderWay'
    BY <1>0, <2>1, <2>3, RequestsUnderWay
  <2> QED BY <2>1, <2>2, <2>4
<1> QED BY <1>2, <1>3, <1>4, <1>5, <1>6, <1>7, <1>8, <1>9, Zenon DEF Next, PulseStep, BackendStep

LEMMA DevInvariant == Spec => []DevInv
<1>1. Init => DevInv
  <2> SUFFICES ASSUME Init PROVE DevInv
    OBVIOUS
  <2>1. context = "new" /\ requests = <<>> /\ messages = <<>> /\ ~ listening /\ gone = {}
    BY Zenon DEF Init
  <2>2. Known = {} /\ \A m \in Vms : metaVol[m] = None
    BY DEF Init, Known, Nothing
  <2>3. Starting
    BY <2>1, <2>2 DEF Starting
  <2>4. NoReturn
    BY <2>1, HoldsNone DEF NoReturn, Sent
  <2> QED BY <2>1, <2>3, <2>4 DEF DevInv
<1> QED BY <1>1, DevStep, TypeCorrect, PTL DEF Spec

(* Whatever is plugged in, unplugged, set or made the default while questions *)
(* and answers are under way, the backend ends up with the server's devices,  *)
(* volumes and defaults.                                                      *)
THEOREM DevicesCorrect == Spec => []DevicesConverge
<1>1. TypeOK /\ DevInv => DevicesConverge
  <2> SUFFICES ASSUME TypeOK, DevInv, Settled PROVE DevicesConverge
    BY DEF DevicesConverge
  <2>1. context = "ready" /\ requests = <<>> /\ messages = <<>>
    BY DEF Settled
  <2>2. (\A u, e : ~ Sent(u, e) /\ ~ Asked(u, e)) /\ ~ Relist
    <3>1. \A u, e : ~ Sent(u, e) /\ ~ Asked(u, e)
      BY <2>1, HoldsNone DEF Sent, Asked
    <3> QED BY <3>1 DEF Relist
  <2>3. \A S, w : ~ LastIs(messages, S, w)
    BY <2>1 DEF LastIs
  <2>4. VolumeComes /\ RemovalComes /\ DefaultComes /\ MarksCome
    BY <2>1 DEF DevInv, UnderWay
  <2>5. \A d \in Up : d \in Known /\ dev[d].v = PercentOf(server[d])
    BY <2>2, <2>3, <2>4 DEF VolumeComes
  <2>6. \A d \in Devs \ Up : d \notin Known
    BY <2>2, <2>3, <2>4 DEF RemovalComes
  <2>7. Known = Up
    BY <2>5, <2>6 DEF Known, Up
  <2>8. unseen \/ dflt = sdflt
    BY <2>2, <2>3, <2>4 DEF DefaultComes
  <2>9. \A d \in Known : dev[d].def = IsDefault(d)
    BY <2>2, <2>4, <2>7 DEF MarksCome
  <2>10. unseen \/ \A d \in Known : dev[d].def = (d \in Defaultable /\ sdflt[KindOf[d]] = d)
    BY <2>8, <2>9, Zenon DEF IsDefault
  <2> QED BY <2>5, <2>7, <2>10 DEF DevicesConverge
<1> QED BY <1>1, DevInvariant, TypeCorrect, PTL
-----------------------------------------------------------------------------
(* Streams and the volumes of their VMs.  A step keeps what is asked for a    *)
(* device when the last volume asked for stays the last.                      *)
Kept(d) ==
  /\ \A v : LastIs(requests, Reqs("setVolume", d), SetVolume(d, v)) =>
            LastIs(requests', Reqs("setVolume", d), SetVolume(d, v))
  /\ Asked("setVolume", d)' => Asked("setVolume", d)

LEMMA StreamSame ==
  ASSUME NEW d \in Devs, StreamOK(d), server'[d] = server[d],
         gone \subseteq gone', touched \subseteq touched', d \in Known' <=> d \in Known,
         d \in (Inputs \cap Up \cap Known) \ touched => metaVol'[VmOf[d]] = metaVol[VmOf[d]],
         Kept(d), Stale(d)' => Stale(d)
  PROVE  StreamOK(d)'
<1>1. d \in Up' <=> d \in Up
  BY DEF Up
<1>2. Asked("setVolume", d)' => d \in Up' \cup gone'
  BY <1>1 DEF StreamOK, Kept
<1> SUFFICES ASSUME d \in (Inputs \cap Up) \ touched
             PROVE  IF d \in Known THEN StreamSet(d)' ELSE ~ Asked("setVolume", d)' /\ ~ Stale(d)'
  BY <1>1, <1>2, Zenon DEF StreamOK, Inputs
<1>3. CASE d \in Known
  <2>1. StreamSet(d) /\ metaVol'[VmOf[d]] = metaVol[VmOf[d]]
    BY <1>3 DEF StreamOK
  <2> QED BY <1>3, <2>1 DEF StreamSet, Kept
<1>4. CASE d \notin Known
  BY <1>4 DEF StreamOK, Kept
<1> QED BY <1>3, <1>4

LEMMA SameKeeps ==
  ASSUME UNCHANGED requests
  PROVE  \A e : Kept(e)
  BY Zenon DEF Kept, Asked

LEMMA ServeKeeps ==
  ASSUME TypeOK, NEW t, Serve(t), NEW e, t # "setVolume" \/ Head(requests).d # e
  PROVE  Kept(e)
<1>1. /\ requests # <<>> /\ Head(requests).t = t
      /\ \A u, d : Asked(u, d) <=> Asked(u, d)' \/ (u = t /\ d = Head(requests).d)
  BY ServeFacts
<1>2. requests \in Seq(Requests) /\ requests' = Tail(requests)
  BY Zenon DEF TypeOK, Serve
<1>3. \A S, w : LastIs(requests, S, w) => LastIs(requests', S, w) \/ Head(requests) = w
  BY <1>1, <1>2, Shrinks
<1>4. \A v : Head(requests) # SetVolume(e, v)
  BY <1>1, SetFields
<1> QED BY <1>1, <1>3, <1>4 DEF Kept

LEMMA AskKeeps ==
  ASSUME TypeOK, NEW r \in Requests, requests' = Append(requests, r),
         NEW e, r.t # "setVolume" \/ r.d # e
  PROVE  Kept(e)
<1>1. requests \in Seq(Requests)
  BY Zenon DEF TypeOK
<1>2. r \notin Reqs("setVolume", e)
  BY InReqs
<1>3. \A w : LastIs(requests, Reqs("setVolume", e), w) => LastIs(requests', Reqs("setVolume", e), w)
  BY <1>1, <1>2, GrowsByOne
<1>4. Asked("setVolume", e)' => Asked("setVolume", e)
  BY AskFacts
<1> QED BY <1>3, <1>4 DEF Kept

LEMMA RequestKeeps ==
  ASSUME TypeOK, NEW r \in Seq(Requests), Request(r), NEW e, ~ Holds(r, Reqs("setVolume", e))
  PROVE  Kept(e)
<1>1. requests \in Seq(Requests)
  BY Zenon DEF TypeOK
<1>2. CASE context = "ready"
  <2>1. requests' = requests \o r
    BY <1>2, Zenon DEF Request
  <2>2. /\ \A S : Holds(requests', S) <=> Holds(requests, S) \/ Holds(r, S)
        /\ \A S, w : LastIs(requests, S, w) /\ ~ Holds(r, S) => LastIs(requests', S, w)
    BY <1>1, <2>1, Grows, Zenon
  <2> QED BY <2>2 DEF Kept, Asked
<1>3. CASE context # "ready"
  <2>1. UNCHANGED requests
    BY <1>3, Zenon DEF Request
  <2> QED BY <2>1, SameKeeps
<1> QED BY <1>2, <1>3

(* A stale answer about a device is an answer about it. *)
LEMMA StaleIsSent ==
  ASSUME NEW d
  PROVE  Stale(d) => Sent("info", d)
  BY DEF Stale, Sent, Holds

LEMMA ReceiveStale ==
  ASSUME TypeOK, NEW t, Receive(t), NEW d, server'[d] = server[d]
  PROVE  Stale(d)' => Stale(d)
<1>1. messages # <<>> /\ messages' = Tail(messages) /\ messages \in Seq(Messages)
  BY Zenon DEF Receive, TypeOK
<1>2. \A S : Holds(messages', S) => Holds(messages, S)
  BY <1>1, Shrinks
<1> QED BY <1>2 DEF Stale

LEMMA ChangesStale ==
  ASSUME TypeOK, NEW d \in Devs, NEW b \in Seq(Messages), ServerChanges(d, b), NEW e
  PROVE  /\ Sent("info", e)' => Sent("info", e)
         /\ server'[e] = server[e] => (Stale(e)' => Stale(e))
<1>1. \A S : Holds(messages', S) => Holds(messages, S) \/ Holds(b, S)
  BY Grows DEF ServerChanges, TypeOK
<1>2. ~ Holds(b, Msgs("info", e))
  BY DEF ServerChanges
<1>3. \A S : Holds(b, Msgs("info", e) \ S) => Holds(b, Msgs("info", e))
  BY DEF Holds
<1> QED BY <1>1, <1>2, <1>3 DEF Stale, Sent

(* A device that is known, or about to be, is at the server or gone from it. *)
LEMMA KnownThere ==
  ASSUME NoReturn, RemovalComes, NEW d \in Devs, d \in Known \/ Sent("info", d)
  PROVE  d \in Up \cup gone
<1> SUFFICES ASSUME d \notin Up PROVE d \in gone
  OBVIOUS
<1>1. LastIs(messages, Msgs("info", d), M("remove", d, None))
  BY DEF RemovalComes
<1>2. M("remove", d, None) \in Msgs("remove", d)
  BY MakeMessage, InMsgs, Fields
<1>3. Sent("remove", d)
  BY <1>1, <1>2 DEF LastIs, Sent, Holds
<1> QED BY <1>3 DEF NoReturn

(* The server's steps. *)
LEMMA PlugStreams ==
  ASSUME TypeOK, NoReturn, RemovalComes, \A e \in Devs : StreamOK(e),
         NEW d \in Devs, NEW v \in Volumes, Plug(d, v)
  PROVE  \A e \in Devs : StreamOK(e)'
<1>1. /\ d \notin Up \cup gone /\ server' = [server EXCEPT ![d] = v]
      /\ UNCHANGED <<requests, dev, metaVol, touched, gone>>
  BY Zenon DEF Plug, backend
<1>2. PICK b \in Seq(Messages) : ServerChanges(d, b)
  BY PlugChanges
<1>3. Known' = Known /\ \A e : Kept(e)
  BY <1>1, SameKeeps, Zenon DEF Known
<1>4. ASSUME NEW e \in Devs, e # d PROVE StreamOK(e)'
  <2>1. server'[e] = server[e]
    BY <1>1, <1>4 DEF TypeOK
  <2> QED BY <1>1, <1>2, <1>3, <2>1, ChangesStale, StreamSame
<1>5. StreamOK(d)'
  <2>1. d \notin Known /\ ~ Sent("info", d)
    BY <1>1, KnownThere
  <2>2. ~ Stale(d)'
    <3>1. ~ Sent("info", d)'
      BY <1>2, <2>1, ChangesStale
    <3>2. Stale(d)' => Sent("info", d)'
      BY DEF Stale, Sent, Holds
    <3> QED BY <3>1, <3>2
  <2>3. ~ Asked("setVolume", d)'
    BY <1>1, <1>3 DEF StreamOK, Kept
  <2> QED BY <1>3, <2>1, <2>2, <2>3 DEF StreamOK
<1> QED BY <1>4, <1>5

LEMMA UnplugStreams ==
  ASSUME TypeOK, \A e \in Devs : StreamOK(e), NEW d \in Devs, Unplug(d)
  PROVE  \A e \in Devs : StreamOK(e)'
<1>1. /\ server' = [server EXCEPT ![d] = None] /\ gone' = gone \cup {d}
      /\ UNCHANGED <<requests, dev, metaVol, touched>>
  BY Zenon DEF Unplug, backend
<1>2. PICK b \in Seq(Messages) : ServerChanges(d, b)
  BY UnplugChanges
<1>3. Known' = Known /\ \A e : Kept(e)
  BY <1>1, SameKeeps, Zenon DEF Known
<1>4. ASSUME NEW e \in Devs, e # d PROVE StreamOK(e)'
  <2>1. server'[e] = server[e]
    BY <1>1, <1>4 DEF TypeOK
  <2> QED BY <1>1, <1>2, <1>3, <2>1, ChangesStale, StreamSame
<1>5. StreamOK(d)'
  <2>1. d \notin Up' /\ d \in gone'
    BY <1>1 DEF Up, TypeOK
  <2> QED BY <2>1 DEF StreamOK
<1> QED BY <1>4, <1>5

LEMMA OtherSetsStreams ==
  ASSUME TypeOK, NoReturn, \A e \in Devs : StreamOK(e),
         NEW d \in Devs, NEW v \in Volumes, OtherSetsVolume(d, v)
  PROVE  \A e \in Devs : StreamOK(e)'
<1>1. /\ server' = [server EXCEPT ![d] = v] /\ touched' = touched \cup {d}
      /\ UNCHANGED <<requests, dev, metaVol, gone>>
  BY Zenon DEF OtherSetsVolume, backend
<1>2. PICK b \in Seq(Messages) : ServerChanges(d, b)
  BY OtherSetsChanges
<1>3. Known' = Known /\ \A e : Kept(e)
  BY <1>1, SameKeeps, Zenon DEF Known
<1>4. ASSUME NEW e \in Devs, e # d PROVE StreamOK(e)'
  <2>1. server'[e] = server[e]
    BY <1>1, <1>4 DEF TypeOK
  <2> QED BY <1>1, <1>2, <1>3, <2>1, ChangesStale, StreamSame
<1>5. StreamOK(d)'
  <2>1. d \in Up' /\ d \in touched'
    BY <1>1, ConstantsAssumption DEF Up, TypeOK
  <2> QED BY <2>1 DEF StreamOK
<1> QED BY <1>4, <1>5

LEMMA ServeVolumeStreams ==
  ASSUME TypeOK, NoReturn, \A e \in Devs : StreamOK(e), ServeVolume
  PROVE  \A e \in Devs : StreamOK(e)'
<1>1. Serve("setVolume") /\ requests' = Tail(requests)
  BY Zenon DEF ServeVolume, Serve
<1>2. /\ requests # <<>> /\ Head(requests) \in Requests /\ Head(requests).t = "setVolume"
      /\ \A u, e : Asked(u, e) <=> Asked(u, e)' \/ (u = "setVolume" /\ e = Head(requests).d)
      /\ UNCHANGED <<dev, metaVol, gone, touched>>
  BY <1>1, ServeFacts
<1>3. PICK d \in Devs, x \in Nat :
        d = Head(requests).d /\ x = Head(requests).x /\ Head(requests) = M("setVolume", d, x)
  BY <1>2, ReadRequest, ServerFields
<1>4. \/ d \in Up /\ server' = [server EXCEPT ![d] = x]
      \/ (d \in Up => server[d] = x) /\ server' = server
  BY <1>3, Zenon DEF ServeVolume
<1>5. \A e \in Devs \ {d} : server'[e] = server[e]
  BY <1>3, <1>4 DEF TypeOK
<1>6. Known' = Known /\ \A e : e # d => Kept(e)
  BY <1>1, <1>2, <1>3, ServeKeeps DEF Known
<1>7. PICK c \in Devs, b \in Seq(Messages) : ServerChanges(c, b)
  BY ServeVolumeChanges
<1>8. ASSUME NEW e \in Devs, e # d PROVE StreamOK(e)'
  BY <1>2, <1>5, <1>6, <1>7, <1>8, ChangesStale, StreamSame
<1>9. StreamOK(d)'
  <2>1. (d \in Up' <=> d \in Up) /\ (d \in Up => server'[d] = x)
    BY <1>3, <1>4, ConstantsAssumption DEF Up, TypeOK
  <2>2. Asked("setVolume", d)
    BY <1>2, <1>3
  <2>3. ASSUME d \in (Inputs \cap Up) \ touched PROVE d \in Known /\ StreamSet(d)'
    <3>1. d \in Known /\ StreamSet(d)
      BY <1>3, <2>2, <2>3 DEF StreamOK
    <3> DEFINE w == SetVolume(d, metaVol[VmOf[d]])
    <3>2. LastIs(requests, Reqs("setVolume", d), w)
      BY <2>2, <3>1 DEF StreamSet
    <3>0. metaVol'[VmOf[d]] = metaVol[VmOf[d]]
      BY <1>2
    <3>3. CASE LastIs(requests', Reqs("setVolume", d), w)
      BY <3>0, <3>1, <3>3 DEF StreamSet
    <3>4. CASE Head(requests) = w /\ ~ Holds(requests', Reqs("setVolume", d))
      <4>1. x = PulseOf(metaVol[VmOf[d]])
        BY <1>3, <3>4, SetFields
      <4>2. metaVol[VmOf[d]] \in Percents
        BY <3>1, ConstantsAssumption DEF TypeOK, StreamSet
      <4>3. PercentOf(x) = metaVol[VmOf[d]]
        BY <4>1, <4>2, Conversions, Zenon
      <4> QED BY <4>3, <2>1, <2>3, <3>0, <3>1, <3>4, <4>1 DEF StreamSet, Asked
    <3>5. requests \in Seq(Requests)
      BY Zenon DEF TypeOK
    <3>6. \A S, y : LastIs(requests, S, y) => LastIs(requests', S, y) \/ (Head(requests) = y /\ ~ Holds(requests', S))
      BY <1>1, <1>2, <3>5, Shrinks, Zenon
    <3> HIDE DEF w
    <3> QED BY <3>1, <3>2, <3>3, <3>4, <3>6
  <2>4. d \in Up' \cup gone'
    BY <1>2, <1>3, <2>1, <2>2 DEF StreamOK
  <2> QED BY <1>2, <1>6, <2>1, <2>3, <2>4 DEF StreamOK
<1> QED BY <1>8, <1>9

(* Its other answers carry the volumes there are. *)
LEMMA ServeStreams ==
  ASSUME TypeOK, Starting, NoReturn, \A e \in Devs : StreamOK(e),
         ServeServerInfo \/ ServeSubscribe \/ ServeList \/ ServeInfo \/ ServeDefault
  PROVE  \A e \in Devs : StreamOK(e)'
<1>1. PICK t : t # "setVolume" /\ Serve(t) /\ UNCHANGED server
  BY Zenon DEF ServeServerInfo, ServeSubscribe, ServeList, ServeInfo, ServeDefault
<1>2. UNCHANGED <<dev, metaVol, gone, touched>> /\ \A e : Kept(e)
  BY <1>1, ServeFacts, ServeKeeps
<1>3. Known' = Known
  BY <1>2, Zenon DEF Known
<1>4. messages \in Seq(Messages)
  BY Zenon DEF TypeOK
<1>5. ASSUME NEW e PROVE Stale(e)' => Stale(e)
  <2> DEFINE A == Msgs("info", e) \ {M("info", e, server[e])}
  <2>0. (Stale(e) <=> Holds(messages, A)) /\ (Stale(e)' <=> Holds(messages', A))
    BY <1>1 DEF Stale
  <2>1. CASE ServeServerInfo
    <3> DEFINE m == M("serverInfo", None, sdflt)
    <3>1. messages' = Append(messages, m)
      BY <2>1, Zenon DEF ServeServerInfo
    <3>2. m \in Messages
      BY MakeMessage, Zenon DEF TypeOK
    <3>3. m \notin A
      BY <3>2, InMsgs, Fields
    <3> HIDE DEF m, A
    <3> QED BY <1>4, <2>0, <3>1, <3>2, <3>3, GrowsByOne
  <2>2. CASE ServeSubscribe
    <3>1. UNCHANGED messages
      BY <2>2, Zenon DEF ServeSubscribe
    <3> QED BY <2>0, <3>1
  <2>3. CASE ServeList \/ ServeInfo
    <3>1. PICK S : S \subseteq Up /\ messages' = messages \o Infos(S)
      <4>1. Up \subseteq Up /\ {Head(requests).d} \cap Up \subseteq Up
        OBVIOUS
      <4> QED BY <2>3, <4>1, Zenon DEF ServeList, ServeInfo
    <3>2. Infos(S) \in Seq(Messages)
      BY <3>1, InfosType
    <3>3. ~ Holds(Infos(S), A)
      BY <3>1, InfosFacts
    <3> HIDE DEF A
    <3>4. Holds(messages', A) => Holds(messages, A)
      BY <1>4, <3>1, <3>2, <3>3, Grows
    <3> QED BY <2>0, <3>4
  <2>4. CASE ServeDefault
    BY <1>1, <2>4, ServeDefaultChanges, ChangesStale
  <2> QED BY <2>1, <2>2, <2>3, <2>4
<1> QED BY <1>1, <1>2, <1>3, <1>5, StreamSame

LEMMA NewEntry ==
  ASSUME TypeOK, UpdateDevice \/ AddDevice
  PROVE  Updated(Head(messages)) # None
<1>1. Receive("info")
  BY Zenon DEF UpdateDevice, AddDevice
<1>2. Updated(Head(messages)) \in Entry
  BY <1>1, InfoReceived
<1> QED BY <1>2, NoneIsNoEntry

(* An answer about a device that has no stale ones carries its volume. *)
LEMMA InfoNotStale ==
  ASSUME TypeOK, messages # <<>>, NEW d \in Devs, NEW x \in Nat,
         Head(messages) = M("info", d, x), ~ Stale(d)
  PROVE  x = server[d]
<1> SUFFICES ASSUME x # server[d] PROVE FALSE
  OBVIOUS
<1>1. messages \in Seq(Messages)
  BY Zenon DEF TypeOK
<1>2. M("info", d, x) \in Msgs("info", d)
  BY MakeMessage, InMsgs, Fields
<1>3. M("info", d, x) # M("info", d, server[d])
  BY Fields
<1>4. \A S : Head(messages) \in S => Holds(messages, S)
  BY <1>1, Shrinks, Zenon
<1> QED BY <1>2, <1>3, <1>4 DEF Stale

(* The backend's callbacks that add no stream and forget none. *)
LEMMA CallbackStreams ==
  ASSUME TypeOK, \A e \in Devs : StreamOK(e),
         ServerInfoCallback \/ OnServerEvent \/ OnDeviceEvent \/ UpdateDevice
  PROVE  \A e \in Devs : StreamOK(e)'
<1>1. PICK t : Receive(t)
  BY Zenon DEF ServerInfoCallback, OnServerEvent, OnDeviceEvent, UpdateDevice
<1>2. UNCHANGED <<server, gone, touched, metaVol>>
  BY Zenon DEF ServerInfoCallback, OnServerEvent, OnDeviceEvent, UpdateDevice, pulse, backend
<1>3. \A e : Kept(e)
  <2>1. CASE UpdateDevice
    <3>1. UNCHANGED requests
      BY <2>1, Zenon DEF UpdateDevice
    <3> QED BY <3>1, SameKeeps
  <2>2. CASE ServerInfoCallback \/ OnServerEvent \/ OnDeviceEvent
    <3>1. PICK r \in Requests : r.t # "setVolume" /\ requests' = Append(requests, r)
      <4>1. CASE ServerInfoCallback
        <5>1. requests' = Append(requests, M("list", None, None))
          BY <4>1, Zenon DEF ServerInfoCallback
        <5> QED BY <5>1, MakeRequest, Fields
      <4>2. CASE OnServerEvent
        <5>1. requests' = Append(requests, M("serverInfo", None, None))
          BY <4>2, Zenon DEF OnServerEvent
        <5> QED BY <5>1, MakeRequest, Fields
      <4>3. CASE OnDeviceEvent
        <5>1. Receive("event") /\ requests' = Append(requests, M("info", Head(messages).d, None))
          BY <4>3, Zenon DEF OnDeviceEvent
        <5>2. Head(messages).d \in Devs
          BY <5>1, ReceiveFacts, ReadMessage
        <5> QED BY <5>1, <5>2, MakeRequest, Fields
      <4> QED BY <2>2, <4>1, <4>2, <4>3
    <3> QED BY <3>1, AskKeeps
  <2> QED BY <2>1, <2>2
<1>4. \A e \in Devs : e \in Known' <=> e \in Known
  <2>1. CASE UpdateDevice
    <3>1. /\ Head(messages).d \in Known
          /\ dev' = [dev EXCEPT ![Head(messages).d] = Updated(Head(messages))]
      BY <2>1, Zenon DEF UpdateDevice
    <3>2. Updated(Head(messages)) # None
      BY <2>1, NewEntry
    <3> QED BY <3>1, <3>2 DEF Known, TypeOK
  <2>2. CASE ServerInfoCallback \/ OnServerEvent \/ OnDeviceEvent
    BY <2>2, Zenon DEF ServerInfoCallback, OnServerEvent, OnDeviceEvent, backend, Known
  <2> QED BY <2>1, <2>2
<1>5. \A e \in Devs : Stale(e)' => Stale(e)
  BY <1>1, <1>2, ReceiveStale
<1> QED BY <1>2, <1>3, <1>4, <1>5, StreamSame

LEMMA DeleteStreams ==
  ASSUME TypeOK, NoReturn, \A e \in Devs : StreamOK(e), DeleteDevice
  PROVE  \A e \in Devs : StreamOK(e)'
<1>1. /\ Receive("remove") /\ Head(messages).d \in Devs
      /\ \A e \in Devs : e # Head(messages).d => dev'[e] = dev[e]
      /\ UNCHANGED <<requests, metaVol, server, gone, touched>>
  BY DeleteEffect, Zenon
<1>2. PICK d \in Devs : d = Head(messages).d
  BY <1>1
<1>3. Sent("remove", d)
  BY <1>1, <1>2, ReceiveFacts
<1>4. d \notin Up /\ Up' = Up
  BY <1>1, <1>3 DEF NoReturn, Up
<1>5. \A e : Kept(e)
  BY <1>1, SameKeeps
<1>6. ASSUME NEW e \in Devs, e # d PROVE StreamOK(e)'
  <2>1. e \in Known' <=> e \in Known
    BY <1>1, <1>2, <1>6 DEF Known
  <2> QED BY <1>1, <1>5, <2>1, ReceiveStale, StreamSame
<1>7. StreamOK(d)'
  BY <1>1, <1>4, <1>5 DEF StreamOK, Kept
<1> QED BY <1>6, <1>7

(* The group of a stream has a volume. *)
LEMMA KnownHasVolume ==
  ASSUME TypeOK, NEW d \in (Inputs \cap Up \cap Known) \ touched, StreamOK(d)
  PROVE  metaVol[VmOf[d]] # None
  BY DEF StreamOK, StreamSet

(* A new stream takes the volume of its group, or gives it its own. *)
LEMMA AddStreams ==
  ASSUME TypeOK, NoReturn, RemovalComes, \A e \in Devs : StreamOK(e), AddDevice
  PROVE  \A e \in Devs : StreamOK(e)'
<1>1. /\ Receive("info") /\ dev' = [dev EXCEPT ![Head(messages).d] = Updated(Head(messages))]
      /\ UNCHANGED <<server, gone, touched>>
  BY InfoEffect, Zenon
<1>2. Head(messages) \in Messages /\ Head(messages).t = "info" /\ messages # <<>>
      /\ Sent("info", Head(messages).d)
  BY <1>1, ReceiveFacts
<1>3. PICK d \in Devs, x \in Nat : /\ d = Head(messages).d /\ x = Head(messages).x
                                       /\ Head(messages) = M("info", d, x)
  BY <1>2, ReadMessage, ServerFields
<1>4. /\ d \notin Known /\ d \in Known'
      /\ \A e \in Devs \ {d} : e \in Known' <=> e \in Known
  <2>1. Updated(Head(messages)) # None /\ d \notin Known
    BY <1>3, NewEntry, Zenon DEF AddDevice
  <2> QED BY <1>1, <1>3, <2>1 DEF Known, TypeOK
<1>5. d \in Up \cup gone
  BY <1>2, <1>3, KnownThere
<1> DEFINE p == PercentOf(x)
<1>6. d \in Inputs => JoinGroup(d, p)
  <2>1. Updated(Head(messages)).v = p
    BY <1>3 DEF Updated
  <2> QED BY <1>3, <2>1, Zenon DEF AddDevice
<1>7. d \notin Inputs => UNCHANGED <<requests, metaVol>>
  BY <1>3, Zenon DEF AddDevice
<1>11. p \in Percents /\ p # None
  BY Conversions, VolumeTypes, Zenon
<1> DEFINE v == metaVol[VmOf[d]]
<1>8. CASE d \notin Inputs
  <2>1. \A e : Kept(e)
    BY <1>7, <1>8, SameKeeps
  <2>2. ASSUME NEW e \in Devs, e # d PROVE StreamOK(e)'
    BY <1>1, <1>4, <1>7, <1>8, <2>1, <2>2, ReceiveStale, StreamSame
  <2>3. StreamOK(d)'
    BY <1>1, <1>5, <1>8 DEF StreamOK, Up, Inputs
  <2> QED BY <2>2, <2>3
<1>9. CASE d \in Inputs /\ v = None
  <2>1. UNCHANGED requests /\ metaVol' = [metaVol EXCEPT ![VmOf[d]] = p]
    BY <1>6, <1>9, Zenon DEF JoinGroup, AddToMeta
  <2>2. \A e : Kept(e)
    BY <2>1, SameKeeps
  <2>3. ASSUME NEW e \in Devs, e # d PROVE StreamOK(e)'
    <3>1. e \in (Inputs \cap Up \cap Known) \ touched => metaVol'[VmOf[e]] = metaVol[VmOf[e]]
      BY <1>9, <2>1, KnownHasVolume, ConstantsAssumption DEF TypeOK
    <3> QED BY <1>1, <1>4, <2>2, <2>3, <3>1, ReceiveStale, StreamSame
  <2>4. StreamOK(d)'
    <3>1. metaVol'[VmOf[d]] = p
      BY <2>1, ConstantsAssumption DEF TypeOK
    <3>2. ASSUME d \in (Inputs \cap Up) \ touched PROVE StreamSet(d)'
      <4>1. ~ Asked("setVolume", d) /\ ~ Stale(d)
        BY <1>4, <3>2 DEF StreamOK
      <4>2. x = server[d]
        BY <1>2, <1>3, <4>1, InfoNotStale
      <4>3. ~ Asked("setVolume", d)'
        BY <2>2, <4>1 DEF Kept
      <4> QED BY <1>1, <1>11, <3>1, <4>2, <4>3 DEF StreamSet
    <3> QED BY <1>1, <1>4, <1>5, <3>2 DEF StreamOK, Up
  <2> QED BY <2>3, <2>4
<1>10. CASE d \in Inputs /\ v # None
  <2>1. requests' = Append(requests, SetVolume(d, v)) /\ UNCHANGED metaVol
    BY <1>6, <1>10, Zenon DEF JoinGroup, AddToMeta
  <2>2. v \in Percents
    BY <1>10, ConstantsAssumption DEF TypeOK
  <2>3. SetVolume(d, v) \in Requests /\ SetVolume(d, v).d = d /\ requests \in Seq(Requests)
    BY <2>2, MakeRequest, SetFields, Zenon DEF TypeOK
  <2> HIDE DEF v
  <2>4. \A e : e # d => Kept(e)
    BY <2>1, <2>3, AskKeeps
  <2>5. ASSUME NEW e \in Devs, e # d PROVE StreamOK(e)'
    BY <1>1, <1>4, <2>1, <2>4, <2>5, ReceiveStale, StreamSame
  <2>6. LastIs(requests', Reqs("setVolume", d), SetVolume(d, v))
    BY <2>1, <2>3, GrowsByOne
  <2>7. StreamSet(d)'
    BY <1>10, <2>1, <2>6 DEF StreamSet, v
  <2>8. StreamOK(d)'
    BY <1>1, <1>4, <1>5, <2>7 DEF StreamOK, Up
  <2> QED BY <2>5, <2>8
<1> QED BY <1>8, <1>9, <1>10

(* The calls of the clients. *)
LEMMA SetDeviceStreams ==
  ASSUME TypeOK, NoReturn, RemovalComes, \A e \in Devs : StreamOK(e),
         NEW d \in Devs, NEW v \in Levels, SetDeviceVolume(d, v)
  PROVE  \A e \in Devs : StreamOK(e)'
<1> DEFINE m == SetVolume(d, v)
           r == <<m>>
<1>1. /\ Request(r) /\ d \in Known /\ touched' = touched \cup {d}
      /\ UNCHANGED <<messages, dev, metaVol, server, gone>>
  BY Zenon DEF SetDeviceVolume, backend, pulse
<1>2. m \in Requests
  <2>1. v \in Percents
    BY VolumeTypes
  <2> QED BY <2>1, MakeRequest, Zenon
<1>3. \A e : m \in Reqs("setVolume", e) => e = d
  BY <1>2, InReqs, SetFields
<1> HIDE DEF m
<1>4. r \in Seq(Requests) /\ \A S : Holds(r, S) <=> m \in S
  BY <1>2, OneElement, HoldsOne
<1> HIDE DEF r
<1>5. \A e : e # d => Kept(e)
  BY <1>1, <1>3, <1>4, RequestKeeps
<1>6. Known' = Known /\ Up' = Up /\ \A e : Stale(e)' <=> Stale(e)
  BY <1>1, Zenon DEF Known, Up, Stale
<1>7. ASSUME NEW e \in Devs, e # d PROVE StreamOK(e)'
  BY <1>1, <1>5, <1>6, <1>7, StreamSame
<1>8. StreamOK(d)'
  <2>1. d \in Up \cup gone
    BY <1>1, KnownThere
  <2> QED BY <1>1, <1>6, <2>1 DEF StreamOK
<1> QED BY <1>7, <1>8

(* A VM's volume is asked for each of its streams; the others keep theirs. *)
LEMMA SetMetaStreams ==
  ASSUME TypeOK, NoReturn, RemovalComes, GroupsHoldStreams, \A e \in Devs : StreamOK(e),
         context = "ready", NEW m \in Vms, NEW v \in Levels, SetMetaVolume(m, v)
  PROVE  \A e \in Devs : StreamOK(e)'
<1> DEFINE S == metaDevs[m]
           r == VolumeFor(S, v)
<1>1. /\ Request(r) /\ requests' = requests \o r /\ metaVol' = [metaVol EXCEPT ![m] = v]
      /\ UNCHANGED <<messages, dev, touched, server, gone>>
  BY Zenon DEF SetMetaVolume, Request, pulse
<1>2. S = {d \in Inputs \cap Known : VmOf[d] = m} /\ S \subseteq Devs
  BY Zenon DEF GroupsHoldStreams, Inputs
<1>3. metaVol'[m] = v /\ \A n \in Vms \ {m} : metaVol'[n] = metaVol[n]
  BY <1>1 DEF TypeOK
<1>0. v \in Percents /\ v # None
  BY VolumeTypes
<1> HIDE DEF S
<1>4. r \in Seq(Requests) /\ requests \in Seq(Requests)
  BY <1>0, <1>2, VolumeForType, Zenon DEF TypeOK
<1>5. /\ \A t, e : Holds(r, Reqs(t, e)) <=> t = "setVolume" /\ e \in S
      /\ \A e \in S : LastIs(r, Reqs("setVolume", e), SetVolume(e, v))
  BY <1>0, <1>2, VolumeForFacts, Zenon
<1> HIDE DEF r
<1>6. Known' = Known /\ Up' = Up /\ \A e : Stale(e)' <=> Stale(e)
  BY <1>1, Zenon DEF Known, Up, Stale
<1>7. ASSUME NEW e \in Devs, e \in S PROVE StreamOK(e)'
  <2>1. e \in Known /\ VmOf[e] = m
    BY <1>2, <1>7
  <2>2. e \in Up \cup gone
    BY <2>1, KnownThere
  <2>3. LastIs(requests', Reqs("setVolume", e), SetVolume(e, v))
    BY <1>1, <1>4, <1>5, <1>7, Grows
  <2>4. StreamSet(e)'
    BY <1>0, <1>3, <2>1, <2>3 DEF StreamSet
  <2> QED BY <1>1, <1>6, <2>1, <2>2, <2>4 DEF StreamOK
<1>8. ASSUME NEW e \in Devs, e \notin S PROVE StreamOK(e)'
  <2>1. Kept(e)
    BY <1>1, <1>4, <1>5, <1>8, RequestKeeps
  <2>2. e \in (Inputs \cap Up \cap Known) \ touched => metaVol'[VmOf[e]] = metaVol[VmOf[e]]
    BY <1>2, <1>3, <1>8, ConstantsAssumption
  <2> QED BY <1>1, <1>6, <2>1, <2>2, StreamSame
<1> QED BY <1>7, <1>8

LEMMA OtherCallStreams ==
  ASSUME TypeOK, \A e \in Devs : StreamOK(e),
         \/ \E d \in Devs : MakeDeviceDefault(d)
         \/ \E c \in Clients : Subscribe(c) \/ Unsubscribe(c)
         \/ UNCHANGED vars
  PROVE  \A e \in Devs : StreamOK(e)'
<1>1. UNCHANGED <<messages, dev, metaVol, touched, server, gone>>
  BY Zenon DEF MakeDeviceDefault, Subscribe, Unsubscribe, vars, backend, pulse
<1>2. \A e : Kept(e)
  <2>1. CASE UNCHANGED requests
    BY <2>1, SameKeeps
  <2>2. CASE \E d \in Devs : MakeDeviceDefault(d)
    <3>1. PICK d \in Defaultable : UNCHANGED requests \/ Request(<<M("setDefault", d, None)>>)
      BY <2>2, Zenon DEF MakeDeviceDefault, SetDefault
    <3> DEFINE m == M("setDefault", d, None)
               r == <<m>>
    <3>2. m \in Requests
      BY MakeRequest
    <3>3. \A e : m \notin Reqs("setVolume", e)
      BY <3>2, InReqs, Fields
    <3>4. UNCHANGED requests \/ Request(r)
      BY <3>1
    <3> HIDE DEF m
    <3>5. r \in Seq(Requests) /\ \A S : Holds(r, S) <=> m \in S
      BY <3>2, OneElement, HoldsOne
    <3> HIDE DEF r
    <3> QED BY <2>1, <3>3, <3>4, <3>5, RequestKeeps
  <2>3. CASE (\E c \in Clients : Subscribe(c) \/ Unsubscribe(c)) \/ UNCHANGED vars
    <3>1. UNCHANGED requests
      BY <2>3, Zenon DEF Subscribe, Unsubscribe, vars
    <3> QED BY <2>1, <3>1
  <2> QED BY <2>2, <2>3
<1>3. Known' = Known /\ \A e : Stale(e)' <=> Stale(e)
  BY <1>1, Zenon DEF Known, Stale
<1> QED BY <1>1, <1>2, <1>3, StreamSame

(* Nothing has been asked for when the connection comes up. *)
LEMMA ReadyStreams ==
  ASSUME TypeOK, Starting, ContextReady
  PROVE  \A e \in Devs : StreamOK(e)'
<1>1. /\ context = "new" /\ UNCHANGED <<messages, dev>>
      /\ requests' = <<M("serverInfo", None, None), M("subscribe", None, None)>>
  BY Zenon DEF ContextReady, backend
<1>2. messages' = <<>> /\ Known' = {}
  BY <1>1 DEF Starting, Known
<1>3. \A e : /\ M("serverInfo", None, None) \notin Reqs("setVolume", e)
             /\ M("subscribe", None, None) \notin Reqs("setVolume", e)
  BY MakeRequest, InReqs, Fields
<1>4. \A e : ~ Asked("setVolume", e)'
  BY <1>1, <1>3 DEF Asked, Holds
<1>5. \A e : ~ Stale(e)'
  BY <1>2, HoldsNone DEF Stale
<1> QED BY <1>2, <1>4, <1>5 DEF StreamOK

LEMMA StreamStep == TypeOK /\ DevInv /\ GroupsHoldStreams /\ StreamInv /\ [Next]_vars => StreamInv'
<1> SUFFICES ASSUME TypeOK, DevInv, GroupsHoldStreams, StreamInv, [Next]_vars, context' = "ready"
             PROVE  \A e \in Devs : StreamOK(e)'
  BY DEF StreamInv
<1>1. Starting /\ NoReturn
  BY DEF DevInv
<1>2. CASE ContextReady
  BY <1>1, <1>2, ReadyStreams
<1>3. CASE context = "ready"
  <2>1. RemovalComes /\ \A e \in Devs : StreamOK(e)
    BY <1>3 DEF DevInv, UnderWay, StreamInv
  <2>2. CASE \E d \in Devs : Unplug(d) \/ \E v \in Volumes : Plug(d, v) \/ OtherSetsVolume(d, v)
    BY <1>1, <2>1, <2>2, PlugStreams, UnplugStreams, OtherSetsStreams, Zenon
  <2>3. CASE ServeServerInfo \/ ServeSubscribe \/ ServeList \/ ServeInfo \/ ServeDefault
    BY <1>1, <2>1, <2>3, ServeStreams, Zenon
  <2>4. CASE ServeVolume
    BY <1>1, <2>1, <2>4, ServeVolumeStreams, Zenon
  <2>5. CASE ServerInfoCallback \/ OnServerEvent \/ OnDeviceEvent \/ UpdateDevice
    BY <2>1, <2>5, CallbackStreams, Zenon
  <2>6. CASE AddDevice \/ DeleteDevice
    BY <1>1, <2>1, <2>6, AddStreams, DeleteStreams, Zenon
  <2>7. CASE \E d \in Devs : \E v \in Levels : SetDeviceVolume(d, v)
    BY <1>1, <2>1, <2>7, SetDeviceStreams, Zenon
  <2>8. CASE \E m \in Vms, v \in Levels : SetMetaVolume(m, v)
    BY <1>1, <1>3, <2>1, <2>8, SetMetaStreams, Zenon
  <2>9. CASE \/ \E d \in Devs : MakeDeviceDefault(d)
             \/ \E c \in Clients : Subscribe(c) \/ Unsubscribe(c)
             \/ UNCHANGED vars
    BY <2>1, <2>9, OtherCallStreams, Zenon
  <2>10. ~ ContextFails
    BY DEF ContextFails
  <2> QED BY <1>2, <2>2, <2>3, <2>4, <2>5, <2>6, <2>7, <2>8, <2>9, <2>10, Zenon
          DEF Next, PulseStep, BackendStep, ServiceStep
<1>4. CASE context # "ready" /\ ~ ContextReady
  <2>1. context' = context \/ ContextFails
    BY <1>4, Zenon DEF Next, PulseStep, BackendStep, ServiceStep, vars, Serve, ServeServerInfo,
       ServeSubscribe, ServeList, ServeInfo, ServeVolume, ServeDefault, Unplug, Plug, OtherSetsVolume,
       ServerInfoCallback, OnServerEvent, OnDeviceEvent, UpdateDevice, AddDevice, DeleteDevice,
       MakeDeviceDefault, SetDeviceVolume, SetMetaVolume, Subscribe, Unsubscribe
  <2> QED BY <1>4, <2>1 DEF ContextFails
<1> QED BY <1>2, <1>3, <1>4

(* Every stream ends up at the volume of its application VM, in percents, one *)
(* too that appears while the volume is being changed, unless the stream's    *)
(* own volume was set.                                                        *)
THEOREM StreamsCorrect == Spec => []StreamsFollowVm
<1>1. Init => StreamInv
  BY DEF Init, StreamInv
<1>2. TypeOK /\ DevicesConverge /\ StreamInv => StreamsFollowVm
  <2> SUFFICES ASSUME DevicesConverge, StreamInv, Settled,
                      NEW d \in Inputs \cap Up, d \notin touched
               PROVE  PercentOf(server[d]) = metaVol[VmOf[d]]
    BY DEF StreamsFollowVm
  <2>1. context = "ready" /\ requests = <<>>
    BY DEF Settled
  <2>2. d \in Known /\ d \in Devs
    BY DEF DevicesConverge, Inputs
  <2>3. StreamSet(d)
    BY <2>1, <2>2 DEF StreamInv, StreamOK
  <2> QED BY <2>1, <2>3 DEF StreamSet, LastIs
<1> QED BY <1>1, <1>2, StreamStep, TypeCorrect, GroupsCorrect, DevInvariant, DevicesCorrect, PTL DEF Spec
=============================================================================
